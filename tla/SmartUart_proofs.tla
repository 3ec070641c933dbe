--------------------------- MODULE SmartUart_proofs ---------------------------
(***************************************************************************)
(* The receive path of SmartUart loses no character without counting it    *)
(* and implements BoundedFifo, for every size of the two buffers.          *)
(*                                                                         *)
(* Its ring is the one of the message queue: rx_head is where the queue    *)
(* keeps tail, rx_tail where it keeps head.  What SmartMsgqueue_proofs     *)
(* proves of a send and a receive is used here for a stored and a read     *)
(* character; only a flush, which leaves the old characters in the buffer, *)
(* is no call of the queue.                                                *)
(***************************************************************************)
EXTENDS SmartUart, TLAPS

Queue == INSTANCE SmartMsgqueue_proofs
            WITH Msg <- Char, NoMsg <- NoChar, Capacity <- RxBufferSize,
                 buffer <- rx_buffer, count <- rx_count, head <- rx_tail,
                 tail <- rx_head, dropped <- rx_overflow_count, msg <- ch

(* The types, and the agreement of the indices with the occupied slots. *)
RingInv == TypeOK /\ Queue!RingConsistent

(* The steps that leave the ring, its counter and the readers alone. *)
Quiet == UNCHANGED <<ring, stats, ch, taken>>

(* A remainder is the only one. *)
LEMMA ModUnique ==
    ASSUME NEW N \in Nat \ {0}, NEW q \in Nat, NEW r \in 0 .. N - 1
    PROVE  (N * q + r) % N = r
OBVIOUS

(* A number is its quotient times N and its remainder. *)
LEMMA Quotient ==
    ASSUME NEW N \in Nat \ {0}, NEW a \in Nat
    PROVE  /\ a \div N \in Nat
           /\ a % N \in 0 .. N - 1
           /\ a = N * (a \div N) + (a % N)
<1>1. a \div N \in Nat
  OBVIOUS
<1>2. a % N \in 0 .. N - 1
  OBVIOUS
<1>3. a = N * (a \div N) + (a % N)
  OBVIOUS
<1> QED BY <1>1, <1>2, <1>3

(* Multiplication distributes over a sum. *)
LEMMA Distributes ==
    ASSUME NEW N \in Nat, NEW p \in Nat, NEW q \in Nat
    PROVE  N * (p + q) = N * p + N * q
OBVIOUS

(* Adding may be done before or after taking the remainder. *)
LEMMA ModPlus ==
    ASSUME NEW N \in Nat \ {0}, NEW a \in Nat, NEW b \in Nat
    PROVE  ((a % N) + b) % N = (a + b) % N
<1> DEFINE c == (a % N) + b
           p == a \div N
           q == c \div N
           r == c % N
<1>1. p \in Nat /\ a % N \in 0 .. N - 1 /\ a = N * p + (a % N)
  BY Quotient
<1>2. c \in Nat
  BY <1>1
<1>3. q \in Nat /\ r \in 0 .. N - 1 /\ c = N * q + r
  BY <1>2, Quotient
<1>4. N * (p + q) = N * p + N * q /\ N * p \in Nat /\ N * q \in Nat
  BY <1>1, <1>3, Distributes
<1>5. a + b = N * p + c
  BY <1>1, <1>4
<1>6. a + b = N * (p + q) + r
  <2> HIDE DEF p, q, r, c
  <2> QED BY <1>3, <1>4, <1>5
<1>7. (N * (p + q) + r) % N = r
  <2>1. p + q \in Nat
    BY <1>1, <1>3
  <2> HIDE DEF p, q, r
  <2> QED BY <2>1, <1>3, ModUnique
<1> QED BY <1>6, <1>7

(* The counters stay below Width. *)
LEMMA IncRange == \A n \in 0 .. Width - 1 : Inc(n) \in 0 .. Width - 1
BY WidthAssumption DEF Inc

(* The queue's invariant, contents and types are those of the ring. *)
LEMMA SameRing ==
    /\ RingInv => Queue!RingInv
    /\ Contents = Queue!Contents /\ Contents' = Queue!Contents'
    /\ Queue!RingInv' => Queue!RingConsistent'
<1>1. RingInv => Queue!RingInv
  BY DEF RingInv, TypeOK, Slots, Queue!RingInv, Queue!TypeOK, Queue!Slots
<1>2. Contents = Queue!Contents /\ Contents' = Queue!Contents'
  BY DEF Contents, Slot, Queue!Contents, Queue!Slot
<1>3. Queue!RingInv' => Queue!RingConsistent'
  BY DEF Queue!RingInv
<1> QED BY <1>1, <1>2, <1>3

LEMMA InitCase == Init => RingInv /\ Fifo!Init
<1> SUFFICES ASSUME Init PROVE RingInv /\ Fifo!Init
  OBVIOUS
<1>1. TypeOK
  <2>1. /\ hw_fifo \in Seq(Char) /\ Len(hw_fifo) = 0
        /\ irq \in BOOLEAN /\ handler \in BOOLEAN
    <3>1. hw_fifo = <<>> /\ irq = FALSE /\ handler = FALSE
      BY DEF Init
    <3>2. hw_fifo \in Seq(Char) /\ Len(hw_fifo) = 0
      BY <3>1
    <3>3. irq \in BOOLEAN /\ handler \in BOOLEAN
      BY <3>1
    <3> QED BY <3>2, <3>3
  <2>2. /\ 0 <= HwDepth /\ 0 \in Slots /\ 0 \in 0 .. RxBufferSize /\ 0 \in 0 .. Width - 1
    BY SizeAssumption, WidthAssumption DEF Slots
  <2> QED BY <2>1, <2>2 DEF Init, TypeOK
<1>2. Queue!Init
  BY DEF Init, Slots, Queue!Init, Queue!Slots
<1>3. Queue!RingInv
  BY <1>2, Queue!InitCase, SizeAssumption, WidthAssumption
<1>4. Contents = <<>>
  BY DEF Init, Contents
<1> QED BY <1>1, <1>3, <1>4 DEF RingInv, Queue!RingInv, Fifo!Init, Init

(* A step that leaves the ring alone is a stutter of the FIFO. *)
LEMMA QuietCase ==
    ASSUME RingInv, TypeOK', Quiet
    PROVE  RingInv' /\ UNCHANGED Fifo!fifoVars
<1>1. /\ rx_head' = rx_head /\ rx_tail' = rx_tail /\ rx_count' = rx_count
      /\ rx_buffer' = rx_buffer /\ rx_overflow_count' = rx_overflow_count /\ ch' = ch
  BY DEF Quiet, ring, stats
<1>2. Contents' = Contents
  BY <1>1 DEF Contents, Slot
<1>3. Queue!RingConsistent'
  BY <1>1 DEF RingInv, Queue!RingConsistent, Queue!Slot
<1> QED BY <1>1, <1>2, <1>3 DEF RingInv, Fifo!fifoVars

(* The handler stores a character, or counts it: smart_msgqueue_send. *)
LEMMA ReceiveCase ==
    ASSUME RingInv, TypeOK', ReceiveChar
    PROVE  RingInv' /\ \E c \in Char : Fifo!Put(c)
<1> DEFINE c == Head(hw_fifo)
<1>1. c \in Char /\ StoreChar(c) /\ ch' = ch
  BY DEF ReceiveChar, RingInv, TypeOK
<1> HIDE DEF c
<1>2. Queue!Send(c)
  <2>1. rx_count \in 0 .. RxBufferSize
    BY DEF RingInv, TypeOK
  <2>2. rx_count < RxBufferSize <=> ~(rx_count >= RxBufferSize)
    BY <2>1, SizeAssumption
  <2> QED BY <1>1, <2>2 DEF StoreChar, Push, Inc, ring, Queue!Send
<1>3. Queue!RingInv' /\ Queue!Fifo!Put(c)
  BY <1>1, <1>2, SameRing, Queue!SendCase, SizeAssumption, WidthAssumption
<1>4. Fifo!Put(c)
  BY <1>3, SameRing DEF Fifo!Put, Queue!Fifo!Put
<1> QED BY <1>1, <1>3, <1>4, SameRing DEF RingInv

(* The oldest character is read: smart_msgqueue_receive. *)
LEMMA GetcCase == ASSUME RingInv, TypeOK', GetcNonblock PROVE RingInv' /\ Fifo!Get
<1>1. Queue!Receive
  BY DEF GetcNonblock, stats, Queue!Receive
<1>2. Queue!RingInv' /\ Queue!Fifo!Get
  BY <1>1, SameRing, Queue!ReceiveCase, SizeAssumption, WidthAssumption
<1>3. Fifo!Get
  BY <1>2, SameRing DEF Fifo!Get, Queue!Fifo!Get
<1> QED BY <1>2, <1>3, SameRing DEF RingInv

(* A flush empties the FIFO and keeps the counter. *)
LEMMA FlushCase == ASSUME RingInv, TypeOK', RxFlush PROVE RingInv' /\ Fifo!Clear
<1>1. rx_head' = (rx_tail' + rx_count') % RxBufferSize
  BY SizeAssumption DEF RxFlush
<1>2. Contents' = <<>> /\ \A i \in 1 .. rx_count' : FALSE
  BY DEF RxFlush, Contents
<1> QED BY <1>1, <1>2 DEF RingInv, Queue!RingConsistent, Fifo!Clear, RxFlush, stats

-----------------------------------------------------------------------------
(* Every action keeps the types. *)
LEMMA TypeStep == RingInv /\ [Next]_vars => TypeOK'
<1> SUFFICES ASSUME RingInv, [Next]_vars PROVE TypeOK'
  OBVIOUS
<1> USE SizeAssumption, WidthAssumption DEF RingInv
<1>1. ASSUME NEW c \in Char, Arrive(c) PROVE TypeOK'
  <2>1. hw_fifo' \in Seq(Char) /\ Len(hw_fifo') <= HwDepth
    BY <1>1 DEF Arrive, TypeOK
  <2> QED BY <1>1, <2>1 DEF Arrive, TypeOK, ring, stats
<1>2. CASE RaiseInterrupt
  BY <1>2 DEF RaiseInterrupt, TypeOK, ring, stats
<1>3. CASE EnterHandler
  BY <1>3 DEF EnterHandler, TypeOK, ring, stats
<1>4. CASE ReceiveChar
  <2>1. /\ Head(hw_fifo) \in Char
        /\ hw_fifo' \in Seq(Char) /\ Len(hw_fifo') <= HwDepth
    BY <1>4 DEF ReceiveChar, TypeOK
  <2>2. rx_char_count' \in 0 .. Width - 1
    BY <1>4, IncRange DEF ReceiveChar, TypeOK
  <2>3. /\ rx_buffer' \in [Slots -> Char \cup {NoChar}]
        /\ rx_head' \in Slots /\ rx_tail' \in Slots /\ rx_count' \in 0 .. RxBufferSize
        /\ rx_overflow_count' \in 0 .. Width - 1
    <3>1. StoreChar(Head(hw_fifo))
      BY <1>4 DEF ReceiveChar
    <3>2. CASE rx_count < RxBufferSize
      <4>1. (rx_head + 1) % RxBufferSize \in Slots
        BY DEF TypeOK, Slots
      <4>2. rx_count + 1 \in 0 .. RxBufferSize
        BY <3>2 DEF TypeOK
      <4> QED BY <2>1, <3>1, <3>2, <4>1, <4>2 DEF StoreChar, Push, TypeOK
    <3>3. CASE ~(rx_count < RxBufferSize)
      BY <3>1, <3>3, IncRange DEF StoreChar, TypeOK, ring
    <3> QED BY <3>2, <3>3
  <2> QED BY <1>4, <2>1, <2>2, <2>3 DEF ReceiveChar, TypeOK
<1>5. CASE LeaveHandler
  BY <1>5 DEF LeaveHandler, TypeOK, ring, stats
<1>6. CASE GetcNonblock
  <2>1. rx_count' \in 0 .. RxBufferSize /\ rx_tail' \in Slots
    <3>1. (rx_tail + 1) % RxBufferSize \in Slots
      BY DEF TypeOK, Slots
    <3> QED BY <1>6, <3>1 DEF GetcNonblock, TypeOK
  <2>2. taken' \in 0 .. Width - 1
    BY <1>6, IncRange DEF GetcNonblock, TypeOK
  <2>3. ch' \in Char \cup {NoChar}
    BY <1>6 DEF GetcNonblock, TypeOK
  <2> QED BY <1>6, <2>1, <2>2, <2>3 DEF GetcNonblock, TypeOK, stats
<1>7. CASE RxFlush
  <2>1. taken' \in 0 .. Width - 1
    <3>1. taken + rx_count \in Nat
      BY DEF TypeOK
    <3> QED BY <1>7, <3>1 DEF RxFlush
  <2>2. 0 \in Slots /\ 0 \in 0 .. RxBufferSize
    BY DEF Slots
  <2> QED BY <1>7, <2>1, <2>2 DEF RxFlush, TypeOK, stats
<1>8. CASE UNCHANGED vars
  BY <1>8 DEF vars, TypeOK, ring, stats
<1> QED BY <1>1, <1>2, <1>3, <1>4, <1>5, <1>6, <1>7, <1>8 DEF Next

LEMMA RingStep ==
    RingInv /\ [Next]_vars => RingInv' /\ [Fifo!Next]_(Fifo!fifoVars)
<1> SUFFICES ASSUME RingInv, [Next]_vars PROVE RingInv' /\ [Fifo!Next]_(Fifo!fifoVars)
  OBVIOUS
<1>1. TypeOK'
  BY TypeStep
<1>2. ASSUME NEW c \in Char, Arrive(c) PROVE Quiet
  BY <1>2 DEF Arrive, Quiet
<1>3. CASE RaiseInterrupt
  BY <1>1, <1>3, QuietCase DEF RaiseInterrupt, Quiet
<1>4. CASE EnterHandler
  BY <1>1, <1>4, QuietCase DEF EnterHandler, Quiet
<1>5. CASE ReceiveChar
  BY <1>1, <1>5, ReceiveCase DEF Fifo!Next
<1>6. CASE LeaveHandler
  BY <1>1, <1>6, QuietCase DEF LeaveHandler, Quiet
<1>7. CASE GetcNonblock
  BY <1>1, <1>7, GetcCase DEF Fifo!Next
<1>8. CASE RxFlush
  BY <1>1, <1>8, FlushCase DEF Fifo!Next
<1>9. CASE UNCHANGED vars
  BY <1>1, <1>9, QuietCase DEF vars, Quiet
<1> QED BY <1>1, <1>2, <1>3, <1>4, <1>5, <1>6, <1>7, <1>8, <1>9, QuietCase DEF Next

-----------------------------------------------------------------------------
(* ModPlus for the counters. *)
LEMMA Modular ==
    \A a, b \in Nat : ((a % Width) + b) % Width = (a + b) % Width
BY ModPlus, WidthAssumption

(* The counters of the handler and of the readers add up, through their    *)
(* overflow.                                                               *)
LEMMA AccountStep ==
    ASSUME RingInv, CharsAccounted, [Next]_vars
    PROVE  CharsAccounted'
<1> USE WidthAssumption, SizeAssumption
<1> DEFINE total == taken + rx_count + rx_overflow_count
<1>1. /\ taken \in Nat /\ rx_count \in Nat /\ rx_overflow_count \in Nat /\ Width \in Nat \ {0}
      /\ rx_char_count = total % Width
  BY DEF RingInv, TypeOK, CharsAccounted
<1>2. CASE ReceiveChar
  <2>1. taken' = taken /\ rx_char_count' = (rx_char_count + 1) % Width
    BY <1>2 DEF ReceiveChar, Inc
  <2>2. rx_char_count' = (total + 1) % Width
    <3>1. total \in Nat
      BY <1>1
    <3> HIDE DEF total
    <3> QED BY <1>1, <2>1, <3>1, ModPlus
  <2>3. CASE rx_count < RxBufferSize
    <3>1. rx_count' = rx_count + 1 /\ rx_overflow_count' = rx_overflow_count
      BY <1>2, <2>3 DEF ReceiveChar, StoreChar
    <3>2. taken' + rx_count' + rx_overflow_count' = total + 1
      BY <1>1, <2>1, <3>1
    <3> QED BY <2>2, <3>2 DEF CharsAccounted
  <2>4. CASE ~(rx_count < RxBufferSize)
    <3>1. rx_count' = rx_count /\ rx_overflow_count' = (rx_overflow_count + 1) % Width
      BY <1>2, <2>4 DEF ReceiveChar, StoreChar, ring, Inc
    <3>2. (rx_overflow_count' + (taken + rx_count)) % Width =
              ((rx_overflow_count + 1) + (taken + rx_count)) % Width
      <4>1. rx_overflow_count + 1 \in Nat /\ taken + rx_count \in Nat
        BY <1>1
      <4> QED BY <1>1, <3>1, <4>1, Modular
    <3>3. /\ rx_overflow_count' + (taken + rx_count) = taken' + rx_count' + rx_overflow_count'
          /\ (rx_overflow_count + 1) + (taken + rx_count) = total + 1
      <4>1. rx_overflow_count' \in Nat
        BY <1>1, <3>1
      <4> QED BY <1>1, <2>1, <3>1, <4>1
    <3> QED BY <2>2, <3>2, <3>3 DEF CharsAccounted
  <2> QED BY <2>3, <2>4
<1>3. CASE GetcNonblock
  <2>1. /\ taken' = (taken + 1) % Width /\ rx_count' = rx_count - 1 /\ rx_count # 0
        /\ rx_overflow_count' = rx_overflow_count /\ rx_char_count' = rx_char_count
    BY <1>3 DEF GetcNonblock, stats, Inc
  <2>2. rx_count - 1 + rx_overflow_count \in Nat
    BY <1>1, <2>1
  <2>3. (taken' + (rx_count - 1 + rx_overflow_count)) % Width =
            ((taken + 1) + (rx_count - 1 + rx_overflow_count)) % Width
    <3>1. taken + 1 \in Nat
      BY <1>1
    <3> QED BY <2>1, <2>2, <3>1, Modular
  <2>4. /\ taken' + (rx_count - 1 + rx_overflow_count) = taken' + rx_count' + rx_overflow_count'
        /\ (taken + 1) + (rx_count - 1 + rx_overflow_count) = total
    <3>1. taken' \in Nat
      BY <1>1, <2>1
    <3> QED BY <1>1, <2>1, <3>1
  <2> QED BY <1>1, <2>1, <2>3, <2>4 DEF CharsAccounted
<1>4. CASE RxFlush
  <2>1. /\ taken' = (taken + rx_count) % Width /\ rx_count' = 0
        /\ rx_overflow_count' = rx_overflow_count /\ rx_char_count' = rx_char_count
    BY <1>4 DEF RxFlush, stats
  <2>2. (taken' + rx_overflow_count) % Width = ((taken + rx_count) + rx_overflow_count) % Width
    <3>1. taken + rx_count \in Nat
      BY <1>1
    <3> QED BY <1>1, <2>1, <3>1, Modular
  <2>3. taken' + rx_overflow_count = taken' + rx_count' + rx_overflow_count'
    <3>1. taken' \in Nat
      BY <1>1, <2>1
    <3> QED BY <1>1, <2>1, <3>1
  <2> QED BY <1>1, <2>1, <2>2, <2>3 DEF CharsAccounted
<1>5. ASSUME Quiet PROVE CharsAccounted'
  BY <1>5 DEF Quiet, ring, stats, CharsAccounted
<1>6. ASSUME \/ \E c \in Char : Arrive(c)
             \/ RaiseInterrupt \/ EnterHandler \/ LeaveHandler \/ UNCHANGED vars
      PROVE  Quiet
  BY <1>6 DEF Arrive, RaiseInterrupt, EnterHandler, LeaveHandler, vars, Quiet
<1> QED BY <1>2, <1>3, <1>4, <1>5, <1>6 DEF Next

-----------------------------------------------------------------------------
(***************************************************************************)
(* UART0_Handler and the readers keep head, tail and count of the ring in  *)
(* range and in agreement.                                                 *)
(***************************************************************************)
THEOREM TypeCorrect == Spec => [](TypeOK /\ Queue!RingConsistent)
<1>1. Init => RingInv
  BY InitCase
<1>2. RingInv /\ [Next]_vars => RingInv'
  BY RingStep
<1>3. RingInv => TypeOK /\ Queue!RingConsistent
  BY DEF RingInv
<1> QED BY <1>1, <1>2, <1>3, PTL DEF Spec

(***************************************************************************)
(* Every character taken from the hardware is in the ring, was read or     *)
(* flushed, or is counted in rx_overflow_count.                            *)
(***************************************************************************)
THEOREM AccountsCorrect == Spec => []CharsAccounted
<1>1. Init => RingInv /\ CharsAccounted
  <2>1. Init => CharsAccounted
    BY WidthAssumption DEF Init, CharsAccounted
  <2> QED BY <2>1, InitCase
<1>2. RingInv /\ CharsAccounted /\ [Next]_vars => RingInv' /\ CharsAccounted'
  BY RingStep, AccountStep
<1> QED BY <1>1, <1>2, PTL DEF Spec

(***************************************************************************)
(* The receive path is a bounded FIFO: every step of UART0_Handler,        *)
(* smart_uart_getc_nonblock and smart_uart_rx_flush is one of BoundedFifo  *)
(* or leaves it as it is.                                                  *)
(***************************************************************************)
THEOREM ReceivePathIsFifo == Spec => FifoSpec
<1>1. Init => RingInv /\ Fifo!Init
  BY InitCase
<1>2. RingInv /\ [Next]_vars => RingInv' /\ [Fifo!Next]_(Fifo!fifoVars)
  BY RingStep
<1> QED BY <1>1, <1>2, PTL DEF Spec, FifoSpec, Fifo!Spec
=============================================================================
