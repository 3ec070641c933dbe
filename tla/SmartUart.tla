------------------------------ MODULE SmartUart ------------------------------
(***************************************************************************)
(* The interrupt-driven receive path of the UART (drivers/smart_uart.c):   *)
(* characters arrive in the hardware FIFO, UART0_Handler moves them one by *)
(* one into the software ring, tasks read the ring without blocking.       *)
(*                                                                         *)
(* A task's call is one critical section and cannot run while the handler  *)
(* is active; the hardware can deliver characters at any time, also while  *)
(* the handler drains the FIFO.                                            *)
(***************************************************************************)
EXTENDS Integers, Sequences

CONSTANTS
    Char,           \* the characters
    NoChar,         \* a ring slot that was never written
    RxBufferSize,   \* RX_BUFFER_SIZE, 256 in the code
    HwDepth,        \* depth of the receive FIFO of the hardware
    Width           \* the counters count modulo Width, 2^32 in the code

ASSUME SizeAssumption == RxBufferSize \in Nat \ {0} /\ HwDepth \in Nat \ {0}
ASSUME WidthAssumption == Width \in Nat \ {0}

VARIABLES
    hw_fifo,                        \* UART0_DR, RXFE: the hardware FIFO
    irq,                            \* RXMIS or RTMIS is set
    handler,                        \* UART0_Handler is active
    rx_buffer, rx_head, rx_tail, rx_count,
    rx_char_count, rx_overflow_count,
    ch,                             \* the last character a task has read
    taken                           \* history: characters read or flushed

ring  == <<rx_buffer, rx_head, rx_tail, rx_count>>
stats == <<rx_char_count, rx_overflow_count>>
vars  == <<hw_fifo, irq, handler, ring, stats, ch, taken>>

Slots == 0 .. RxBufferSize - 1
Inc(n) == (n + 1) % Width

(* After smart_uart_init. *)
Init ==
    /\ hw_fifo = <<>> /\ irq = FALSE /\ handler = FALSE
    /\ rx_buffer = [i \in Slots |-> NoChar]
    /\ rx_head = 0 /\ rx_tail = 0 /\ rx_count = 0
    /\ rx_char_count = 0 /\ rx_overflow_count = 0
    /\ ch = NoChar /\ taken = 0

(* The line delivers a character; a full hardware FIFO loses it. *)
Arrive(c) ==
    /\ Len(hw_fifo) < HwDepth
    /\ hw_fifo' = Append(hw_fifo, c)
    /\ UNCHANGED <<irq, handler, ring, stats, ch, taken>>

(* The FIFO level or the receive timeout raises the interrupt. *)
RaiseInterrupt ==
    /\ hw_fifo # <<>>
    /\ irq' = TRUE
    /\ UNCHANGED <<hw_fifo, handler, ring, stats, ch, taken>>

(* UART0_Handler starts and acknowledges what it has read from UART0_MIS. *)
EnterHandler ==
    /\ irq /\ ~handler
    /\ irq' = FALSE
    /\ handler' = TRUE
    /\ UNCHANGED <<hw_fifo, ring, stats, ch, taken>>

(* c goes to the head of the ring. *)
Push(c) ==
    /\ rx_buffer' = [rx_buffer EXCEPT ![rx_head] = c]
    /\ rx_head' = (rx_head + 1) % RxBufferSize

(* Mutants of StoreChar: a full ring takes one more; it gives up its oldest *)
(* character; it drops without counting; it makes the handler wait.         *)
StoreOneMore(c) ==
    /\ rx_count <= RxBufferSize
    /\ Push(c)
    /\ rx_count' = rx_count + 1
    /\ UNCHANGED <<rx_tail, rx_overflow_count>>
StoreOverwriting(c) ==
    /\ Push(c)
    /\ IF rx_count < RxBufferSize
       THEN rx_count' = rx_count + 1 /\ UNCHANGED <<rx_tail, rx_overflow_count>>
       ELSE /\ rx_tail' = (rx_tail + 1) % RxBufferSize
            /\ rx_overflow_count' = Inc(rx_overflow_count)
            /\ UNCHANGED rx_count
StoreWaiting(c) ==
    /\ rx_count < RxBufferSize
    /\ Push(c)
    /\ rx_count' = rx_count + 1
    /\ UNCHANGED <<rx_tail, rx_overflow_count>>
StoreUncounted(c) ==
    StoreWaiting(c) \/ (rx_count = RxBufferSize /\ UNCHANGED <<ring, rx_overflow_count>>)

(* A character that finds the ring full is only counted. *)
StoreChar(c) ==
    IF rx_count < RxBufferSize
    THEN /\ Push(c)
         /\ rx_count' = rx_count + 1
         /\ UNCHANGED <<rx_tail, rx_overflow_count>>
    ELSE /\ rx_overflow_count' = Inc(rx_overflow_count)
         /\ UNCHANGED ring

(* One turn of the handler's loop: RXFE is clear. *)
ReceiveChar ==
    /\ handler /\ hw_fifo # <<>>
    /\ hw_fifo' = Tail(hw_fifo)
    /\ rx_char_count' = Inc(rx_char_count)
    /\ StoreChar(Head(hw_fifo))
    /\ UNCHANGED <<irq, handler, ch, taken>>

(* The handler returns when RXFE is set. *)
LeaveHandler ==
    /\ handler /\ hw_fifo = <<>>
    /\ handler' = FALSE
    /\ UNCHANGED <<hw_fifo, irq, ring, stats, ch, taken>>

(* smart_uart_getc_nonblock returning 1. *)
GetcNonblock ==
    /\ ~handler
    /\ rx_count # 0
    /\ ch' = rx_buffer[rx_tail]
    /\ rx_tail' = (rx_tail + 1) % RxBufferSize
    /\ rx_count' = rx_count - 1
    /\ taken' = Inc(taken)
    /\ UNCHANGED <<hw_fifo, irq, handler, rx_buffer, rx_head, stats>>

(* smart_uart_rx_flush. *)
RxFlush ==
    /\ ~handler
    /\ rx_head' = 0 /\ rx_tail' = 0 /\ rx_count' = 0
    /\ taken' = (taken + rx_count) % Width
    /\ UNCHANGED <<hw_fifo, irq, handler, rx_buffer, stats, ch>>

Next ==
    \/ \E c \in Char : Arrive(c)
    \/ RaiseInterrupt
    \/ EnterHandler
    \/ ReceiveChar
    \/ LeaveHandler
    \/ GetcNonblock
    \/ RxFlush

Spec == Init /\ [][Next]_vars

(* The receive timeout fires and the handler is dispatched and executes. *)
FairSpec == Spec /\ WF_vars(RaiseInterrupt) /\ WF_vars(EnterHandler) /\ WF_vars(ReceiveChar)

-----------------------------------------------------------------------------
Slot(i) == (rx_tail + (i - 1)) % RxBufferSize
Contents == [i \in 1 .. rx_count |-> rx_buffer[Slot(i)]]

TypeOK ==
    /\ hw_fifo \in Seq(Char) /\ Len(hw_fifo) <= HwDepth
    /\ irq \in BOOLEAN /\ handler \in BOOLEAN
    /\ rx_buffer \in [Slots -> Char \cup {NoChar}]
    /\ rx_head \in Slots /\ rx_tail \in Slots
    /\ rx_count \in 0 .. RxBufferSize
    /\ rx_char_count \in 0 .. Width - 1
    /\ rx_overflow_count \in 0 .. Width - 1
    /\ ch \in Char \cup {NoChar}
    /\ taken \in 0 .. Width - 1

(***************************************************************************)
(* Every character the handler took from the hardware is in the ring, has  *)
(* been read or flushed, or is counted as an overflow, whatever the        *)
(* interleaving of the interrupt with the readers.                         *)
(***************************************************************************)
CharsAccounted ==
    rx_char_count = (taken + rx_count + rx_overflow_count) % Width

(* No arrival is forgotten: a character in the hardware FIFO is taken out. *)
CharsReceived ==
    \A n \in 0 .. Width - 1 :
        (hw_fifo # <<>> /\ rx_char_count = n) ~> rx_char_count # n

(***************************************************************************)
(* The receive path is a bounded FIFO: tasks read the characters in the    *)
(* order of their arrival, and only a full ring refuses one.               *)
(***************************************************************************)
Fifo == INSTANCE BoundedFifo
            WITH Item <- Char, Capacity <- RxBufferSize, fifo <- Contents,
                 refused <- rx_overflow_count, out <- ch

FifoSpec == Fifo!Spec
=============================================================================
