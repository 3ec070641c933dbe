---------------------------- MODULE SmartMsgqueue ----------------------------
(***************************************************************************)
(* The message queue (core/smart_msgqueue.c): a ring buffer in which every *)
(* call is one critical section, shared by tasks and timer callbacks.  A   *)
(* receive from an empty queue returns SMART_MSGQ_EMPTY and changes        *)
(* nothing; the return codes of the other calls show in the state.         *)
(***************************************************************************)
EXTENDS Integers, Sequences

CONSTANTS
    Msg,            \* the messages
    NoMsg,          \* a slot cleared by memset
    Capacity,       \* slots of the ring
    Width           \* `dropped' is a counter modulo Width, 2^32 in the code

ASSUME CapacityAssumption == Capacity \in Nat \ {0}
ASSUME WidthAssumption == Width \in Nat \ {0}

VARIABLES
    buffer, count, head, tail,
    dropped,
    msg             \* the *msg of the last successful receive

vars == <<buffer, count, head, tail, dropped, msg>>

Slots == 0 .. Capacity - 1

Init ==
    /\ buffer = [i \in Slots |-> NoMsg]
    /\ count = 0 /\ head = 0 /\ tail = 0
    /\ dropped = 0
    /\ msg = NoMsg

(* smart_msgqueue_init on a queue in use: the shell's test does it each time. *)
InitQueue ==
    /\ buffer' = [i \in Slots |-> NoMsg]
    /\ count' = 0 /\ head' = 0 /\ tail' = 0
    /\ dropped' = 0
    /\ UNCHANGED msg

(* Mutants of Send: the test for a full ring is one off; a full ring gives *)
(* up its oldest message.                                                  *)
SendOneMore(m) ==
    /\ count <= Capacity
    /\ buffer' = [buffer EXCEPT ![tail] = m]
    /\ tail' = (tail + 1) % Capacity
    /\ count' = count + 1
    /\ UNCHANGED <<head, dropped, msg>>
SendOverwriting(m) ==
    /\ buffer' = [buffer EXCEPT ![tail] = m]
    /\ tail' = (tail + 1) % Capacity
    /\ IF count >= Capacity
       THEN /\ head' = (head + 1) % Capacity
            /\ dropped' = (dropped + 1) % Width
            /\ UNCHANGED count
       ELSE count' = count + 1 /\ UNCHANGED <<head, dropped>>
    /\ UNCHANGED msg

Send(m) ==
    IF count >= Capacity
    THEN /\ dropped' = (dropped + 1) % Width
         /\ UNCHANGED <<buffer, count, head, tail, msg>>
    ELSE /\ buffer' = [buffer EXCEPT ![tail] = m]
         /\ tail' = (tail + 1) % Capacity
         /\ count' = count + 1
         /\ UNCHANGED <<head, dropped, msg>>

Receive ==
    /\ count # 0
    /\ msg' = buffer[head]
    /\ head' = (head + 1) % Capacity
    /\ count' = count - 1
    /\ UNCHANGED <<buffer, tail, dropped>>

Next == InitQueue \/ (\E m \in Msg : Send(m)) \/ Receive

Spec == Init /\ [][Next]_vars

-----------------------------------------------------------------------------
(* The slot of the i-th oldest message. *)
Slot(i) == (head + (i - 1)) % Capacity

(* The messages in the ring, oldest first. *)
Contents == [i \in 1 .. count |-> buffer[Slot(i)]]

TypeOK ==
    /\ buffer \in [Slots -> Msg \cup {NoMsg}]
    /\ count \in 0 .. Capacity
    /\ head \in Slots
    /\ tail \in Slots
    /\ dropped \in 0 .. Width - 1
    /\ msg \in Msg \cup {NoMsg}

(***************************************************************************)
(* The three indices of the ring agree after any mix of sends, receives,   *)
(* overruns and re-initialisations, across the wrap of head and tail, and  *)
(* no slot a receive will read is one that memset cleared.                 *)
(***************************************************************************)
RingConsistent ==
    /\ tail = (head + count) % Capacity
    /\ \A i \in 1 .. count : buffer[Slot(i)] \in Msg

(***************************************************************************)
(* The queue implements a bounded FIFO: smart_msgqueue_receive returns the *)
(* messages of the successful sends in their order, each once, and only a  *)
(* full queue drops, counting each drop.                                   *)
(***************************************************************************)
Fifo == INSTANCE BoundedFifo
            WITH Item <- Msg, fifo <- Contents, refused <- dropped, out <- msg

FifoSpec == Fifo!Spec
=============================================================================
