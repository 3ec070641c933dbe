----------------------------- MODULE BoundedFifo -----------------------------
(***************************************************************************)
(* What the two ring buffers of Smart-OS promise, the message queue and    *)
(* the receive buffer of the UART: items come out in the order in which    *)
(* they went in, none is lost or duplicated while there is room, and what  *)
(* arrives when there is none is refused and counted.                      *)
(***************************************************************************)
EXTENDS Naturals, Sequences

CONSTANTS
    Item,       \* what the buffer carries
    Capacity,   \* how many items it has room for
    Width       \* the counter of refused items counts modulo Width (2^32)

VARIABLES
    fifo,       \* the items inside, oldest first
    refused,    \* how many items were refused
    out         \* the last item handed to a reader

fifoVars == <<fifo, refused, out>>

Init == fifo = <<>> /\ refused = 0

Put(x) ==
    IF Len(fifo) < Capacity
    THEN fifo' = Append(fifo, x) /\ UNCHANGED <<refused, out>>
    ELSE refused' = (refused + 1) % Width /\ UNCHANGED <<fifo, out>>

Get ==
    /\ fifo # <<>>
    /\ out' = Head(fifo)
    /\ fifo' = Tail(fifo)
    /\ UNCHANGED refused

(* Emptying keeps the counter or starts it again. *)
Clear ==
    /\ fifo' = <<>>
    /\ refused' \in {0, refused}
    /\ UNCHANGED out

Next == (\E x \in Item : Put(x)) \/ Get \/ Clear

Spec == Init /\ [][Next]_fifoVars
=============================================================================
