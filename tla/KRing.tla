-------------------------------- MODULE KRing --------------------------------
(***************************************************************************)
(* utils/kring.c: the byte ring behind pipes, key buffers, window text and *)
(* socket receive buffers.  One slot is kept free to tell full from empty. *)
(* Every caller runs with interrupts off, so an operation is one step.     *)
(***************************************************************************)
EXTENDS Integers, Sequences

CONSTANTS Capacity,   \* the storage size given to kring_u8_init
          Byte        \* the values stored

ASSUME CapacityAssumption == Capacity \in Nat \ {0}

VARIABLES buf,        \* r->buf[0 .. Capacity-1]
          head,       \* next slot to write
          tail,       \* next slot to read
          ret         \* result of the last push or pop

vars == <<buf, head, tail, ret>>

Index == 0 .. Capacity - 1

Ok(v) == [code |-> 0, out |-> v]
Refused == [code |-> -1]

Wrap(i) == i % Capacity

Succ(i) == Wrap(i + 1)

(* The storage is static and never cleared: its first contents are any.    *)
kring_u8_init ==
    /\ buf \in [Index -> Byte]
    /\ head = 0
    /\ tail = 0
    /\ ret = Refused

kring_u8_reset ==
    /\ head' = 0
    /\ tail' = 0
    /\ UNCHANGED <<buf, ret>>

(* Mutant: the full check is missing, so a push may overrun the tail.      *)
kring_u8_push_Overrun(value) ==
    /\ buf' = [buf EXCEPT ![head] = value]
    /\ head' = Succ(head)
    /\ ret' = Ok(value)
    /\ UNCHANGED tail

kring_u8_push(value) ==
    \/ /\ Capacity < 2 \/ Succ(head) = tail
       /\ ret' = Refused
       /\ UNCHANGED <<buf, head, tail>>
    \/ /\ Capacity >= 2 /\ Succ(head) # tail
       /\ buf' = [buf EXCEPT ![head] = value]
       /\ head' = Succ(head)
       /\ ret' = Ok(value)
       /\ UNCHANGED tail

kring_u8_pop ==
    \/ /\ Capacity < 2 \/ head = tail
       /\ ret' = Refused
       /\ UNCHANGED <<buf, head, tail>>
    \/ /\ Capacity >= 2 /\ head # tail
       /\ ret' = Ok(buf[tail])
       /\ tail' = Succ(tail)
       /\ UNCHANGED <<buf, head>>

kring_u8_empty == Capacity < 2 \/ head = tail

Used(h, t) ==
    IF Capacity < 2 THEN 0
    ELSE IF h >= t THEN h - t
    ELSE Capacity - (t - h)

kring_u8_used == Used(head, tail)

Next == (\E v \in Byte : kring_u8_push(v)) \/ kring_u8_pop \/ kring_u8_reset

Spec == kring_u8_init /\ [][Next]_vars
-----------------------------------------------------------------------------
(* The indexes stay inside the storage.                                    *)
TypeOK ==
    /\ buf \in [Index -> Byte]
    /\ head \in Index
    /\ tail \in Index
    /\ ret \in {Ok(v) : v \in Byte} \cup {Refused}

(* The elements of a storage b from index t up to index h, oldest first.   *)
Unread(b, h, t) == [i \in 1 .. Used(h, t) |-> b[Wrap(t + i - 1)]]

Contents == Unread(buf, head, tail)

Fifo == INSTANCE BoundedFifo
            WITH Bound <- Capacity - 1, Value <- Byte, queue <- Contents

(* The ring is a FIFO of Capacity - 1 bytes: a push is refused only when   *)
(* that many are unread, a pop returns the oldest unread byte, and the     *)
(* indexes wrapping round the storage never shows (kring.c push and pop).  *)
ImplementsFifo == Fifo!Spec

(* The emptiness test and the byte count that pipe_stat and sock_recv read *)
(* agree with each other and never report the slot that is kept free.      *)
UsedAgrees ==
    /\ kring_u8_empty <=> kring_u8_used = 0
    /\ kring_u8_used \in 0 .. Capacity - 1
=============================================================================
