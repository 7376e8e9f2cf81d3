----------------------------- MODULE BoundedFifo -----------------------------
(***************************************************************************)
(* What a byte ring promises its users (pipes, key buffers, window text,   *)
(* socket receive buffers): a first-in first-out queue of at most Bound    *)
(* elements that refuses a put when full and a get when empty, loses       *)
(* nothing it accepted, and invents nothing.                               *)
(***************************************************************************)
EXTENDS Integers, Sequences

CONSTANTS Bound,   \* the most elements the queue holds
          Value    \* what it holds

VARIABLES queue,   \* the elements, oldest first
          ret      \* what the last operation returned

vars == <<queue, ret>>

Ok(v) == [code |-> 0, out |-> v]
Refused == [code |-> -1]

Init == queue = <<>> /\ ret = Refused

Put(v) ==
    \/ /\ Len(queue) < Bound
       /\ queue' = Append(queue, v)
       /\ ret' = Ok(v)
    \/ /\ Len(queue) >= Bound
       /\ ret' = Refused
       /\ UNCHANGED queue

Get ==
    \/ /\ queue # <<>>
       /\ ret' = Ok(Head(queue))
       /\ queue' = Tail(queue)
    \/ /\ queue = <<>>
       /\ ret' = Refused
       /\ UNCHANGED queue

Clear == queue' = <<>> /\ UNCHANGED ret

Next == (\E v \in Value : Put(v)) \/ Get \/ Clear

Spec == Init /\ [][Next]_vars
=============================================================================
