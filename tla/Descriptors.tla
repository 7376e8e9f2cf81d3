----------------------------- MODULE Descriptors -----------------------------
(***************************************************************************)
(* What fs/vfs.h promises a program: a table of descriptors per task, each *)
(* with an object, an access mode and a position of its own.  An open      *)
(* takes the lowest free descriptor; every other call touches one          *)
(* descriptor of the calling task; the end of a task leaves a fresh table. *)
(***************************************************************************)
EXTENDS Integers

CONSTANTS Proc, Fd,
          Opened,               \* a descriptor just after open: position 0
          Fresh,                \* the table a new task starts with
          MaxPos                \* bound on positions

VARIABLE desc                   \* task -> descriptor -> what it stands for

Unused == [object |-> "none"]

HasPosition(x) == x # Unused /\ x.object[1] \in {"file", "virtual"}

Init == desc = [p \in Proc |-> Fresh]

Open(p, d) ==
    /\ desc[p][d] = Unused
    /\ \A e \in Fd : desc[p][e] = Unused => d <= e
    /\ desc'[p][d] \in Opened

(* A read, a write, a seek or a truncation moves one position.             *)
Move(p, d) ==
    /\ HasPosition(desc[p][d])
    /\ desc'[p][d] \in {[desc[p][d] EXCEPT !.pos = n] : n \in 0 .. MaxPos}

Close(p, d) == desc'[p][d] = Unused

(* The task ends and its slot has a new one.                               *)
End(p) == \A d \in Fd : desc'[p][d] = Fresh[d]

Next ==
    \E p \in Proc :
       /\ \A q \in Proc \ {p} : desc'[q] = desc[q]
       /\ \/ \E d \in Fd :
                /\ \A e \in Fd \ {d} : desc'[p][e] = desc[p][e]
                /\ Open(p, d) \/ Move(p, d) \/ Close(p, d)
          \/ End(p)

Spec == Init /\ [][Next]_desc
=============================================================================
