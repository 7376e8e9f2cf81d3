--------------------------- MODULE MCAddressSpace ---------------------------
(* Small instances of AddressSpace: pages of two addresses, tables of four *)
(* pages, user addresses from 8, one or two stack pages from address 20.   *)
EXTENDS AddressSpace, TLC

Program(n, segs, v) == [frames |-> n, segments |-> segs, valid |-> v]
Segment(a, n) == [vaddr |-> a, memsz |-> n]

\* One page; two segments that share a page; a file that is no executable
\* or whose segment would cover the stack.
Small == Program(1, <<Segment(8, 2)>>, TRUE)
Shared == Program(2, <<Segment(8, 1), Segment(9, 2)>>, TRUE)
Invalid == Program(1, <<>>, FALSE)
Outside == Program(1, <<Segment(8, 1), Segment(18, 4)>>, TRUE)
\* The last segment ends where the stack begins.
High == Program(1, <<Segment(8, 2), Segment(18, 2)>>, TRUE)

\* sbrk neither shrinks the heap nor lets it reach the stack.
Requests == {-1, 1, 3}

\* The processes are interchangeable.
ProcSymmetry == Permutations(Proc)

AllPrograms == {Small, Shared, Invalid, Outside}
HighPrograms == {High}
=============================================================================
