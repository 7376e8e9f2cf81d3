-------------------------------- MODULE MCVfs --------------------------------
(* Small instances of Vfs.                                                 *)
EXTENDS Vfs, TLC

CONSTANTS p1, p2

OneName == {<<"a">>}
OneLong == {<<"a">>, <<"b", "b">>}     \* the second does not fit the slot

ProcSymmetry == Permutations({p1, p2})
=============================================================================
