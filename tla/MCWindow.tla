------------------------------ MODULE MCWindow ------------------------------
(* A small instance of Window.                                             *)
EXTENDS Window, TLC

CONSTANTS b1, b2

BufferSymmetry == Permutations({b1, b2})
=============================================================================
