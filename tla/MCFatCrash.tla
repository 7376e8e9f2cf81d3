----------------------------- MODULE MCFatCrash -----------------------------
(* Instance of FatCrash: two paths, in one directory or in two.            *)
EXTENDS FatCrash, TLC

OneOrTwo == {[n \in Name |-> "root"], [n \in Name |-> n]}
NameSymmetry == Permutations(Name)
=============================================================================
