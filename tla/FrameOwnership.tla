--------------------------- MODULE FrameOwnership ---------------------------
(***************************************************************************)
(* What memory protection promises: a physical frame belongs to at most    *)
(* one process.  A process acquires free frames, may lose track of some of *)
(* its own, and gives back what it still has only by ceasing to exist.     *)
(* Coming into existence loses nothing.                                    *)
(***************************************************************************)
CONSTANTS Proc, Frame

Free == [kind |-> "free"]
Lost == [kind |-> "lost"]     \* marked used, named by no page table
Of(p) == [kind |-> "owned", by |-> p]

VARIABLE owner

Init == owner = [f \in Frame |-> Free]

Has(p) == {f \in Frame : owner[f] = Of(p)}
LostFrames == {f \in Frame : owner[f] = Lost}

Change(p) ==
    /\ \A f \in Frame :
          LET old == owner[f]
              new == owner'[f]
          IN  \/ new = old
              \/ old = Free /\ new \in {Of(p), Lost}
              \/ old = Of(p) /\ new = Lost
    /\ Has(p) = {} /\ Has(p)' # {} => LostFrames' = LostFrames
    /\ DOMAIN owner' = Frame

Gone(p) ==
    owner' = [f \in Frame |-> IF owner[f] = Of(p) THEN Free ELSE owner[f]]

Next == \E p \in Proc : Change(p) \/ Gone(p)

Spec == Init /\ [][Next]_owner
=============================================================================
