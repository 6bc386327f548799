----------------------------- MODULE Partition -----------------------------
(***************************************************************************)
(* What a union-find structure promises: the elements are divided into     *)
(* blocks, at first one block each, and the only change ever made is that  *)
(* the blocks of two elements become one.                                  *)
(***************************************************************************)
CONSTANT Elements

VARIABLE blocks

Init == blocks = {{e} : e \in Elements}

Merge(B, C) == blocks' = (blocks \ {B, C}) \cup {B \cup C}

Next == \E B, C \in blocks : Merge(B, C)

Spec == Init /\ [][Next]_blocks

=============================================================================
