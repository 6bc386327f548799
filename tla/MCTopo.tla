------------------------------- MODULE MCTopo -------------------------------
(***************************************************************************)
(* A frame with two bars, and a node inside the frame that can carry an    *)
(* island and a bridge to the frame.                                       *)
(***************************************************************************)
EXTENDS Topo

A == <<0, 0>>
B == <<12, 0>>
Q == <<6, 8>>
S == <<6, 0>>

Straight == <<A, B>>
High == <<A, <<0, 12>>, <<12, 12>>, B>>
Middle == <<A, <<4, 4>>, <<8, 4>>, B>>
LoopAtQ == <<Q, <<8, 10>>, <<6, 10>>, Q>>
Bridge == <<Q, A>>

MCNodes == <<A, B, Q>>
MCPoints == {S, <<6, 2>>}
MCCurves == {Straight, High, Middle, LoopAtQ, Reverse(LoopAtQ), Bridge}

=============================================================================
