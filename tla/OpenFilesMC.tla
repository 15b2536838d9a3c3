------------------------------ MODULE OpenFilesMC ------------------------------
(***************************************************************************)
(* OpenFiles for TLC: programs write part of a block, or a block and a     *)
(* half, and every place a byte can come from shows in its value.          *)
(***************************************************************************)
EXTENDS OpenFiles, TLC

Samples == {<<1>>, <<2, 3, 2>>}
Symmetry == Permutations(Names)
=============================================================================
