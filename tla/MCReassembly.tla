---------------------------- MODULE MCReassembly ----------------------------
(***************************************************************************)
(* Instances of the reassembly table for TLC.  The packets of a table are  *)
(* told apart only by their keys, so the keys may be permuted; a run that  *)
(* checks liveness declares no symmetry.                                   *)
(***************************************************************************)
EXTENDS Reassembly, TLC

KeySymmetry == Permutations(Key)

=============================================================================
