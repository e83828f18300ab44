----------------------------- MODULE MCRustSync -----------------------------
(***************************************************************************)
(* RustSync for TLC.                                                       *)
(***************************************************************************)
EXTENDS RustSync, TLC

ConnSymmetry == Permutations(Conn)
SlotSymmetry == Permutations(Slot)
=============================================================================
