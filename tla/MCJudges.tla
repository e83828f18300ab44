------------------------------ MODULE MCJudges ------------------------------
(* Judges for TLC: the connections are interchangeable. *)
EXTENDS Judges, TLC

ConnSymmetry == Permutations(Conn)
=============================================================================
