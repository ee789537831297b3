---- MODULE MCPositions ----
(* Positions with interchangeable orders. *)
EXTENDS Positions, TLC

MCSymmetry == Permutations(Orders)
====
