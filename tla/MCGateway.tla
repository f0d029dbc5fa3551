------------------------------ MODULE MCGateway ------------------------------
(* Instances of Gateway for TLC. *)
EXTENDS Gateway, TLC

CONSTANTS r1, r2, r3, r4

\* Requests are interchangeable: only safety is checked under this symmetry.
Symmetry == Permutations(Requests)
=============================================================================
