----------------------------- MODULE MCGateway -----------------------------
(* Three requests for any of the routes *)
EXTENDS Gateway, TLC

CONSTANTS r1, r2, r3

Symmetry == Permutations(Req)
=============================================================================
