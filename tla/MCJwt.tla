-------------------------------- MODULE MCJwt --------------------------------
(* Two processes with one key and a third with another; a token that expires *)
(* soon, one that never does, and one that says when it was issued.          *)
EXTENDS Jwt, TLC

CONSTANTS p1, p2, p3, k1, k2
KeyOf == p1 :> k1 @@ p2 :> k1 @@ p3 :> k2
SomeClaims == {[id |-> 1, exp |-> 1, iat |-> 0, nbf |-> 0],
               [id |-> 2, exp |-> 0, iat |-> 0, nbf |-> 2],
               [id |-> 1, exp |-> 2, iat |-> 1, nbf |-> 0]}
Symmetry == Permutations(Call)
=============================================================================
