----------------------------- MODULE MCHashTable -----------------------------
(***************************************************************************)
(* The upper bits of a product, as hash_ptr computes them: keys x and y    *)
(* collide at every size up to the default one, z collides with them at    *)
(* the smallest size only.                                                 *)
(***************************************************************************)
EXTENDS HashTable

CONSTANTS x, y, z

MCKey      == {x, y, z}
MCProduct  == (x :> 2) @@ (y :> 3) @@ (z :> 13)
MCHashPtr  == [k \in MCKey |-> [bits \in 1 .. 5 |-> MCProduct[k] \div 2^(5 - bits)]]
=============================================================================
