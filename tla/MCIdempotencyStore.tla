------------------------- MODULE MCIdempotencyStore -------------------------
(***************************************************************************)
(* Five uploads under three keys, more keys than the cache has places for: *)
(* three equal ones and one each under two other keys.                     *)
(***************************************************************************)
EXTENDS IdempotencyStore, TLC

CONSTANTS r1, r2, r3, r4, r5, k1, k2, k3

MCRequest == {r1, r2, r3, r4, r5}
MCKeyOf   == [r \in MCRequest |-> CASE r = r4 -> k2 [] r = r5 -> k3 [] OTHER -> k1]

EqualUploads == Permutations({r1, r2, r3})
=============================================================================
