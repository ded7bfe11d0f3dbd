---------------------------- MODULE MCChangeFeed ----------------------------
(* Two products and two resources, alike; two rows kept, one row a page.     *)
EXTENDS ChangeFeed, TLC

CONSTANTS r1, r2, k1, k2

Symmetry == Permutations({r1, r2}) \cup Permutations({k1, k2})
=============================================================================
