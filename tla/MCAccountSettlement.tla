------------------------ MODULE MCAccountSettlement ------------------------
(* Two links that sell the same thing, three authorizations on two nonces,  *)
(* one of them refused before broadcast.                                    *)
EXTENDS AccountSettlement, TLC

CONSTANTS a1, a2, s1, s2, g1, n1, n2, e1, e2, bad, r1, r2, r3

MCGoodsOf == [s \in Share |-> g1]
MCNonceOf == (e1 :> n1) @@ (e2 :> n2) @@ (bad :> n2)
Symmetry == Permutations(Request) \cup Permutations(Share) \cup Permutations(Account)

\* Three requests with nobody's hands in it: races and lost answers only.
RaceSpec == Init /\ [][HandlerStep \/ FacilitatorStep]_vars

\* One exceptional intervention of a person at a time is enough to excuse.
FewInterventions == /\ Cardinality(forced) + Cardinality(dropped) <= 1
                    /\ Cardinality(releasing) <= 1
                    /\ Cardinality(receipt) <= 2
=============================================================================
