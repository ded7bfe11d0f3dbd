----------------------------- MODULE SaleCharge -----------------------------
(***************************************************************************)
(* What the purchase of a paid share promises an account: money moves for  *)
(* a sale at most once, unless the account is excused - support decided    *)
(* that an earlier attempt did not pay, or the owner took the bought       *)
(* access away, so paying again buys it again.                             *)
(***************************************************************************)
CONSTANTS Key, Account, Goods

VARIABLES
    charges,   \* the transfers that paid for a sale
    excused    \* the (account, goods) that may be charged again

vars == <<charges, excused>>

Charge == [key : Key, account : Account, goods : Goods]

Init == charges = {} /\ excused = {}

\* An account is charged: for the first time, or again with an excuse.
Pay(c) ==
    /\ \A d \in charges : (d.account = c.account /\ d.goods = c.goods)
                              => <<c.account, c.goods>> \in excused
    /\ charges' = charges \cup {c}
    /\ UNCHANGED excused

\* Excuses are never taken back.
Excuse(h) ==
    /\ excused' = excused \cup {h}
    /\ UNCHANGED charges

Next == (\E c \in Charge : Pay(c)) \/ (\E h \in Account \X Goods : Excuse(h))

Spec == Init /\ [][Next]_vars
=============================================================================
