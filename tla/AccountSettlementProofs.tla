---------------------- MODULE AccountSettlementProofs ----------------------
(***************************************************************************)
(* Proofs that AccountSettlement never charges an account twice for a sale *)
(* for any accounts, links, authorizations and number of requests, and that *)
(* it implements SaleCharge.                                               *)
(***************************************************************************)
EXTENDS AccountSettlement, TLAPS

LEMMA TypeInit == Init => TypeOK
  BY SettlementAssumption DEF Init, TypeOK, Status, Role

\* creditSettlement keeps the tables' types.
LEMMA CreditTypes ==
  ASSUME TypeOK, NEW n \in Nonce, NEW t \in Nonce, Credit(n, t)
  PROVE  /\ row' = row
         /\ status' \in [Nonce -> Status]
         /\ tx' \in [Nonce -> Nonce \cup {None}]
         /\ receipt' \subseteq Receipt
         /\ role' \in [Account \X Goods -> Role]
  BY SettlementAssumption
  DEF TypeOK, Credit, Creditable, Status, Role, Receipt, RowData

LEMMA TypeStep == TypeOK /\ [Next]_vars => TypeOK'
<1> SUFFICES ASSUME TypeOK, [Next]_vars PROVE TypeOK'
  OBVIOUS
<1> USE SettlementAssumption
    DEF TypeOK, Status, Role, Order, RowData, Settle, Answer, Receipt, Waiting,
        store, chain, handler, history
<1>1. ASSUME NEW r \in Request, NEW o \in Order, ArriveNew(r, o) PROVE TypeOK'
  BY <1>1 DEF ArriveNew
<1>2. ASSUME NEW r \in Request, NEW o \in Order, ArriveResend(r, o) PROVE TypeOK'
  BY <1>2 DEF ArriveResend
<1>3. ASSUME NEW r \in Request, VerifyFails(r) PROVE TypeOK'
  BY <1>3 DEF VerifyFails, Finish
<1>4. ASSUME NEW r \in Request, RecordBeforeSettle(r) PROVE TypeOK'
  BY <1>4, SMTT(30) DEF RecordBeforeSettle, SendSettle, Recordable
<1>5. ASSUME NEW r \in Request, RecordRefused(r) PROVE TypeOK'
  BY <1>5 DEF RecordRefused, Finish
<1>6. ASSUME NEW r \in Request, Resettle(r) PROVE TypeOK'
  BY <1>6 DEF Resettle, SendSettle
<1>7. ASSUME NEW r \in Request, ResettleRefused(r) PROVE TypeOK'
  BY <1>7 DEF ResettleRefused, Finish
<1>8. ASSUME NEW r \in Request, SettleRetry(r) PROVE TypeOK'
  BY <1>8 DEF SettleRetry, SendSettle
<1>9. ASSUME NEW r \in Request, SettleUncertain(r) PROVE TypeOK'
  BY <1>9 DEF SettleUncertain, Finish
<1>10. ASSUME NEW r \in Request, AnswerSuccess(r) PROVE TypeOK'
  <2> NonceOf[order[r].envelope] \in Nonce
    BY <1>10 DEF AnswerSuccess
  <2> QED
    BY <1>10, CreditTypes DEF AnswerSuccess, Finish
<1>11. ASSUME NEW r \in Request, AnswerNotCredited(r) PROVE TypeOK'
  BY <1>11 DEF AnswerNotCredited, Finish
<1>12. ASSUME NEW r \in Request, AnswerRefused(r) PROVE TypeOK'
  BY <1>12 DEF AnswerRefused, Release, Finish
<1>13. ASSUME Crash PROVE TypeOK'
  BY <1>13 DEF Crash
<1>14. ASSUME NEW j \in settles, NEW x \in {"success", "failed"}, FacilitatorTransfers(j, x) PROVE TypeOK'
  BY <1>14 DEF FacilitatorTransfers, Reply, CanMove
<1>15. ASSUME NEW j \in settles, NEW x \in Answer, FacilitatorReplies(j, x) PROVE TypeOK'
  BY <1>15 DEF FacilitatorReplies, Reply
<1>16. ASSUME NEW e \in Envelope, NEW b \in BOOLEAN, UsedElsewhere(e, b) PROVE TypeOK'
  BY <1>16 DEF UsedElsewhere, CanMove
<1>17. ASSUME NEW n \in Nonce, Expire(n) PROVE TypeOK'
  BY <1>17 DEF Expire
<1>18. ASSUME NEW n \in Nonce, NEW t \in Nonce, SupportCredits(n, t) PROVE TypeOK'
  BY <1>18, CreditTypes DEF SupportCredits
<1>19. ASSUME NEW n \in Nonce, SupportReadsChain(n) PROVE TypeOK'
  BY <1>19 DEF SupportReadsChain
<1>20. ASSUME NEW n \in Nonce, SupportReleases(n) PROVE TypeOK'
  BY <1>20 DEF SupportReleases, Release
<1>21. ASSUME NEW n \in Nonce, SupportForcesRelease(n) PROVE TypeOK'
  BY <1>21 DEF SupportForcesRelease, Release
<1>22. ASSUME NEW a \in Account, NEW g \in Goods, NEW y \in Role, OwnerSetsRole(a, g, y) PROVE TypeOK'
  BY <1>22 DEF OwnerSetsRole
<1>23. CASE UNCHANGED vars
  BY <1>23 DEF vars
<1> HIDE DEF TypeOK, Status, Role, Order, RowData, Settle, Answer, Receipt, Waiting,
            store, chain, handler, history
<1> QED
  BY <1>1, <1>2, <1>3, <1>4, <1>5, <1>6, <1>7, <1>8, <1>9, <1>10, <1>11, <1>12, <1>13, <1>14, <1>15, <1>16, <1>17, <1>18, <1>19, <1>20, <1>21, <1>22, <1>23
  DEF Next, HandlerStep, FacilitatorStep, ChainStep, PeopleStep

-----------------------------------------------------------------------------
(* The inductive invariant *)

\* A request that waits for the settle of a row it recorded finds its own
\* envelope there, and what it is refused is that envelope.
HandlerInv ==
    /\ \A r \in Request : pc[r] = "settle" =>
          /\ row[NonceOf[order[r].envelope]] # None
          /\ row[NonceOf[order[r].envelope]].envelope = order[r].envelope
    /\ \A r \in Request : answer[r] = "refused" => order[r].envelope \in Malformed
    /\ \A j \in settles : /\ pc[j.req] \in Waiting \cup {"done"}
                          /\ pc[j.req] \in Waiting => j.envelope = order[j.req].envelope

\* The row's authorization can never move money from here on.
Dead(n) == row[n].envelope \in Malformed \/ (n \in expired /\ moved[n] = None)

\* Why a row stopped blocking: its authorization is dead, its purchase was
\* credited, or a person decided so.
StoreInv ==
    /\ \A n \in Nonce : row[n] = None <=> status[n] = "absent"
    /\ \A n \in Nonce : moved[n] \notin Malformed
    /\ CreditIsWhole
    /\ ReleaseAfterCheck =>
          /\ \A n \in releasing : n \in expired /\ moved[n] = None
          /\ \A n \in Nonce : status[n] = "released" => Dead(n) \/ n \in forced
          /\ \A m, n \in Nonce : m # n /\ Twins(m, n) =>
                \/ Dead(m) \/ Dead(n)
                \/ Excused(row[n].account, GoodsOf[row[n].share])

Inv == TypeOK /\ HandlerInv /\ StoreInv

LEMMA InvInit == Init => HandlerInv /\ StoreInv
  BY SettlementAssumption
  DEF Init, HandlerInv, StoreInv, CreditIsWhole, Twins, RowData

LEMMA HandlerStepInv == TypeOK /\ HandlerInv /\ [Next]_vars => HandlerInv'
<1> SUFFICES ASSUME TypeOK, HandlerInv, [Next]_vars PROVE HandlerInv'
  OBVIOUS
<1> USE SettlementAssumption
    DEF HandlerInv, TypeOK, Order, RowData, Settle, Answer, Waiting,
        store, chain, handler, history
<1>1. ASSUME NEW r \in Request, NEW o \in Order, ArriveNew(r, o) PROVE HandlerInv'
  BY <1>1 DEF ArriveNew
<1>2. ASSUME NEW r \in Request, NEW o \in Order, ArriveResend(r, o) PROVE HandlerInv'
  BY <1>2 DEF ArriveResend
<1>3. ASSUME NEW r \in Request, VerifyFails(r) PROVE HandlerInv'
  BY <1>3 DEF VerifyFails, Finish
<1>4. ASSUME NEW r \in Request, RecordBeforeSettle(r) PROVE HandlerInv'
  BY <1>4 DEF RecordBeforeSettle, SendSettle, Recordable
<1>5. ASSUME NEW r \in Request, RecordRefused(r) PROVE HandlerInv'
  BY <1>5 DEF RecordRefused, Finish
<1>6. ASSUME NEW r \in Request, Resettle(r) PROVE HandlerInv'
  BY <1>6 DEF Resettle, SendSettle
<1>7. ASSUME NEW r \in Request, ResettleRefused(r) PROVE HandlerInv'
  BY <1>7 DEF ResettleRefused, Finish
<1>8. ASSUME NEW r \in Request, SettleRetry(r) PROVE HandlerInv'
  BY <1>8 DEF SettleRetry, SendSettle
<1>9. ASSUME NEW r \in Request, SettleUncertain(r) PROVE HandlerInv'
  BY <1>9, SMTT(30) DEF SettleUncertain, Finish
<1>10. ASSUME NEW r \in Request, AnswerSuccess(r) PROVE HandlerInv'
  BY <1>10 DEF AnswerSuccess, Credit, Finish
<1>11. ASSUME NEW r \in Request, AnswerNotCredited(r) PROVE HandlerInv'
  BY <1>11 DEF AnswerNotCredited, Finish
<1>12. ASSUME NEW r \in Request, AnswerRefused(r) PROVE HandlerInv'
  BY <1>12 DEF AnswerRefused, Release, Finish
<1>13. ASSUME Crash PROVE HandlerInv'
  BY <1>13 DEF Crash
<1>14. ASSUME NEW j \in settles, NEW x \in {"success", "failed"}, FacilitatorTransfers(j, x) PROVE HandlerInv'
  BY <1>14 DEF FacilitatorTransfers, Reply, CanMove
<1>15. ASSUME NEW j \in settles, NEW x \in Answer, FacilitatorReplies(j, x) PROVE HandlerInv'
  BY <1>15 DEF FacilitatorReplies, Reply
<1>16. ASSUME NEW e \in Envelope, NEW b \in BOOLEAN, UsedElsewhere(e, b) PROVE HandlerInv'
  BY <1>16 DEF UsedElsewhere, CanMove
<1>17. ASSUME NEW n \in Nonce, Expire(n) PROVE HandlerInv'
  BY <1>17 DEF Expire
<1>18. ASSUME NEW n \in Nonce, NEW t \in Nonce, SupportCredits(n, t) PROVE HandlerInv'
  BY <1>18 DEF SupportCredits, Credit
<1>19. ASSUME NEW n \in Nonce, SupportReadsChain(n) PROVE HandlerInv'
  BY <1>19 DEF SupportReadsChain
<1>20. ASSUME NEW n \in Nonce, SupportReleases(n) PROVE HandlerInv'
  BY <1>20 DEF SupportReleases, Release
<1>21. ASSUME NEW n \in Nonce, SupportForcesRelease(n) PROVE HandlerInv'
  BY <1>21 DEF SupportForcesRelease, Release
<1>22. ASSUME NEW a \in Account, NEW g \in Goods, NEW y \in Role, OwnerSetsRole(a, g, y) PROVE HandlerInv'
  BY <1>22 DEF OwnerSetsRole
<1> HIDE DEF TypeOK, Order, RowData, Settle, Answer, Waiting
<1>23. CASE UNCHANGED vars
  BY <1>23 DEF vars
<1> HIDE DEF HandlerInv, store, chain, handler, history
<1> QED
  BY <1>1, <1>2, <1>3, <1>4, <1>5, <1>6, <1>7, <1>8, <1>9, <1>10, <1>11, <1>12, <1>13, <1>14, <1>15, <1>16, <1>17, <1>18, <1>19, <1>20, <1>21, <1>22, <1>23
  DEF Next, HandlerStep, FacilitatorStep, ChainStep, PeopleStep

-----------------------------------------------------------------------------
(* What a step does to the tables and to the chain, whoever takes it *)

\* A row is recorded: nothing of this account blocks the sale, and it does not
\* hold what the link sells.
Records(n, d) ==
    /\ row[n] = None
    /\ Open(d.account, d.share) = {}
    /\ ~Holds(d.account, d.share)
    /\ row' = [row EXCEPT ![n] = d]
    /\ status' = [status EXCEPT ![n] = "unresolved"]
    /\ UNCHANGED <<tx, receipt, role>>

\* A row is released: its authorization is refused for good, a release command
\* saw it expired and unused, or a person forces it.
Releases(n) ==
    /\ Release(n)
    /\ \/ row[n] # None /\ row[n].envelope \in Malformed
       \/ n \in releasing /\ n \in expired
       \/ n \in forced'

\* Rows stay; receipts are only added, each for a transaction of its own, and
\* roles only taken away with an excuse.
KeepsRows ==
    /\ UNCHANGED <<row, status, tx>>
    /\ receipt \subseteq receipt'
    /\ \A x \in receipt', y \in receipt' \ receipt : x.tx = y.tx => x = y
    /\ \A h \in Account \X Goods :
          role[h] # "none" /\ role'[h] = "none" => h \in dropped'

StoreEffect ==
    \/ KeepsRows
    \/ \E n \in Nonce, d \in RowData : Records(n, d)
    \/ \E n, t \in Nonce : Credit(n, t)
    \/ \E n \in Nonce : Releases(n)

\* Used and expired authorizations stay so, a malformed one is never used, and
\* excuses are kept.
ChainEffect ==
    /\ expired \subseteq expired'
    /\ \A n \in expired : moved'[n] = moved[n]
    /\ \A n \in Nonce : moved'[n] = moved[n] \/ moved'[n] \notin Malformed
    /\ forced \subseteq forced'
    /\ dropped \subseteq dropped'
    /\ ReleaseAfterCheck => \A n \in releasing' : n \in releasing \/ (n \in expired /\ moved[n] = None)

LEMMA StepChainEffect == TypeOK /\ [Next]_vars => ChainEffect
<1> SUFFICES ASSUME TypeOK, [Next]_vars PROVE ChainEffect
  OBVIOUS
<1> USE SettlementAssumption
    DEF ChainEffect, TypeOK, RowData, Settle, store, chain, handler, history
<1>1. ASSUME NEW r \in Request, NEW o \in Order, ArriveNew(r, o) PROVE ChainEffect
  BY <1>1 DEF ArriveNew
<1>2. ASSUME NEW r \in Request, NEW o \in Order, ArriveResend(r, o) PROVE ChainEffect
  BY <1>2 DEF ArriveResend
<1>3. ASSUME NEW r \in Request, VerifyFails(r) PROVE ChainEffect
  BY <1>3 DEF VerifyFails, Finish
<1>4. ASSUME NEW r \in Request, RecordBeforeSettle(r) PROVE ChainEffect
  BY <1>4 DEF RecordBeforeSettle, SendSettle, Recordable
<1>5. ASSUME NEW r \in Request, RecordRefused(r) PROVE ChainEffect
  BY <1>5 DEF RecordRefused, Finish
<1>6. ASSUME NEW r \in Request, Resettle(r) PROVE ChainEffect
  BY <1>6 DEF Resettle, SendSettle
<1>7. ASSUME NEW r \in Request, ResettleRefused(r) PROVE ChainEffect
  BY <1>7 DEF ResettleRefused, Finish
<1>8. ASSUME NEW r \in Request, SettleRetry(r) PROVE ChainEffect
  BY <1>8 DEF SettleRetry, SendSettle
<1>9. ASSUME NEW r \in Request, SettleUncertain(r) PROVE ChainEffect
  BY <1>9 DEF SettleUncertain, Finish
<1>10. ASSUME NEW r \in Request, AnswerSuccess(r) PROVE ChainEffect
  BY <1>10 DEF AnswerSuccess, Finish
<1>11. ASSUME NEW r \in Request, AnswerNotCredited(r) PROVE ChainEffect
  BY <1>11 DEF AnswerNotCredited, Finish
<1>12. ASSUME NEW r \in Request, AnswerRefused(r) PROVE ChainEffect
  BY <1>12 DEF AnswerRefused, Release, Finish
<1>13. ASSUME Crash PROVE ChainEffect
  BY <1>13 DEF Crash
<1>14. ASSUME NEW j \in settles, NEW x \in {"success", "failed"}, FacilitatorTransfers(j, x) PROVE ChainEffect
  BY <1>14 DEF FacilitatorTransfers, Reply, CanMove
<1>15. ASSUME NEW j \in settles, NEW x \in Answer, FacilitatorReplies(j, x) PROVE ChainEffect
  BY <1>15 DEF FacilitatorReplies, Reply
<1>16. ASSUME NEW e \in Envelope, NEW b \in BOOLEAN, UsedElsewhere(e, b) PROVE ChainEffect
  BY <1>16 DEF UsedElsewhere, CanMove
<1>17. ASSUME NEW n \in Nonce, Expire(n) PROVE ChainEffect
  BY <1>17 DEF Expire
<1>18. ASSUME NEW n \in Nonce, NEW t \in Nonce, SupportCredits(n, t) PROVE ChainEffect
  BY <1>18 DEF SupportCredits
<1>19. ASSUME NEW n \in Nonce, SupportReadsChain(n) PROVE ChainEffect
  BY <1>19 DEF SupportReadsChain
<1>20. ASSUME NEW n \in Nonce, SupportReleases(n) PROVE ChainEffect
  BY <1>20 DEF SupportReleases, Release
<1>21. ASSUME NEW n \in Nonce, SupportForcesRelease(n) PROVE ChainEffect
  BY <1>21 DEF SupportForcesRelease, Release
<1>22. ASSUME NEW a \in Account, NEW g \in Goods, NEW y \in Role, OwnerSetsRole(a, g, y) PROVE ChainEffect
  BY <1>22 DEF OwnerSetsRole
<1>23. CASE UNCHANGED vars
  BY <1>23 DEF vars
<1> HIDE DEF ChainEffect, TypeOK, RowData, Settle, store, chain, handler, history
<1> QED
  BY <1>1, <1>2, <1>3, <1>4, <1>5, <1>6, <1>7, <1>8, <1>9, <1>10, <1>11, <1>12, <1>13, <1>14, <1>15, <1>16, <1>17, <1>18, <1>19, <1>20, <1>21, <1>22, <1>23
  DEF Next, HandlerStep, FacilitatorStep, ChainStep, PeopleStep

LEMMA StepStoreEffect == TypeOK /\ HandlerInv /\ [Next]_vars => StoreEffect
<1> SUFFICES ASSUME TypeOK, HandlerInv, [Next]_vars PROVE StoreEffect
  OBVIOUS
<1> USE DEF StoreEffect, store, chain, handler, history
<1>1. ASSUME NEW r \in Request, NEW o \in Order, ArriveNew(r, o) PROVE StoreEffect
  BY <1>1 DEF ArriveNew, KeepsRows
<1>2. ASSUME NEW r \in Request, NEW o \in Order, ArriveResend(r, o) PROVE StoreEffect
  BY <1>2 DEF ArriveResend, KeepsRows
<1>3. ASSUME NEW r \in Request, VerifyFails(r) PROVE StoreEffect
  BY <1>3 DEF VerifyFails, KeepsRows
<1>4. ASSUME NEW r \in Request, RecordBeforeSettle(r) PROVE StoreEffect
  <2> DEFINE o == order[r]
             n == NonceOf[o.envelope]
             d == [account |-> o.account, share |-> o.share, envelope |-> o.envelope]
  <2>1. o \in Order
    BY <1>4 DEF RecordBeforeSettle, TypeOK
  <2>2. n \in Nonce /\ d \in RowData
    BY <2>1, SettlementAssumption DEF Order, RowData
  <2>3. Records(n, d)
    BY <1>4 DEF RecordBeforeSettle, Recordable, Records
  <2> QED
    BY <2>2, <2>3
<1>5. ASSUME NEW r \in Request, RecordRefused(r) PROVE StoreEffect
  BY <1>5 DEF RecordRefused, KeepsRows
<1>6. ASSUME NEW r \in Request, Resettle(r) PROVE StoreEffect
  BY <1>6 DEF Resettle, KeepsRows
<1>7. ASSUME NEW r \in Request, ResettleRefused(r) PROVE StoreEffect
  BY <1>7 DEF ResettleRefused, KeepsRows
<1>8. ASSUME NEW r \in Request, SettleRetry(r) PROVE StoreEffect
  BY <1>8 DEF SettleRetry, KeepsRows
<1>9. ASSUME NEW r \in Request, SettleUncertain(r) PROVE StoreEffect
  BY <1>9 DEF SettleUncertain, KeepsRows
<1>10. ASSUME NEW r \in Request, AnswerSuccess(r) PROVE StoreEffect
  <2>1. NonceOf[order[r].envelope] \in Nonce
    BY <1>10, SettlementAssumption DEF AnswerSuccess, TypeOK, Order, Waiting
  <2> QED
    BY <1>10, <2>1 DEF AnswerSuccess
<1>11. ASSUME NEW r \in Request, AnswerNotCredited(r) PROVE StoreEffect
  BY <1>11 DEF AnswerNotCredited, KeepsRows
<1>12. ASSUME NEW r \in Request, AnswerRefused(r) PROVE StoreEffect
  <2> DEFINE n == NonceOf[order[r].envelope]
  <2>1. CASE pc[r] = "settle" /\ attempt[r] = 1
    <3>1. n \in Nonce
      BY <1>12, <2>1, SettlementAssumption DEF AnswerRefused, TypeOK, Order
    <3>2. row[n] # None /\ row[n].envelope \in Malformed
      BY <1>12, <2>1 DEF AnswerRefused, HandlerInv
    <3>3. Release(n)
      BY <1>12, <2>1 DEF AnswerRefused
    <3> QED
      BY <3>1, <3>2, <3>3 DEF Releases
  <2>2. CASE ~(pc[r] = "settle" /\ attempt[r] = 1)
    BY <1>12, <2>2 DEF AnswerRefused, KeepsRows
  <2> QED
    BY <2>1, <2>2
<1>13. ASSUME Crash PROVE StoreEffect
  BY <1>13 DEF Crash, KeepsRows
<1>14. ASSUME NEW j \in settles, NEW x \in {"success", "failed"}, FacilitatorTransfers(j, x) PROVE StoreEffect
  BY <1>14 DEF FacilitatorTransfers, KeepsRows
<1>15. ASSUME NEW j \in settles, NEW x \in Answer, FacilitatorReplies(j, x) PROVE StoreEffect
  BY <1>15 DEF FacilitatorReplies, KeepsRows
<1>16. ASSUME NEW e \in Envelope, NEW b \in BOOLEAN, UsedElsewhere(e, b) PROVE StoreEffect
  BY <1>16 DEF UsedElsewhere, KeepsRows
<1>17. ASSUME NEW n \in Nonce, Expire(n) PROVE StoreEffect
  BY <1>17 DEF Expire, KeepsRows
<1>18. ASSUME NEW n \in Nonce, NEW t \in Nonce, SupportCredits(n, t) PROVE StoreEffect
  BY <1>18 DEF SupportCredits
<1>19. ASSUME NEW n \in Nonce, SupportReadsChain(n) PROVE StoreEffect
  BY <1>19 DEF SupportReadsChain, KeepsRows
<1>20. ASSUME NEW n \in Nonce, SupportReleases(n) PROVE StoreEffect
  <2>1. CASE n \in expired
    <3>1. Releases(n)
      BY <1>20, <2>1 DEF SupportReleases, Releases
    <3> QED
      BY <3>1
  <2>2. CASE n \notin expired
    BY <1>20, <2>2 DEF SupportReleases, KeepsRows
  <2> QED
    BY <2>1, <2>2
<1>21. ASSUME NEW n \in Nonce, SupportForcesRelease(n) PROVE StoreEffect
  <2>1. Releases(n)
    BY <1>21 DEF SupportForcesRelease, Releases
  <2> QED
    BY <2>1
<1>22. ASSUME NEW a \in Account, NEW g \in Goods, NEW y \in Role, OwnerSetsRole(a, g, y) PROVE StoreEffect
  BY <1>22 DEF OwnerSetsRole, KeepsRows, TypeOK
<1>23. CASE UNCHANGED vars
  BY <1>23 DEF vars, KeepsRows
<1> HIDE DEF StoreEffect, store, chain, handler, history
<1> QED
  BY <1>1, <1>2, <1>3, <1>4, <1>5, <1>6, <1>7, <1>8, <1>9, <1>10, <1>11, <1>12, <1>13, <1>14, <1>15, <1>16, <1>17, <1>18, <1>19, <1>20, <1>21, <1>22, <1>23
  DEF Next, HandlerStep, FacilitatorStep, ChainStep, PeopleStep

-----------------------------------------------------------------------------
(* The invariant is inductive *)

\* A recorded row is the same after the step.
LEMMA RowsStay ==
  ASSUME TypeOK, HandlerInv, [Next]_vars, NEW n \in Nonce, row[n] # None
  PROVE  row'[n] = row[n]
  BY StepStoreEffect DEF StoreEffect, KeepsRows, Records, Credit, Releases, Release, TypeOK

\* A dead authorization stays dead.
LEMMA DeadStays ==
  ASSUME TypeOK, HandlerInv, [Next]_vars, NEW n \in Nonce, row[n] # None, Dead(n)
  PROVE  Dead(n)'
  BY RowsStay, StepChainEffect DEF ChainEffect, Dead, TypeOK

\* An excuse stays an excuse.
LEMMA ExcuseStays ==
  ASSUME TypeOK, HandlerInv, [Next]_vars,
         NEW a \in Account, NEW g \in Goods, Excused(a, g)
  PROVE  Excused(a, g)'
<1>1. CASE <<a, g>> \in dropped
  BY <1>1, StepChainEffect DEF ChainEffect, Excused
<1>2. CASE \E n \in forced : row[n] # None /\ row[n].account = a /\ GoodsOf[row[n].share] = g
  <2>1. PICK n \in forced : row[n] # None /\ row[n].account = a /\ GoodsOf[row[n].share] = g
    BY <1>2
  <2>2. n \in Nonce /\ n \in forced' /\ row'[n] = row[n]
    BY <2>1, RowsStay, StepChainEffect DEF ChainEffect, TypeOK
  <2> QED
    BY <2>1, <2>2 DEF Excused
<1> QED
  BY <1>1, <1>2 DEF Excused

\* The row of a credited purchase holds, or the owner took its access away.
LEMMA CreditedHolds ==
  ASSUME TypeOK, StoreInv, NEW n \in Nonce, status[n] = "credited",
         NEW s \in Share, GoodsOf[s] = GoodsOf[row[n].share],
         <<row[n].account, GoodsOf[s]>> \notin dropped
  PROVE  Holds(row[n].account, s)
<1>1. row[n] # None /\ row[n] \in RowData
  BY DEF StoreInv, TypeOK
<1>2. [tx |-> tx[n], account |-> row[n].account, share |-> row[n].share] \in receipt
  BY DEF StoreInv, CreditIsWhole
<1>3. row[n].account \in Account /\ row[n].share \in Share
  BY <1>1 DEF RowData
<1>4. role[<<row[n].account, GoodsOf[s]>>] # "none"
  BY DEF StoreInv, CreditIsWhole
<1>5. role[<<row[n].account, GoodsOf[s]>>] \in Role
  BY <1>3, SettlementAssumption DEF TypeOK
<1> QED
  BY <1>2, <1>3, <1>4, <1>5 DEF Holds, Role

\* When a row may be recorded, every earlier row of the sale is accounted for.
LEMMA EarlierRowsClosed ==
  ASSUME TypeOK, StoreInv, ReleaseAfterCheck, NEW m \in Nonce, NEW d \in RowData,
         row[m] # None, row[m].account = d.account,
         GoodsOf[row[m].share] = GoodsOf[d.share],
         Open(d.account, d.share) = {}, ~Holds(d.account, d.share)
  PROVE  Dead(m) \/ Excused(d.account, GoodsOf[d.share])
<1>1. status[m] # "absent" /\ status[m] \in Status
  BY DEF StoreInv, TypeOK
<1>2. status[m] # "unresolved"
  BY DEF Open, SameSale
<1>3. CASE status[m] = "credited"
  <2>1. d.share \in Share
    BY DEF RowData
  <2>2. <<d.account, GoodsOf[d.share]>> \in dropped
    BY <1>3, <2>1, CreditedHolds
  <2> QED
    BY <2>2 DEF Excused
<1>4. CASE status[m] = "released"
  BY <1>4 DEF StoreInv, Excused
<1> QED
  BY <1>1, <1>2, <1>3, <1>4 DEF Status

LEMMA CreditWholeStep ==
  ASSUME TypeOK, HandlerInv, StoreInv, [Next]_vars
  PROVE  CreditIsWhole'
<1> USE DEF CreditIsWhole, TypeOK, StoreInv
<1>0. dropped \subseteq dropped'
  BY StepChainEffect DEF ChainEffect
<1>00. \A n \in Nonce : status[n] = "credited" => /\ row[n] \in RowData
                                                 /\ row[n].account \in Account
                                                 /\ GoodsOf[row[n].share] \in Goods
  BY SettlementAssumption DEF RowData
<1>1. CASE KeepsRows
  BY <1>0, <1>00, <1>1 DEF KeepsRows
<1>2. ASSUME NEW n \in Nonce, NEW d \in RowData, Records(n, d) PROVE CreditIsWhole'
  BY <1>0, <1>2 DEF Records
<1>3. ASSUME NEW n \in Nonce, NEW t \in Nonce, Credit(n, t) PROVE CreditIsWhole'
  <2>1. row[n] \in RowData /\ row[n].account \in Account /\ GoodsOf[row[n].share] \in Goods
    BY <1>3, SettlementAssumption DEF Credit, Creditable, RowData
  <2>2. role'[<<row[n].account, GoodsOf[row[n].share]>>] # "none"
    BY <1>3, <2>1 DEF Credit
  <2>3. \A h \in Account \X Goods : role[h] # "none" => role'[h] # "none"
    BY <1>3 DEF Credit
  <2> QED
    BY <1>0, <1>00, <1>3, <2>1, <2>2, <2>3 DEF Credit
<1>4. ASSUME NEW n \in Nonce, Releases(n) PROVE CreditIsWhole'
  BY <1>0, <1>4 DEF Releases, Release
<1> QED
  BY <1>1, <1>2, <1>3, <1>4, StepStoreEffect DEF StoreEffect

LEMMA StoreStepInv ==
  ASSUME TypeOK, HandlerInv, StoreInv, [Next]_vars
  PROVE  StoreInv'
<1>1. (\A n \in Nonce : row[n] = None <=> status[n] = "absent")'
  <2> USE DEF StoreInv, TypeOK
  <2>1. CASE KeepsRows
    BY <2>1 DEF KeepsRows
  <2>2. ASSUME NEW n \in Nonce, NEW d \in RowData, Records(n, d)
        PROVE  (\A k \in Nonce : row[k] = None <=> status[k] = "absent")'
    BY <2>2, SettlementAssumption DEF Records
  <2>3. ASSUME NEW n \in Nonce, NEW t \in Nonce, Credit(n, t)
        PROVE  (\A k \in Nonce : row[k] = None <=> status[k] = "absent")'
    BY <2>3 DEF Credit, Creditable
  <2>4. ASSUME NEW n \in Nonce, Releases(n)
        PROVE  (\A k \in Nonce : row[k] = None <=> status[k] = "absent")'
    BY <2>4 DEF Releases, Release
  <2> QED
    BY <2>1, <2>2, <2>3, <2>4, StepStoreEffect DEF StoreEffect
<1>2. (\A n \in Nonce : moved[n] \notin Malformed)'
  BY StepChainEffect DEF ChainEffect, StoreInv
<1>3. CreditIsWhole'
  BY CreditWholeStep
<1>4. ASSUME ReleaseAfterCheck, NEW n \in releasing'
      PROVE  n \in expired' /\ moved'[n] = None
  BY <1>4, StepChainEffect DEF ChainEffect, StoreInv
<1>5. ASSUME ReleaseAfterCheck, NEW n \in Nonce, status'[n] = "released"
      PROVE  Dead(n)' \/ n \in forced'
  <2>1. CASE status[n] = "released"
    <3>1. row[n] # None
      BY <2>1 DEF StoreInv
    <3> QED
      BY <1>5, <2>1, <3>1, DeadStays, StepChainEffect DEF StoreInv, ChainEffect
  <2>2. CASE status[n] # "released"
    <3>1. Releases(n)
      BY <1>5, <2>2, StepStoreEffect
      DEF StoreEffect, KeepsRows, Records, Credit, Releases, Release, TypeOK
    <3>2. row[n] # None
      BY <1>5, <2>2, <3>1 DEF Releases, Release, StoreInv, TypeOK
    <3>3. n \in forced' \/ Dead(n)
      BY <1>5, <3>1 DEF Releases, Dead, StoreInv
    <3> QED
      BY <3>2, <3>3, DeadStays
  <2> QED
    BY <2>1, <2>2
<1>6. ASSUME ReleaseAfterCheck, NEW m \in Nonce, NEW n \in Nonce, m # n, Twins(m, n)'
      PROVE  Dead(m)' \/ Dead(n)' \/ Excused(row[n].account, GoodsOf[row[n].share])'
  <2>1. CASE row[m] # None /\ row[n] # None
    <3>1. row'[m] = row[m] /\ row'[n] = row[n]
      BY <2>1, RowsStay
    <3>2. row[n].account \in Account /\ GoodsOf[row[n].share] \in Goods
      BY <2>1, SettlementAssumption DEF TypeOK, RowData
    <3>3. Twins(m, n)
      BY <1>6, <2>1, <3>1 DEF Twins
    <3> QED
      BY <1>6, <2>1, <3>1, <3>2, <3>3, DeadStays, ExcuseStays DEF StoreInv
  <2>2. ASSUME NEW k \in Nonce, NEW l \in Nonce, k # l, Twins(k, l)', row[k] # None, row[l] = None
        PROVE  Dead(k)' \/ Excused(row[l].account, GoodsOf[row[l].share])'
    <3>1. row'[k] = row[k]
      BY <2>2, RowsStay
    <3>2. PICK d \in RowData : Records(l, d)
      BY <2>2, StepStoreEffect
      DEF StoreEffect, KeepsRows, Records, Credit, Releases, Release, TypeOK, Twins
    <3>3. row'[l] = d
      BY <3>2 DEF Records, TypeOK
    <3>4. d.account \in Account /\ GoodsOf[d.share] \in Goods
      BY SettlementAssumption DEF RowData
    <3>5. Dead(k) \/ Excused(d.account, GoodsOf[d.share])
      BY <1>6, <2>2, <3>1, <3>2, <3>3, EarlierRowsClosed DEF Twins, Records
    <3> QED
      BY <2>2, <3>3, <3>4, <3>5, DeadStays, ExcuseStays DEF Excused
  <2>3. ~(row[m] = None /\ row[n] = None)
    <3>1. SUFFICES ASSUME row[m] = None, row[n] = None PROVE FALSE
      OBVIOUS
    <3>2. row'[m] # None /\ row'[n] # None
      BY <1>6 DEF Twins
    <3>3. PICK k \in Nonce, d \in RowData : Records(k, d)
      BY <3>1, <3>2, StepStoreEffect
      DEF StoreEffect, KeepsRows, Credit, Releases, Release
    <3> QED
      BY <1>6, <3>1, <3>2, <3>3 DEF Records, TypeOK
  <2>4. Twins(n, m)'
    BY <1>6 DEF Twins
  <2>5. row'[m].account = row'[n].account /\ GoodsOf[row'[m].share] = GoodsOf[row'[n].share]
    BY <1>6 DEF Twins
  <2> QED
    BY <1>6, <2>1, <2>2, <2>3, <2>4, <2>5 DEF Excused
<1> QED
  BY <1>1, <1>2, <1>3, <1>4, <1>5, <1>6 DEF StoreInv

THEOREM Invariance == Spec => []Inv
<1>1. Init => Inv
  BY TypeInit, InvInit DEF Inv
<1>2. Inv /\ [Next]_vars => Inv'
  BY TypeStep, HandlerStepInv, StoreStepInv DEF Inv
<1> QED
  BY <1>1, <1>2, PTL DEF Spec

-----------------------------------------------------------------------------
(* What follows from it *)

\* Every reachable state of the settlement protocol is well typed.
THEOREM TypeCorrect == Spec => []TypeOK
<1>1. Inv => TypeOK
  BY DEF Inv
<1> QED
  BY <1>1, Invariance, PTL

\* No second charge: while operators release a row only once `check` showed it
\* expired, two authorizations of one account never both pay for a sale without
\* an excuse, for any number of accounts, links, authorizations and requests.
THEOREM NoSecondChargeHolds ==
  ASSUME ReleaseAfterCheck
  PROVE  Spec => []NoSecondCharge
<1>1. Inv => NoSecondCharge
  BY SettlementAssumption
  DEF Inv, StoreInv, NoSecondCharge, Charged, Dead, TypeOK, RowData
<1> QED
  BY <1>1, Invariance, PTL

\* A row whose authorization paid is never closed as unpaid without --force.
THEOREM PaidRowIsNotReleasedHolds ==
  ASSUME ReleaseAfterCheck
  PROVE  Spec => []PaidRowIsNotReleased
<1>1. Inv => PaidRowIsNotReleased
  BY SettlementAssumption
  DEF Inv, StoreInv, PaidRowIsNotReleased, Charged, Dead, TypeOK, RowData
<1> QED
  BY <1>1, Invariance, PTL

\* A credited row always has its receipt and its membership.
THEOREM CreditIsWholeHolds == Spec => []CreditIsWhole
<1>1. Inv => CreditIsWhole
  BY DEF Inv, StoreInv
<1> QED
  BY <1>1, Invariance, PTL

\* However many requests pass the route's first check together, the
\* transaction before settle leaves at most one unresolved row per sale.
THEOREM OneUnresolvedRowHolds == Spec => []OneUnresolvedRow
<1>1. Init => OneUnresolvedRow
  BY DEF Init, OneUnresolvedRow, Twins
<1>2. Inv /\ OneUnresolvedRow /\ [Next]_vars => OneUnresolvedRow'
  <2> SUFFICES ASSUME Inv, OneUnresolvedRow, [Next]_vars,
                      NEW m \in Nonce, NEW n \in Nonce, m # n, Twins(m, n)',
                      status'[m] = "unresolved", status'[n] = "unresolved"
               PROVE  FALSE
    BY DEF OneUnresolvedRow
  <2> USE DEF Inv, TypeOK, StoreInv, Twins
  <2>1. CASE KeepsRows
    BY <2>1 DEF KeepsRows, OneUnresolvedRow
  <2>2. ASSUME NEW k \in Nonce, NEW d \in RowData, Records(k, d) PROVE FALSE
    <3>1. row'[k] = d /\ \A l \in Nonce \ {k} : row'[l] = row[l] /\ status'[l] = status[l]
      BY <2>2 DEF Records
    <3>2. ASSUME NEW l \in Nonce \ {k}, status[l] = "unresolved", row[l].account = d.account,
                 GoodsOf[row[l].share] = GoodsOf[d.share]
          PROVE  FALSE
      BY <2>2, <3>2 DEF Records, Open, SameSale
    <3> QED
      BY <3>1, <3>2 DEF OneUnresolvedRow
  <2>3. ASSUME NEW k \in Nonce, NEW t \in Nonce, Credit(k, t) PROVE FALSE
    BY <2>3 DEF Credit, OneUnresolvedRow
  <2>4. ASSUME NEW k \in Nonce, Releases(k) PROVE FALSE
    BY <2>4 DEF Releases, Release, OneUnresolvedRow
  <2> QED
    BY <2>1, <2>2, <2>3, <2>4, StepStoreEffect DEF StoreEffect
<1> QED
  BY <1>1, <1>2, Invariance, PTL DEF Spec

\* A transaction pays for one row and one purchase, also when anonymous
\* requests settle the same authorizations and support credits by hand.
THEOREM OneTxOnePurchaseHolds == Spec => []OneTxOnePurchase
<1>1. Init => OneTxOnePurchase
  BY DEF Init, OneTxOnePurchase
<1>2. Inv /\ OneTxOnePurchase /\ [Next]_vars => OneTxOnePurchase'
  <2> SUFFICES ASSUME Inv, OneTxOnePurchase, [Next]_vars PROVE OneTxOnePurchase'
    OBVIOUS
  <2> USE DEF Inv, OneTxOnePurchase
  <2>1. CASE KeepsRows
    BY <2>1 DEF KeepsRows
  <2>2. ASSUME NEW n \in Nonce, NEW d \in RowData, Records(n, d) PROVE OneTxOnePurchase'
    BY <2>2 DEF Records
  <2>3. ASSUME NEW n \in Nonce, NEW t \in Nonce, Credit(n, t) PROVE OneTxOnePurchase'
    <3>1. (\A k, l \in Nonce : tx[k] # None /\ tx[k] = tx[l] => k = l)'
      BY <2>3 DEF Credit, Creditable, TypeOK
    <3>2. ASSUME NEW x \in receipt, x.tx = t
          PROVE  x = [tx |-> t, account |-> row[n].account, share |-> row[n].share]
      BY <2>3, <3>2 DEF Credit, Creditable, TypeOK, Receipt
    <3>3. (\A x, y \in receipt : x.tx = y.tx => x = y)'
      BY <2>3, <3>2 DEF Credit
    <3> QED
      BY <3>1, <3>3
  <2>4. ASSUME NEW n \in Nonce, Releases(n) PROVE OneTxOnePurchase'
    BY <2>4 DEF Releases, Release
  <2> QED
    BY <2>1, <2>2, <2>3, <2>4, StepStoreEffect DEF StoreEffect
<1> QED
  BY <1>1, <1>2, Invariance, PTL DEF Spec

\* Whoever acts last, a recorded row keeps its sale, a resolved one is never
\* open again and a credited one keeps its transaction.
THEOREM RowIsFinalHolds == Spec => RowIsFinal
<1>1. Inv /\ [Next]_vars =>
        [\A n \in Nonce :
           /\ row[n] # None => row'[n] = row[n]
           /\ status[n] \in {"credited", "released"} => status'[n] \in {status[n], "credited"}
           /\ status[n] = "credited" => tx'[n] = tx[n]]_vars
  <2> SUFFICES ASSUME Inv, [Next]_vars, NEW n \in Nonce
               PROVE  /\ row[n] # None => row'[n] = row[n]
                      /\ status[n] \in {"credited", "released"}
                            => status'[n] \in {status[n], "credited"}
                      /\ status[n] = "credited" => tx'[n] = tx[n]
    OBVIOUS
  <2> USE DEF Inv, TypeOK, StoreInv
  <2>1. row[n] # None => row'[n] = row[n]
    BY RowsStay
  <2>2. CASE KeepsRows
    BY <2>1, <2>2 DEF KeepsRows
  <2>3. ASSUME NEW k \in Nonce, NEW d \in RowData, Records(k, d)
        PROVE  /\ status[n] \in {"credited", "released"} => status'[n] = status[n]
               /\ tx'[n] = tx[n]
    BY <2>3 DEF Records
  <2>4. ASSUME NEW k \in Nonce, NEW t \in Nonce, Credit(k, t)
        PROVE  /\ status'[n] \in {status[n], "credited"}
               /\ status[n] = "credited" => tx'[n] = tx[n]
    BY <2>4 DEF Credit, Creditable
  <2>5. ASSUME NEW k \in Nonce, Releases(k)
        PROVE  /\ status[n] \in {"credited", "released"} => status'[n] = status[n]
               /\ tx'[n] = tx[n]
    BY <2>5 DEF Releases, Release
  <2> QED
    BY <2>1, <2>2, <2>3, <2>4, <2>5, StepStoreEffect DEF StoreEffect
<1> QED
  BY <1>1, Invariance, PTL DEF Spec, RowIsFinal

-----------------------------------------------------------------------------
(* The refinement of SaleCharge: every step of the protocol is one charge,  *)
(* one excuse, or nothing that the account can notice.                      *)

(* What a step can do to the charges and the excuses *)

\* Neither rows nor transfers nor excuses change.
Quiet == UNCHANGED <<row, moved, forced, dropped>>

\* An authorization moves money.
Moves(e) ==
    /\ CanMove(e)
    /\ moved' = [moved EXCEPT ![NonceOf[e]] = e]
    /\ UNCHANGED <<row, forced, dropped>>

\* Support forces the release of an unresolved row.
Forces(n) ==
    /\ status[n] = "unresolved"
    /\ forced' = forced \cup {n}
    /\ UNCHANGED <<row, moved, dropped>>

\* The owner takes the account's access away.
Drops(a, g) ==
    /\ dropped' = dropped \cup {<<a, g>>}
    /\ UNCHANGED <<row, moved, forced>>

PromiseEffect ==
    \/ Quiet
    \/ \E n \in Nonce, d \in RowData :
          Records(n, d) /\ UNCHANGED <<moved, forced, dropped>>
    \/ \E e \in Envelope : Moves(e)
    \/ \E n \in Nonce : Forces(n)
    \/ \E a \in Account, g \in Goods : Drops(a, g)

LEMMA StepPromiseEffect == TypeOK /\ [Next]_vars => PromiseEffect
<1> SUFFICES ASSUME TypeOK, [Next]_vars PROVE PromiseEffect
  OBVIOUS
<1> USE DEF PromiseEffect, store, chain, handler, history
<1>1. ASSUME NEW r \in Request, NEW o \in Order, ArriveNew(r, o) PROVE PromiseEffect
  BY <1>1 DEF ArriveNew, Quiet
<1>2. ASSUME NEW r \in Request, NEW o \in Order, ArriveResend(r, o) PROVE PromiseEffect
  BY <1>2 DEF ArriveResend, Quiet
<1>3. ASSUME NEW r \in Request, VerifyFails(r) PROVE PromiseEffect
  BY <1>3 DEF VerifyFails, Quiet
<1>4. ASSUME NEW r \in Request, RecordBeforeSettle(r) PROVE PromiseEffect
  <2> DEFINE o == order[r]
             n == NonceOf[o.envelope]
             d == [account |-> o.account, share |-> o.share, envelope |-> o.envelope]
  <2>1. o \in Order
    BY <1>4 DEF RecordBeforeSettle, TypeOK
  <2>2. n \in Nonce /\ d \in RowData
    BY <2>1, SettlementAssumption DEF Order, RowData
  <2>3. Records(n, d) /\ UNCHANGED <<moved, forced, dropped>>
    BY <1>4 DEF RecordBeforeSettle, Recordable, Records
  <2> QED
    BY <2>2, <2>3
<1>5. ASSUME NEW r \in Request, RecordRefused(r) PROVE PromiseEffect
  BY <1>5 DEF RecordRefused, Quiet
<1>6. ASSUME NEW r \in Request, Resettle(r) PROVE PromiseEffect
  BY <1>6 DEF Resettle, Quiet
<1>7. ASSUME NEW r \in Request, ResettleRefused(r) PROVE PromiseEffect
  BY <1>7 DEF ResettleRefused, Quiet
<1>8. ASSUME NEW r \in Request, SettleRetry(r) PROVE PromiseEffect
  BY <1>8 DEF SettleRetry, Quiet
<1>9. ASSUME NEW r \in Request, SettleUncertain(r) PROVE PromiseEffect
  BY <1>9, SMTT(30) DEF SettleUncertain, Quiet
<1>10. ASSUME NEW r \in Request, AnswerSuccess(r) PROVE PromiseEffect
  BY <1>10 DEF AnswerSuccess, Credit, Quiet
<1>11. ASSUME NEW r \in Request, AnswerNotCredited(r) PROVE PromiseEffect
  BY <1>11 DEF AnswerNotCredited, Quiet
<1>12. ASSUME NEW r \in Request, AnswerRefused(r) PROVE PromiseEffect
  BY <1>12 DEF AnswerRefused, Release, Quiet
<1>13. ASSUME Crash PROVE PromiseEffect
  BY <1>13 DEF Crash, Quiet
<1>14. ASSUME NEW j \in settles, NEW x \in {"success", "failed"}, FacilitatorTransfers(j, x) PROVE PromiseEffect
  <2>1. j.envelope \in Envelope
    BY DEF TypeOK, Settle
  <2>2. Moves(j.envelope)
    BY <1>14 DEF FacilitatorTransfers, Moves
  <2> QED
    BY <2>1, <2>2
<1>15. ASSUME NEW j \in settles, NEW x \in Answer, FacilitatorReplies(j, x) PROVE PromiseEffect
  BY <1>15 DEF FacilitatorReplies, Quiet
<1>16. ASSUME NEW e \in Envelope, NEW b \in BOOLEAN, UsedElsewhere(e, b) PROVE PromiseEffect
  <2>1. Moves(e)
    BY <1>16 DEF UsedElsewhere, Moves
  <2> QED
    BY <2>1
<1>17. ASSUME NEW n \in Nonce, Expire(n) PROVE PromiseEffect
  BY <1>17 DEF Expire, Quiet
<1>18. ASSUME NEW n \in Nonce, NEW t \in Nonce, SupportCredits(n, t) PROVE PromiseEffect
  BY <1>18 DEF SupportCredits, Credit, Quiet
<1>19. ASSUME NEW n \in Nonce, SupportReadsChain(n) PROVE PromiseEffect
  BY <1>19 DEF SupportReadsChain, Quiet
<1>20. ASSUME NEW n \in Nonce, SupportReleases(n) PROVE PromiseEffect
  BY <1>20 DEF SupportReleases, Release, Quiet
<1>21. ASSUME NEW n \in Nonce, SupportForcesRelease(n) PROVE PromiseEffect
  <2>1. Forces(n)
    BY <1>21 DEF SupportForcesRelease, Release, Forces
  <2> QED
    BY <2>1
<1>22. ASSUME NEW a \in Account, NEW g \in Goods, NEW y \in Role, OwnerSetsRole(a, g, y) PROVE PromiseEffect
  <2>1. CASE y = "none"
    BY <1>22, <2>1 DEF OwnerSetsRole, Drops
  <2>2. CASE y # "none"
    BY <1>22, <2>2 DEF OwnerSetsRole, Quiet
  <2> QED
    BY <2>1, <2>2
<1>23. CASE UNCHANGED vars
  BY <1>23 DEF vars, Quiet
<1> HIDE DEF PromiseEffect, store, chain, handler, history
<1> QED
  BY <1>1, <1>2, <1>3, <1>4, <1>5, <1>6, <1>7, <1>8, <1>9, <1>10, <1>11, <1>12, <1>13, <1>14, <1>15, <1>16, <1>17, <1>18, <1>19, <1>20, <1>21, <1>22, <1>23
  DEF Next, HandlerStep, FacilitatorStep, ChainStep, PeopleStep

-----------------------------------------------------------------------------
(* The refinement mapping *)

\* The charge that a row stands for once its authorization has paid.
ChargeOf(n) == [key |-> n, account |-> row[n].account, goods |-> GoodsOf[row[n].share]]

Charges == {ChargeOf(n) : n \in {m \in Nonce : Charged(m)}}
Excuses == {h \in Account \X Goods : Excused(h[1], h[2])}

\* A row whose authorization paid is a charge of the abstract specification.
LEMMA ChargeType ==
  ASSUME TypeOK, NEW n \in Nonce, row[n] # None
  PROVE  /\ row[n].account \in Account
         /\ GoodsOf[row[n].share] \in Goods
         /\ ChargeOf(n) \in [key : Nonce, account : Account, goods : Goods]
  BY SettlementAssumption DEF TypeOK, RowData, ChargeOf

\* A row that paid is not dead.
LEMMA ChargedIsNotDead ==
  ASSUME TypeOK, StoreInv, NEW n \in Nonce, Charged(n)
  PROVE  ~Dead(n)
  BY SettlementAssumption DEF Charged, Dead, StoreInv, TypeOK, RowData

\* A newly charged row is charged for the first time or with an excuse.
LEMMA PayAllowed ==
  ASSUME TypeOK, StoreInv, NEW n \in Nonce, NEW a \in Account, NEW g \in Goods,
         \A m \in Nonce : /\ m # n /\ Charged(m) /\ row[m].account = a
                          /\ GoodsOf[row[m].share] = g
                          => Excused(a, g),
         ~Charged(n)
  PROVE  \A c \in Charges : c.account = a /\ c.goods = g => <<a, g>> \in Excuses
<1> SUFFICES ASSUME NEW m \in Nonce, Charged(m), ChargeOf(m).account = a, ChargeOf(m).goods = g
             PROVE  <<a, g>> \in Excuses
  BY DEF Charges
<1>1. row[m].account = a /\ GoodsOf[row[m].share] = g
  BY DEF ChargeOf
<1> QED
  BY <1>1 DEF Excuses

\* Excuses do not change while rows and the history stay.
LEMMA ExcusesStay ==
  ASSUME UNCHANGED <<row, forced, dropped>>
  PROVE  Excuses' = Excuses
  BY DEF Excuses, Excused

\* Only a recorded row is released with --force.
ForcedRows == \A n \in forced : row[n] # None

LEMMA ForcedRowsStep == Inv /\ ForcedRows /\ [Next]_vars => ForcedRows'
<1> SUFFICES ASSUME Inv, ForcedRows, [Next]_vars, NEW n \in forced' PROVE row'[n] # None
  BY DEF ForcedRows
<1> USE DEF Inv
<1>1. row[n] # None
  BY StepPromiseEffect
  DEF PromiseEffect, Quiet, Moves, Forces, Drops, ForcedRows, StoreInv, TypeOK
<1>2. n \in Nonce
  BY StepPromiseEffect DEF PromiseEffect, Quiet, Moves, Forces, Drops, TypeOK
<1> QED
  BY <1>1, <1>2, RowsStay

\* A row is recorded: its authorization may have been used elsewhere already.
LEMMA RecordImplements ==
  ASSUME Inv, ForcedRows, ReleaseAfterCheck, NEW n \in Nonce, NEW d \in RowData,
         Records(n, d), UNCHANGED <<moved, forced, dropped>>
  PROVE  /\ Excuses' = Excuses
         /\ \/ Charges' = Charges
            \/ \E c \in [key : Nonce, account : Account, goods : Goods] :
                  /\ Charges' = Charges \cup {c}
                  /\ \A b \in Charges : b.account = c.account /\ b.goods = c.goods
                                           => <<c.account, c.goods>> \in Excuses
<1> USE DEF Inv
<1>1. /\ row[n] = None /\ row'[n] = d /\ d # None
      /\ \A m \in Nonce \ {n} : row'[m] = row[m]
  BY SettlementAssumption DEF Records, TypeOK
<1>2. Excuses' = Excuses
  BY <1>1 DEF Excuses, Excused, ForcedRows, TypeOK
<1>3. /\ \A m \in Nonce \ {n} : Charged(m)' = Charged(m) /\ ChargeOf(m)' = ChargeOf(m)
      /\ ~Charged(n)
  BY <1>1 DEF Charged, ChargeOf
<1>4. CASE ~Charged(n)'
  <2>1. Charges' = Charges
    BY <1>3, <1>4 DEF Charges
  <2> QED
    BY <1>2, <2>1
<1>5. CASE Charged(n)'
  <2> DEFINE c == [key |-> n, account |-> d.account, goods |-> GoodsOf[d.share]]
  <2>1. d.account \in Account /\ GoodsOf[d.share] \in Goods
    BY SettlementAssumption DEF RowData
  <2>2. ChargeOf(n)' = c
    BY <1>1 DEF ChargeOf
  <2>3. Charges' = Charges \cup {c}
    BY <1>3, <1>5, <2>2 DEF Charges
  <2>4. ASSUME NEW m \in Nonce, m # n, Charged(m), row[m].account = d.account,
               GoodsOf[row[m].share] = GoodsOf[d.share]
        PROVE  Excused(d.account, GoodsOf[d.share])
    <3>1. row[m] # None
      BY <2>4 DEF Charged
    <3> QED
      BY <2>4, <3>1, ChargedIsNotDead, EarlierRowsClosed DEF Records
  <2>5. \A b \in Charges : b.account = d.account /\ b.goods = GoodsOf[d.share]
                              => <<d.account, GoodsOf[d.share]>> \in Excuses
    BY <1>3, <2>1, <2>4, PayAllowed
  <2> QED
    BY <1>2, <2>1, <2>3, <2>5, SMTT(30)
<1> QED
  BY <1>4, <1>5

\* An authorization moves money: the row that recorded it, if any, is charged.
LEMMA MoveImplements ==
  ASSUME Inv, ReleaseAfterCheck, NEW e \in Envelope, Moves(e)
  PROVE  /\ Excuses' = Excuses
         /\ \/ Charges' = Charges
            \/ \E c \in [key : Nonce, account : Account, goods : Goods] :
                  /\ Charges' = Charges \cup {c}
                  /\ \A b \in Charges : b.account = c.account /\ b.goods = c.goods
                                           => <<c.account, c.goods>> \in Excuses
<1> USE DEF Inv
<1> DEFINE n == NonceOf[e]
<1>1. /\ n \in Nonce /\ moved[n] = None /\ moved'[n] = e
      /\ n \notin expired /\ e \notin Malformed
      /\ \A m \in Nonce \ {n} : moved'[m] = moved[m]
  BY SettlementAssumption DEF Moves, CanMove, TypeOK
<1>2. Excuses' = Excuses
  BY ExcusesStay DEF Moves
<1>3. /\ \A m \in Nonce \ {n} : Charged(m)' = Charged(m) /\ ChargeOf(m)' = ChargeOf(m)
      /\ ChargeOf(n)' = ChargeOf(n)
  BY <1>1 DEF Charged, ChargeOf, Moves
<1>4. ~Charged(n)
  BY <1>1, SettlementAssumption DEF Charged, TypeOK, RowData
<1>5. CASE ~Charged(n)'
  <2>1. Charges' = Charges
    BY <1>1, <1>3, <1>4, <1>5 DEF Charges
  <2> QED
    BY <1>2, <2>1
<1>6. CASE Charged(n)'
  <2> DEFINE c == ChargeOf(n)
  <2>1. row[n] # None /\ row[n].envelope = e
    BY <1>1, <1>6 DEF Charged, Moves
  <2>2. /\ row[n].account \in Account /\ GoodsOf[row[n].share] \in Goods
        /\ c \in [key : Nonce, account : Account, goods : Goods]
    BY <1>1, <2>1, ChargeType
  <2>3. Charges' = Charges \cup {c}
    BY <1>1, <1>3, <1>6 DEF Charges
  <2>4. ~Dead(n)
    BY <1>1, <2>1 DEF Dead
  <2>5. ASSUME NEW m \in Nonce, m # n, Charged(m), row[m].account = row[n].account,
               GoodsOf[row[m].share] = GoodsOf[row[n].share]
        PROVE  Excused(row[n].account, GoodsOf[row[n].share])
    BY <1>1, <2>1, <2>4, <2>5, ChargedIsNotDead DEF StoreInv, Twins, Charged
  <2>6. \A b \in Charges : b.account = row[n].account /\ b.goods = GoodsOf[row[n].share]
                              => <<row[n].account, GoodsOf[row[n].share]>> \in Excuses
    BY <1>1, <1>4, <2>2, <2>5, PayAllowed
  <2>7. c.account = row[n].account /\ c.goods = GoodsOf[row[n].share]
    BY DEF ChargeOf
  <2> QED
    BY <1>2, <2>2, <2>3, <2>6, <2>7
<1> QED
  BY <1>5, <1>6

\* Support forces a release: the account of that row is excused for its sale.
LEMMA ForceImplements ==
  ASSUME Inv, NEW n \in Nonce, Forces(n)
  PROVE  /\ Charges' = Charges
         /\ \E h \in Account \X Goods : Excuses' = Excuses \cup {h}
<1> USE DEF Inv
<1> DEFINE h == <<row[n].account, GoodsOf[row[n].share]>>
<1>1. row[n] # None
  BY DEF Forces, StoreInv
<1>2. h \in Account \X Goods
  BY <1>1, ChargeType
<1>3. Charges' = Charges
  BY DEF Forces, Charges, Charged, ChargeOf
<1>4. ASSUME NEW a \in Account, NEW g \in Goods
      PROVE  Excused(a, g)' <=> Excused(a, g) \/ <<a, g>> = h
  BY <1>1 DEF Forces, Excused
<1>5. Excuses' = Excuses \cup {h}
  BY <1>2, <1>4 DEF Excuses
<1> QED
  BY <1>2, <1>3, <1>5

\* The owner takes bought access away: the account may buy it again.
LEMMA DropImplements ==
  ASSUME NEW a \in Account, NEW g \in Goods, Drops(a, g)
  PROVE  /\ Charges' = Charges
         /\ \E h \in Account \X Goods : Excuses' = Excuses \cup {h}
<1>1. Charges' = Charges
  BY DEF Drops, Charges, Charged, ChargeOf
<1>2. Excuses' = Excuses \cup {<<a, g>>}
  BY DEF Drops, Excuses, Excused
<1> QED
  BY <1>1, <1>2

-----------------------------------------------------------------------------
LEMMA PromiseInit == Init => Promise!Init
  BY DEF Init, Promise!Init, Charged, Excused

LEMMA PromiseStep ==
  ASSUME ReleaseAfterCheck
  PROVE  Inv /\ ForcedRows /\ [Next]_vars => [Promise!Next]_(Promise!vars)
<1> SUFFICES ASSUME Inv, ForcedRows, [Next]_vars PROVE [Promise!Next]_(Promise!vars)
  OBVIOUS
<1> USE DEF Promise!Next, Promise!vars, Promise!Pay, Promise!Excuse, Promise!Charge
<1>1. CASE Quiet
  BY <1>1 DEF Quiet, Charged, Excused
<1>2. ASSUME NEW n \in Nonce, NEW d \in RowData,
             Records(n, d), UNCHANGED <<moved, forced, dropped>>
      PROVE  [Promise!Next]_(Promise!vars)
  BY <1>2, RecordImplements DEF Charges, Excuses, ChargeOf
<1>3. ASSUME NEW e \in Envelope, Moves(e) PROVE [Promise!Next]_(Promise!vars)
  BY <1>3, MoveImplements DEF Charges, Excuses, ChargeOf
<1>4. ASSUME NEW n \in Nonce, Forces(n) PROVE [Promise!Next]_(Promise!vars)
  BY <1>4, ForceImplements DEF Charges, Excuses, ChargeOf
<1>5. ASSUME NEW a \in Account, NEW g \in Goods, Drops(a, g)
      PROVE  [Promise!Next]_(Promise!vars)
  BY <1>5, DropImplements DEF Charges, Excuses, ChargeOf
<1> QED
  BY <1>1, <1>2, <1>3, <1>4, <1>5, StepPromiseEffect DEF PromiseEffect, Inv

\* The settlement protocol implements the promise of SaleCharge: an account
\* pays for a sale once, or again with an excuse, provided operators release a
\* row only once `check` showed it expired.
THEOREM KeepsPromiseHolds ==
  ASSUME ReleaseAfterCheck
  PROVE  Spec => KeepsPromise
<1>1. Spec => []ForcedRows
  <2>1. Init => ForcedRows
    BY DEF Init, ForcedRows
  <2> QED
    BY <2>1, ForcedRowsStep, Invariance, PTL DEF Spec
<1> QED
  BY <1>1, PromiseInit, PromiseStep, Invariance, PTL DEF Spec, KeepsPromise, Promise!Spec
=============================================================================
