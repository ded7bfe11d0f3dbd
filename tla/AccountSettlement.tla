------------------------- MODULE AccountSettlement -------------------------
(***************************************************************************)
(* Purchases of a paid share by an authenticated account that pays with an *)
(* EIP-3009 authorization.  The server keeps one row per authorization it  *)
(* ever tried to settle; the row is what stops a second charge when the    *)
(* answer of a settle request is lost.                                     *)
(*                                                                         *)
(* Modelled: the request handler (web/app/api/s/[token]/route.ts) with its *)
(* awaits, verifyAndSettle (web/lib/x402-facilitator.ts) with its timeouts *)
(* and its retry, the row's transactions                                   *)
(* (web/lib/x402-account-settlements.js) and the support CLI               *)
(* (web/scripts/x402-settlements.mjs).  The facilitator and the token      *)
(* contract are the environment: one nonce moves money at most once, and a *)
(* transaction is named by the nonce it used.                              *)
(***************************************************************************)
EXTENDS Naturals, FiniteSets

CONSTANTS
    Account,            \* accounts that buy
    Share,              \* paid links
    Goods,              \* what a link sells: a (drive, path, role)
    GoodsOf,            \* [Share -> Goods]; two links may sell the same thing
    Nonce,              \* (network, asset, payer, nonce): the key of a row
    Envelope,           \* signed authorizations (the envelope hash)
    NonceOf,            \* [Envelope -> Nonce]; envelopes may share a nonce
    Malformed,          \* envelopes the facilitator refuses before broadcast
    Request,            \* HTTP requests, each handled once
    ReleaseAfterCheck,  \* operators run `release` only once `check` said "expired"
    None

RowData == [account : Account, share : Share, envelope : Envelope]

\* PRE_BROADCAST_REFUSALS are reasons decided from the payload and static
\* chain facts, so being refused that way is an attribute of the envelope, and
\* such an envelope never pays for the sale.
ASSUME SettlementAssumption ==
    /\ GoodsOf \in [Share -> Goods]
    /\ NonceOf \in [Envelope -> Nonce]
    /\ Malformed \subseteq Envelope
    /\ ReleaseAfterCheck \in BOOLEAN
    /\ None \notin RowData \cup Envelope \cup Nonce \cup Account

VARIABLES
    \* tables of the server's database
    row,        \* the sale snapshot of each recorded authorization, or None
    status,     \* status column of each row
    tx,         \* tx_hash column of each row
    receipt,    \* payment_receipts
    role,       \* drive_members: the account's own role at what is sold
    \* the chain
    moved,      \* the envelope that used each nonce, or None
    expired,    \* nonces whose validBefore has passed
    \* request handlers (lost in a crash) and settle requests (not lost)
    pc, order, attempt,
    answer,     \* the answer to the request a handler waits for, or "none"
    settles,    \* settle requests the facilitator has not answered yet
    \* the support CLI
    releasing,  \* `release` commands between the chain read and the update
    \* history: what lets an account be charged again
    forced,     \* rows released with --force
    dropped     \* (account, goods) whose role the owner took away

store   == <<row, status, tx, receipt, role>>
chain   == <<moved, expired>>
handler == <<pc, order, attempt, answer>>
history == <<forced, dropped>>
vars    == <<store, chain, handler, settles, releasing, history>>

Status  == {"absent", "unresolved", "credited", "released"}
Role    == {"none", "buyer", "manager"}
Order   == [account : Account, share : Share, envelope : Envelope]
Receipt == [tx : Nonce, account : Account \cup {None}, share : Share \cup {None}]
Settle  == [req : Request, attempt : 1..2, envelope : Envelope]
Answer  == {"success", "refused", "failed"}
Waiting == {"settle", "resettle"}

TypeOK ==
    /\ row \in [Nonce -> RowData \cup {None}]
    /\ status \in [Nonce -> Status]
    /\ tx \in [Nonce -> Nonce \cup {None}]
    /\ receipt \subseteq Receipt
    /\ role \in [Account \X Goods -> Role]
    /\ moved \in [Nonce -> Envelope \cup {None}]
    /\ expired \subseteq Nonce
    /\ pc \in [Request -> {"new", "verify", "reverify", "done"} \cup Waiting]
    /\ order \in [Request -> Order \cup {None}]
    /\ \A r \in Request : order[r] = None => pc[r] \in {"new", "done"}
    /\ attempt \in [Request -> 0..2]
    /\ answer \in [Request -> Answer \cup {"none"}]
    /\ \A r \in Request : answer[r] # "none" => pc[r] \in Waiting
    /\ settles \subseteq Settle
    /\ releasing \subseteq Nonce
    /\ forced \subseteq Nonce
    /\ dropped \subseteq Account \X Goods

Init ==
    /\ row = [n \in Nonce |-> None]
    /\ status = [n \in Nonce |-> "absent"]
    /\ tx = [n \in Nonce |-> None]
    /\ receipt = {}
    /\ role = [h \in Account \X Goods |-> "none"]
    /\ moved = [n \in Nonce |-> None]
    /\ expired = {}
    /\ pc = [r \in Request |-> "new"]
    /\ order = [r \in Request |-> None]
    /\ attempt = [r \in Request |-> 0]
    /\ answer = [r \in Request |-> "none"]
    /\ settles = {}
    /\ releasing = {}
    /\ forced = {}
    /\ dropped = {}

-----------------------------------------------------------------------------
(* Reads of the tables *)

\* isSameSale: the same link, or another link that sells the same thing.
SameSale(n, s) == row[n].share = s \/ GoodsOf[row[n].share] = GoodsOf[s]

\* openSettlementFor: the account's unresolved rows for this sale.
Open(a, s) == {n \in Nonce : /\ status[n] = "unresolved"
                             /\ row[n].account = a
                             /\ SameSale(n, s)}

\* holdsPaidShare: a manager passes the paid gate, anyone else needs both the
\* role and a receipt for the sold path.
Holds(a, s) ==
    \/ role[<<a, GoodsOf[s]>>] = "manager"
    \/ /\ role[<<a, GoodsOf[s]>>] = "buyer"
       /\ \E x \in receipt : x.account = a /\ x.share \in Share /\ GoodsOf[x.share] = GoodsOf[s]

\* The row was recorded for this account, this sale and this very envelope.
Mine(n, o) == /\ row[n].account = o.account
              /\ SameSale(n, o.share)
              /\ row[n].envelope = o.envelope

\* Mutant: a transaction with a receipt of someone else's is taken anyway.
CreditableWithoutReceipts(n, t) ==
    /\ row[n] # None
    /\ status[n] # "credited"
    /\ \A m \in Nonce \ {n} : tx[m] # t

\* Mutant: a credited row is credited again.
CreditableAgain(n, t) ==
    /\ row[n] # None
    /\ \A m \in Nonce \ {n} : tx[m] # t
    /\ \A x \in receipt : x.tx = t => /\ x.account = row[n].account
                                      /\ x.share = row[n].share

\* creditSettlement's refusals: the row is already credited, or the
\* transaction already paid for another row or another purchase.
Creditable(n, t) ==
    /\ row[n] # None
    /\ status[n] # "credited"
    /\ \A m \in Nonce \ {n} : tx[m] # t
    /\ \A x \in receipt : x.tx = t => /\ x.account = row[n].account
                                      /\ x.share = row[n].share

-----------------------------------------------------------------------------
(* Transactions on a row *)

\* Mutant: the membership is granted by another transaction, after this one.
CreditReceiptOnly(n, t) ==
    /\ Creditable(n, t)
    /\ status' = [status EXCEPT ![n] = "credited"]
    /\ tx' = [tx EXCEPT ![n] = t]
    /\ receipt' = receipt \cup {[tx |-> t, account |-> row[n].account,
                                 share |-> row[n].share]}
    /\ UNCHANGED <<row, role>>

\* creditSettlement: receipt, membership (upgrade-only) and status together.
Credit(n, t) ==
    LET a == row[n].account
        g == GoodsOf[row[n].share]
    IN /\ Creditable(n, t)
       /\ status' = [status EXCEPT ![n] = "credited"]
       /\ tx' = [tx EXCEPT ![n] = t]
       /\ receipt' = receipt \cup {[tx |-> t, account |-> a, share |-> row[n].share]}
       /\ role' = [role EXCEPT ![<<a, g>>] = IF @ = "none" THEN "buyer" ELSE @]
       /\ UNCHANGED row

\* releaseSettlement: only an unresolved row changes.
Release(n) ==
    /\ status' = [status EXCEPT ![n] = IF @ = "unresolved" THEN "released" ELSE @]
    /\ UNCHANGED <<row, tx, receipt, role>>

\* Mutant: the answer outlives the handler that waited for it.
FinishKeepingAnswer(r) == /\ pc' = [pc EXCEPT ![r] = "done"]
                          /\ order' = [order EXCEPT ![r] = None]
                          /\ attempt' = [attempt EXCEPT ![r] = 0]
                          /\ UNCHANGED answer

\* The response is sent and the handler's locals are gone.
Finish(r) == /\ pc' = [pc EXCEPT ![r] = "done"]
             /\ order' = [order EXCEPT ![r] = None]
             /\ attempt' = [attempt EXCEPT ![r] = 0]
             /\ answer' = [answer EXCEPT ![r] = "none"]

SendSettle(r, o, k) ==
    settles' = settles \cup
        {[req |-> r, attempt |-> k, envelope |-> o.envelope]}

-----------------------------------------------------------------------------
(* The request handler.  A request answered before any await changes nothing *)
(* and is left out.                                                          *)

ArriveNew(r, o) ==
    /\ pc[r] = "new"
    /\ ~Holds(o.account, o.share)
    /\ row[NonceOf[o.envelope]] = None
    /\ Open(o.account, o.share) = {}
    /\ pc' = [pc EXCEPT ![r] = "verify"]
    /\ order' = [order EXCEPT ![r] = o]
    /\ UNCHANGED <<attempt, answer, store, chain, settles, releasing, history>>

ArriveResend(r, o) ==
    /\ pc[r] = "new"
    /\ ~Holds(o.account, o.share)
    /\ row[NonceOf[o.envelope]] # None
    /\ Mine(NonceOf[o.envelope], o)
    /\ status[NonceOf[o.envelope]] = "unresolved"
    /\ pc' = [pc EXCEPT ![r] = "reverify"]
    /\ order' = [order EXCEPT ![r] = o]
    /\ UNCHANGED <<attempt, answer, store, chain, settles, releasing, history>>

\* The facilitator's verify refused, or could not be reached twice.
VerifyFails(r) ==
    /\ pc[r] \in {"verify", "reverify"}
    /\ Finish(r)
    /\ UNCHANGED <<store, chain, settles, releasing, history>>

\* Mutant: only the nonce's own row is looked up.
RecordableByNonce(o) == row[NonceOf[o.envelope]] = None

\* Mutant: access bought since the route's check is not looked at again.
RecordableThoughHeld(o) ==
    /\ row[NonceOf[o.envelope]] = None
    /\ Open(o.account, o.share) = {}

\* beforeSettle of a new authorization: recordBeforeSettle's IMMEDIATE
\* transaction checks everything again and inserts the row.
Recordable(o) ==
    /\ row[NonceOf[o.envelope]] = None
    /\ Open(o.account, o.share) = {}
    /\ ~Holds(o.account, o.share)

RecordBeforeSettle(r) ==
    LET o == order[r]
        n == NonceOf[o.envelope]
    IN /\ pc[r] = "verify"
       /\ Recordable(o)
       /\ row' = [row EXCEPT ![n] = [account |-> o.account, share |-> o.share,
                                     envelope |-> o.envelope]]
       /\ status' = [status EXCEPT ![n] = "unresolved"]
       /\ SendSettle(r, o, 1)
       /\ pc' = [pc EXCEPT ![r] = "settle"]
       /\ attempt' = [attempt EXCEPT ![r] = 1]
       /\ UNCHANGED <<order, answer, tx, receipt, role, chain, releasing, history>>

\* conflict, pending or held: nothing is recorded and nothing is sent.
RecordRefused(r) ==
    /\ pc[r] = "verify"
    /\ ~Recordable(order[r])
    /\ Finish(r)
    /\ UNCHANGED <<store, chain, settles, releasing, history>>

\* beforeSettle of a resend: settle again only while the row is unresolved.
Resettle(r) ==
    /\ pc[r] = "reverify"
    /\ status[NonceOf[order[r].envelope]] = "unresolved"
    /\ SendSettle(r, order[r], 1)
    /\ pc' = [pc EXCEPT ![r] = "resettle"]
    /\ attempt' = [attempt EXCEPT ![r] = 1]
    /\ UNCHANGED <<order, answer, store, chain, releasing, history>>

ResettleRefused(r) ==
    /\ pc[r] = "reverify"
    /\ status[NonceOf[order[r].envelope]] # "unresolved"
    /\ Finish(r)
    /\ UNCHANGED <<store, chain, settles, releasing, history>>

\* The first settle request timed out or the connection failed: one retry.
SettleRetry(r) ==
    /\ pc[r] \in Waiting
    /\ attempt[r] = 1
    /\ SendSettle(r, order[r], 2)
    /\ attempt' = [attempt EXCEPT ![r] = 2]
    /\ answer' = [answer EXCEPT ![r] = "none"]
    /\ UNCHANGED <<pc, order, store, chain, releasing, history>>

\* The retry failed too, or the first answer was unreadable: noteUncertain.
SettleUncertain(r) ==
    /\ pc[r] \in Waiting
    /\ Finish(r)
    /\ UNCHANGED <<store, chain, settles, releasing, history>>

AnswerSuccess(r) ==
    LET n == NonceOf[order[r].envelope]
    IN /\ answer[r] = "success"
       /\ Credit(n, n)
       /\ Finish(r)
       /\ UNCHANGED <<chain, settles, releasing, history>>

\* The credit was refused or threw (also: already credited): the row stays.
AnswerNotCredited(r) ==
    /\ answer[r] = "success"
    /\ Finish(r)
    /\ UNCHANGED <<store, chain, settles, releasing, history>>

\* Mutant: every failure of the facilitator counts as refused before broadcast.
AnyFailureReleases(r) ==
    /\ answer[r] \in {"refused", "failed"}
    /\ IF pc[r] = "settle" /\ attempt[r] = 1
       THEN Release(NonceOf[order[r].envelope])
       ELSE UNCHANGED store
    /\ Finish(r)
    /\ UNCHANGED <<chain, settles, releasing, history>>

\* Refused before broadcast: release only a row this request recorded, and
\* only when this is the answer to its single settle request.
AnswerRefused(r) ==
    /\ answer[r] = "refused"
    /\ IF pc[r] = "settle" /\ attempt[r] = 1
       THEN Release(NonceOf[order[r].envelope])
       ELSE UNCHANGED store
    /\ Finish(r)
    /\ UNCHANGED <<chain, settles, releasing, history>>

\* The server process stops: handlers and their timers are gone, the tables
\* and the settle requests already sent are not.
Crash ==
    /\ \E r \in Request : pc[r] \notin {"new", "done"}
    /\ pc' = [r \in Request |-> IF pc[r] = "new" THEN "new" ELSE "done"]
    /\ order' = [r \in Request |-> None]
    /\ attempt' = [r \in Request |-> 0]
    /\ answer' = [r \in Request |-> "none"]
    /\ UNCHANGED <<store, chain, settles, releasing, history>>

-----------------------------------------------------------------------------
(* The facilitator and the chain *)

CanMove(e) == /\ e \notin Malformed
              /\ moved[NonceOf[e]] = None
              /\ NonceOf[e] \notin expired

\* The facilitator answers once; an answer nobody waits for is not read.
Reply(j, x) ==
    /\ settles' = settles \ {j}
    /\ answer' = IF pc[j.req] \in Waiting /\ attempt[j.req] = j.attempt
                 THEN [answer EXCEPT ![j.req] = x] ELSE answer
    /\ UNCHANGED <<pc, order, attempt>>

\* The transfer is mined; the facilitator may still report a failure.
FacilitatorTransfers(j, x) ==
    /\ CanMove(j.envelope)
    /\ moved' = [moved EXCEPT ![NonceOf[j.envelope]] = j.envelope]
    /\ Reply(j, x)
    /\ UNCHANGED <<expired, store, releasing, history>>

\* Without a transfer: refused before broadcast, success repeated for the
\* authorization that already paid, or any other failure.
FacilitatorReplies(j, x) ==
    /\ \/ x = "refused" /\ j.envelope \in Malformed
       \/ x = "success" /\ moved[NonceOf[j.envelope]] = j.envelope
       \/ x = "failed"
    /\ Reply(j, x)
    /\ UNCHANGED <<chain, store, releasing, history>>

\* The same authorization settled outside this guard: by an anonymous request
\* (whose receipt is written when its own answer arrives) or by anyone who has
\* the envelope.
UsedElsewhere(e, receipted) ==
    /\ CanMove(e)
    /\ moved' = [moved EXCEPT ![NonceOf[e]] = e]
    /\ receipt' = IF receipted /\ \A x \in receipt : x.tx # NonceOf[e]
                  THEN receipt \cup {[tx |-> NonceOf[e], account |-> None, share |-> None]}
                  ELSE receipt
    /\ UNCHANGED <<expired, row, status, tx, role, handler, settles, releasing, history>>

Expire(n) ==
    /\ n \notin expired
    /\ expired' = expired \cup {n}
    /\ UNCHANGED <<moved, store, handler, settles, releasing, history>>

-----------------------------------------------------------------------------
(* Support and the drive's owner *)

\* `credit`: any transaction hash with --force --skip-chain-check.
SupportCredits(n, t) ==
    /\ Credit(n, t)
    /\ UNCHANGED <<chain, handler, settles, releasing, history>>

\* `release` without --force awaits the chain's authorizationState ...
SupportReadsChain(n) ==
    /\ status[n] = "unresolved"
    /\ ReleaseAfterCheck => n \in expired
    /\ moved[n] = None
    /\ releasing' = releasing \cup {n}
    /\ UNCHANGED <<store, chain, handler, settles, history>>

\* ... and then compares validBefore with the clock and updates the row.
SupportReleases(n) ==
    /\ n \in releasing
    /\ releasing' = releasing \ {n}
    /\ IF n \in expired THEN Release(n) ELSE UNCHANGED store
    /\ UNCHANGED <<chain, handler, settles, history>>

SupportForcesRelease(n) ==
    /\ status[n] = "unresolved"
    /\ Release(n)
    /\ forced' = forced \cup {n}
    /\ UNCHANGED <<chain, handler, settles, releasing, dropped>>

OwnerSetsRole(a, g, x) ==
    /\ role[<<a, g>>] # x
    /\ role' = [role EXCEPT ![<<a, g>>] = x]
    /\ dropped' = IF x = "none" THEN dropped \cup {<<a, g>>} ELSE dropped
    /\ UNCHANGED <<row, status, tx, receipt, chain, handler, settles, releasing, forced>>

-----------------------------------------------------------------------------
HandlerStep ==
    \/ \E r \in Request, o \in Order : ArriveNew(r, o) \/ ArriveResend(r, o)
    \/ \E r \in Request : \/ VerifyFails(r)
                          \/ RecordBeforeSettle(r) \/ RecordRefused(r)
                          \/ Resettle(r) \/ ResettleRefused(r)
                          \/ SettleRetry(r) \/ SettleUncertain(r)
                          \/ AnswerSuccess(r) \/ AnswerNotCredited(r)
                          \/ AnswerRefused(r)
    \/ Crash

FacilitatorStep ==
    \/ \E j \in settles, x \in {"success", "failed"} : FacilitatorTransfers(j, x)
    \/ \E j \in settles, x \in Answer : FacilitatorReplies(j, x)

ChainStep ==
    \/ \E e \in Envelope, receipted \in BOOLEAN : UsedElsewhere(e, receipted)
    \/ \E n \in Nonce : Expire(n)

PeopleStep ==
    \/ \E n, t \in Nonce : SupportCredits(n, t)
    \/ \E n \in Nonce : \/ SupportReadsChain(n) \/ SupportReleases(n)
                        \/ SupportForcesRelease(n)
    \/ \E a \in Account, g \in Goods, x \in Role : OwnerSetsRole(a, g, x)

Next == HandlerStep \/ FacilitatorStep \/ ChainStep \/ PeopleStep

Spec == Init /\ [][Next]_vars

-----------------------------------------------------------------------------
(* Properties *)

\* The row's authorization moved the account's money.
Charged(n) == row[n] # None /\ moved[n] = row[n].envelope

\* Two rows of one account that are for the same thing.
Twins(m, n) == /\ row[m] # None /\ row[n] # None
               /\ row[m].account = row[n].account
               /\ GoodsOf[row[m].share] = GoodsOf[row[n].share]

\* What lets the account be charged again: support forced a release of one of
\* its rows for this, or the owner took its access away.
Excused(a, g) ==
    \/ <<a, g>> \in dropped
    \/ \E n \in forced : row[n] # None /\ row[n].account = a /\ GoodsOf[row[n].share] = g

\* An account is never charged by two different authorizations for the same
\* sale, whatever answers of the facilitator are lost, late or repeated, on
\* whatever links that sell it, and across crashes of the server
\* (docs/X402_PAYMENT_PENDING.md, "Only stop a second charge").
NoSecondCharge ==
    \A m, n \in Nonce :
        (m # n /\ Twins(m, n) /\ Charged(m) /\ Charged(n))
            => Excused(row[n].account, GoodsOf[row[n].share])

\* A row whose authorization paid is never closed as unpaid: it is unresolved
\* (support sees it) or credited, unless an operator forced its release.
PaidRowIsNotReleased ==
    \A n \in Nonce : Charged(n) /\ status[n] = "released" => n \in forced

\* Two requests that pass the route's first check together still leave at most
\* one unresolved row per account and sale.
OneUnresolvedRow ==
    \A m, n \in Nonce :
        (m # n /\ Twins(m, n) /\ status[m] = "unresolved") => status[n] # "unresolved"

\* A transaction pays for one purchase: no two receipts and no two rows share
\* it, even when its nonce was also settled by an anonymous request or support
\* credits a row with another row's transaction.
OneTxOnePurchase ==
    /\ \A m, n \in Nonce : tx[m] # None /\ tx[m] = tx[n] => m = n
    /\ \A x, y \in receipt : x.tx = y.tx => x = y

\* Crediting is all or nothing: a credited row has its account's receipt and,
\* unless the owner removed it since, its membership.
CreditIsWhole ==
    \A n \in Nonce : status[n] = "credited" =>
        LET a == row[n].account
            g == GoodsOf[row[n].share]
        IN /\ [tx |-> tx[n], account |-> a, share |-> row[n].share] \in receipt
           /\ role[<<a, g>>] # "none" \/ <<a, g>> \in dropped

\* A recorded row never changes hands, a resolved row never becomes unresolved
\* again and a credited one keeps its transaction, whichever of the request,
\* a parallel resend and support acts last.
RowIsFinal ==
    [][\A n \in Nonce :
         /\ row[n] # None => row'[n] = row[n]
         /\ status[n] \in {"credited", "released"} => status'[n] \in {status[n], "credited"}
         /\ status[n] = "credited" => tx'[n] = tx[n]]_vars

\* The promise: SaleCharge, with a charge for every row whose authorization
\* paid.
Promise == INSTANCE SaleCharge WITH
    Key <- Nonce,
    charges <- {[key |-> n, account |-> row[n].account, goods |-> GoodsOf[row[n].share]] :
                   n \in {m \in Nonce : Charged(m)}},
    excused <- {h \in Account \X Goods : Excused(h[1], h[2])}

\* The settlement protocol implements the promise of SaleCharge.
KeepsPromise == Promise!Spec
=============================================================================
