-------------------------- MODULE ProjectDelivery --------------------------
(***************************************************************************)
(* From a push to the hook of the bound ainize project                     *)
(* (web/lib/git-project-deliveries.ts and git-project-hooks.ts).  After    *)
(* git answered a push, its handler stores one row per branch update and   *)
(* tries to send it; a worker of the same server retries what is left.  A  *)
(* row's lease keeps handler and worker apart and outlives a crash.        *)
(***************************************************************************)
EXTENDS Naturals, Sequences, FiniteSets

CONSTANTS
    Repo, Branch,
    Handler,     \* pushes whose handlers are under way at once
    Worker,      \* the loop of startProjectDeliveryWorker
    MaxCommit,   \* bound: commits made
    MaxPush,     \* bound: pushes
    MaxCrash,    \* bound: crashes of the server
    None

ASSUME DeliveryAssumption ==
    /\ IsFiniteSet(Branch)
    /\ MaxCommit \in Nat /\ MaxPush \in Nat /\ MaxCrash \in Nat
    /\ Worker \notin Handler /\ {None, "lost"} \cap (Handler \cup {Worker}) = {}

VARIABLES
    head,        \* of each branch in the bare repository, 0 when absent
    made,        \* commits made so far
    rows,        \* git_project_deliveries in rowid order; a deleted row stays
                 \*   here with the status "purged"
    hook,        \* repositories with a row in git_project_hooks
    answered,    \* of each handler: updates of a push git has answered
    at, stage,   \* of each process: the row it attempts, and how far it is
    todo,        \* of each process: rows it attempts after that one
    wire,        \* requests on their way to the hook, <<process, row>>
    got,         \* history: rows the hook has accepted
    pushes, crashes

procs   == <<at, stage, todo>>
bounds  == <<pushes, crashes>>
vars    == <<head, made, rows, hook, answered, procs, wire, got, bounds>>

Proc   == Handler \cup {Worker}
Commit == 0..MaxCommit
Lost   == "lost"     \* the lease of an attempt that died with the server
Update == [repo : Repo, branch : Branch, before : Commit, after : Commit,
           moved : BOOLEAN]                \* git made it: the branch moved
Row    == [update : Update, status : {"pending", "delivered", "ignored", "purged"},
           lease : Proc \cup {None, Lost}]

TypeOK ==
    /\ head \in [Repo \X Branch -> Commit] /\ made \in Commit
    /\ rows \in Seq(Row) /\ hook \subseteq Repo
    /\ answered \in [Handler -> Seq(Update)]
    /\ at \in [Proc -> 0..Len(rows)] /\ todo \in [Proc -> Seq(1..Len(rows))]
    /\ stage \in [Proc -> {"none", "bind", "post", "accepted", "skip", "failed"}]
    /\ \A p \in Proc : at[p] = 0 <=> stage[p] = "none"
    /\ wire \subseteq (Proc \cup {None}) \X (1..Len(rows)) /\ got \subseteq 1..Len(rows)
    /\ pushes \in 0..MaxPush /\ crashes \in 0..MaxCrash

Init ==
    /\ head = [rb \in Repo \X Branch |-> 0] /\ made = 0
    /\ rows = <<>> /\ hook = {}
    /\ answered = [h \in Handler |-> <<>>]
    /\ at = [p \in Proc |-> 0] /\ stage = [p \in Proc |-> "none"]
    /\ todo = [p \in Proc |-> <<>>]
    /\ wire = {} /\ got = {} /\ pushes = 0 /\ crashes = 0

-----------------------------------------------------------------------------
(* Pieces of the code *)

Pending(rs, i) == rs[i].status = "pending"

\* No earlier pending row of the same repository.
First(rs, i) ==
    \A j \in 1..(i - 1) : Pending(rs, j) => rs[j].update.repo # rs[i].update.repo

\* Mutant: earlier rows of the repository are not looked at.
ClaimableOutOfOrder(rs, i) == Pending(rs, i) /\ rs[i].lease = None

\* Mutant: the lease is not looked at.
ClaimableLeased(rs, i) == Pending(rs, i) /\ First(rs, i)

\* The claim's WHERE; a head whose backoff is not over is claimed later, or
\* at once by a handler's forced attempt.
Claimable(rs, i) == Pending(rs, i) /\ rs[i].lease = None /\ First(rs, i)

\* Process p goes on to the first row of q it can claim; a claim that changes
\* nothing returns null and the next one is tried.
Attempt(rs, p, q) ==
    \/ /\ \A k \in 1..Len(q) : ~Claimable(rs, q[k])
       /\ rows' = rs
       /\ at' = [at EXCEPT ![p] = 0] /\ stage' = [stage EXCEPT ![p] = "none"]
       /\ todo' = [todo EXCEPT ![p] = <<>>]
       /\ UNCHANGED wire
    \/ \E k \in 1..Len(q) :
          /\ Claimable(rs, q[k]) /\ \A n \in 1..(k - 1) : ~Claimable(rs, q[n])
          /\ rows' = [rs EXCEPT ![q[k]].lease = p]
          /\ at' = [at EXCEPT ![p] = q[k]]
          /\ todo' = [todo EXCEPT ![p] = SubSeq(q, k + 1, Len(q))]
          /\ IF rs[q[k]].update.repo \in hook
             THEN stage' = [stage EXCEPT ![p] = "post"] /\ wire' = wire \cup {<<p, q[k]>>}
             ELSE stage' = [stage EXCEPT ![p] = "bind"] /\ UNCHANGED wire

\* INSERT OR IGNORE: the id is a hash of drive, repository, update and pusher.
Same(u, v) == u = [v EXCEPT !.moved = u.moved]
Receipt(rs, u) == {i \in 1..Len(rs) : rs[i].status # "purged" /\ Same(rs[i].update, u)}

\* The updates of a push that have no receipt: they are of different branches,
\* so one of them is never another one's.
Fresh(us) == {k \in 1..Len(us) : Receipt(rows, us[k]) = {}}

Enqueued(us, q) ==
    rows \o [n \in 1..Len(q) |-> [update |-> us[q[n]], status |-> "pending", lease |-> None]]

\* The lists of the members of S, and the one of numbers in ascending order.
Lists(S) == {q \in [1..Cardinality(S) -> S] : \A x \in S : \E n \in DOMAIN q : q[n] = x}
Ascending(S) == {q \in Lists(S) : \A m, n \in DOMAIN q : m < n => q[m] < q[n]}

-----------------------------------------------------------------------------
(* The server *)

\* `git receive-pack` on the agent: each update is made if the branch still
\* is where the client saw it.  git exits 0 all the same, and every update the
\* client asked for is reported; a deleted branch is not.
Push(h, r, asked, after) ==
    LET ok(b) == head[<<r, b>>] = asked[b]
        up(b) == [repo |-> r, branch |-> b, before |-> asked[b], after |-> after,
                  moved |-> ok(b)]
    IN /\ pushes < MaxPush /\ answered[h] = <<>> /\ at[h] = 0
       /\ after <= made + 1 /\ \A b \in DOMAIN asked : asked[b] <= made /\ asked[b] # after
       /\ head' = [rb \in Repo \X Branch |->
                      IF rb[1] = r /\ rb[2] \in DOMAIN asked /\ ok(rb[2]) THEN after ELSE head[rb]]
       /\ made' = IF after > made THEN after ELSE made
       /\ IF after = 0 THEN UNCHANGED answered
          ELSE \E order \in Lists(DOMAIN asked) : answered' = [answered EXCEPT ![h] =
                   [k \in 1..Len(order) |-> up(order[k])]]
       /\ pushes' = pushes + 1
       /\ UNCHANGED <<rows, hook, procs, wire, got, crashes>>

\* notifyProjectOfRefUpdates: store every update, then the first attempt
\* before anything else runs.
Notify(h) ==
    LET us == answered[h]
    IN /\ us # <<>>
       /\ \E q \in Ascending(Fresh(us)) :
             LET rs == Enqueued(us, q)
             IN Attempt(rs, h, [k \in 1..Len(us) |-> CHOOSE i \in Receipt(rs, us[k]) : TRUE])
       /\ answered' = [answered EXCEPT ![h] = <<>>]
       /\ UNCHANGED <<head, made, hook, got, bounds>>

\* drainProjectDeliveries: the worker lists the heads that are free, and then
\* attempts them one after the other.
Free == {i \in 1..Len(rows) : Claimable(rows, i)}

Drain ==
    /\ at[Worker] = 0 /\ Free # {}
    /\ \E q \in Ascending(Free) : Attempt(rows, Worker, q)
    /\ UNCHANGED <<head, made, hook, answered, got, bounds>>

\* Its last statement, for rows of thirty days ago.
Purge(i) ==
    /\ at[Worker] = 0 /\ rows[i].status \in {"delivered", "ignored"}
    /\ \A w \in wire : w[2] # i
    /\ rows' = [rows EXCEPT ![i].status = "purged"]
    /\ UNCHANGED <<head, made, hook, answered, procs, wire, got, bounds>>

\* autoBindProject finds the project, or makes it, and keeps its secret; the
\* hook of the row that asked is then fired.
Bound(p) ==
    /\ stage[p] = "bind"
    /\ hook' = hook \cup {rows[at[p]].update.repo}
    /\ stage' = [stage EXCEPT ![p] = "post"]
    /\ wire' = wire \cup {<<p, at[p]>>}
    /\ UNCHANGED <<head, made, rows, answered, at, todo, got, bounds>>

\* Mutant: the attempt returns at once and leaves its row claimed.
NotBoundReturns(p, why) ==
    /\ stage[p] = "bind"
    /\ stage' = [stage EXCEPT ![p] = "none"]
    /\ UNCHANGED <<head, made, rows, hook, answered, at, todo, wire, got, bounds>>

\* It cannot: there is no manifest or no organization (skip), or ainize, SSO
\* or the agent refused or failed.
NotBound(p, why) ==
    /\ stage[p] = "bind"
    /\ stage' = [stage EXCEPT ![p] = why]
    /\ UNCHANGED <<head, made, rows, hook, answered, at, todo, wire, got, bounds>>

\* A request reaches the hook, and the answer reaches the attempt that waits.
Answer(w, code) ==
    /\ w \in wire /\ wire' = wire \ {w}
    /\ got' = IF code = "accepted" THEN got \cup {w[2]} ELSE got
    /\ stage' = IF w[1] = None THEN stage ELSE [stage EXCEPT ![w[1]] = code]
    /\ UNCHANGED <<head, made, rows, hook, answered, at, todo, bounds>>

\* The five seconds are over; the request may still arrive.
TimeOut(p) ==
    /\ stage[p] = "post"
    /\ stage' = [stage EXCEPT ![p] = "failed"]
    /\ wire' = (wire \ {<<p, at[p]>>}) \cup {<<None, at[p]>>}
    /\ UNCHANGED <<head, made, rows, hook, answered, at, todo, got, bounds>>

\* Mutant: an attempt that failed does not give its lease back.
SettledKeepingLease(p) ==
    IF stage[p] = "failed" THEN rows
    ELSE [rows EXCEPT ![at[p]].status = IF stage[p] = "skip" THEN "ignored" ELSE "delivered",
                      ![at[p]].lease = None]

\* The UPDATE at the end of an attempt, WHERE lease is its own.
Settled(p) ==
    IF rows[at[p]].lease # p THEN rows
    ELSE [rows EXCEPT ![at[p]].status = CASE stage[p] = "accepted" -> "delivered"
                                          [] stage[p] = "skip"     -> "ignored"
                                          [] OTHER                 -> "pending",
                      ![at[p]].lease = None]

Conclude(p) ==
    /\ stage[p] \in {"accepted", "skip", "failed"}
    /\ Attempt(Settled(p), p, todo[p])
    /\ UNCHANGED <<head, made, hook, answered, got, bounds>>

\* POST and DELETE git-connect.
Connect(r) ==
    /\ hook' = hook \cup {r}
    /\ UNCHANGED <<head, made, rows, answered, procs, wire, got, bounds>>

Disconnect(r) ==
    /\ hook' = hook \ {r}
    /\ UNCHANGED <<head, made, rows, answered, procs, wire, got, bounds>>

\* The server stops: every handler and the worker, and the updates of pushes
\* git has answered but nothing has stored.
Crash ==
    /\ crashes < MaxCrash /\ crashes' = crashes + 1
    /\ rows' = [i \in 1..Len(rows) |->
                   IF rows[i].lease \in Proc THEN [rows[i] EXCEPT !.lease = Lost] ELSE rows[i]]
    /\ answered' = [h \in Handler |-> <<>>]
    /\ at' = [p \in Proc |-> 0] /\ stage' = [p \in Proc |-> "none"]
    /\ todo' = [p \in Proc |-> <<>>]
    /\ wire' = {<<None, w[2]>> : w \in wire}
    /\ UNCHANGED <<head, made, hook, got, pushes>>

\* LEASE_MS after a claim.  An attempt is over by then: its calls are bounded
\* by 5 s each.
LeaseEnds(i) ==
    /\ rows[i].lease = Lost
    /\ rows' = [rows EXCEPT ![i].lease = None]
    /\ UNCHANGED <<head, made, hook, answered, procs, wire, got, bounds>>

Next ==
    \/ \E h \in Handler, r \in Repo, S \in SUBSET Branch \ {{}}, after \in Commit :
           \E asked \in [S -> Commit] : Push(h, r, asked, after)
    \/ \E h \in Handler : Notify(h)
    \/ Drain
    \/ \E i \in 1..Len(rows) : Purge(i)
    \/ \E p \in Proc : Bound(p)
    \/ \E p \in Proc, why \in {"skip", "failed"} : NotBound(p, why)
    \/ \E q \in wire, code \in {"accepted", "failed"} : Answer(q, code)
    \/ \E p \in Proc : TimeOut(p)
    \/ \E p \in Proc : Conclude(p)
    \/ \E r \in Repo : Connect(r)
    \/ \E r \in Repo : Disconnect(r)
    \/ Crash
    \/ \E i \in 1..Len(rows) : LeaseEnds(i)

Accepted(p) == \E w \in wire : w[1] = p /\ Answer(w, "accepted")

\* The server goes on running; ainize and the agent now and then work.
Fairness ==
    /\ WF_vars(Drain)
    /\ \A p \in Proc :
          /\ SF_vars(Accepted(p)) /\ SF_vars(Bound(p) \/ NotBound(p, "skip"))
          /\ WF_vars(TimeOut(p)) /\ WF_vars(Conclude(p))
    /\ WF_vars(\E i \in 1..Len(rows) : LeaseEnds(i))

Spec == Init /\ [][Next]_vars /\ Fairness

-----------------------------------------------------------------------------
(* Properties *)

\* The hook is told of a repository's updates in the order they were stored:
\* when it has accepted one, every earlier one was accepted too, or was given
\* up because the repository was no project.  An attempt that timed out, a
\* crash or a second process never lets a later row pass ("pending events are
\* ordered per repository and survive restart", web/lib/README.md).
InOrder ==
    \A i \in got : \A j \in 1..(i - 1) :
        rows[j].update.repo = rows[i].update.repo /\ rows[j].status # "ignored"
            => rows[j].status = "purged" \/ j \in got

\* The handler of a push and the worker never send the same row at once, also
\* across a crash that leaves a lease behind.
OneSender == \A p, q \in Proc : p # q /\ at[p] # 0 => at[p] # at[q]

\* What is stored is not forgotten: every row is in the end delivered or
\* ignored, though the first attempts fail, time out or die with the server.
Open(i) == i \in 1..Len(rows) /\ Pending(rows, i)

EachHandled == \A i \in 1..(MaxPush * Cardinality(Branch)) : Open(i) ~> ~Open(i)

\* What a comment claims ("after a successful push ... fire the hook for every
\* updated ref"): what the hook is told of did happen to the branch.
OnlyUpdated == \A i \in got : rows[i].update.moved
=============================================================================
