----------------------- MODULE ProjectDeliveryProofs -----------------------
(***************************************************************************)
(* Proofs about ProjectDelivery, for any repositories, branches, handlers,  *)
(* pushes and crashes: the hook is told of a repository's updates in order, *)
(* and no two processes attempt the same row.                              *)
(***************************************************************************)
EXTENDS ProjectDelivery, FiniteSetTheorems, SequenceTheorems, TLAPS

-----------------------------------------------------------------------------
(* The invariant *)

\* What the queue's variables are; the rest of TypeOK.
QueueType ==
    /\ rows \in Seq(Row)
    /\ at \in [Proc -> 0..Len(rows)] /\ todo \in [Proc -> Seq(1..Len(rows))]
    /\ stage \in [Proc -> {"none", "bind", "post", "accepted", "skip", "failed"}]
    /\ \A p \in Proc : at[p] = 0 <=> stage[p] = "none"
    /\ wire \subseteq (Proc \cup {None}) \X (1..Len(rows)) /\ got \subseteq 1..Len(rows)

RestType ==
    /\ head \in [Repo \X Branch -> Commit] /\ made \in Commit /\ hook \subseteq Repo
    /\ answered \in [Handler -> Seq(Update)]
    /\ pushes \in 0..MaxPush /\ crashes \in 0..MaxCrash

\* An attempt of the row has begun, lately or long ago.
Started(i) ==
    \/ ~Pending(rows, i) \/ i \in got
    \/ \E p \in Proc : at[p] = i
    \/ \E w \in wire : w[2] = i

\* Whose attempt has begun has no pending row of its repository before it.
OrderInv == \A i \in 1..Len(rows) : Started(i) => First(rows, i)

\* An attempt holds the lease of its row, which is pending.
LeaseInv == \A p \in Proc : at[p] # 0 => Pending(rows, at[p]) /\ rows[at[p]].lease = p

\* What counts as delivered was accepted.
ToldInv ==
    /\ \A i \in 1..Len(rows) : rows[i].status = "delivered" => i \in got
    /\ \A p \in Proc : stage[p] = "accepted" => at[p] \in got

\* A request somebody waits for is the one of the attempt.
WireInv == \A w \in wire : w[1] \in Proc => stage[w[1]] = "post" /\ at[w[1]] = w[2]

\* A handler stores what git answered before it attempts anything.
BusyInv == \A h \in Handler : answered[h] # <<>> => at[h] = 0

Queue == QueueType /\ OrderInv /\ LeaseInv /\ ToldInv /\ WireInv
Inv   == RestType /\ BusyInv /\ Queue

LEMMA TypeParts == TypeOK <=> QueueType /\ RestType
BY DEF TypeOK, QueueType, RestType

-----------------------------------------------------------------------------
(* An attempt *)

\* rs is what the rows have become when process p goes on to the first row of q.
Ready(rs, p, q) ==
    /\ rs \in Seq(Row) /\ Len(rs) >= Len(rows) /\ q \in Seq(1..Len(rs))
    /\ \A i \in 1..Len(rows) :
          /\ rs[i].update = rows[i].update /\ (Pending(rs, i) => Pending(rows, i))
          /\ ~Pending(rs, i) => ~Pending(rows, i) \/ at[p] = i
    /\ \A i \in 1..Len(rs) : i > Len(rows) => Pending(rs, i)
    /\ \A x \in Proc \ {p} : at[x] # 0 => rs[at[x]] = rows[at[x]]
    /\ \A i \in 1..Len(rs) : rs[i].status = "delivered" => i \in got
    /\ stage[p] # "post"

\* A row gets a lease.
Lease == Proc \cup {None, Lost}
LeaseSet(s, i, l, t) == t = [s EXCEPT ![i].lease = l]

LEMMA Leased ==
  ASSUME NEW s \in Seq(Row), NEW i \in 1..Len(s), NEW l \in Lease,
         NEW t, LeaseSet(s, i, l, t)
  PROVE  /\ t \in Seq(Row) /\ Len(t) = Len(s)
         /\ t[i].lease = l /\ t[i].update = s[i].update /\ t[i].status = s[i].status
         /\ \A j \in 1..Len(s) : j # i => t[j] = s[j]
<1>1. Len(t) = Len(s) /\ t[i].lease = l /\ t[i].update = s[i].update /\ t[i].status = s[i].status
  BY DEF Row, LeaseSet
<1>2. \A j \in 1..Len(s) : j # i => t[j] = s[j]
  BY DEF Row, LeaseSet
<1>3. t[i] \in Row
  <2>1. t[i] = [s[i] EXCEPT !.lease = l]
    BY DEF LeaseSet
  <2> DEFINE r == s[i]
  <2>2. r \in Row
    OBVIOUS
  <2> HIDE DEF r
  <2>3. [r EXCEPT !.lease = l] \in Row
    BY <2>2 DEF Row, Lease
  <2> QED
    BY <2>1, <2>3 DEF r
<1>4. t \in Seq(Row)
  <2>1. t = [s EXCEPT ![i] = t[i]]
    BY DEF LeaseSet
  <2> DEFINE x == t[i]
  <2> HIDE DEF x
  <2> QED
    BY <1>3, <2>1 DEF x
<1> QED
  BY <1>1, <1>2, <1>4

\* Order is kept while rows only get updates behind them and cease to be pending.
LEMMA FirstStays ==
  ASSUME NEW rs, NEW ts, rs \in Seq(Row), ts \in Seq(Row), NEW i \in 1..Len(rs), First(rs, i),
         \A j \in 1..Len(rs) : ts[j].update = rs[j].update /\ (Pending(ts, j) => Pending(rs, j))
  PROVE  First(ts, i)
BY DEF First

LEMMA AttemptKeeps ==
  ASSUME Queue, NEW p \in Proc, NEW rs, NEW q, Ready(rs, p, q), Attempt(rs, p, q), UNCHANGED got
  PROVE  Queue'
<1> USE DeliveryAssumption DEF Queue
<1>0. /\ rs \in Seq(Row) /\ Len(rs) \in Nat /\ Len(rows) \in Nat /\ Len(rs) >= Len(rows)
      /\ None \notin Proc
  BY DEF Ready, QueueType, Proc
<1>f. \A i \in 1..Len(rows) : First(rows, i) => First(rs, i)
  <2> SUFFICES ASSUME NEW i \in 1..Len(rows), First(rows, i), NEW j \in 1..(i - 1), Pending(rs, j)
               PROVE  rs[j].update.repo # rs[i].update.repo
    BY DEF First
  <2>1. j \in 1..Len(rows)
    BY <1>0
  <2>2. rs[j].update = rows[j].update /\ rs[i].update = rows[i].update /\ Pending(rows, j)
    BY <2>1 DEF Ready
  <2> QED
    BY <2>2 DEF First
<1>1. CASE /\ rows' = rs /\ at' = [at EXCEPT ![p] = 0]
           /\ stage' = [stage EXCEPT ![p] = "none"] /\ todo' = [todo EXCEPT ![p] = <<>>]
           /\ UNCHANGED wire
  <2>1. QueueType'
    BY <1>0, <1>1 DEF QueueType, Ready
  <2>2. OrderInv'
    <3> SUFFICES ASSUME NEW i \in 1..Len(rs), Started(i)'
                 PROVE  First(rs, i)
      BY <1>1 DEF OrderInv
    <3>1. i \in 1..Len(rows)
      BY <1>0, <1>1, <2>1 DEF Started, Ready, QueueType, Pending
    <3>2. Started(i)
      BY <1>0, <1>1, <3>1 DEF Started, Ready, QueueType
    <3> QED
      BY <3>1, <3>2, <1>f DEF OrderInv
  <2>3. LeaseInv'
    BY <1>0, <1>1 DEF LeaseInv, Ready, QueueType, Pending
  <2>4. ToldInv'
    BY <1>0, <1>1 DEF ToldInv, Ready, QueueType
  <2>5. WireInv'
    BY <1>0, <1>1 DEF WireInv, Ready, QueueType
  <2> QED
    BY <2>1, <2>2, <2>3, <2>4, <2>5
<1>2. ASSUME NEW k \in 1..Len(q), Claimable(rs, q[k]),
             rows' = [rs EXCEPT ![q[k]].lease = p], at' = [at EXCEPT ![p] = q[k]],
             todo' = [todo EXCEPT ![p] = SubSeq(q, k + 1, Len(q))],
             NEW s \in {"post", "bind"}, stage' = [stage EXCEPT ![p] = s],
             \/ s = "post" /\ wire' = wire \cup {<<p, q[k]>>}
             \/ s = "bind" /\ UNCHANGED wire
      PROVE  Queue'
  <2> DEFINE n == q[k]
  <2>0. n \in 1..Len(rs) /\ n # 0 /\ Pending(rs, n) /\ rs[n].lease = None /\ First(rs, n)
    BY <1>0, <1>2 DEF Ready, Claimable
  <2>1. /\ rows' \in Seq(Row) /\ Len(rows') = Len(rs)
        /\ \A i \in 1..Len(rs) : rows'[i].update = rs[i].update /\ rows'[i].status = rs[i].status
                                 /\ (i # n => rows'[i] = rs[i])
        /\ rows'[n].lease = p
    <3>1. rows' = [rs EXCEPT ![n].lease = p]
      BY <1>2
    <3> HIDE DEF n
    <3>2. PICK ts : ts = rows'
      OBVIOUS
    <3>3. LeaseSet(rs, n, p, ts) /\ p \in Lease
      BY <3>1, <3>2 DEF LeaseSet, Lease
    <3>4. /\ ts \in Seq(Row) /\ Len(ts) = Len(rs)
          /\ ts[n].lease = p /\ ts[n].update = rs[n].update /\ ts[n].status = rs[n].status
          /\ \A j \in 1..Len(rs) : j # n => ts[j] = rs[j]
      BY <1>0, <2>0, <3>3, Leased
    <3> QED
      BY <3>2, <3>4
  <2>a. \A x \in Proc : at'[x] = IF x = p THEN n ELSE at[x]
    BY <1>2 DEF QueueType
  <2>b. \A x \in Proc : stage'[x] = IF x = p THEN s ELSE stage[x]
    BY <1>2 DEF QueueType
  <2>w. /\ wire' \subseteq wire \cup {<<p, n>>} /\ wire \subseteq wire'
        /\ \A w \in wire' : w \notin wire => s = "post" /\ w = <<p, n>>
    BY <1>2
  <2>d. todo' \in [Proc -> Seq(1..Len(rs))]
    <3>1. SubSeq(q, k + 1, Len(q)) \in Seq(1..Len(rs))
      BY <1>0 DEF Ready
    <3>2. \A x \in Proc : todo[x] \in Seq(1..Len(rs))
      BY <1>0 DEF QueueType
    <3> QED
      BY <1>2, <3>1, <3>2 DEF QueueType
  <2>e. \A x \in Proc \ {p} : at[x] # 0 => at[x] # n
    BY <1>0, <2>0 DEF Ready, LeaseInv
  <2> HIDE DEF n
  <2>2. QueueType'
    <3>0. at' = [at EXCEPT ![p] = n]
      BY <1>2 DEF n
    <3>1. at' \in [Proc -> 0..Len(rs)]
      BY <1>0, <2>0, <3>0 DEF QueueType
    <3>4. stage' \in [Proc -> {"none", "bind", "post", "accepted", "skip", "failed"}]
      BY <1>2 DEF QueueType
    <3>2. wire' \subseteq (Proc \cup {None}) \X (1..Len(rs)) /\ got' \subseteq 1..Len(rs)
      BY <1>0, <2>0, <2>w DEF QueueType
    <3>3. \A x \in Proc : at'[x] = 0 <=> stage'[x] = "none"
      BY <2>a, <2>b, <2>0, <1>2 DEF QueueType
    <3> QED
      BY <2>1, <2>d, <3>1, <3>2, <3>3, <3>4 DEF QueueType
  <2>3. OrderInv'
    <3> SUFFICES ASSUME NEW i \in 1..Len(rs), Started(i)'
                 PROVE  First(rows', i)
      BY <2>1 DEF OrderInv
    <3>1. First(rs, i)
      <4>1. CASE i = n
        BY <4>1, <2>0
      <4>2. CASE i # n
        <5>1. i \in 1..Len(rows)
          BY <1>0, <4>2, <2>1, <2>a, <2>w DEF Started, Ready, QueueType, Pending
        <5>2. Started(i)
          <6>1. CASE ~Pending(rows', i)
            BY <1>0, <4>2, <2>1, <5>1, <6>1 DEF Started, Ready, Pending
          <6>2. CASE i \in got'
            BY <6>2 DEF Started
          <6>3. ASSUME NEW x \in Proc, at'[x] = i PROVE Started(i)
            BY <4>2, <2>a, <6>3 DEF Started
          <6>4. ASSUME NEW w \in wire', w[2] = i PROVE Started(i)
            BY <4>2, <2>w, <6>4 DEF Started
          <6> QED
            BY <6>1, <6>2, <6>3, <6>4 DEF Started
        <5> QED
          BY <5>1, <5>2, <1>f DEF OrderInv
      <4> QED
        BY <4>1, <4>2
    <3> QED
      BY <1>0, <2>1, <3>1 DEF First, Pending
  <2>4. LeaseInv'
    <3> SUFFICES ASSUME NEW x \in Proc, at'[x] # 0
                 PROVE  Pending(rows', at'[x]) /\ rows'[at'[x]].lease = x
      BY DEF LeaseInv
    <3>1. CASE x = p
      BY <2>0, <2>1, <2>a, <3>1 DEF Pending
    <3>2. CASE x # p
      <4>1. at'[x] = at[x] /\ at[x] # n /\ at[x] \in 1..Len(rows) /\ rs[at[x]] = rows[at[x]]
        BY <1>0, <2>a, <2>e, <3>2 DEF Ready, QueueType
      <4> QED
        BY <1>0, <2>1, <4>1 DEF LeaseInv, Pending
    <3> QED
      BY <3>1, <3>2
  <2>5. ToldInv'
    BY <1>0, <2>0, <2>1, <2>a, <2>b, <1>2 DEF ToldInv, Ready, QueueType
  <2>6. WireInv'
    <3> SUFFICES ASSUME NEW w \in wire', w[1] \in Proc
                 PROVE  stage'[w[1]] = "post" /\ at'[w[1]] = w[2]
      BY DEF WireInv
    <3>1. CASE w \in wire
      BY <2>a, <2>b, <3>1 DEF WireInv, Ready
    <3>2. CASE w \notin wire
      BY <2>a, <2>b, <2>w, <3>2
    <3> QED
      BY <3>1, <3>2
  <2> QED
    BY <2>2, <2>3, <2>4, <2>5, <2>6
<1> QED
  BY <1>1, <1>2 DEF Attempt

-----------------------------------------------------------------------------
(* The other steps of the queue *)

\* A row gets another status.
StatusSet(s, i, l, t) == t = [s EXCEPT ![i].status = l]

LEMMA Relabelled ==
  ASSUME NEW s \in Seq(Row), NEW i \in 1..Len(s),
         NEW l \in {"pending", "delivered", "ignored", "purged"},
         NEW t, StatusSet(s, i, l, t)
  PROVE  /\ t \in Seq(Row) /\ Len(t) = Len(s)
         /\ t[i].status = l /\ t[i].update = s[i].update /\ t[i].lease = s[i].lease
         /\ \A j \in 1..Len(s) : j # i => t[j] = s[j]
<1>1. /\ Len(t) = Len(s) /\ t[i].status = l /\ t[i].update = s[i].update
      /\ t[i].lease = s[i].lease
  BY DEF Row, StatusSet
<1>2. \A j \in 1..Len(s) : j # i => t[j] = s[j]
  BY DEF Row, StatusSet
<1>3. t[i] \in Row
  <2>1. t[i] = [s[i] EXCEPT !.status = l]
    BY DEF StatusSet
  <2> DEFINE r == s[i]
  <2>2. r \in Row
    OBVIOUS
  <2> HIDE DEF r
  <2>3. [r EXCEPT !.status = l] \in Row
    BY <2>2 DEF Row
  <2> QED
    BY <2>1, <2>3 DEF r
<1>4. t \in Seq(Row)
  <2>1. t = [s EXCEPT ![i] = t[i]]
    BY DEF StatusSet
  <2> DEFINE x == t[i]
  <2> HIDE DEF x
  <2> QED
    BY <1>3, <2>1 DEF x
<1> QED
  BY <1>1, <1>2, <1>4

\* What no attempt sees of a change of the rows.
LEMMA RowsTouched ==
  ASSUME Queue, UNCHANGED <<at, stage, todo, wire, got>>,
         rows' \in Seq(Row), Len(rows') = Len(rows),
         \A i \in 1..Len(rows) :
            /\ rows'[i].update = rows[i].update /\ (Pending(rows', i) <=> Pending(rows, i))
            /\ rows'[i].status = "delivered" => rows[i].status = "delivered",
         \A p \in Proc : at[p] # 0 => rows'[at[p]].lease = rows[at[p]].lease
  PROVE  Queue'
<1> USE DEF Queue
<1>0. Len(rows) \in Nat
  BY DEF QueueType
<1>1. QueueType'
  BY DEF QueueType
<1>2. OrderInv'
  <2> SUFFICES ASSUME NEW i \in 1..Len(rows), Started(i)'
               PROVE  First(rows', i)
    BY DEF OrderInv
  <2>1. First(rows, i)
    BY DEF OrderInv, Started
  <2> QED
    BY <1>0, <2>1 DEF First
<1>3. LeaseInv'
  <2> SUFFICES ASSUME NEW p \in Proc, at[p] # 0
               PROVE  Pending(rows', at[p]) /\ rows'[at[p]].lease = p
    BY DEF LeaseInv
  <2>1. at[p] \in 1..Len(rows) /\ Pending(rows, at[p]) /\ rows[at[p]].lease = p
    BY <1>0 DEF LeaseInv, QueueType
  <2> QED
    BY <2>1
<1>4. ToldInv' /\ WireInv'
  BY DEF ToldInv, WireInv
<1> QED
  BY <1>1, <1>2, <1>3, <1>4

LEMMA PurgeKeeps ==
  ASSUME Queue, NEW i \in 1..Len(rows), Purge(i)
  PROVE  Queue'
<1>1. PICK rs, ts : rs = rows /\ ts = rows'
  OBVIOUS
<1>2. /\ ts \in Seq(Row) /\ Len(ts) = Len(rs)
      /\ ts[i].status = "purged" /\ ts[i].update = rs[i].update /\ ts[i].lease = rs[i].lease
      /\ \A j \in 1..Len(rs) : j # i => ts[j] = rs[j]
  <2>1. rs \in Seq(Row) /\ i \in 1..Len(rs) /\ StatusSet(rs, i, "purged", ts)
    BY <1>1 DEF Purge, Queue, QueueType, StatusSet
  <2> QED
    BY <2>1, Relabelled
<1>3. rows[i].status \in {"delivered", "ignored"} /\ UNCHANGED <<at, stage, todo, wire, got>>
  BY DEF Purge, procs
<1>4. \A j \in 1..Len(rows) :
            /\ rows'[j].update = rows[j].update /\ (Pending(rows', j) <=> Pending(rows, j))
            /\ rows'[j].status = "delivered" => rows[j].status = "delivered"
  BY <1>1, <1>2, <1>3 DEF Pending
<1>5. \A p \in Proc : at[p] # 0 => rows'[at[p]].lease = rows[at[p]].lease
  BY <1>1, <1>2 DEF Queue, QueueType
<1> QED
  BY <1>1, <1>2, <1>3, <1>4, <1>5, RowsTouched

LEMMA LeaseEndsKeeps ==
  ASSUME Queue, NEW i \in 1..Len(rows), LeaseEnds(i)
  PROVE  Queue'
<1>1. PICK rs, ts : rs = rows /\ ts = rows'
  OBVIOUS
<1>2. /\ ts \in Seq(Row) /\ Len(ts) = Len(rs)
      /\ ts[i].status = rs[i].status /\ ts[i].update = rs[i].update
      /\ \A j \in 1..Len(rs) : j # i => ts[j] = rs[j]
  <2>1. rs \in Seq(Row) /\ i \in 1..Len(rs) /\ LeaseSet(rs, i, None, ts)
                /\ None \in Lease
    BY <1>1 DEF LeaseEnds, Queue, QueueType, LeaseSet, Lease
  <2> QED
    BY <2>1, Leased
<1>3. rows[i].lease = Lost /\ UNCHANGED <<at, stage, todo, wire, got>>
  BY DEF LeaseEnds, procs
<1>4. \A j \in 1..Len(rows) :
            /\ rows'[j].update = rows[j].update /\ (Pending(rows', j) <=> Pending(rows, j))
            /\ rows'[j].status = "delivered" => rows[j].status = "delivered"
  BY <1>1, <1>2 DEF Pending
<1>5. \A p \in Proc : at[p] # 0 => rows'[at[p]].lease = rows[at[p]].lease
  <2> SUFFICES ASSUME NEW p \in Proc, at[p] # 0 PROVE at[p] # i
    BY <1>1, <1>2 DEF Queue, QueueType
  <2>1. rows[at[p]].lease = p /\ p # Lost
    BY DeliveryAssumption DEF Queue, LeaseInv, Proc, Lost
  <2> QED
    BY <1>3, <2>1
<1> QED
  BY <1>1, <1>2, <1>3, <1>4, <1>5, RowsTouched

LEMMA CrashKeeps ==
  ASSUME Queue, Crash
  PROVE  Queue'
<1> USE DEF Queue
<1>0. /\ rows \in Seq(Row) /\ Len(rows) \in Nat
      /\ UNCHANGED got /\ at' = [p \in Proc |-> 0] /\ stage' = [p \in Proc |-> "none"]
      /\ todo' = [p \in Proc |-> <<>>] /\ wire' = {<<None, w[2]>> : w \in wire}
      /\ None \notin Proc
  BY DeliveryAssumption DEF Crash, QueueType, Proc
<1>1. /\ rows' \in Seq(Row) /\ Len(rows') = Len(rows)
      /\ \A i \in 1..Len(rows) : rows'[i].update = rows[i].update /\ rows'[i].status = rows[i].status
  <2> DEFINE lost(i) == IF rows[i].lease \in Proc THEN [rows[i] EXCEPT !.lease = Lost] ELSE rows[i]
  <2>1. \A i \in 1..Len(rows) : lost(i) \in Row /\ lost(i).update = rows[i].update
                                 /\ lost(i).status = rows[i].status
    <3> SUFFICES ASSUME NEW i \in 1..Len(rows)
                 PROVE  lost(i) \in Row /\ lost(i).update = rows[i].update
                        /\ lost(i).status = rows[i].status
      OBVIOUS
    <3>1. PICK r : r = rows[i]
      OBVIOUS
    <3>2. r \in Row
      BY <1>0, <3>1
    <3>3. /\ [r EXCEPT !.lease = Lost] \in Row /\ [r EXCEPT !.lease = Lost].update = r.update
          /\ [r EXCEPT !.lease = Lost].status = r.status
      BY <3>2 DEF Row
    <3> QED
      BY <3>1, <3>2, <3>3
  <2>2. rows' = [i \in 1..Len(rows) |-> lost(i)]
    BY DEF Crash
  <2> HIDE DEF lost
  <2> QED
    BY <1>0, <2>1, <2>2
<1>2. QueueType'
  BY <1>0, <1>1 DEF QueueType
<1>3. OrderInv'
  <2> SUFFICES ASSUME NEW i \in 1..Len(rows), Started(i)'
               PROVE  First(rows', i)
    BY <1>1 DEF OrderInv
  <2>1. Started(i)
    BY <1>0, <1>1 DEF Started, Pending
  <2>2. First(rows, i)
    BY <2>1 DEF OrderInv
  <2> QED
    BY <1>0, <1>1, <2>2 DEF First, Pending
<1>4. LeaseInv' /\ ToldInv'
  BY <1>0, <1>1 DEF LeaseInv, ToldInv
<1>5. \A w \in wire' : w[1] = None
  BY <1>0
<1>6. WireInv'
  BY <1>0, <1>5 DEF WireInv
<1> QED
  BY <1>2, <1>3, <1>4, <1>6

\* A step of an attempt that waits, or of a request, that leaves the rows alone.
LEMMA WaitKeeps ==
  ASSUME Queue, UNCHANGED <<rows, at, todo>>,
         stage' \in [Proc -> {"none", "bind", "post", "accepted", "skip", "failed"}],
         \A p \in Proc : (stage'[p] = "none") <=> (stage[p] = "none"),
         wire' \subseteq (Proc \cup {None}) \X (1..Len(rows)), got' \subseteq 1..Len(rows),
         got \subseteq got', \A i \in got' : Started(i),
         \A w \in wire' : Started(w[2]),
         \A p \in Proc : stage'[p] = "accepted" => at[p] \in got',
         \A w \in wire' : w[1] \in Proc => stage'[w[1]] = "post" /\ at[w[1]] = w[2]
  PROVE  Queue'
<1> USE DEF Queue
<1>1. QueueType'
  BY DEF QueueType
<1>2. OrderInv'
  BY DEF OrderInv, Started
<1>3. LeaseInv' /\ ToldInv' /\ WireInv'
  BY DEF LeaseInv, ToldInv, WireInv, QueueType
<1> QED
  BY <1>1, <1>2, <1>3

LEMMA BoundKeeps ==
  ASSUME Queue, NEW p \in Proc, Bound(p)
  PROVE  Queue'
<1>1. /\ stage[p] = "bind" /\ at[p] \in 1..Len(rows)
      /\ stage' = [stage EXCEPT ![p] = "post"] /\ wire' = wire \cup {<<p, at[p]>>}
      /\ UNCHANGED <<rows, at, todo, got>>
  BY DEF Bound, Queue, QueueType
<1>2. \A x \in Proc : stage'[x] = IF x = p THEN "post" ELSE stage[x]
  BY <1>1 DEF Queue, QueueType
<1>3. \A w \in wire' : w \in wire \/ w = <<p, at[p]>>
  BY <1>1
<1>4. /\ stage' \in [Proc -> {"none", "bind", "post", "accepted", "skip", "failed"}]
      /\ wire' \subseteq (Proc \cup {None}) \X (1..Len(rows)) /\ got' \subseteq 1..Len(rows)
  BY <1>1 DEF Queue, QueueType
<1>5. \A w \in wire' : w[1] \in Proc => stage'[w[1]] = "post" /\ at[w[1]] = w[2]
  BY <1>1, <1>2, <1>3 DEF Queue, WireInv
<1>6. (\A i \in got' : Started(i)) /\ \A w \in wire' : Started(w[2])
  BY <1>1, <1>3 DEF Started
<1>7. \A x \in Proc : stage'[x] = "accepted" => at[x] \in got'
  BY <1>1, <1>2 DEF Queue, ToldInv
<1> QED
  BY <1>1, <1>2, <1>4, <1>5, <1>6, <1>7, WaitKeeps

LEMMA NotBoundKeeps ==
  ASSUME Queue, NEW p \in Proc, NEW why \in {"skip", "failed"}, NotBound(p, why)
  PROVE  Queue'
<1>1. /\ stage[p] = "bind" /\ stage' = [stage EXCEPT ![p] = why]
      /\ UNCHANGED <<rows, at, todo, got, wire>>
  BY DEF NotBound
<1>2. \A x \in Proc : stage'[x] = IF x = p THEN why ELSE stage[x]
  BY <1>1 DEF Queue, QueueType
<1>4. /\ stage' \in [Proc -> {"none", "bind", "post", "accepted", "skip", "failed"}]
      /\ wire' \subseteq (Proc \cup {None}) \X (1..Len(rows)) /\ got' \subseteq 1..Len(rows)
  BY <1>1 DEF Queue, QueueType
<1>5. \A w \in wire' : w[1] \in Proc => stage'[w[1]] = "post" /\ at[w[1]] = w[2]
  BY <1>1, <1>2 DEF Queue, WireInv
<1>6. (\A i \in got' : Started(i)) /\ \A w \in wire' : Started(w[2])
  BY <1>1 DEF Started
<1>7. \A x \in Proc : stage'[x] = "accepted" => at[x] \in got'
  BY <1>1, <1>2 DEF Queue, ToldInv
<1> QED
  BY <1>1, <1>2, <1>4, <1>5, <1>6, <1>7, WaitKeeps

LEMMA AnswerKeeps ==
  ASSUME Queue, NEW w \in wire, NEW code \in {"accepted", "failed"}, Answer(w, code)
  PROVE  Queue'
<1> USE DEF Queue
<1>1. /\ w[1] \in Proc \cup {None} /\ w[2] \in 1..Len(rows) /\ None \notin Proc
      /\ wire' = wire \ {w} /\ UNCHANGED <<rows, at, todo>>
      /\ got' \subseteq got \cup {w[2]} /\ got \subseteq got'
      /\ code = "accepted" => w[2] \in got'
  BY DeliveryAssumption DEF Answer, QueueType, Proc
<1>2. \A p \in Proc : stage'[p] = IF p = w[1] THEN code ELSE stage[p]
  BY <1>1 DEF Answer, QueueType
<1>3. w[1] \in Proc => stage[w[1]] = "post" /\ at[w[1]] = w[2]
  BY DEF WireInv
<1>4. stage' \in [Proc -> {"none", "bind", "post", "accepted", "skip", "failed"}]
  BY <1>1 DEF Answer, QueueType
<1>5. wire' \subseteq (Proc \cup {None}) \X (1..Len(rows)) /\ got' \subseteq 1..Len(rows)
  BY <1>1 DEF QueueType
<1>6. \A x \in wire' : x[1] \in Proc => stage'[x[1]] = "post" /\ at[x[1]] = x[2]
  <2> SUFFICES ASSUME NEW x \in wire', x[1] \in Proc
               PROVE  stage'[x[1]] = "post" /\ at[x[1]] = x[2]
    OBVIOUS
  <2>1. stage[x[1]] = "post" /\ at[x[1]] = x[2] /\ x # w
    BY <1>1 DEF WireInv
  <2>2. x = <<x[1], x[2]>> /\ w = <<w[1], w[2]>>
    BY <1>1 DEF QueueType
  <2>3. x[1] # w[1]
    BY <1>3, <2>1, <2>2
  <2> QED
    BY <1>2, <2>1, <2>3
<1>7. (\A i \in got' : Started(i)) /\ \A x \in wire' : Started(x[2])
  BY <1>1 DEF Started
<1>8. \A p \in Proc : stage'[p] = "accepted" => at[p] \in got'
  BY <1>1, <1>2, <1>3 DEF ToldInv
<1>9. \A p \in Proc : (stage'[p] = "none") <=> (stage[p] = "none")
  BY <1>2, <1>3
<1> QED
  BY <1>1, <1>4, <1>5, <1>6, <1>7, <1>8, <1>9, WaitKeeps

LEMMA TimeOutKeeps ==
  ASSUME Queue, NEW p \in Proc, TimeOut(p)
  PROVE  Queue'
<1> USE DEF Queue
<1>1. /\ stage[p] = "post" /\ at[p] \in 1..Len(rows) /\ None \notin Proc
      /\ stage' = [stage EXCEPT ![p] = "failed"]
      /\ wire' = (wire \ {<<p, at[p]>>}) \cup {<<None, at[p]>>}
      /\ UNCHANGED <<rows, at, todo, got>>
  BY DeliveryAssumption DEF TimeOut, QueueType, Proc
<1>2. \A x \in Proc : stage'[x] = IF x = p THEN "failed" ELSE stage[x]
  BY <1>1 DEF QueueType
<1>3. \A w \in wire' : (w \in wire /\ w # <<p, at[p]>>) \/ w = <<None, at[p]>>
  BY <1>1
<1>4. /\ stage' \in [Proc -> {"none", "bind", "post", "accepted", "skip", "failed"}]
      /\ wire' \subseteq (Proc \cup {None}) \X (1..Len(rows)) /\ got' \subseteq 1..Len(rows)
  BY <1>1 DEF QueueType
<1>5. \A w \in wire' : w[1] \in Proc => stage'[w[1]] = "post" /\ at[w[1]] = w[2]
  <2> SUFFICES ASSUME NEW w \in wire', w[1] \in Proc
               PROVE  stage'[w[1]] = "post" /\ at[w[1]] = w[2]
    OBVIOUS
  <2>1. w \in wire /\ w # <<p, at[p]>> /\ stage[w[1]] = "post" /\ at[w[1]] = w[2]
    BY <1>1, <1>3 DEF WireInv
  <2>2. w = <<w[1], w[2]>>
    BY <2>1 DEF QueueType
  <2> QED
    BY <1>2, <2>1, <2>2
<1>6. (\A i \in got' : Started(i)) /\ \A w \in wire' : Started(w[2])
  BY <1>1, <1>3 DEF Started
<1>7. \A x \in Proc : stage'[x] = "accepted" => at[x] \in got'
  BY <1>1, <1>2 DEF ToldInv
<1> QED
  BY <1>1, <1>2, <1>4, <1>5, <1>6, <1>7, WaitKeeps

\* An attempt is over: its row says how, and the process goes on to the next.
LEMMA ConcludeKeeps ==
  ASSUME Queue, NEW p \in Proc, Conclude(p)
  PROVE  Queue'
<1> USE DEF Queue
<1>1. PICK rs, ts, q, n : rs = rows /\ ts = Settled(p) /\ q = todo[p] /\ n = at[p]
  OBVIOUS
<1>2. /\ stage[p] \in {"accepted", "skip", "failed"} /\ UNCHANGED got /\ Attempt(ts, p, q)
      /\ rs \in Seq(Row) /\ n \in 1..Len(rs) /\ q \in Seq(1..Len(rs)) /\ Len(rs) \in Nat
      /\ Pending(rs, n) /\ rs[n].lease = p
  BY <1>1 DEF Conclude, QueueType, LeaseInv
<1>3. PICK l \in {"pending", "delivered", "ignored"} :
         /\ ts = [rs EXCEPT ![n].status = l, ![n].lease = None]
         /\ l = "delivered" => stage[p] = "accepted"
  BY <1>1, <1>2 DEF Settled
<1>4. PICK ms : StatusSet(rs, n, l, ms)
  BY DEF StatusSet
<1>5. PICK none \in Lease : LeaseSet(ms, n, none, ts)
  <2>1. LeaseSet(ms, n, None, ts)
    BY <1>2, <1>3, <1>4 DEF StatusSet, LeaseSet
  <2> QED
    BY <2>1 DEF Lease
<1>6. /\ ms \in Seq(Row) /\ Len(ms) = Len(rs) /\ ms[n].status = l /\ ms[n].update = rs[n].update
      /\ \A j \in 1..Len(rs) : j # n => ms[j] = rs[j]
  BY <1>2, <1>4, Relabelled
<1>7. /\ ts \in Seq(Row) /\ Len(ts) = Len(rs) /\ ts[n].status = l /\ ts[n].update = rs[n].update
      /\ \A j \in 1..Len(rs) : j # n => ts[j] = rs[j]
  <2>1. ms \in Seq(Row) /\ n \in 1..Len(ms)
    BY <1>2, <1>6
  <2>2. ts \in Seq(Row) /\ Len(ts) = Len(ms)
    BY <1>5, <2>1, Leased
  <2>3. ts[n].status = ms[n].status
    BY <1>5, <2>1, Leased
  <2>4. ts[n].update = ms[n].update
    BY <1>5, <2>1, Leased
  <2>5. \A j \in 1..Len(ms) : j # n => ts[j] = ms[j]
    BY <1>5, <2>1, Leased
  <2> QED
    BY <1>6, <2>2, <2>3, <2>4, <2>5
<1>8. \A x \in Proc \ {p} : at[x] # 0 => at[x] # n
  BY <1>1, <1>2 DEF LeaseInv
<1>9. Ready(ts, p, q)
  <2>1. \A i \in 1..Len(rows) :
          /\ ts[i].update = rows[i].update /\ (Pending(ts, i) => Pending(rows, i))
          /\ ~Pending(ts, i) => ~Pending(rows, i) \/ at[p] = i
    BY <1>1, <1>2, <1>7 DEF Pending
  <2>2. \A i \in 1..Len(ts) : ts[i].status = "delivered" => i \in got
    BY <1>1, <1>2, <1>3, <1>7 DEF ToldInv
  <2>3. \A x \in Proc \ {p} : at[x] # 0 => ts[at[x]] = rows[at[x]]
    BY <1>1, <1>7, <1>8 DEF QueueType
  <2> QED
    BY <1>1, <1>2, <1>7, <2>1, <2>2, <2>3 DEF Ready
<1> QED
  BY <1>2, <1>9, AttemptKeeps

\* The lists a process goes through.
LEMMA ListIsSeq ==
  ASSUME NEW S, IsFiniteSet(S), NEW q \in Lists(S)
  PROVE  /\ q \in Seq(S) /\ \A x \in S : \E n \in 1..Len(q) : q[n] = x
         /\ \A T : S \subseteq T => q \in Seq(T)
<1>1. Cardinality(S) \in Nat /\ q \in [1..Cardinality(S) -> S]
  BY FS_CardinalityType DEF Lists
<1>2. \A T : S \subseteq T => q \in [1..Cardinality(S) -> T]
  BY <1>1
<1> QED
  BY <1>1, <1>2 DEF Lists

LEMMA DrainKeeps ==
  ASSUME Queue, Drain
  PROVE  Queue'
<1> USE DEF Queue
<1>1. PICK q \in Lists(Free) : Attempt(rows, Worker, q)
  BY DEF Drain, Ascending
<1>2. Free \subseteq 1..Len(rows) /\ Len(rows) \in Nat /\ IsFiniteSet(Free)
  <2>1. Free \subseteq 1..Len(rows) /\ Len(rows) \in Nat
    BY DEF Free, QueueType
  <2>2. IsFiniteSet(1..Len(rows))
    BY <2>1, FS_Interval
  <2> QED
    BY <2>1, <2>2, FS_Subset
<1>3. q \in Seq(1..Len(rows))
  <2>1. PICK S : S = Free
    OBVIOUS
  <2>2. q \in Seq(1..Len(rows))
    BY <1>1, <1>2, <2>1, ListIsSeq
  <2> QED
    BY <2>2
<1>4. PICK rs : rs = rows
  OBVIOUS
<1>5. Worker \in Proc /\ at[Worker] = 0 /\ UNCHANGED got
  BY DEF Drain, Proc
<1>6. Ready(rs, Worker, q)
  BY <1>2, <1>3, <1>4, <1>5 DEF Ready, QueueType, ToldInv
<1> QED
  BY <1>1, <1>4, <1>5, <1>6, AttemptKeeps

LEMMA SameAsItself ==
  ASSUME NEW u \in Update
  PROVE  Same(u, u)
BY DEF Same, Update

\* What the updates of a push become: rows behind the others, and a receipt each.
LEMMA EnqueuedFacts ==
  ASSUME QueueType, NEW us \in Seq(Update), NEW q \in Lists(Fresh(us)),
         NEW rs, rs = Enqueued(us, q)
  PROVE  /\ rs \in Seq(Row) /\ Len(rs) >= Len(rows)
         /\ \A i \in 1..Len(rows) : rs[i] = rows[i]
         /\ \A i \in 1..Len(rs) : i > Len(rows) => rs[i].status = "pending"
         /\ \A k \in 1..Len(us) : Receipt(rs, us[k]) # {}
<1> DEFINE new == [n \in 1..Len(q) |-> [update |-> us[q[n]], status |-> "pending", lease |-> None]]
<1>1. Fresh(us) \subseteq 1..Len(us) /\ IsFiniteSet(Fresh(us)) /\ Len(us) \in Nat
  <2>1. Fresh(us) \subseteq 1..Len(us) /\ Len(us) \in Nat
    BY DEF Fresh
  <2>2. IsFiniteSet(1..Len(us))
    BY <2>1, FS_Interval
  <2> QED
    BY <2>1, <2>2, FS_Subset
<1>2. q \in Seq(1..Len(us)) /\ \A k \in Fresh(us) : \E n \in 1..Len(q) : q[n] = k
  <2>1. PICK S : S = Fresh(us)
    OBVIOUS
  <2>2. q \in Seq(1..Len(us)) /\ \A k \in S : \E n \in 1..Len(q) : q[n] = k
    BY <1>1, <2>1, ListIsSeq
  <2> QED
    BY <2>1, <2>2
<1>3. new \in Seq(Row) /\ Len(new) = Len(q)
  <2>1. \A n \in 1..Len(q) : us[q[n]] \in Update
    BY <1>2
  <2>2. \A n \in 1..Len(q) : [update |-> us[q[n]], status |-> "pending", lease |-> None] \in Row
    BY <2>1 DEF Row
  <2>3. Len(q) \in Nat
    BY <1>2
  <2> QED
    BY <2>2, <2>3
<1>4. \A n \in 1..Len(q) : new[n].update = us[q[n]] /\ new[n].status = "pending"
  OBVIOUS
<1>5. rs = rows \o new
  BY DEF Enqueued
<1> HIDE DEF new
<1>6. /\ rs \in Seq(Row) /\ Len(rs) = Len(rows) + Len(q) /\ Len(rows) \in Nat /\ Len(q) \in Nat
      /\ \A i \in 1..Len(rows) : rs[i] = rows[i]
      /\ \A n \in 1..Len(q) : rs[Len(rows) + n] = new[n]
  <2>1. rows \in Seq(Row) /\ Len(rows) \in Nat /\ Len(q) \in Nat
    BY <1>2 DEF QueueType
  <2>2. rs \in Seq(Row) /\ Len(rs) = Len(rows) + Len(q)
    <3>1. PICK rw, nw : rw = rows /\ nw = new
      OBVIOUS
    <3>2. rw \o nw \in Seq(Row) /\ Len(rw \o nw) = Len(rw) + Len(nw)
      BY <1>3, <2>1, <3>1, ConcatProperties
    <3> QED
      BY <1>3, <1>5, <3>1, <3>2
  <2>3. \A i \in 1..Len(rows) : rs[i] = rows[i]
    BY <1>3, <1>5, <2>1
  <2>4. \A n \in 1..Len(q) : rs[Len(rows) + n] = new[n]
    BY <1>3, <1>5, <2>1
  <2> QED
    BY <2>1, <2>2, <2>3, <2>4
<1>7. \A i \in 1..Len(rs) : i > Len(rows) => rs[i].status = "pending"
  <2> SUFFICES ASSUME NEW i \in 1..Len(rs), i > Len(rows) PROVE rs[i].status = "pending"
    OBVIOUS
  <2>1. PICK n \in 1..Len(q) : i = Len(rows) + n
    <3>1. i - Len(rows) \in 1..Len(q) /\ i = Len(rows) + (i - Len(rows))
      BY <1>6
    <3> QED
      BY <3>1
  <2> QED
    BY <1>4, <1>6, <2>1
<1>8. ASSUME NEW k \in 1..Len(us) PROVE Receipt(rs, us[k]) # {}
  <2>1. CASE k \in Fresh(us)
    <3>1. PICK n \in 1..Len(q) : q[n] = k
      BY <1>2, <2>1
    <3>2. rs[Len(rows) + n].update = us[k] /\ rs[Len(rows) + n].status # "purged"
      BY <1>4, <1>6, <3>1
    <3>3. Len(rows) + n \in 1..Len(rs)
      BY <1>6
    <3>4. us[k] \in Update
      BY <1>1
    <3> QED
      BY <3>2, <3>3, <3>4, SameAsItself DEF Receipt
  <2>2. CASE k \notin Fresh(us)
    <3>1. PICK i \in 1..Len(rows) : rows[i].status # "purged" /\ Same(rows[i].update, us[k])
      BY <2>2 DEF Fresh, Receipt
    <3>2. i \in 1..Len(rs) /\ rs[i] = rows[i]
      BY <1>6
    <3> QED
      BY <3>1, <3>2 DEF Receipt
  <2> QED
    BY <2>1, <2>2
<1>9. rs \in Seq(Row) /\ Len(rs) >= Len(rows)
  BY <1>6
<1>10. \A i \in 1..Len(rows) : rs[i] = rows[i]
  BY <1>6
<1> QED
  BY <1>7, <1>8, <1>9, <1>10

\* The attempt a handler makes when the updates us are stored.
FirstTry(us, h, q) ==
    Attempt(Enqueued(us, q), h,
            [k \in 1..Len(us) |-> CHOOSE i \in Receipt(Enqueued(us, q), us[k]) : TRUE])

LEMMA NotifyKeeps ==
  ASSUME Inv, NEW h \in Handler, Notify(h)
  PROVE  Queue'
<1>1. PICK us : us = answered[h]
  OBVIOUS
<1>2. /\ us \in Seq(Update) /\ Len(us) \in Nat /\ us # <<>> /\ UNCHANGED got
      /\ QueueType /\ h \in Proc /\ at[h] = 0
  BY <1>1 DEF Inv, RestType, Queue, Notify, BusyInv, Proc
<1>3. PICK q \in Lists(Fresh(us)) : FirstTry(us, h, q)
  <2>1. \E q \in Ascending(Fresh(answered[h])) : FirstTry(answered[h], h, q)
    BY Zenon DEF Notify, FirstTry
  <2>2. \A q \in Ascending(Fresh(us)) : q \in Lists(Fresh(us))
    BY DEF Ascending
  <2> QED
    BY <1>1, <2>1, <2>2
<1>4. PICK rs : rs = Enqueued(us, q)
  OBVIOUS
<1>5. PICK L : L = [k \in 1..Len(us) |-> CHOOSE i \in Receipt(rs, us[k]) : TRUE]
  OBVIOUS
<1>6. Attempt(rs, h, L)
  BY <1>3, <1>4, <1>5 DEF FirstTry
<1>7. /\ rs \in Seq(Row) /\ Len(rs) >= Len(rows)
      /\ \A i \in 1..Len(rows) : rs[i] = rows[i]
      /\ \A i \in 1..Len(rs) : i > Len(rows) => rs[i].status = "pending"
      /\ \A k \in 1..Len(us) : Receipt(rs, us[k]) # {}
  BY <1>2, <1>4, EnqueuedFacts
<1>8. L \in Seq(1..Len(rs))
  <2>1. \A k \in 1..Len(us) : Receipt(rs, us[k]) \subseteq 1..Len(rs)
    BY DEF Receipt
  <2>2. \A k \in 1..Len(us) : (CHOOSE i \in Receipt(rs, us[k]) : TRUE) \in 1..Len(rs)
    BY <1>7, <2>1
  <2> QED
    BY <1>2, <1>5, <2>2
<1>9. Ready(rs, h, L)
  <2>1. /\ Len(rows) \in Nat /\ Len(rs) \in Nat /\ stage[h] # "post"
        /\ \A x \in Proc : at[x] \in 0..Len(rows)
    BY <1>2, <1>7 DEF QueueType
  <2>2. \A i \in 1..Len(rows) :
          /\ rs[i].update = rows[i].update /\ (Pending(rs, i) => Pending(rows, i))
          /\ ~Pending(rs, i) => ~Pending(rows, i) \/ at[h] = i
    BY <1>7 DEF Pending
  <2>3. \A i \in 1..Len(rs) : rs[i].status = "delivered" => i \in got
    <3> SUFFICES ASSUME NEW i \in 1..Len(rs), rs[i].status = "delivered" PROVE i \in got
      OBVIOUS
    <3>1. i \in 1..Len(rows) /\ rs[i] = rows[i]
      BY <1>7, <2>1
    <3> QED
      BY <3>1 DEF Inv, Queue, ToldInv
  <2>4. \A i \in 1..Len(rs) : i > Len(rows) => Pending(rs, i)
    BY <1>7 DEF Pending
  <2>5. \A x \in Proc \ {h} : at[x] # 0 => rs[at[x]] = rows[at[x]]
    BY <1>7, <2>1
  <2> QED
    BY <1>7, <1>8, <2>1, <2>2, <2>3, <2>4, <2>5 DEF Ready
<1> QED
  BY <1>2, <1>6, <1>9, AttemptKeeps DEF Inv

-----------------------------------------------------------------------------
(* The rest of the state *)

LEMMA PushRest ==
  ASSUME RestType, NEW h \in Handler, NEW r \in Repo, NEW S \in SUBSET Branch, NEW after \in Commit,
         NEW asked \in [S -> Commit], Push(h, r, asked, after)
  PROVE  RestType'
<1> USE DeliveryAssumption DEF RestType
<1>1. head' \in [Repo \X Branch -> Commit] /\ made' \in Commit
  BY DEF Push
<1>2. /\ hook' \subseteq Repo /\ pushes' \in 0..MaxPush /\ crashes' \in 0..MaxCrash
  BY DEF Push, bounds
<1>3. answered' \in [Handler -> Seq(Update)]
  <2>1. CASE after = 0
    BY <2>1 DEF Push
  <2>2. CASE after # 0
    <3> DEFINE up(b) == [repo |-> r, branch |-> b, before |-> asked[b], after |-> after,
                         moved |-> head[<<r, b>>] = asked[b]]
    <3>1. PICK order \in Lists(S) :
             answered' = [answered EXCEPT ![h] = [k \in 1..Len(order) |-> up(order[k])]]
      BY <2>2 DEF Push
    <3>2. order \in Seq(S)
      BY <3>1, ListIsSeq, FS_Subset
    <3>3. \A b \in S : up(b) \in Update
      BY DEF Update
    <3> HIDE DEF up
    <3>4. [k \in 1..Len(order) |-> up(order[k])] \in Seq(Update)
      BY <3>2, <3>3
    <3> QED
      BY <3>1, <3>4
  <2> QED
    BY <2>1, <2>2
<1> QED
  BY <1>1, <1>2, <1>3

LEMMA QueueUnchanged ==
  ASSUME Queue, UNCHANGED <<rows, at, stage, todo, wire, got>>
  PROVE  Queue'
BY DEF Queue, QueueType, OrderInv, LeaseInv, ToldInv, WireInv, Started, Pending, First

LEMMA InitInv == Init => Inv
BY DeliveryAssumption DEF Init, Inv, RestType, BusyInv, Queue, QueueType, OrderInv, LeaseInv,
   ToldInv, WireInv, Started, Commit, Proc

\* An attempt is one process's.
LEMMA AttemptIsOwn ==
  ASSUME QueueType, NEW p \in Proc, NEW rs, NEW q, Attempt(rs, p, q)
  PROVE  \A x \in Proc \ {p} : at'[x] = at[x]
BY DEF Attempt, QueueType

\* The steps that change nothing but the queue keep the rest.
LEMMA QueueStep ==
  ASSUME Inv, UNCHANGED <<head, made, hook, answered, bounds>>,
         \A h \in Handler : answered[h] # <<>> => at'[h] = at[h]
  PROVE  RestType' /\ BusyInv'
BY DEF Inv, RestType, BusyInv, bounds

LEMMA NextInv ==
  ASSUME Inv, [Next]_vars
  PROVE  Inv'
<1> USE DeliveryAssumption
<1>0. RestType /\ BusyInv /\ Queue /\ QueueType /\ Handler \subseteq Proc /\ Worker \in Proc
  BY DEF Inv, Queue, Proc
<1>1. ASSUME NEW h \in Handler, NEW r \in Repo, NEW S \in SUBSET Branch, NEW after \in Commit,
             NEW asked \in [S -> Commit], Push(h, r, asked, after)
      PROVE  Inv'
  <2>1. Queue'
    BY <1>0, <1>1, QueueUnchanged DEF Push, procs
  <2>2. BusyInv'
    <3>1. at[h] = 0 /\ UNCHANGED at /\ \A x \in Handler \ {h} : answered'[x] = answered[x]
      BY <1>0, <1>1 DEF Push, procs, RestType
    <3> QED
      BY <1>0, <3>1 DEF BusyInv
  <2>3. RestType'
    BY <1>0, <1>1, PushRest
  <2> QED
    BY <2>1, <2>2, <2>3 DEF Inv
<1>2. ASSUME NEW h \in Handler, Notify(h)
      PROVE  Inv'
  <2>1. PICK rs, q : Attempt(rs, h, q)
    BY <1>2 DEF Notify
  <2>2. \A x \in Proc \ {h} : at'[x] = at[x]
    BY <1>0, <2>1, AttemptIsOwn
  <2>3. answered' = [answered EXCEPT ![h] = <<>>] /\ UNCHANGED <<head, made, hook, bounds>>
    BY <1>2 DEF Notify
  <2>4. \A x \in Handler : answered'[x] = IF x = h THEN <<>> ELSE answered[x]
    BY <1>0, <2>3 DEF RestType
  <2>5. RestType' /\ BusyInv'
    BY <1>0, <2>2, <2>3, <2>4 DEF RestType, BusyInv, bounds
  <2> QED
    BY <1>2, <2>5, NotifyKeeps DEF Inv
<1>3. CASE Drain
  <2>1. PICK rs, q : Attempt(rs, Worker, q)
    BY <1>3 DEF Drain
  <2>2. \A x \in Proc \ {Worker} : at'[x] = at[x]
    BY <1>0, <2>1, AttemptIsOwn
  <2>3. \A h \in Handler : at'[h] = at[h]
    BY <1>0, <2>2
  <2>4. RestType' /\ BusyInv'
    BY <1>3, <2>3, QueueStep DEF Drain
  <2> QED
    BY <1>0, <1>3, <2>4, DrainKeeps DEF Inv
<1>4. ASSUME NEW p \in Proc, Conclude(p)
      PROVE  Inv'
  <2>1. PICK rs, q : Attempt(rs, p, q)
    BY <1>4 DEF Conclude
  <2>2. \A x \in Proc \ {p} : at'[x] = at[x]
    BY <1>0, <2>1, AttemptIsOwn
  <2>3. p \in Handler => answered[p] = <<>>
    BY <1>0, <1>4 DEF BusyInv, Conclude, QueueType
  <2>4. \A h \in Handler : answered[h] # <<>> => at'[h] = at[h]
    BY <1>0, <2>2, <2>3
  <2>5. RestType' /\ BusyInv'
    BY <1>4, <2>4, QueueStep DEF Conclude
  <2> QED
    BY <1>0, <1>4, <2>5, ConcludeKeeps DEF Inv
<1>5. ASSUME NEW i \in 1..Len(rows), Purge(i)
      PROVE  Inv'
  BY <1>0, <1>5, PurgeKeeps, QueueStep DEF Purge, procs, Inv
<1>6. ASSUME NEW i \in 1..Len(rows), LeaseEnds(i)
      PROVE  Inv'
  BY <1>0, <1>6, LeaseEndsKeeps, QueueStep DEF LeaseEnds, procs, Inv
<1>7. ASSUME NEW p \in Proc, Bound(p)
      PROVE  Inv'
  <2>1. hook' \subseteq Repo
    <3>1. at[p] \in 1..Len(rows)
      BY <1>0, <1>7 DEF QueueType, Bound
    <3>2. rows[at[p]] \in Row
      BY <1>0, <3>1 DEF QueueType
    <3>3. rows[at[p]].update.repo \in Repo
      BY <3>2 DEF Row, Update
    <3> QED
      BY <1>0, <1>7, <3>3 DEF Bound, RestType
  <2>2. RestType' /\ BusyInv'
    BY <1>0, <1>7, <2>1 DEF RestType, BusyInv, Bound, bounds
  <2> QED
    BY <1>0, <1>7, <2>2, BoundKeeps DEF Inv
<1>8. ASSUME NEW p \in Proc, NEW why \in {"skip", "failed"}, NotBound(p, why)
      PROVE  Inv'
  BY <1>0, <1>8, NotBoundKeeps, QueueStep DEF NotBound, Inv
<1>9. ASSUME NEW w \in wire, NEW code \in {"accepted", "failed"}, Answer(w, code)
      PROVE  Inv'
  <2>1. RestType' /\ BusyInv'
    BY <1>9, QueueStep DEF Answer
  <2> QED
    BY <1>0, <1>9, <2>1, AnswerKeeps DEF Inv
<1>10. ASSUME NEW p \in Proc, TimeOut(p)
      PROVE  Inv'
  BY <1>0, <1>10, TimeOutKeeps, QueueStep DEF TimeOut, Inv
<1>11. ASSUME NEW r \in Repo, Connect(r) \/ Disconnect(r)
      PROVE  Inv'
  <2>1. Queue'
    BY <1>0, <1>11, QueueUnchanged DEF Connect, Disconnect, procs
  <2>2. RestType' /\ BusyInv'
    BY <1>0, <1>11 DEF Connect, Disconnect, RestType, BusyInv, procs, bounds
  <2> QED
    BY <2>1, <2>2 DEF Inv
<1>12. CASE Crash
  <2>1. RestType' /\ BusyInv'
    BY <1>0, <1>12 DEF Crash, RestType, BusyInv, bounds
  <2> QED
    BY <1>0, <1>12, <2>1, CrashKeeps DEF Inv
<1>13. CASE UNCHANGED vars
  <2>1. Queue'
    BY <1>0, <1>13, QueueUnchanged DEF vars, procs
  <2>2. RestType' /\ BusyInv'
    BY <1>13, QueueStep DEF vars, procs
  <2> QED
    BY <2>1, <2>2 DEF Inv
<1> QED
  BY <1>1, <1>2, <1>3, <1>4, <1>5, <1>6, <1>7, <1>8, <1>9, <1>10, <1>11, <1>12, <1>13 DEF Next

-----------------------------------------------------------------------------
(* Theorems *)

\* The inductive invariant of a delivery.
THEOREM Invariance == Spec => []Inv
BY InitInv, NextInv, PTL DEF Spec

\* The queue, its processes and their requests keep their types.
THEOREM TypeCorrect == Spec => []TypeOK
<1>1. Inv => TypeOK
  BY TypeParts DEF Inv, Queue
<1> QED
  BY <1>1, Invariance, PTL

\* For any number of pushes, handlers and crashes, the hook accepts a
\* repository's updates in the order they were stored: no late request, retry
\* or second process lets one pass another.
THEOREM InOrderHolds == Spec => []InOrder
<1>1. Inv => InOrder
  <2> SUFFICES ASSUME Inv, NEW i \in got, NEW j \in 1..(i - 1),
                      rows[j].update.repo = rows[i].update.repo, rows[j].status # "ignored"
               PROVE  rows[j].status = "purged" \/ j \in got
    BY DEF InOrder
  <2>1. i \in 1..Len(rows) /\ j \in 1..Len(rows) /\ rows[j] \in Row
    BY DEF Inv, Queue, QueueType
  <2>2. rows[j].status # "pending"
    BY <2>1 DEF Inv, Queue, OrderInv, Started, First, Pending
  <2>3. rows[j].status = "purged" \/ rows[j].status = "delivered"
    BY <2>1, <2>2 DEF Row
  <2> QED
    BY <2>1, <2>3 DEF Inv, Queue, ToldInv
<1> QED
  BY <1>1, Invariance, PTL

\* No two processes ever attempt the same row, also after a crash that left
\* leases behind.
THEOREM OneSenderHolds == Spec => []OneSender
<1>1. Inv => OneSender
  BY DEF Inv, Queue, LeaseInv, OneSender
<1> QED
  BY <1>1, Invariance, PTL
=============================================================================
