-------------------------- MODULE ChangeFeedProofs --------------------------
(***************************************************************************)
(* Proofs about ChangeFeed, for any readers, resources, retention and page: *)
(* an unread event outranks what its reader has seen, a reader told nothing *)
(* new shows what its user has, and a cursor handed out is one to go on     *)
(* from.                                                                    *)
(***************************************************************************)
EXTENDS ChangeFeed, FiniteSetTheorems, WellFoundedInduction, TLAPS

\* No more changes between a backup and its restore than the restore jumps over.
WithinJump == MaxChange <= Jump

-----------------------------------------------------------------------------
(* The invariant *)

FeedTypes ==
    /\ rows \subseteq Row /\ IsFiniteSet(rows) /\ lastSeq \in Nat
    /\ version \in [Key -> Nat] /\ floor \in [Reader -> Nat]
    /\ granted \subseteq Reader \X Key
    /\ cursor \in [Reader -> Nat] /\ view \in [Reader -> SUBSET Key]
    /\ held \in [Reader -> [Key -> Nat]] /\ relist \in [Reader -> BOOLEAN]
    /\ peak \in Nat /\ anew \subseteq Key /\ changes \in 0..MaxChange

\* Sequence numbers are issued once to a reader, and never again after a restore.
Numbered(R, top) ==
    /\ \A x \in R : 1 <= x.seq /\ x.seq <= top
    /\ \A x, y \in R : x.to = y.to /\ x.seq = y.seq => x = y

SeqInv ==
    /\ Numbered(rows, lastSeq) /\ lastSeq <= peak
    /\ \A r \in Reader : floor[r] <= lastSeq /\ cursor[r] <= peak
    /\ \A r \in Reader : cursor[r] > floor[r] => \E x \in rows : x.to = r /\ x.seq = cursor[r]

BackupInv == backup # None =>
    /\ backup \in Db /\ IsFiniteSet(backup.rows) /\ Numbered(backup.rows, peak)
    /\ \A r \in Reader : backup.floor[r] <= peak

\* The rows of a table: no number twice, and of each reader no more than are kept.
Table(R) ==
    /\ \A x, y \in R : x.seq = y.seq => x = y
    /\ \A r \in Reader : Cardinality(Of(r, R)) <= Retention

KeptInv ==
    /\ Table(rows) /\ (backup # None => Table(backup.rows))
    /\ restores \in 0..MaxRestore

TableInv == FeedTypes /\ SeqInv /\ BackupInv /\ KeptInv

\* A resource had no more events since the backup than there were changes.
LagInv == backup # None => \A k \in Key : version[k] <= backup.version[k] + changes

\* A row above its reader's floor: it counts.
Counts(x) == x.seq > floor[x.to]
Alike(x, y) == x.to = y.to /\ x.key = y.key

\* Versions grow with the sequence numbers, and none is ahead of the table; nor
\* is what a reader holds, but of a resource whose versions began anew.
VersionInv ==
    /\ \A x \in rows : Counts(x) => x.version <= version[x.key]
    /\ \A x, y \in rows : Counts(x) /\ Alike(x, y) /\ x.seq < y.seq => x.version < y.version
    /\ \A r \in Reader, k \in Key \ anew : held[r][k] <= version[k]
    /\ \A x \in rows : /\ x.key \notin anew
                       /\ x.seq > cursor[x.to] /\ Counts(x)
                       => x.version > held[x.to][x.key]

\* The newest row tells what the reader has.
GrantInv ==
    \A x \in rows : Counts(x) /\ (\A y \in rows : Alike(x, y) => y.seq <= x.seq)
                       => (x.grant <=> <<x.to, x.key>> \in granted)

\* So does the view, for such a resource without an unread row.
ViewInv ==
    \A r \in Reader : ~relist[r] /\ cursor[r] >= floor[r] =>
       \A k \in Key \ anew : (\A x \in rows : x.to = r /\ x.key = k => x.seq <= cursor[r])
                         => (k \in view[r] <=> <<r, k>> \in granted)

FeedInv == TableInv /\ LagInv /\ VersionInv /\ GrantInv /\ ViewInv

-----------------------------------------------------------------------------
(* The largest of a bounded set *)

LEMMA MinExists ==
  \A T \in SUBSET Nat : T # {} => \E m \in T : \A t \in T : m <= t
<1>1. TAKE T \in SUBSET Nat
<1>2. HAVE T # {}
<1>3. IsWellFoundedOn(OpToRel(<, Nat), Nat)
  BY NatLessThanWellFounded
<1>4. \E m \in T : \A t \in T : ~ (<<t, m>> \in OpToRel(<, Nat))
  <2> DEFINE L == OpToRel(<, Nat)
  <2>1. IsWellFoundedOn(L, Nat)
    BY <1>3
  <2> HIDE DEF L
  <2>2. \E m \in T : \A t \in T : ~ (<<t, m>> \in L)
    BY <1>2, <2>1, WFMin
  <2>3. QED
    BY <2>2 DEF L
<1>5. PICK m \in T : \A t \in T : ~ (<<t, m>> \in OpToRel(<, Nat))
  BY <1>4
<1>6. ASSUME NEW t \in T PROVE m <= t
  <2>1. ~ (t < m)
    BY <1>5 DEF OpToRel
  <2>2. QED
    BY <2>1
<1>7. QED
  BY <1>6

LEMMA MaxOf ==
  \A S \in SUBSET Nat, b \in Nat :
     S # {} /\ (\A x \in S : x <= b) => Max(S) \in S /\ \A x \in S : x <= Max(S)
<1>1. TAKE S \in SUBSET Nat, b \in Nat
<1>2. HAVE S # {} /\ \A x \in S : x <= b
<1> DEFINE T == {n \in Nat : b - n \in S}
<1>3. T # {}
  <2>1. PICK x \in S : x <= b
    BY <1>2
  <2>2. b - x \in T
    BY <2>1
  <2>3. QED
    BY <2>2
<1>4. PICK m \in T : \A t \in T : m <= t
  BY <1>3, MinExists
<1>5. ASSUME NEW x \in S PROVE x <= b - m
  <2>1. b - x \in T
    BY <1>2
  <2>2. m <= b - x
    BY <1>4, <2>1
  <2>3. QED
    BY <1>2, <2>2
<1>6. \E x \in S : \A y \in S : x >= y
  BY <1>4, <1>5
<1>7. \A y \in S : Max(S) \in S /\ Max(S) >= y
  BY <1>6 DEF Max
<1>8. QED
  BY <1>2, <1>7

LEMMA MaxTwo ==
  \A a, b \in Nat : Max({a, b}) \in {a, b} /\ a <= Max({a, b}) /\ b <= Max({a, b})
<1>1. TAKE a, b \in Nat
<1>2. PICK c \in Nat : a <= c /\ b <= c
  BY a + b \in Nat
<1>3. {a, b} \in SUBSET Nat /\ {a, b} # {} /\ \A x \in {a, b} : x <= c
  BY <1>2
<1>4. QED
  BY <1>3, MaxOf

-----------------------------------------------------------------------------
(* What is issued, and the page *)

LEMMA IssuedFacts ==
  ASSUME TableInv, NEW r \in Reader
  PROVE  /\ Issued(r) \in Nat /\ Issued(r) <= peak
         /\ \A x \in rows : x.to = r => x.seq <= Issued(r)
         /\ Issued(r) = 0 \/ \E x \in rows : x.to = r /\ x.seq = Issued(r)
<1> DEFINE S == {0} \cup {x.seq : x \in Of(r, rows)}
<1>1. S \in SUBSET Nat /\ S # {} /\ \A x \in S : x <= peak
  BY DEF TableInv, FeedTypes, SeqInv, Numbered, Of, Row
<1>2. peak \in Nat
  BY DEF TableInv, FeedTypes
<1>3. Max(S) \in S /\ \A x \in S : x <= Max(S)
  <2> HIDE DEF S
  <2>1. QED
    BY <1>1, <1>2, MaxOf
<1>4. Issued(r) = Max(S)
  BY DEF Issued
<1>5. QED
  BY <1>1, <1>3, <1>4 DEF Of

\* A poll starts at the cursor or the floor, whichever is further on.
LEMMA FromFacts ==
  ASSUME TableInv, NEW r \in Reader
  PROVE  /\ From(r) \in {cursor[r], floor[r]} /\ From(r) \in Nat /\ From(r) <= peak
         /\ floor[r] <= From(r) /\ cursor[r] <= From(r)
         /\ ~Gap(r) => From(r) = cursor[r]
<1>1. cursor[r] \in Nat /\ floor[r] \in Nat /\ cursor[r] <= peak /\ floor[r] <= peak
  BY DEF TableInv, FeedTypes, SeqInv
<1>2. CASE cursor[r] > Issued(r)
  <2>1. ~ \E x \in rows : x.to = r /\ x.seq = cursor[r]
    BY <1>1, <1>2, IssuedFacts
  <2>2. cursor[r] <= floor[r]
    BY <1>1, <2>1 DEF TableInv, SeqInv
  <2>3. QED
    BY <1>1, <1>2, <2>2 DEF From, Gap
<1>3. CASE ~ (cursor[r] > Issued(r))
  <2>1. From(r) = Max({cursor[r], floor[r]})
    BY <1>3 DEF From
  <2>2. QED
    BY <1>1, <1>3, <2>1, MaxTwo DEF Gap
<1>4. QED
  BY <1>2, <1>3

\* A page is what comes next, and empty only if nothing does.
LEMMA PageFacts ==
  ASSUME TableInv, NEW r \in Reader
  PROVE  /\ \A x \in Events(r) : x \in rows /\ x.to = r /\ x.seq > From(r)
         /\ \A x \in rows, p \in Events(r) :
               x.to = r /\ x.seq > From(r) /\ x.seq <= p.seq => x \in Events(r)
         /\ Events(r) = {} => \A x \in rows : x.to = r => x.seq <= From(r)
<1> DEFINE after == {x \in Of(r, rows) : x.seq > From(r)}
           below(x) == {y \in after : y.seq < x.seq}
<1>1. Events(r) = {x \in after : Cardinality(below(x)) < Page}
  BY DEF Events
<1>2. \A x \in after : x \in rows /\ x.to = r /\ x.seq > From(r) /\ x.seq \in Nat
  BY DEF Of, TableInv, FeedTypes, Row
<1>3. \A x \in rows : x.to = r /\ x.seq > From(r) => x \in after
  BY DEF Of
<1>4. IsFiniteSet(after)
  <2>1. after \in SUBSET rows
    BY DEF Of
  <2>2. IsFiniteSet(rows)
    BY DEF TableInv, FeedTypes
  <2> HIDE DEF after
  <2>3. QED
    BY <2>1, <2>2, FS_Subset
<1>5. From(r) \in Nat /\ \A x \in rows : x.seq \in Nat
  BY FromFacts DEF TableInv, FeedTypes, Row
<1>6. ASSUME NEW x \in rows, NEW p \in Events(r), x.to = r, x.seq > From(r), x.seq <= p.seq
      PROVE  x \in Events(r)
  <2>1. x \in after /\ p \in after /\ Cardinality(below(p)) < Page
    BY <1>1, <1>3, <1>6
  <2>2. below(x) \in SUBSET below(p) /\ below(p) \in SUBSET after
    BY <1>2, <1>6, <2>1
  <2>3. IsFiniteSet(below(p))
    <3> HIDE DEF after, below
    <3>1. QED
      BY <1>4, <2>2, FS_Subset
  <2>4. /\ IsFiniteSet(below(x)) /\ Cardinality(below(x)) <= Cardinality(below(p))
        /\ Cardinality(below(p)) \in Nat /\ Cardinality(below(x)) \in Nat
    <3> HIDE DEF after, below
    <3>1. IsFiniteSet(below(x)) /\ Cardinality(below(x)) <= Cardinality(below(p))
      BY <2>2, <2>3, FS_Subset
    <3>2. QED
      BY <2>3, <3>1, FS_CardinalityType
  <2>5. Cardinality(below(x)) < Page
    <3> HIDE DEF after, below
    <3>1. QED
      BY <2>1, <2>4, FeedAssumption
  <2>6. QED
    BY <1>1, <2>1, <2>5
<1>7. ASSUME Events(r) = {} PROVE \A x \in rows : x.to = r => x.seq <= From(r)
  <2>1. SUFFICES ASSUME after # {} PROVE FALSE
    BY <1>3, <1>5
  <2> DEFINE T == {x.seq : x \in after}
  <2>2. T \in SUBSET Nat /\ T # {}
    BY <1>2, <2>1
  <2>3. PICK m \in T : \A t \in T : m <= t
    <3> HIDE DEF T
    <3>1. QED
      BY <2>2, MinExists
  <2>4. PICK x \in after : x.seq = m
    BY <2>3
  <2>5. below(x) = {}
    BY <1>2, <2>3, <2>4
  <2>6. Cardinality(below(x)) = 0
    BY <2>5, FS_EmptySet
  <2>7. x \in Events(r)
    BY <1>1, <2>4, <2>6, FeedAssumption
  <2>8. QED
    BY <1>7, <2>7
<1>8. QED
  BY <1>1, <1>2, <1>6, <1>7

\* The cursor a page hands out.
Handed(r) == Max({From(r)} \cup {x.seq : x \in Events(r)})

LEMMA HandedFacts ==
  ASSUME TableInv, NEW r \in Reader
  PROVE  /\ Handed(r) \in Nat /\ From(r) <= Handed(r) /\ Handed(r) <= peak
         /\ \A x \in Events(r) : x.seq <= Handed(r)
         /\ Handed(r) = From(r) \/ \E x \in Events(r) : x.seq = Handed(r)
<1> DEFINE S == {From(r)} \cup {x.seq : x \in Events(r)}
<1>1. \A x \in Events(r) : x.seq \in Nat /\ x.seq <= peak
  <2>1. TAKE x \in Events(r)
  <2>2. x \in rows
    BY PageFacts
  <2>3. QED
    BY <2>2 DEF TableInv, FeedTypes, SeqInv, Numbered, Row
<1>2. From(r) \in Nat /\ From(r) <= peak /\ peak \in Nat
  BY FromFacts DEF TableInv, FeedTypes
<1>3. S \in SUBSET Nat /\ S # {} /\ \A x \in S : x <= peak
  BY <1>1, <1>2
<1>4. Max(S) \in S /\ \A x \in S : x <= Max(S)
  <2> HIDE DEF S
  <2>1. QED
    BY <1>2, <1>3, MaxOf
<1>5. Handed(r) = Max(S)
  BY DEF Handed
<1>6. QED
  BY <1>3, <1>4, <1>5

\* A row the page starts before and ends behind is on it.
LEMMA Within ==
  ASSUME TableInv, NEW r \in Reader
  PROVE  \A x \in rows : x.to = r /\ x.seq > From(r) /\ x.seq <= Handed(r) => x \in Events(r)
<1>1. TAKE x \in rows
<1>2. HAVE x.to = r /\ x.seq > From(r) /\ x.seq <= Handed(r)
<1>3. x.seq \in Nat /\ From(r) \in Nat
  BY FromFacts DEF TableInv, FeedTypes, Row
<1>4. PICK p \in Events(r) : p.seq = Handed(r)
  BY <1>2, <1>3, HandedFacts
<1>5. QED
  BY <1>2, <1>4, PageFacts

\* A row of the page counts, and is ahead of what its reader holds.
LEMMA Ahead ==
  ASSUME TableInv, FeedInv, NEW r \in Reader
  PROVE  \A x \in Events(r) :
            /\ x \in rows /\ x.to = r /\ x.key \in Key /\ x.version \in Nat /\ x.seq \in Nat
            /\ Counts(x) /\ x.seq > cursor[r]
            /\ x.version <= version[x.key]
            /\ x.key \notin anew => x.version > held[r][x.key]
<1>1. TAKE x \in Events(r)
<1>2. x \in rows /\ x.to = r /\ x.seq > From(r)
  BY PageFacts
<1>3. x \in Row
  BY <1>2 DEF TableInv, FeedTypes
<1>4. x.seq \in Nat /\ x.key \in Key /\ x.version \in Nat
  BY <1>3 DEF Row
<1>5. cursor[r] \in Nat /\ floor[r] \in Nat
  BY DEF TableInv, FeedTypes
<1>6. x.seq > floor[r] /\ x.seq > cursor[r]
  BY <1>2, <1>4, <1>5, FromFacts
<1>7. QED
  BY <1>2, <1>4, <1>6 DEF FeedInv, VersionInv, Counts

\* The newest row of a resource on the page; none only if the page has none.
LEMMA NewestFacts ==
  ASSUME TableInv, FeedInv, NEW r \in Reader, NEW k \in Key \ anew
  PROVE  /\ \A x \in Newest(r, Events(r))[k] :
               /\ x \in Events(r) /\ x.key = k
               /\ \A y \in Events(r) : y.key = k => y.version <= x.version
         /\ Newest(r, Events(r))[k] = {} => \A x \in Events(r) : x.key # k
<1> DEFINE of == {x \in Events(r) : x.key = k /\ x.version > held[r][k]}
<1>1. Newest(r, Events(r))[k] = {x \in of : \A y \in of : y.version <= x.version}
  BY DEF Newest
<1>2. \A x \in Events(r) : x.key = k => x \in of
  BY Ahead
<1>3. ASSUME NEW z \in Events(r), z.key = k PROVE Newest(r, Events(r))[k] # {}
  <2> DEFINE V == {x.version : x \in of}
  <2>1. V \in SUBSET Nat /\ V # {} /\ \A v \in V : v <= version[k]
    BY <1>2, <1>3, Ahead
  <2>2. version[k] \in Nat
    BY DEF TableInv, FeedTypes
  <2>3. Max(V) \in V /\ \A v \in V : v <= Max(V)
    <3> HIDE DEF V
    <3>1. QED
      BY <2>1, <2>2, MaxOf
  <2>4. PICK x \in of : x.version = Max(V)
    BY <2>3
  <2>5. \A y \in of : y.version <= x.version
    <3>1. \A y \in of : y.version \in V
      OBVIOUS
    <3> HIDE DEF V
    <3>2. QED
      BY <2>3, <2>4, <3>1
  <2>6. QED
    BY <1>1, <2>4, <2>5
<1>4. QED
  BY <1>1, <1>2, <1>3

\* The version held after the page.
Seen(r, k) == Max({held[r][k]} \cup {x.version : x \in Newest(r, Events(r))[k]})

LEMMA SeenType ==
  ASSUME TableInv, NEW r \in Reader, NEW k \in Key
  PROVE  Seen(r, k) \in Nat
<1> DEFINE new == Newest(r, Events(r))[k]
           S   == {held[r][k]} \cup {x.version : x \in new}
<1>1. \A x \in new : x \in Events(r) /\ \A y \in new : y.version <= x.version
  BY DEF Newest
<1>2. \A x \in Events(r) : x.version \in Nat
  BY PageFacts DEF TableInv, FeedTypes, Row
<1>3. held[r][k] \in Nat
  BY DEF TableInv, FeedTypes
<1>4. Seen(r, k) = Max(S)
  BY DEF Seen
<1>5. CASE new = {}
  <2>1. S = {held[r][k], held[r][k]}
    BY <1>5
  <2> QED
    BY <1>3, <1>4, <2>1, MaxTwo
<1>6. CASE new # {}
  <2>1. PICK x \in new : TRUE
    BY <1>6
  <2>2. \A y \in new : y.version = x.version
    BY <1>1, <1>2
  <2>3. S = {held[r][k], x.version} /\ x.version \in Nat
    BY <1>1, <1>2, <2>1, <2>2
  <2> QED
    BY <1>3, <1>4, <2>3, MaxTwo
<1> QED
  BY <1>5, <1>6

LEMMA SeenFacts ==
  ASSUME TableInv, FeedInv, NEW r \in Reader, NEW k \in Key \ anew
  PROVE  /\ Seen(r, k) \in Nat /\ Seen(r, k) <= version[k]
         /\ Seen(r, k) = held[r][k] \/ \E x \in Events(r) : x.key = k /\ x.version = Seen(r, k)
<1> DEFINE S == {held[r][k]} \cup {x.version : x \in Newest(r, Events(r))[k]}
<1>1. version[k] \in Nat /\ held[r][k] \in Nat /\ held[r][k] <= version[k]
  BY DEF FeedInv, TableInv, FeedTypes, VersionInv
<1>2. S \in SUBSET Nat /\ S # {} /\ \A v \in S : v <= version[k]
  BY <1>1, NewestFacts, Ahead
<1>3. Max(S) \in S
  <2> HIDE DEF S
  <2>1. QED
    BY <1>1, <1>2, MaxOf
<1>4. Seen(r, k) = Max(S)
  BY DEF Seen
<1>5. QED
  BY <1>2, <1>3, <1>4, NewestFacts

-----------------------------------------------------------------------------
(* The reader's steps *)

\* What a page without a gap leaves of the view.
Shown(r) == {k \in Key : IF Newest(r, Events(r))[k] = {} THEN k \in view[r]
                         ELSE \A x \in Newest(r, Events(r))[k] : x.grant}

\* Without an unread row of a resource, the page has told what the reader has of it.
LEMMA ShownFacts ==
  ASSUME TableInv, FeedInv, NEW r \in Reader, NEW k \in Key \ anew, ~relist[r], ~Gap(r),
         \A x \in rows : x.to = r /\ x.key = k => x.seq <= Handed(r)
  PROVE  k \in Shown(r) <=> <<r, k>> \in granted
<1>1. From(r) = cursor[r] /\ cursor[r] \in Nat /\ floor[r] \in Nat /\ cursor[r] >= floor[r]
  BY FromFacts DEF TableInv, FeedTypes, Gap
<1>2. \A x \in rows : x.seq \in Nat
  BY DEF TableInv, FeedTypes, Row
<1>3. CASE Newest(r, Events(r))[k] = {}
  <2>1. \A x \in rows : x.to = r /\ x.key = k => x.seq <= cursor[r]
    BY <1>1, <1>2, <1>3, Within, NewestFacts
  <2>2. k \in view[r] <=> <<r, k>> \in granted
    BY <1>1, <2>1 DEF FeedInv, ViewInv
  <2>3. QED
    BY <1>3, <2>2 DEF Shown
<1>4. CASE Newest(r, Events(r))[k] # {}
  <2>1. ASSUME NEW x \in Newest(r, Events(r))[k] PROVE x.grant <=> <<r, k>> \in granted
    <3>1. x \in Events(r) /\ x.key = k /\ \A y \in Events(r) : y.key = k => y.version <= x.version
      BY <2>1, NewestFacts
    <3>2. x \in rows /\ x.to = r /\ Counts(x) /\ x.seq > From(r) /\ x.version \in Nat
      BY <3>1, Ahead, PageFacts
    <3>3. ASSUME NEW y \in rows, Alike(x, y), y.seq > x.seq PROVE FALSE
      <4>1. y.to = r /\ y.key = k
        BY <3>1, <3>2, <3>3 DEF Alike
      <4>2. y \in Events(r)
        BY <1>1, <1>2, <3>2, <3>3, <4>1, Within
      <4>3. x.version < y.version /\ y.version \in Nat
        BY <3>2, <3>3, <4>2, Ahead DEF FeedInv, VersionInv
      <4>4. QED
        BY <3>1, <3>2, <4>1, <4>2, <4>3
    <3>4. \A y \in rows : Alike(x, y) => y.seq <= x.seq
      BY <1>2, <3>2, <3>3
    <3>5. QED
      BY <3>1, <3>2, <3>4 DEF FeedInv, GrantInv
  <2>2. QED
    BY <1>4, <2>1 DEF Shown
<1>5. QED
  BY <1>3, <1>4

LEMMA PollStep ==
  ASSUME TableInv, NEW r \in Reader, Poll(r)
  PROVE  TableInv' /\ (FeedInv => FeedInv')
<1>1. /\ UNCHANGED <<rows, lastSeq, version, floor, granted, backup, peak, anew, changes, restores>>
      /\ cursor' = [cursor EXCEPT ![r] = Handed(r)] /\ ~relist[r]
  BY DEF Poll, Handed, db
<1>2. Gap(r) => relist' = [relist EXCEPT ![r] = TRUE] /\ view' = view /\ held' = held
  BY DEF Poll
<1>3. ~Gap(r) => /\ relist' = relist
                 /\ view' = [view EXCEPT ![r] = Shown(r)]
                 /\ held' = [held EXCEPT ![r] = [k \in Key |-> Seen(r, k)]]
  BY DEF Poll, Shown, Seen
<1>4. FeedTypes'
  <2>1. Shown(r) \in SUBSET Key
    BY DEF Shown
  <2>2. [k \in Key |-> Seen(r, k)] \in [Key -> Nat]
    BY SeenType
  <2>3. relist' \in [Reader -> BOOLEAN] /\ view' \in [Reader -> SUBSET Key]
    BY <1>2, <1>3, <2>1 DEF TableInv, FeedTypes
  <2>4. held' \in [Reader -> [Key -> Nat]]
    BY <1>2, <1>3, <2>2 DEF TableInv, FeedTypes
  <2>5. cursor' \in [Reader -> Nat]
    BY <1>1, HandedFacts DEF TableInv, FeedTypes
  <2>6. QED
    BY <1>1, <2>3, <2>4, <2>5 DEF TableInv, FeedTypes
<1>5. /\ \A q \in Reader : cursor'[q] = IF q = r THEN Handed(r) ELSE cursor[q]
      /\ cursor[r] <= Handed(r) /\ floor[r] <= Handed(r) /\ Handed(r) <= peak
      /\ cursor[r] \in Nat /\ floor[r] \in Nat /\ Handed(r) \in Nat
  <2>1. From(r) \in Nat /\ cursor[r] <= From(r) /\ floor[r] <= From(r)
    BY FromFacts
  <2>2. Handed(r) \in Nat /\ From(r) <= Handed(r) /\ Handed(r) <= peak
    BY HandedFacts
  <2>3. cursor[r] \in Nat /\ floor[r] \in Nat
    BY DEF TableInv, FeedTypes
  <2>4. QED
    BY <1>1, <2>1, <2>2, <2>3 DEF TableInv, FeedTypes
<1>6. SeqInv'
  <2>1. ASSUME Handed(r) > floor[r] PROVE \E x \in rows : x.to = r /\ x.seq = Handed(r)
    <3>1. CASE \E x \in Events(r) : x.seq = Handed(r)
      BY <3>1, PageFacts
    <3>2. CASE Handed(r) = From(r)
      <4>1. From(r) = cursor[r]
        BY <1>5, <2>1, <3>2, FromFacts
      <4>2. QED
        BY <2>1, <3>2, <4>1 DEF TableInv, SeqInv
    <3>3. QED
      BY <3>1, <3>2, HandedFacts
  <2>2. QED
    BY <1>1, <1>5, <2>1 DEF TableInv, SeqInv, Numbered
<1>7. BackupInv'
  BY <1>1 DEF TableInv, BackupInv, Numbered
<1>15. TableInv'
  <2>1. KeptInv'
    BY <1>1 DEF TableInv, KeptInv, Table, Of
  <2> QED
    BY <1>4, <1>6, <1>7, <2>1 DEF TableInv
<1> SUFFICES ASSUME FeedInv PROVE FeedInv'
  BY <1>15
<1>16. LagInv'
  BY <1>1 DEF FeedInv, LagInv
<1>8. VersionInv'
  <2>1. \A x \in rows : Counts(x)' <=> Counts(x)
    BY <1>1 DEF Counts
  <2>2. \A q \in Reader, k \in Key : held'[q][k] \in {held[q][k], Seen(q, k)} /\ (q # r => held'[q][k] = held[q][k])
    BY <1>2, <1>3 DEF TableInv, FeedTypes
  <2>3. \A q \in Reader, k \in Key \ anew : held'[q][k] <= version[k]
    BY <2>2, SeenFacts DEF FeedInv, VersionInv
  <2>4. ASSUME NEW x \in rows, x.key \notin anew, x.seq > cursor'[x.to], Counts(x) PROVE x.version > held'[x.to][x.key]
    <3>1. x.seq \in Nat /\ x.to \in Reader /\ x.key \in Key /\ x.version \in Nat
      BY DEF TableInv, FeedTypes, Row
    <3>2. x.seq > cursor[x.to]
      BY <1>5, <2>4, <3>1
    <3>3. CASE held'[x.to][x.key] = held[x.to][x.key]
      BY <2>4, <3>2, <3>3 DEF FeedInv, VersionInv
    <3>4. CASE held'[x.to][x.key] # held[x.to][x.key]
      <4>1. x.to = r /\ held'[x.to][x.key] = Seen(r, x.key) /\ Seen(r, x.key) # held[r][x.key]
        BY <2>2, <3>1, <3>4
      <4>2. PICK p \in Events(r) : p.key = x.key /\ p.version = Seen(r, x.key)
        BY <2>4, <3>1, <4>1, SeenFacts
      <4>3. p \in rows /\ Counts(p) /\ Alike(p, x) /\ p.seq \in Nat
        BY <4>1, <4>2, Ahead DEF Alike
      <4>4. p.seq < x.seq
        BY <1>5, <2>4, <3>1, <4>1, <4>2, <4>3, HandedFacts
      <4>5. QED
        BY <4>1, <4>2, <4>3, <4>4, <3>1 DEF FeedInv, VersionInv
    <3>5. QED
      BY <3>3, <3>4
  <2>5. QED
    BY <1>1, <2>1, <2>3, <2>4 DEF FeedInv, VersionInv
<1>9. GrantInv'
  BY <1>1 DEF FeedInv, GrantInv, Counts
<1>10. ViewInv'
  <2>1. SUFFICES ASSUME NEW q \in Reader, ~relist'[q], cursor'[q] >= floor[q], NEW k \in Key \ anew,
                        \A x \in rows : x.to = q /\ x.key = k => x.seq <= cursor'[q]
                 PROVE  k \in view'[q] <=> <<q, k>> \in granted
    BY <1>1 DEF ViewInv
  <2>2. CASE q # r
    <3>1. relist'[q] = relist[q] /\ view'[q] = view[q] /\ cursor'[q] = cursor[q]
      BY <1>1, <1>2, <1>3, <2>2 DEF TableInv, FeedTypes
    <3>2. QED
      BY <2>1, <3>1 DEF FeedInv, ViewInv
  <2>3. CASE q = r
    <3>1. ~Gap(r)
      BY <1>2, <2>1, <2>3 DEF TableInv, FeedTypes
    <3>2. view'[r] = Shown(r)
      BY <1>3, <3>1 DEF TableInv, FeedTypes
    <3>3. \A x \in rows : x.to = r /\ x.key = k => x.seq <= Handed(r)
      BY <1>5, <2>1, <2>3
    <3>4. QED
      BY <1>1, <2>3, <3>1, <3>2, <3>3, ShownFacts
  <2>4. QED
    BY <2>2, <2>3
<1>11. QED
  BY <1>8, <1>9, <1>10, <1>15, <1>16 DEF FeedInv

LEMMA ListStep ==
  ASSUME TableInv, NEW r \in Reader, List(r)
  PROVE  TableInv' /\ (FeedInv => FeedInv')
<1> DEFINE listed == {k \in Key : <<r, k>> \in granted}
<1>1. /\ UNCHANGED <<rows, lastSeq, version, floor, granted, backup, cursor, held, peak, anew, changes, restores>>
      /\ relist' = [relist EXCEPT ![r] = FALSE] /\ view' = [view EXCEPT ![r] = listed]
  BY DEF List, db
<1>2. FeedTypes'
  BY <1>1 DEF TableInv, FeedTypes
<1>3. SeqInv' /\ BackupInv' /\ KeptInv'
  BY <1>1 DEF TableInv, SeqInv, BackupInv, Numbered, KeptInv, Table, Of
<1>7. TableInv'
  BY <1>2, <1>3 DEF TableInv
<1> SUFFICES ASSUME FeedInv PROVE FeedInv'
  BY <1>7
<1>4. LagInv' /\ VersionInv' /\ GrantInv'
  BY <1>1 DEF FeedInv, LagInv, VersionInv, GrantInv, Counts
<1>5. ViewInv'
  <2>1. view'[r] = listed /\ \A q \in Reader : q # r => view'[q] = view[q] /\ relist'[q] = relist[q]
    BY <1>1 DEF TableInv, FeedTypes
  <2>2. QED
    BY <1>1, <2>1 DEF FeedInv, ViewInv
<1>6. QED
  BY <1>4, <1>5, <1>7 DEF FeedInv

LEMMA BackupStep ==
  ASSUME TableInv, Backup
  PROVE  TableInv' /\ (FeedInv => FeedInv')
<1>1. /\ UNCHANGED <<rows, lastSeq, version, floor, granted, cursor, view, held, relist, peak, anew, changes, restores>>
      /\ backup' = Now
  BY DEF Backup, db, reader
<1>2. FeedTypes'
  BY <1>1 DEF TableInv, FeedTypes
<1>3. SeqInv'
  BY <1>1 DEF TableInv, SeqInv, Numbered
<1>4. BackupInv'
  <2>1. Now \in Db /\ IsFiniteSet(Now.rows)
    BY DEF TableInv, FeedTypes, Now, Db
  <2>2. Numbered(rows, peak)
    BY DEF TableInv, FeedTypes, SeqInv, Numbered, Row
  <2>3. \A r \in Reader : floor[r] <= peak
    BY DEF TableInv, FeedTypes, SeqInv
  <2> QED
    BY <1>1, <2>1, <2>2, <2>3 DEF BackupInv, Now, Numbered
<1>5. KeptInv'
  BY <1>1 DEF TableInv, KeptInv, Table, Of, Now
<1>6. TableInv'
  BY <1>2, <1>3, <1>4, <1>5 DEF TableInv
<1> SUFFICES ASSUME FeedInv PROVE FeedInv'
  BY <1>6
<1>7. LagInv'
  <2>1. \A k \in Key : version[k] <= version[k] + changes
    BY DEF TableInv, FeedTypes
  <2> QED
    BY <1>1, <2>1 DEF LagInv, Now
<1>8. VersionInv' /\ GrantInv' /\ ViewInv'
  BY <1>1 DEF FeedInv, VersionInv, GrantInv, ViewInv, Counts
<1> QED
  BY <1>6, <1>7, <1>8 DEF FeedInv

-----------------------------------------------------------------------------
(* The steps of the database *)

LEMMA RestoreStep ==
  ASSUME TableInv, Restore
  PROVE  TableInv' /\ (FeedInv /\ WithinJump => FeedInv')
<1> DEFINE base == peak + 1
<1>1. /\ backup # None /\ backup' = None
      /\ restores < MaxRestore /\ restores' = restores + 1
      /\ rows' = backup.rows /\ granted' = backup.granted /\ lastSeq' = base
      /\ floor' = [r \in Reader |-> Raised(r, base)]
      /\ version' = [k \in Key |-> Jumped(k)] /\ peak' = base
      /\ anew' = anew \cup {k \in Key : version[k] > 0 /\ backup.version[k] = 0}
      /\ UNCHANGED <<cursor, view, held, relist, changes>>
  BY DEF Restore, reader
<1>2. /\ backup \in Db /\ IsFiniteSet(backup.rows) /\ Numbered(backup.rows, peak)
      /\ \A r \in Reader : backup.floor[r] <= peak
  BY <1>1 DEF TableInv, BackupInv
<1>3. /\ backup.rows \subseteq Row /\ backup.version \in [Key -> Nat]
      /\ backup.floor \in [Reader -> Nat] /\ backup.granted \subseteq Reader \X Key
  BY <1>2 DEF Db
<1>4. peak \in Nat /\ changes \in Nat /\ Jump \in Nat /\ base \in Nat /\ base > peak
  BY FeedAssumption DEF TableInv, FeedTypes
<1>5. \A r \in Reader : floor'[r] = base
  <2>1. TAKE r \in Reader
  <2>2. backup.floor[r] \in Nat /\ backup.floor[r] < base
    BY <1>2, <1>3, <1>4
  <2>3. Raised(r, base) = base
    BY <1>4, <2>2, MaxTwo DEF Raised
  <2>4. QED
    BY <1>1, <2>3
<1>6. \A k \in Key : /\ backup.version[k] \in Nat /\ version'[k] \in Nat
                     /\ version'[k] = IF backup.version[k] = 0 THEN 0 ELSE backup.version[k] + Jump
  <2>1. TAKE k \in Key
  <2>2. version'[k] = IF backup.version[k] = 0 THEN 0 ELSE backup.version[k] + Jump
    BY <1>1 DEF Jumped
  <2>3. QED
    BY <1>3, <1>4, <2>2
<1>7. \A r \in Reader : cursor[r] \in Nat /\ cursor[r] <= peak
  BY DEF TableInv, FeedTypes, SeqInv
<1>8. FeedTypes'
  <2>1. version' \in [Key -> Nat]
    BY <1>1, <1>6
  <2>2. floor' \in [Reader -> Nat]
    BY <1>1, <1>4, <1>5
  <2>3. QED
    BY <1>1, <1>2, <1>3, <1>4, <2>1, <2>2 DEF TableInv, FeedTypes
<1>9. SeqInv'
  <2>1. Numbered(rows', lastSeq')
    BY <1>1, <1>2, <1>3, <1>4 DEF Numbered, Row
  <2>2. \A r \in Reader : floor'[r] <= lastSeq' /\ cursor'[r] <= peak' /\ ~ (cursor'[r] > floor'[r])
    BY <1>1, <1>4, <1>5, <1>7
  <2>3. lastSeq' <= peak'
    BY <1>1, <1>4
  <2>4. QED
    BY <2>1, <2>2, <2>3 DEF SeqInv, Numbered
<1>10. BackupInv'
  BY <1>1 DEF BackupInv
<1>11. KeptInv'
  <2>1. restores' \in 0..MaxRestore
    BY <1>1, FeedAssumption DEF TableInv, KeptInv
  <2>2. Table(rows')
    BY <1>1 DEF TableInv, KeptInv, Table, Of
  <2> QED
    BY <1>1, <2>1, <2>2 DEF KeptInv, Table, Of
<1>12. TableInv'
  BY <1>8, <1>9, <1>10, <1>11 DEF TableInv
<1> SUFFICES ASSUME FeedInv, WithinJump PROVE FeedInv'
  BY <1>12
<1>13. \A k \in Key \ anew' : k \notin anew /\ version[k] <= version'[k] /\ version[k] \in Nat
  <2>1. TAKE k \in Key \ anew'
  <2>2. version[k] \in Nat /\ version[k] <= backup.version[k] + changes
    BY <1>1 DEF FeedInv, LagInv, TableInv, FeedTypes
  <2>3. k \notin anew /\ ~ (version[k] > 0 /\ backup.version[k] = 0)
    BY <1>1, <2>1
  <2>4. changes <= Jump
    BY <1>4, FeedAssumption DEF WithinJump, TableInv, FeedTypes
  <2> QED
    BY <1>4, <1>6, <2>2, <2>3, <2>4
<1>14. \A x \in rows' : ~Counts(x)'
  <2>1. TAKE x \in rows'
  <2>2. x.to \in Reader /\ x.seq \in Nat /\ x.seq <= peak
    BY <1>1, <1>2, <1>3 DEF Numbered, Row
  <2>3. floor'[x.to] = base
    BY <1>5, <2>2
  <2>4. QED
    BY <1>4, <2>2, <2>3 DEF Counts
<1>15. LagInv'
  BY <1>1 DEF LagInv
<1>16. VersionInv'
  <2>1. \A r \in Reader, k \in Key \ anew' : held'[r][k] <= version'[k]
    <3>1. TAKE r \in Reader, k \in Key \ anew'
    <3>2. held[r][k] <= version[k] /\ held[r][k] \in Nat
      BY <1>13 DEF FeedInv, TableInv, FeedTypes, VersionInv
    <3>3. QED
      BY <1>1, <1>6, <1>13, <3>2
  <2>2. QED
    BY <1>14, <2>1 DEF VersionInv
<1>17. GrantInv'
  BY <1>14 DEF GrantInv
<1>18. ViewInv'
  <2>1. \A r \in Reader : ~ (cursor'[r] >= floor'[r])
    BY <1>1, <1>4, <1>5, <1>7
  <2>2. QED
    BY <2>1 DEF ViewInv
<1> QED
  BY <1>12, <1>15, <1>16, <1>17, <1>18 DEF FeedInv

\* The rows a change adds: one for each recipient, all beyond the last.
Added(k, S, grant, order) ==
    {[seq |-> lastSeq + order[r], to |-> r, key |-> k,
      version |-> version[k] + 1, grant |-> grant] : r \in S}

LEMMA AddedFacts ==
  ASSUME TableInv, NEW k \in Key, NEW S \in SUBSET Reader, NEW grant \in BOOLEAN,
         NEW order \in [S -> 1..Cardinality(S)],
         \A a, b \in S : order[a] = order[b] => a = b
  PROVE  LET new == Added(k, S, grant, order)
         IN  /\ IsFiniteSet(new) /\ Cardinality(S) \in Nat
             /\ \A x \in new : /\ x \in Row /\ x.to \in S /\ x.key = k /\ x.grant = grant
                               /\ x.version = version[k] + 1
                               /\ lastSeq < x.seq /\ x.seq <= lastSeq + Cardinality(S)
             /\ \A x, y \in new : x.to = y.to \/ x.seq = y.seq => x = y
             /\ \A r \in S : \E x \in new : x.to = r
<1> DEFINE row(r) == [seq |-> lastSeq + order[r], to |-> r, key |-> k,
                      version |-> version[k] + 1, grant |-> grant]
           new == Added(k, S, grant, order)
<1>1. IsFiniteSet(S) /\ Cardinality(S) \in Nat
  BY FeedAssumption, FS_Subset, FS_CardinalityType
<1>2. new = {row(r) : r \in S}
  BY DEF Added
<1>3. lastSeq \in Nat /\ version[k] \in Nat
  BY DEF TableInv, FeedTypes
<1>4. \A r \in S : order[r] \in Nat /\ 1 <= order[r] /\ order[r] <= Cardinality(S)
  BY <1>1
<1>5. \A r \in S : /\ row(r) \in Row /\ row(r).to = r /\ row(r).key = k /\ row(r).grant = grant
                   /\ row(r).version = version[k] + 1
                   /\ lastSeq < row(r).seq /\ row(r).seq <= lastSeq + Cardinality(S)
  BY <1>1, <1>3, <1>4 DEF Row
<1>6. IsFiniteSet(new)
  <2> DEFINE f == [r \in S |-> row(r)]
  <2>1. f \in Surjection(S, new)
    BY <1>2 DEF Surjection
  <2> HIDE DEF f, new
  <2>2. QED
    BY <1>1, <2>1, FS_Surjection
<1>7. \A x \in new : \E r \in S : x = row(r)
  BY <1>2
<1>8. \A x \in new : /\ x \in Row /\ x.to \in S /\ x.key = k /\ x.grant = grant
                     /\ x.version = version[k] + 1
                     /\ lastSeq < x.seq /\ x.seq <= lastSeq + Cardinality(S)
  <2>1. TAKE x \in new
  <2>2. PICK r \in S : x = row(r)
    BY <1>7
  <2> HIDE DEF row
  <2>3. QED
    BY <1>5, <2>2
<1>9. \A x, y \in new : x.to = y.to \/ x.seq = y.seq => x = y
  <2>1. TAKE x, y \in new
  <2>2. PICK r \in S, q \in S : x = row(r) /\ y = row(q)
    BY <1>7
  <2>3. row(r).seq = row(q).seq => r = q
    BY <1>3, <1>4
  <2> HIDE DEF row
  <2>4. QED
    BY <1>5, <2>2, <2>3
<1>10. \A r \in S : \E x \in new : x.to = r
  <2>1. \A r \in S : row(r) \in new
    BY <1>2
  <2> HIDE DEF row
  <2>2. QED
    BY <1>5, <2>1
<1>11. QED
  BY <1>1, <1>6, <1>8, <1>9, <1>10

\* The cutoff of a recipient is the number of one of its rows.
LEMMA EdgeFacts ==
  ASSUME NEW R \in SUBSET Row, NEW top \in Nat, \A x \in R : x.seq <= top, NEW r \in Reader
  PROVE  Edge(r, R) \in Nat /\ Edge(r, R) <= top
<1> DEFINE old == {x \in Of(r, R) : Above(x, R) >= Retention}
           T == {x.seq : x \in old}
<1>1. Edge(r, R) = IF old = {} THEN 0 ELSE Max(T)
  BY DEF Edge
<1>2. T \in SUBSET Nat /\ \A t \in T : t <= top
  BY DEF Of, Row
<1>3. CASE old = {}
  BY <1>1, <1>3
<1>4. CASE old # {}
  <2>1. T # {}
    BY <1>4
  <2>2. Max(T) \in T
    <3> HIDE DEF T
    <3>1. QED
      BY <1>2, <2>1, MaxOf
  <2>3. QED
    BY <1>1, <1>2, <1>4, <2>2
<1>5. QED
  BY <1>3, <1>4

\* So no more rows of a recipient are left above it than are kept: the lowest of
\* them has fewer than Retention above.
LEMMA PrunedFacts ==
  ASSUME NEW R \in SUBSET Row, IsFiniteSet(R), NEW top \in Nat, \A x \in R : x.seq <= top,
         \A x, y \in R : x.seq = y.seq => x = y, NEW r \in Reader
  PROVE  Cardinality({x \in Of(r, R) : x.seq > Edge(r, R)}) <= Retention
<1> DEFINE kept == {x \in Of(r, R) : x.seq > Edge(r, R)}
           old == {x \in Of(r, R) : Above(x, R) >= Retention}
           T == {x.seq : x \in old}
           N == {x.seq : x \in kept}
<1> SUFFICES Cardinality(kept) <= Retention
  OBVIOUS
<1>1. \A x \in Of(r, R) : x \in R /\ x.to = r /\ x.seq \in Nat
  BY DEF Of, Row
<1>2. Edge(r, R) \in Nat
  BY EdgeFacts
<1>3. \A x \in old : x.seq <= Edge(r, R)
  <2>1. T \in SUBSET Nat /\ (\A n \in T : n <= top) /\ \A x \in old : x.seq \in T
    BY <1>1
  <2>2. old # {} => Edge(r, R) = Max(T)
    BY DEF Edge
  <2>3. T # {} => \A n \in T : n <= Max(T)
    <3> HIDE DEF T
    <3> QED
      BY <2>1, MaxOf
  <2> HIDE DEF T, old
  <2> QED
    BY <2>1, <2>2, <2>3
<1>4. IsFiniteSet(kept) /\ Cardinality(kept) \in Nat
  <2>1. kept \in SUBSET R
    BY DEF Of
  <2> HIDE DEF kept
  <2> QED
    BY <2>1, FS_Subset, FS_CardinalityType
<1>5. CASE kept = {}
  <2>1. Cardinality(kept) = 0
    BY <1>5, FS_EmptySet
  <2> QED
    BY <2>1, FeedAssumption
<1>6. CASE kept # {}
  <2>1. N \in SUBSET Nat /\ N # {}
    BY <1>1, <1>6
  <2>2. PICK n \in N : \A q \in N : n <= q
    <3> HIDE DEF N
    <3> QED
      BY <2>1, MinExists
  <2>3. PICK m \in kept : m.seq = n
    BY <2>2
  <2>4. \A x \in kept : m.seq <= x.seq
    BY <2>2, <2>3
  <2> DEFINE above == {y \in Of(m.to, R) : y.seq > m.seq}
  <2>5. Above(m, R) < Retention
    <3>1. m \notin old
      BY <1>1, <1>2, <1>3, <2>3
    <3>2. Above(m, R) \in Nat
      <4>1. above \in SUBSET R
        BY DEF Of
      <4>2. IsFiniteSet(above)
        <5> HIDE DEF above
        <5> QED
          BY <4>1, FS_Subset
      <4> QED
        BY <4>2, FS_CardinalityType DEF Above
    <3> QED
      BY <2>3, <3>1, <3>2, FeedAssumption
  <2>6. kept \ {m} \in SUBSET above
    <3>1. SUFFICES ASSUME NEW x \in kept, x # m PROVE x \in above
      OBVIOUS
    <3>2. x \in R /\ m \in R /\ x.to = r /\ m.to = r /\ x.seq \in Nat /\ m.seq \in Nat
      BY <1>1, <2>3
    <3>3. m.seq <= x.seq /\ x.seq # m.seq
      BY <2>4, <3>1, <3>2
    <3> QED
      BY <3>2, <3>3 DEF Of
  <2>7. Cardinality(kept \ {m}) <= Cardinality(above) /\ Cardinality(above) \in Nat
    <3>1. above \in SUBSET R
      BY DEF Of
    <3>2. IsFiniteSet(above)
      <4> HIDE DEF above
      <4> QED
        BY <3>1, FS_Subset
    <3> HIDE DEF above, kept
    <3> QED
      BY <2>6, <3>2, FS_Subset, FS_CardinalityType
  <2>8. Cardinality(kept \ {m}) = Cardinality(kept) - 1
    <3> HIDE DEF kept
    <3> QED
      BY <1>4, <2>3, FS_RemoveElement
  <2>9. Cardinality(above) < Retention
    BY <2>5 DEF Above
  <2>10. Cardinality(kept \ {m}) < Retention /\ Retention \in Nat
    <3>1. \A a, b, c \in Int : a <= b /\ b < c => a < c
      OBVIOUS
    <3>2. Cardinality(kept \ {m}) \in Int /\ Cardinality(above) \in Int /\ Retention \in Nat
      BY <1>4, <2>7, <2>8, FeedAssumption
    <3> HIDE DEF kept, above
    <3> QED
      BY <2>7, <2>9, <3>1, <3>2
  <2> HIDE DEF kept, above
  <2> QED
    BY <1>4, <2>8, <2>10
<1> QED
  BY <1>5, <1>6

LEMMA ChangeStep ==
  ASSUME TableInv, NEW k \in Key, NEW S \in SUBSET Reader, NEW grant \in BOOLEAN, Change(k, S, grant)
  PROVE  TableInv' /\ (FeedInv => FeedInv')
<1> DEFINE n == Cardinality(S)
<1>1. PICK order \in [S -> 1..n] :
         LET all == rows \cup Added(k, S, grant, order)
             edge == [r \in Reader |-> IF r \in S THEN Edge(r, all) ELSE 0]
         IN /\ \A a, b \in S : order[a] = order[b] => a = b
            /\ changes < MaxChange /\ changes' = changes + 1
            /\ granted' = IF grant THEN granted \cup (S \X {k}) ELSE granted \ (S \X {k})
            /\ version' = [version EXCEPT ![k] = version[k] + 1]
            /\ lastSeq' = lastSeq + n
            /\ rows' = {x \in all : x.seq > edge[x.to]}
            /\ floor' = [r \in Reader |-> Max({floor[r], edge[r]})]
            /\ peak' = Max({peak, lastSeq'})
            /\ UNCHANGED <<backup, cursor, view, held, relist, anew, restores>>
  BY DEF Change, Added, reader
<1> DEFINE new  == Added(k, S, grant, order)
           all  == rows \cup new
           edge == [r \in Reader |-> IF r \in S THEN Edge(r, all) ELSE 0]
<1>2. /\ IsFiniteSet(new) /\ n \in Nat
      /\ \A x \in new : /\ x \in Row /\ x.to \in S /\ x.key = k /\ x.grant = grant
                        /\ x.version = version[k] + 1 /\ lastSeq < x.seq /\ x.seq <= lastSeq + n
      /\ \A x, y \in new : x.to = y.to \/ x.seq = y.seq => x = y
      /\ \A r \in S : \E x \in new : x.to = r
  BY <1>1, AddedFacts
<1>3. /\ changes < MaxChange /\ changes' = changes + 1
      /\ granted' = IF grant THEN granted \cup (S \X {k}) ELSE granted \ (S \X {k})
      /\ version' = [version EXCEPT ![k] = version[k] + 1] /\ lastSeq' = lastSeq + n
      /\ rows' = {x \in all : x.seq > edge[x.to]}
      /\ floor' = [r \in Reader |-> Max({floor[r], edge[r]})] /\ peak' = Max({peak, lastSeq'})
      /\ UNCHANGED <<backup, cursor, view, held, relist, anew, restores>>
  BY <1>1
<1> HIDE DEF new
<1>4. /\ rows \subseteq Row /\ lastSeq \in Nat /\ peak \in Nat /\ changes \in Nat
      /\ \A q \in Key : version[q] \in Nat
      /\ \A r \in Reader : cursor[r] \in Nat /\ floor[r] \in Nat /\ floor[r] <= lastSeq
      /\ \A x \in rows : 1 <= x.seq /\ x.seq <= lastSeq
  BY DEF TableInv, FeedTypes, SeqInv, Numbered
<1>5. all \in SUBSET Row /\ (\A x \in all : x.seq <= lastSeq + n) /\ lastSeq + n \in Nat
  BY <1>2, <1>4 DEF Row
<1>6. \A r \in Reader : edge[r] \in Nat /\ edge[r] <= lastSeq + n
  <2> HIDE DEF all
  <2>1. QED
    BY <1>4, <1>5, EdgeFacts
<1>22. \A r \in Reader : edge[r] = IF r \in S THEN Edge(r, all) ELSE 0
  OBVIOUS
<1> HIDE DEF edge
<1>7. \A r \in Reader : /\ floor'[r] \in Nat /\ floor'[r] <= lastSeq'
                        /\ floor[r] <= floor'[r] /\ edge[r] <= floor'[r]
  <2>1. TAKE r \in Reader
  <2>2. Max({floor[r], edge[r]}) \in {floor[r], edge[r]}
        /\ floor[r] <= Max({floor[r], edge[r]}) /\ edge[r] <= Max({floor[r], edge[r]})
    BY <1>4, <1>6, MaxTwo
  <2>3. QED
    BY <1>2, <1>3, <1>4, <1>6, <2>2
<1>8. peak' \in Nat /\ peak <= peak' /\ lastSeq' <= peak'
  BY <1>3, <1>4, <1>5, MaxTwo
<1>9. /\ \A x \in rows' : x \in rows \/ x \in new
      /\ \A x \in all : x.seq > floor'[x.to] => x \in rows'
  <2>1. \A x \in all : x.seq \in Nat /\ x.to \in Reader
    BY <1>5 DEF Row
  <2>2. QED
    BY <1>3, <1>6, <1>7, <2>1
<1>10. \A x \in all : x.seq \in Nat /\ x.to \in Reader /\ x.key \in Key /\ x.version \in Nat
  BY <1>5 DEF Row
<1>11. \A q \in Key : version'[q] = IF q = k THEN version[k] + 1 ELSE version[q]
  BY <1>3 DEF TableInv, FeedTypes
<1>12. \A x \in rows : Counts(x)' => Counts(x)
  BY <1>4, <1>7, <1>10 DEF Counts
<1>13. \A r \in Reader : cursor[r] >= floor'[r] =>
          \A x \in rows : x.to = r => x \in rows' \/ x.seq <= cursor[r]
  <2>1. TAKE r \in Reader
  <2>2. HAVE cursor[r] >= floor'[r]
  <2>3. TAKE x \in rows
  <2>4. HAVE x.to = r
  <2>5. x.seq > floor'[r] => x \in rows'
    BY <1>9, <2>4
  <2>6. QED
    BY <1>4, <1>7, <1>10, <2>2, <2>5
<1>14. FeedTypes'
  <2>1. IsFiniteSet(rows')
    <3>1. IsFiniteSet(all)
      BY <1>2, FS_Union DEF TableInv, FeedTypes
    <3>2. rows' \in SUBSET all
      BY <1>3
    <3> HIDE DEF all
    <3>3. QED
      BY <3>1, <3>2, FS_Subset
  <2>2. rows' \subseteq Row
    BY <1>5, <1>9
  <2>3. granted' \subseteq Reader \X Key
    BY <1>3 DEF TableInv, FeedTypes
  <2>4. version' \in [Key -> Nat]
    BY <1>3, <1>4, <1>11 DEF TableInv, FeedTypes
  <2>5. floor' \in [Reader -> Nat]
    BY <1>3, <1>7
  <2>6. changes' \in 0..MaxChange
    BY <1>3, <1>4, FeedAssumption
  <2>7. lastSeq' \in Nat
    BY <1>3, <1>5
  <2>8. QED
    BY <1>3, <1>8, <2>1, <2>2, <2>3, <2>4, <2>5, <2>6, <2>7 DEF TableInv, FeedTypes
<1>15. SeqInv'
  <2>1. \A x \in rows' : 1 <= x.seq /\ x.seq <= lastSeq'
    BY <1>2, <1>3, <1>4, <1>9, <1>10
  <2>2. \A x, y \in rows' : x.to = y.to /\ x.seq = y.seq => x = y
    <3>1. TAKE x, y \in rows'
    <3>2. HAVE x.to = y.to /\ x.seq = y.seq
    <3>3. CASE x \in rows /\ y \in rows
      BY <3>2, <3>3 DEF TableInv, SeqInv, Numbered
    <3>4. CASE x \in new /\ y \in new
      BY <1>2, <3>2, <3>4
    <3>5. CASE x \in rows /\ y \in new
      BY <1>2, <1>4, <1>10, <3>2, <3>5
    <3>6. CASE x \in new /\ y \in rows
      BY <1>2, <1>4, <1>10, <3>2, <3>6
    <3>7. QED
      BY <1>9, <3>3, <3>4, <3>5, <3>6
  <2>3. \A r \in Reader : floor'[r] <= lastSeq' /\ cursor'[r] <= peak'
    BY <1>3, <1>4, <1>7, <1>8 DEF TableInv, SeqInv
  <2>4. ASSUME NEW r \in Reader, cursor'[r] > floor'[r] PROVE \E x \in rows' : x.to = r /\ x.seq = cursor'[r]
    <3>1. cursor[r] > floor[r] /\ cursor[r] > floor'[r] /\ cursor'[r] = cursor[r]
      BY <1>3, <1>4, <1>7, <2>4
    <3>2. PICK x \in rows : x.to = r /\ x.seq = cursor[r]
      BY <3>1 DEF TableInv, SeqInv
    <3>3. x \in rows'
      BY <1>9, <3>1, <3>2
    <3>4. QED
      BY <3>1, <3>2, <3>3
  <2>5. QED
    BY <1>8, <2>1, <2>2, <2>3, <2>4 DEF SeqInv, Numbered
<1>16. BackupInv'
  <2>1. SUFFICES ASSUME backup # None
                 PROVE  /\ backup \in Db /\ IsFiniteSet(backup.rows) /\ Numbered(backup.rows, peak')
                        /\ \A r \in Reader : backup.floor[r] <= peak'
    BY <1>3 DEF BackupInv, Numbered
  <2>2. /\ backup \in Db /\ IsFiniteSet(backup.rows) /\ Numbered(backup.rows, peak)
        /\ \A r \in Reader : backup.floor[r] <= peak
    BY <2>1 DEF TableInv, BackupInv
  <2>3. /\ backup.rows \subseteq Row /\ backup.floor \in [Reader -> Nat] /\ backup.version \in [Key -> Nat]
    BY <2>2 DEF Db
  <2>4. Numbered(backup.rows, peak')
    BY <1>4, <1>8, <2>2, <2>3 DEF Numbered, Row
  <2>5. \A r \in Reader : backup.floor[r] <= peak'
    BY <1>4, <1>8, <2>2, <2>3
  <2>6. QED
    BY <2>2, <2>4, <2>5
<1>21. KeptInv'
  <2>1. \A x, y \in all : x.seq = y.seq => x = y
    <3>1. TAKE x, y \in all
    <3>2. HAVE x.seq = y.seq
    <3>3. CASE x \in rows /\ y \in rows
      BY <3>2, <3>3 DEF TableInv, KeptInv, Table
    <3>4. CASE x \in new /\ y \in new
      BY <1>2, <3>2, <3>4
    <3>5. CASE x \in rows /\ y \in new
      BY <1>2, <1>4, <1>10, <3>2, <3>5
    <3>6. CASE x \in new /\ y \in rows
      BY <1>2, <1>4, <1>10, <3>2, <3>6
    <3>7. QED
      BY <3>3, <3>4, <3>5, <3>6
  <2>2. IsFiniteSet(all)
    BY <1>2, FS_Union DEF TableInv, FeedTypes
  <2>3. ASSUME NEW r \in Reader PROVE Cardinality(Of(r, rows')) <= Retention
    <3>1. CASE r \in S
      <4>1. Of(r, rows') = {x \in Of(r, all) : x.seq > Edge(r, all)}
        BY <1>3, <1>22, <3>1 DEF Of
      <4> HIDE DEF all
      <4> QED
        BY <1>5, <2>1, <2>2, <4>1, PrunedFacts
    <3>2. CASE r \notin S
      <4>1. Of(r, rows') \in SUBSET Of(r, rows)
        BY <1>2, <1>9, <3>2 DEF Of
      <4>2. IsFiniteSet(Of(r, rows)) /\ Cardinality(Of(r, rows)) <= Retention
        <5>1. Of(r, rows) \in SUBSET rows /\ IsFiniteSet(rows)
          BY DEF Of, TableInv, FeedTypes
        <5> QED
          BY <5>1, FS_Subset DEF TableInv, KeptInv, Table
      <4>3. /\ Cardinality(Of(r, rows')) <= Cardinality(Of(r, rows))
            /\ Cardinality(Of(r, rows')) \in Nat /\ Cardinality(Of(r, rows)) \in Nat
        BY <4>1, <4>2, FS_Subset, FS_CardinalityType
      <4> QED
        BY <4>2, <4>3, FeedAssumption
    <3> QED
      BY <3>1, <3>2
  <2>4. Table(rows')
    BY <1>3, <2>1, <2>3 DEF Table
  <2> QED
    BY <1>3, <2>4 DEF TableInv, KeptInv, Table, Of
<1>23. TableInv'
  BY <1>14, <1>15, <1>16, <1>21 DEF TableInv
<1> SUFFICES ASSUME FeedInv PROVE FeedInv'
  BY <1>23
<1>24. LagInv'
  <2>1. SUFFICES ASSUME backup # None, NEW q \in Key
                 PROVE  version'[q] <= backup.version[q] + changes'
    BY <1>3 DEF LagInv
  <2>2. version[q] <= backup.version[q] + changes /\ backup.version \in [Key -> Nat]
    BY <2>1 DEF FeedInv, LagInv, TableInv, BackupInv, Db
  <2> QED
    BY <1>3, <1>4, <1>11, <2>2
<1>17. VersionInv'
  <2>1. \A x \in rows' : Counts(x)' => x.version <= version'[x.key]
    BY <1>2, <1>4, <1>9, <1>10, <1>11, <1>12 DEF FeedInv, VersionInv
  <2>2. ASSUME NEW x \in rows', NEW y \in rows', Counts(x)', Alike(x, y), x.seq < y.seq
        PROVE  x.version < y.version
    <3>1. CASE x \in rows /\ y \in rows
      BY <1>12, <2>2, <3>1 DEF FeedInv, VersionInv
    <3>2. CASE x \in new /\ y \in new
      BY <1>2, <1>10, <2>2, <3>2 DEF Alike
    <3>3. CASE x \in rows /\ y \in new
      <4>1. x.version <= version[x.key] /\ x.key = k
        BY <1>2, <1>12, <2>2, <3>3 DEF FeedInv, VersionInv, Alike
      <4>2. QED
        BY <1>2, <1>4, <1>10, <3>3, <4>1
    <3>4. CASE x \in new /\ y \in rows
      BY <1>2, <1>4, <1>10, <2>2, <3>4
    <3>5. QED
      BY <1>9, <3>1, <3>2, <3>3, <3>4
  <2>3. \A r \in Reader, q \in Key \ anew : held[r][q] \in Nat /\ held[r][q] <= version[q]
    BY DEF FeedInv, TableInv, FeedTypes, VersionInv
  <2>4. \A r \in Reader, q \in Key \ anew : held'[r][q] <= version'[q]
    BY <1>3, <1>4, <1>11, <2>3
  <2>5. ASSUME NEW x \in rows', x.key \notin anew, x.seq > cursor[x.to], Counts(x)' PROVE x.version > held[x.to][x.key]
    <3>1. CASE x \in rows
      BY <1>12, <2>5, <3>1 DEF FeedInv, VersionInv
    <3>2. CASE x \in new
      <4>1. x.version = version[k] + 1 /\ x.key = k /\ x.to \in Reader
        BY <1>2, <1>10, <3>2
      <4>2. QED
        BY <1>4, <2>3, <2>5, <4>1
    <3>3. QED
      BY <1>9, <3>1, <3>2
  <2>6. QED
    BY <1>3, <2>1, <2>2, <2>4, <2>5 DEF VersionInv
<1>18. GrantInv'
  <2>1. SUFFICES ASSUME NEW x \in rows', Counts(x)', \A y \in rows' : Alike(x, y) => y.seq <= x.seq
                 PROVE  x.grant <=> <<x.to, x.key>> \in granted'
    BY DEF GrantInv
  <2>2. CASE x \in new
    <3>1. x.to \in S /\ x.key = k /\ x.grant = grant
      BY <1>2, <2>2
    <3>2. QED
      BY <1>3, <3>1
  <2>3. CASE x \in rows
    <3>1. ASSUME NEW y \in all, Alike(x, y), y.seq > x.seq PROVE FALSE
      <4>1. x.seq > floor'[x.to] /\ y.to = x.to /\ floor'[x.to] \in Nat
        BY <1>7, <1>10, <2>1, <2>3, <3>1 DEF Counts, Alike
      <4>2. y.seq > floor'[y.to]
        BY <1>10, <2>3, <3>1, <4>1
      <4>3. y \in rows'
        BY <1>9, <4>2
      <4>4. QED
        BY <1>10, <2>1, <2>3, <3>1, <4>3
    <3>2. ~ (x.to \in S /\ x.key = k)
      <4>1. SUFFICES ASSUME x.to \in S, x.key = k PROVE FALSE
        OBVIOUS
      <4>2. PICK z \in new : z.to = x.to
        BY <1>2, <4>1
      <4>3. Alike(x, z) /\ z.seq > x.seq
        BY <1>2, <1>4, <1>10, <2>3, <4>1, <4>2 DEF Alike
      <4>4. QED
        BY <3>1, <4>3
    <3>3. \A y \in rows : Alike(x, y) => y.seq <= x.seq
      BY <1>10, <2>3, <3>1
    <3>4. x.grant <=> <<x.to, x.key>> \in granted
      BY <1>12, <2>1, <2>3, <3>3 DEF FeedInv, GrantInv
    <3>5. <<x.to, x.key>> \in granted' <=> <<x.to, x.key>> \in granted
      BY <1>3, <3>2
    <3>6. QED
      BY <3>4, <3>5
  <2>4. QED
    BY <1>9, <2>2, <2>3
<1>19. ViewInv'
  <2>1. SUFFICES ASSUME NEW r \in Reader, ~relist[r], cursor[r] >= floor'[r], NEW q \in Key \ anew,
                        \A x \in rows' : x.to = r /\ x.key = q => x.seq <= cursor[r]
                 PROVE  q \in view[r] <=> <<r, q>> \in granted'
    BY <1>3 DEF ViewInv
  <2>2. cursor[r] <= lastSeq
    <3>1. CASE cursor[r] > floor[r]
      BY <1>4, <3>1 DEF TableInv, SeqInv
    <3>2. CASE ~ (cursor[r] > floor[r])
      BY <1>4, <3>2
    <3>3. QED
      BY <3>1, <3>2
  <2>3. ~ (r \in S /\ q = k)
    <3>1. SUFFICES ASSUME r \in S, q = k PROVE FALSE
      OBVIOUS
    <3>2. PICK z \in new : z.to = r
      BY <1>2, <3>1
    <3>3. z.seq > cursor[r] /\ z.key = q
      BY <1>2, <1>4, <1>10, <2>2, <3>1, <3>2
    <3>4. z.seq > floor'[z.to]
      BY <1>4, <1>7, <1>10, <2>1, <3>2, <3>3
    <3>5. z \in rows'
      BY <1>9, <3>4
    <3>6. QED
      BY <1>4, <1>10, <2>1, <3>2, <3>3, <3>5
  <2>4. \A x \in rows : x.to = r /\ x.key = q => x.seq <= cursor[r]
    BY <1>13, <2>1
  <2>5. cursor[r] >= floor[r]
    BY <1>4, <1>7, <2>1
  <2>6. q \in view[r] <=> <<r, q>> \in granted
    BY <2>1, <2>4, <2>5 DEF FeedInv, ViewInv
  <2>7. <<r, q>> \in granted' <=> <<r, q>> \in granted
    BY <1>3, <2>3
  <2>8. QED
    BY <2>6, <2>7
<1>20. QED
  BY <1>17, <1>18, <1>19, <1>23, <1>24 DEF FeedInv

-----------------------------------------------------------------------------
(* The theorems *)

LEMMA InitFeed ==
  ASSUME Init
  PROVE  FeedInv
<1>1. IsFiniteSet({})
  BY FS_EmptySet
<1>2. FeedTypes
  BY <1>1, FeedAssumption DEF Init, FeedTypes
<1>3. SeqInv
  BY DEF Init, SeqInv, Numbered
<1>4. BackupInv
  BY DEF Init, BackupInv
<1>5. VersionInv /\ GrantInv /\ ViewInv
  BY DEF Init, VersionInv, GrantInv, ViewInv
<1>7. KeptInv
  <2>1. \A r \in Reader : Cardinality(Of(r, rows)) = 0
    BY FS_EmptySet DEF Init, Of
  <2> QED
    BY <2>1, FeedAssumption DEF Init, KeptInv, Table
<1>8. LagInv
  BY DEF Init, LagInv
<1>6. QED
  BY <1>2, <1>3, <1>4, <1>5, <1>7, <1>8 DEF FeedInv, TableInv

LEMMA NextFeed ==
  ASSUME TableInv, [Next]_vars
  PROVE  TableInv' /\ (FeedInv /\ WithinJump => FeedInv')
<1>1. ASSUME NEW k \in Key, NEW S \in SUBSET Reader \ {{}}, NEW grant \in BOOLEAN, Change(k, S, grant)
      PROVE  TableInv' /\ (FeedInv => FeedInv')
  BY <1>1, ChangeStep
<1>2. ASSUME NEW r \in Reader, Poll(r) PROVE TableInv' /\ (FeedInv => FeedInv')
  BY <1>2, PollStep
<1>3. ASSUME NEW r \in Reader, List(r) PROVE TableInv' /\ (FeedInv => FeedInv')
  BY <1>3, ListStep
<1>4. CASE Backup
  BY <1>4, BackupStep
<1>5. CASE Restore
  BY <1>5, RestoreStep
<1>6. CASE UNCHANGED vars
  <2>1. UNCHANGED <<rows, lastSeq, version, floor, granted, backup, cursor, view, held, relist,
                    peak, anew, changes, restores>>
    BY <1>6 DEF vars, db, reader
  <2>2. TableInv'
    BY <2>1 DEF TableInv, FeedTypes, SeqInv, BackupInv, Numbered, KeptInv, Table, Of
  <2>3. FeedInv => LagInv' /\ VersionInv' /\ GrantInv' /\ ViewInv'
    BY <2>1 DEF FeedInv, LagInv, VersionInv, GrantInv, ViewInv, Counts
  <2>4. QED
    BY <2>2, <2>3 DEF FeedInv
<1>7. QED
  BY <1>1, <1>2, <1>3, <1>4, <1>5, <1>6 DEF Next

\* share-events-core.js and share-events-restore.js: numbers are issued once, no
\* reader has more rows than are kept, in the table and in every backup of it,
\* and what was issued is never below the table.
THEOREM TypeCorrect == Spec => []TypeOK
<1>1. Init => TableInv
  BY InitFeed DEF FeedInv
<1>2. TableInv /\ [Next]_vars => TableInv'
  BY NextFeed
<1>3. TableInv => TypeOK
  <2> SUFFICES ASSUME TableInv PROVE TypeOK
    OBVIOUS
  <2>1. Now \in Db /\ (backup = None \/ backup \in Db)
    BY DEF TableInv, FeedTypes, BackupInv, Now, Db
  <2>2. /\ \A x, y \in rows : x.seq = y.seq => x = y
        /\ \A r \in Reader : Cardinality({x \in rows : x.to = r}) <= Retention
        /\ restores \in 0..MaxRestore
    BY DEF TableInv, KeptInv, Table, Of
  <2>3. (\A x \in rows : x.seq <= lastSeq) /\ lastSeq <= peak
    BY DEF TableInv, SeqInv, Numbered
  <2> QED
    BY <2>1, <2>2, <2>3 DEF TypeOK, TableInv, FeedTypes
<1> QED
  BY <1>1, <1>2, <1>3, PTL DEF Spec

\* share-events-core.js: through changes, prunings, polls and restores the rows
\* above a reader's floor stay in step with what it holds, shows and is granted,
\* if a restore jumps over at least as many versions as there were changes.
THEOREM FeedInvariance == ASSUME WithinJump PROVE Spec => []FeedInv
<1>1. Init => FeedInv
  BY InitFeed
<1>2. FeedInv /\ [Next]_vars => FeedInv'
  BY NextFeed DEF FeedInv
<1>3. QED
  BY <1>1, <1>2, PTL DEF Spec

\* share-events-restore.js: an event not read yet has a version above the one
\* its reader holds, also when the reader saw changes the restore undid, unless
\* the resource has no row in the backup; if a restore jumps over at least as
\* many versions as there were changes.
THEOREM OutranksHolds == ASSUME WithinJump PROVE Spec => []Outranks
<1>1. FeedInv => Outranks
  BY DEF FeedInv, VersionInv, Outranks, Counts
<1>2. QED
  BY <1>1, FeedInvariance, PTL

\* listShareEvents: a reader told nothing new and no gap shows what its user has,
\* under the same condition and with the same exception.
THEOREM NothingMissedHolds == ASSUME WithinJump PROVE Spec => []NothingMissed
<1>1. ASSUME TableInv, FeedInv, NEW r \in Reader, CaughtUp(r)
      PROVE  \A k \in Key \ anew : k \in view[r] <=> <<r, k>> \in granted
  <2>1. ~relist[r] /\ ~Gap(r) /\ Events(r) = {}
    BY <1>1 DEF CaughtUp
  <2>2. From(r) = cursor[r]
    BY <1>1, <2>1, FromFacts
  <2>3. \A x \in rows : x.to = r => x.seq <= cursor[r]
    BY <1>1, <2>1, <2>2, PageFacts
  <2>4. cursor[r] >= floor[r]
    BY <1>1, <2>1 DEF TableInv, FeedTypes, Gap
  <2>5. QED
    BY <1>1, <2>1, <2>3, <2>4 DEF FeedInv, ViewInv
<1>2. FeedInv => NothingMissed
  <2>1. FeedInv => TableInv
    BY DEF FeedInv
  <2> QED
    BY <1>1, <2>1 DEF NothingMissed
<1>3. QED
  BY <1>2, FeedInvariance, PTL

\* listShareEvents: the cursor of a page is not told gap at the next poll.
THEOREM CursorHoldsHolds == Spec => CursorHolds
<1>1. ASSUME TableInv, NEW r \in Reader, Poll(r), Issued(r) > floor[r]
      PROVE  ~Gap(r)'
  <2>1. UNCHANGED <<rows, floor>> /\ cursor' = [cursor EXCEPT ![r] = Handed(r)]
    BY <1>1 DEF Poll, Handed, db
  <2>2. cursor'[r] = Handed(r) /\ floor'[r] = floor[r] /\ Issued(r)' = Issued(r)
    BY <1>1, <2>1 DEF TableInv, FeedTypes, Issued, Of
  <2>3. Handed(r) \in Nat /\ From(r) <= Handed(r) /\ From(r) \in Nat /\ floor[r] <= From(r) /\ floor[r] \in Nat
    BY <1>1, HandedFacts, FromFacts DEF TableInv, FeedTypes
  <2>4. Issued(r) \in Nat /\ \A x \in rows : x.to = r => x.seq <= Issued(r)
    BY <1>1, IssuedFacts
  <2>5. Handed(r) <= Issued(r)
    <3>1. CASE \E x \in Events(r) : x.seq = Handed(r)
      BY <1>1, <2>4, <3>1, PageFacts
    <3>2. CASE Handed(r) = From(r) /\ From(r) = floor[r]
      BY <1>1, <2>3, <2>4, <3>2
    <3>3. CASE Handed(r) = From(r) /\ From(r) # floor[r]
      <4>1. From(r) = cursor[r] /\ cursor[r] > floor[r]
        BY <1>1, <2>3, <3>3, FromFacts
      <4>2. \E x \in rows : x.to = r /\ x.seq = cursor[r]
        BY <1>1, <4>1 DEF TableInv, SeqInv
      <4>3. QED
        BY <2>4, <3>3, <4>1, <4>2
    <3>4. QED
      BY <1>1, <3>1, <3>2, <3>3, HandedFacts
  <2>6. ~ (cursor'[r] < floor'[r]) /\ ~ (cursor'[r] > Issued(r)')
    BY <2>2, <2>3, <2>4, <2>5
  <2>7. QED
    BY <2>6 DEF Gap
<1>2. TableInv /\ [Next]_vars => [\A r \in Reader : Poll(r) /\ Issued(r) > floor[r] => ~Gap(r)']_vars
  BY <1>1
<1>3. Init => TableInv
  BY InitFeed DEF FeedInv
<1>4. TableInv /\ [Next]_vars => TableInv'
  BY NextFeed
<1>5. QED
  BY <1>2, <1>3, <1>4, PTL DEF Spec, CursorHolds
=============================================================================
