----------------------------- MODULE ChangeFeed -----------------------------
(***************************************************************************)
(* The change feed of web/lib/share-events-core.js, share-events.ts and    *)
(* share-events-restore.js: one row per event and recipient, at most       *)
(* Retention of them kept, read by polling with a cursor, and put back     *)
(* with the database after a restore.  The products that read it are       *)
(* outside; they do what the contract in share-events.ts says: apply an    *)
(* event whose version is above the one they hold, and list everything     *)
(* anew when a page says gap.                                              *)
(***************************************************************************)
EXTENDS Naturals, FiniteSets, FiniteSetsExt

CONSTANTS
    Reader,      \* recipients, each with one product that polls
    Key,         \* resources
    Retention,   \* RETENTION_PER_RECIPIENT
    Page,        \* EVENT_PAGE_LIMIT
    Jump,        \* VERSION_JUMP
    MaxChange,   \* bound: changes recorded
    MaxRestore,  \* bound: restores, each of the one backup taken before it
    None

ASSUME FeedAssumption ==
    /\ Retention \in Nat \ {0} /\ Page \in Nat \ {0} /\ Jump \in Nat
    /\ MaxChange \in Nat /\ MaxRestore \in Nat
    /\ IsFiniteSet(Reader)

VARIABLES
    rows,        \* share_events
    lastSeq,     \* sqlite_sequence of share_events
    version,     \* share_event_versions, 0 for a resource without a row
    floor,       \* share_event_floors
    granted,     \* the grants the events are about: <<reader, resource>>
    backup,      \* the five above as they were backed up, or None
    cursor,      \* of each product: the cursor it sends
    view, held,  \*   the grants it shows, the version it has of a resource
    relist,      \*   it was told gap and has not listed yet
    peak,        \* history: the largest seq ever issued,
    anew,        \*   and the resources whose versions a restore let begin anew
    changes, restores

db     == <<rows, lastSeq, version, floor, granted>>
reader == <<cursor, view, held, relist>>
vars   == <<db, backup, reader, peak, anew, changes, restores>>

Row == [seq : Nat, to : Reader, key : Key, version : Nat, grant : BOOLEAN]
Db  == [rows : SUBSET Row, lastSeq : Nat, version : [Key -> Nat],
        floor : [Reader -> Nat], granted : SUBSET (Reader \X Key)]
Now == [rows |-> rows, lastSeq |-> lastSeq, version |-> version,
        floor |-> floor, granted |-> granted]

TypeOK ==
    /\ Now \in Db /\ (backup = None \/ backup \in Db)
    /\ cursor \in [Reader -> Nat] /\ view \in [Reader -> SUBSET Key]
    /\ held \in [Reader -> [Key -> Nat]] /\ relist \in [Reader -> BOOLEAN]
    /\ \A x, y \in rows : x.seq = y.seq => x = y
    /\ \A x \in rows : x.seq <= lastSeq
    /\ \A r \in Reader : Cardinality({x \in rows : x.to = r}) <= Retention
    /\ lastSeq <= peak /\ anew \subseteq Key
    /\ changes \in 0..MaxChange /\ restores \in 0..MaxRestore

Init ==
    /\ rows = {} /\ lastSeq = 0
    /\ version = [k \in Key |-> 0] /\ floor = [r \in Reader |-> 0]
    /\ granted = {} /\ backup = None
    /\ cursor = [r \in Reader |-> 0] /\ view = [r \in Reader |-> {}]
    /\ held = [r \in Reader |-> [k \in Key |-> 0]]
    /\ relist = [r \in Reader |-> FALSE]
    /\ peak = 0 /\ anew = {} /\ changes = 0 /\ restores = 0

-----------------------------------------------------------------------------
(* Writing *)

Of(r, R)   == {x \in R : x.to = r}
Above(x, R) == Cardinality({y \in Of(x.to, R) : y.seq > x.seq})

\* Mutant: the cutoff is one row further down.
EdgeDeep(r, R) ==
    LET old == {x \in Of(r, R) : Above(x, R) > Retention}
    IN IF old = {} THEN 0 ELSE Max({x.seq : x \in old})

\* The cutoff row of pruneRecipient: the newest of r with Retention rows above it.
Edge(r, R) ==
    LET old == {x \in Of(r, R) : Above(x, R) >= Retention}
    IN IF old = {} THEN 0 ELSE Max({x.seq : x \in old})

\* recordShareEvent after a grant of resource k was made or taken away for the
\* recipients S: one version, a row for each in whatever order they are listed,
\* each recipient pruned.
Change(k, S, grant) == \E order \in [S -> 1..Cardinality(S)] :
    LET added == {[seq |-> lastSeq + order[r], to |-> r, key |-> k,
                   version |-> version[k] + 1, grant |-> grant] : r \in S}
        all   == rows \cup added
        edge  == [r \in Reader |-> IF r \in S THEN Edge(r, all) ELSE 0]
    IN /\ \A a, b \in S : order[a] = order[b] => a = b
       /\ changes < MaxChange /\ changes' = changes + 1
       /\ granted' = IF grant THEN granted \cup (S \X {k}) ELSE granted \ (S \X {k})
       /\ granted' # granted
       /\ version' = [version EXCEPT ![k] = version[k] + 1]
       /\ lastSeq' = lastSeq + Cardinality(S)
       /\ rows' = {x \in all : x.seq > edge[x.to]}
       /\ floor' = [r \in Reader |-> Max({floor[r], edge[r]})]
       /\ peak' = Max({peak, lastSeq'})
       /\ UNCHANGED <<backup, reader, anew, restores>>

-----------------------------------------------------------------------------
(* Reading *)

\* latestSeq
Issued(r) == Max({0} \cup {x.seq : x \in Of(r, rows)})

\* Mutant: a cursor at the floor is told gap too, and one at the top.
GapAtFloor(r) == cursor[r] <= floor[r] \/ cursor[r] >= Issued(r)

\* The gap of listShareEvents: below the floor, or ahead of what was issued.
Gap(r) == cursor[r] < floor[r] \/ cursor[r] > Issued(r)

\* The page: at most Page rows after the cursor, or after the floor on a gap.
From(r) == IF cursor[r] > Issued(r) THEN floor[r] ELSE Max({cursor[r], floor[r]})
Events(r) ==
    LET after == {x \in Of(r, rows) : x.seq > From(r)}
    IN {x \in after : Cardinality({y \in after : y.seq < x.seq}) < Page}

\* What the product does with a page without a gap: of each resource the newest
\* event counts, if its version is above the one held.
Newest(r, page) ==
    [k \in Key |-> LET of == {x \in page : x.key = k /\ x.version > held[r][k]}
                  IN {x \in of : \A y \in of : y.version <= x.version}]

Poll(r) ==
    LET page == Events(r)
        new  == Newest(r, page)
    IN /\ ~relist[r]
       /\ cursor' = [cursor EXCEPT ![r] = Max({From(r)} \cup {x.seq : x \in page})]
       /\ IF Gap(r)
          THEN relist' = [relist EXCEPT ![r] = TRUE] /\ UNCHANGED <<view, held>>
          ELSE /\ view' = [view EXCEPT ![r] =
                      {k \in Key : IF new[k] = {} THEN k \in view[r] ELSE \A x \in new[k] : x.grant}]
               /\ held' = [held EXCEPT ![r] = [k \in Key |->
                      Max({held[r][k]} \cup {x.version : x \in new[k]})]]
               /\ UNCHANGED relist
       /\ UNCHANGED <<db, backup, peak, anew, changes, restores>>

\* GET /api/me/shared: what the reader has now.
List(r) ==
    /\ relist[r] /\ relist' = [relist EXCEPT ![r] = FALSE]
    /\ view' = [view EXCEPT ![r] = {k \in Key : <<r, k>> \in granted}]
    /\ UNCHANGED <<db, backup, cursor, held, peak, anew, changes, restores>>

-----------------------------------------------------------------------------
(* Backup and restore *)

Backup ==
    /\ restores < MaxRestore /\ backup = None
    /\ backup' = Now
    /\ UNCHANGED <<db, reader, peak, anew, changes, restores>>

\* Mutant: the floors stay as they were backed up.
RaisedNot(r, base) == backup.floor[r]

Raised(r, base) == Max({backup.floor[r], base})

\* Mutant: versions stay as they were backed up.
JumpedNot(k) == backup.version[k]

\* A resource without a row has no version to jump.
Jumped(k) == IF backup.version[k] = 0 THEN 0 ELSE backup.version[k] + Jump

\* The database is put back and resetShareEventCursors run.  Its base is the
\* clock, which in milliseconds is past every seq ever issued.
Restore ==
    LET base == peak + 1
    IN /\ backup # None /\ backup' = None
       /\ restores < MaxRestore /\ restores' = restores + 1
       /\ rows' = backup.rows /\ granted' = backup.granted
       /\ lastSeq' = base
       /\ floor' = [r \in Reader |-> Raised(r, base)]
       /\ version' = [k \in Key |-> Jumped(k)]
       /\ peak' = base
       /\ anew' = anew \cup {k \in Key : version[k] > 0 /\ backup.version[k] = 0}
       /\ UNCHANGED <<reader, changes>>

Next ==
    \/ \E k \in Key, S \in SUBSET Reader \ {{}}, grant \in BOOLEAN : Change(k, S, grant)
    \/ \E r \in Reader : Poll(r)
    \/ \E r \in Reader : List(r)
    \/ Backup
    \/ Restore

Spec == Init /\ [][Next]_vars

-----------------------------------------------------------------------------
(* Properties *)

CaughtUp(r) == ~relist[r] /\ ~Gap(r) /\ Events(r) = {}

\* A product that is told nothing new and no gap shows exactly what its user
\* has, whatever was pruned or restored between two of its polls: a page never
\* passes over a change in silence.  Excused: a resource whose versions began
\* anew, of which a product drops the new events (see Outranks).
NothingMissed ==
    \A r \in Reader, k \in Key \ anew :
        CaughtUp(r) => (k \in view[r] <=> <<r, k>> \in granted)

\* An event a product has yet to read has a version above all it has seen of
\* the resource, also after a restore: its reducer does not drop it.  Only of a
\* resource with a row in share_event_versions: the UPDATE in
\* resetShareEventCursors jumps the versions that the backup has, and one first
\* recorded after the backup begins at 1 again, though a product holds more.
Outranks ==
    \A x \in rows : /\ x.key \notin anew
                   /\ x.seq > cursor[x.to] /\ x.seq > floor[x.to]
                   => x.version > held[x.to][x.key]

\* The cursor a page hands out is one to go on from: with it the next poll is
\* not told gap again, unless a change or a restore comes between.  (A reader
\* without an event after its floor is, at every poll: see the README.)
CursorHolds ==
    [][\A r \in Reader : Poll(r) /\ Issued(r) > floor[r] => ~Gap(r)']_vars
=============================================================================
