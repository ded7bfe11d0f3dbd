----------------------------- MODULE WillowSync -----------------------------
(***************************************************************************)
(* What the devices of a drive keep of one live document: the rows of      *)
(* yjs_entries (cli/src/willow-store.js), appended by `yjs-write`, replaced *)
(* by a snapshot when there are many, replayed by `yjs-read` (rpc.js), and  *)
(* exchanged between devices through the server (willow-sync.js and the    *)
(* sync- frames of web/lib/agents.js).  A document is the set of its       *)
(* edits; a payload is such a set, and merging is union.  The editor saves *)
(* its whole document, through whichever device answers.                   *)
(***************************************************************************)
EXTENDS Naturals, Sequences, FiniteSets

CONSTANTS
    Device,
    Threshold,   \* COMPACT_MAX_UPDATES
    MaxDigests,  \* MAX_DIGESTS_PER_SUMMARY
    MaxEdit,     \* bound: edits typed
    MaxSave,     \* bound: saves
    MaxDrop,     \* bound: lost connections
    MaxFrames    \* bound: frames under way when a summary is sent

ASSUME SyncAssumption ==
    /\ Threshold \in Nat \ {0} /\ MaxDigests \in Nat \ {0}
    /\ MaxEdit \in Nat /\ MaxSave \in Nat /\ MaxDrop \in Nat
    /\ MaxFrames \in Nat

VARIABLES
    rows,        \* yjs_entries of each device, in seq order
    doc,         \* the document in the editor
    up,          \* devices connected to the server
    frames,      \* sync- frames on their way to a device
    edits,       \* edits typed so far
    saved,       \* history: edits a `yjs-write` of each device has answered
    saves, drops

vars == <<rows, doc, up, frames, edits, saved, saves, drops>>

Edit    == 1..MaxEdit
Payload == SUBSET Edit          \* its digest too: equal content, equal digest
Entry   == [kind : {"update", "snapshot"}, payload : Payload]
Frame   == [to : Device, type : {"sync-summary", "sync-want"}, digests : SUBSET Payload]
           \cup [to : Device, type : {"sync-give"}, entries : Seq(Entry)]

TypeOK ==
    /\ rows \in [Device -> Seq(Entry)] /\ doc \in Payload
    /\ up \subseteq Device
    /\ frames \subseteq Frame /\ \A f \in frames : f.to \in up
    /\ edits \in 0..MaxEdit /\ saved \in [Device -> Payload]
    /\ saves \in 0..MaxSave /\ drops \in 0..MaxDrop

Init ==
    /\ rows = [d \in Device |-> <<>>] /\ doc = {}
    /\ up = Device /\ frames = {} /\ edits = 0
    /\ saved = [d \in Device |-> {}] /\ saves = 0 /\ drops = 0

-----------------------------------------------------------------------------
(* The store of a device *)

Digests(es)  == {es[i].payload : i \in 1..Len(es)}
Replay(es)   == UNION Digests(es)
Updates(es)  == {i \in 1..Len(es) : es[i].kind = "update"}
Snapshots(es) == {i \in 1..Len(es) : es[i].kind = "snapshot"}

\* The rows of a query: the entries at some positions, in their order.
Nth(I, n)     == CHOOSE i \in I : Cardinality({j \in I : j <= i}) = n
Picked(es, I) == [n \in 1..Cardinality(I) |-> es[Nth(I, n)]]

\* listEntries: the newest snapshot and what follows it.
Listed(es) ==
    SubSeq(es, CHOOSE i \in Snapshots(es) \cup {1} : \A j \in Snapshots(es) : j <= i, Len(es))

\* Mutant: only the rows a read replays go into the snapshot.
CompactedListed(es) == <<[kind |-> "snapshot", payload |-> Replay(Listed(es))]>>

\* Mutant: the row just written stays out of it.
CompactedShort(es) == <<[kind |-> "snapshot", payload |-> Replay(SubSeq(es, 1, Len(es) - 1))]>>

\* maybeCompact and compactToSnapshot: every row is replayed into one snapshot,
\* which replaces them all.
Compacted(es) == <<[kind |-> "snapshot", payload |-> Replay(es)]>>

\* appendUpdate, then maybeCompact: at the threshold, or when the oldest update
\* is ten minutes old.
Written(es, payload, old) ==
    LET all == Append(es, [kind |-> "update", payload |-> payload])
    IN IF Cardinality(Updates(all)) >= Threshold \/ old THEN Compacted(all) ELSE all

\* applyGive: the entries whose digest is not there are appended, whatever
\* their kind.
Given(es, given) ==
    es \o Picked(given, {i \in 1..Len(given) : given[i].payload \notin Digests(es)})

-----------------------------------------------------------------------------
(* The editor *)

\* It opens the document: `yjs-read` replays what is listed.
Open(d) ==
    /\ d \in up
    /\ doc' = Replay(Listed(rows[d]))
    /\ UNCHANGED <<rows, up, frames, edits, saved, saves, drops>>

Type ==
    /\ edits < MaxEdit /\ edits' = edits + 1
    /\ doc' = doc \cup {edits + 1}
    /\ UNCHANGED <<rows, up, frames, saved, saves, drops>>

\* Autosave: `yjs-write` with the whole document.
Save(d, old) ==
    /\ d \in up /\ doc # {} /\ saves < MaxSave /\ saves' = saves + 1
    /\ rows' = [rows EXCEPT ![d] = Written(rows[d], doc, old)]
    /\ saved' = [saved EXCEPT ![d] = @ \cup doc]
    /\ UNCHANGED <<doc, up, frames, edits, drops>>

-----------------------------------------------------------------------------
(* The exchange: the server passes a frame on to every other device *)

\* Mutant: a connection is not looked at before a frame is passed on.
ToOthersAll(d, fs) == {[f EXCEPT !.to = p] : f \in fs, p \in Device \ {d}}

ToOthers(d, fs) == {[f EXCEPT !.to = p] : f \in fs, p \in up \ {d}}

\* buildSummary: the newest digests.
Summary(es) == {es[i].payload : i \in {i \in 1..Len(es) : i > Len(es) - MaxDigests}}

Summarise(d) ==
    /\ d \in up /\ rows[d] # <<>> /\ Cardinality(frames) < MaxFrames
    /\ frames' = frames \cup ToOthers(d, {[to |-> d, type |-> "sync-summary",
                                           digests |-> Summary(rows[d])]})
    /\ UNCHANGED <<rows, doc, up, edits, saved, saves, drops>>

\* Mutant: only rows that a read replays are given.
WantedListed(es, digests) ==
    Picked(Listed(es), {i \in 1..Len(Listed(es)) : Listed(es)[i].payload \in digests})

\* fulfillWant
Wanted(es, digests) == Picked(es, {i \in 1..Len(es) : es[i].payload \in digests})

\* digestsWeMissFrom and a sync-want, unless there is nothing to want.
HandleSummary(f) ==
    LET d    == f.to
        miss == f.digests \ Digests(rows[d])
    IN /\ f.type = "sync-summary"
       /\ frames' = (frames \ {f}) \cup
              IF miss = {} THEN {}
              ELSE ToOthers(d, {[to |-> d, type |-> "sync-want", digests |-> miss]})
       /\ UNCHANGED <<rows, doc, up, edits, saved, saves, drops>>

\* A sync-give, with what is still there.
HandleWant(f) ==
    LET d    == f.to
        have == Wanted(rows[d], f.digests)
    IN /\ f.type = "sync-want"
       /\ frames' = (frames \ {f}) \cup
              IF have = <<>> THEN {}
              ELSE ToOthers(d, {[to |-> d, type |-> "sync-give", entries |-> have]})
       /\ UNCHANGED <<rows, doc, up, edits, saved, saves, drops>>

HandleGive(f) ==
    /\ f.type = "sync-give"
    /\ rows' = [rows EXCEPT ![f.to] = Given(@, f.entries)]
    /\ frames' = frames \ {f}
    /\ UNCHANGED <<doc, up, edits, saved, saves, drops>>

Disconnect(d) ==
    /\ d \in up /\ drops < MaxDrop /\ drops' = drops + 1
    /\ up' = up \ {d}
    /\ frames' = {f \in frames : f.to # d}
    /\ UNCHANGED <<rows, doc, edits, saved, saves>>

Connect(d) ==
    /\ d \notin up /\ up' = up \cup {d}
    /\ UNCHANGED <<rows, doc, frames, edits, saved, saves, drops>>

Next ==
    \/ \E d \in Device : Open(d)
    \/ Type
    \/ \E d \in Device, old \in BOOLEAN : Save(d, old)
    \/ \E d \in Device : Summarise(d)
    \/ \E f \in frames : HandleSummary(f)
    \/ \E f \in frames : HandleWant(f)
    \/ \E f \in frames : HandleGive(f)
    \/ \E d \in Device : Disconnect(d)
    \/ \E d \in Device : Connect(d)

\* A device reconnects, sends its summary every 30 s, and handles what comes.
Fairness ==
    \A d \in Device :
        /\ WF_vars(Connect(d)) /\ SF_vars(Summarise(d))
        /\ WF_vars(\E f \in frames : f.to = d /\ HandleSummary(f))
        /\ WF_vars(\E f \in frames : f.to = d /\ HandleWant(f))
        /\ WF_vars(\E f \in frames : f.to = d /\ HandleGive(f))

Spec == Init /\ [][Next]_vars /\ Fairness

-----------------------------------------------------------------------------
(* Properties *)

\* An edit a device has stored stays in its rows: a compaction, also one after
\* a peer's snapshot came in above the device's own updates, drops none.
SavedStays == \A d \in Device : saved[d] \subseteq Replay(rows[d])

\* The shared document, as SharedDocument promises it: what a device keeps is what
\* its rows replay to.
Shared == INSTANCE SharedDocument WITH
    typed <- 1..edits,
    kept  <- [d \in Device |-> Replay(rows[d])]

\* The store and the exchange implement the shared document: a save is kept
\* whole, only a give of another device adds to it, what it brings is still kept
\* there, and no compaction, lost frame or lost connection takes anything away.
SharesDocument == Shared!Spec

\* A save never makes a read return less: with or without a compaction, what
\* the device returned before it and what was saved is returned after it.
SaveIsReadable ==
    [][\A d \in Device : rows'[d] # rows[d] /\ saves' # saves =>
           Replay(Listed(rows[d])) \cup doc \subseteq Replay(Listed(rows'[d]))]_vars

\* Devices that stay connected come to hold the same edits, through lost
\* connections and frames, and though one compacts what the other asks it for.
Converge ==
    <>[](\A d, p \in Device : Replay(rows[d]) = Replay(rows[p]))

\* What the comment on listEntries says ("read all relevant entries"): a read
\* returns every edit the device holds.
ReadsAll == \A d \in Device : Replay(Listed(rows[d])) = Replay(rows[d])
=============================================================================
