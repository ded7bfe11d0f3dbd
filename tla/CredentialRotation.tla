------------------------- MODULE CredentialRotation -------------------------
(***************************************************************************)
(* The credentials (agent token and drive secret, here one "pair") that a  *)
(* drive's device uses to reach the server, and the ways they change:      *)
(*  - live, over the agent's own socket (rotateAgentLive in                *)
(*    web/lib/agents.js, cli/src/rotation.js), while rotation_pending;     *)
(*  - by hand, with `aindrive rotate-token` (web rotate route and          *)
(*    cli/src/commands/rotate.js), which drops every device.               *)
(* Pairs are numbered in the order the server makes them; 0 is the pair    *)
(* the drive was created with.  One device serves the folder, on one       *)
(* socket at a time; the server may still hold its previous socket.        *)
(***************************************************************************)
EXTENDS Integers, Sequences, FiniteSets

CONSTANTS
    Conn,          \* socket slots, used again once both ends are closed
    NoConn,
    MaxLive,       \* bound: live rotations started
    MaxManual,     \* bound: manual rotations
    MaxDrops       \* bound: lost connections and restarts of the device

ASSUME RotationAssumption ==
    /\ NoConn \notin Conn
    /\ MaxLive \in Nat /\ MaxManual \in Nat /\ MaxDrops \in Nat

VARIABLES
    \* the server
    stored,     \* the pair in the drives row
    pending,    \* rotation_pending
    srv,        \* its end of each socket, with the entry's secrets
    primary,    \* the socket requests go to, or NoConn
    owed,       \* how many of onAgentConnect's 2 s timers to rotate are running
    jobs,       \* rotateAgentLive calls at one of their two awaits
    \* the device
    conn,       \* the socket it holds, or NoConn
    mem,        \* the pair in use and previousCredentials, in memory
    disk,       \* the same in .aindrive/config.json
    grace,      \* graceSecret, or None
    applying,   \* pairs applyRotation has written and not adopted
    refused,    \* sleeping in waitForNewKey
    cli,        \* the pair `rotate-token` got and has not written, or None
    \* the network
    link, token, toAgent, toServer,
    \* history
    mishaps,    \* what happened that the protocol has no answer to, see Mishaps
    \* bounds
    lives, manuals, drops

server == <<stored, pending, srv, primary, owed, jobs>>
device == <<conn, mem, disk, grace, applying, refused, cli>>
wires  == <<link, token, toAgent, toServer>>
bounds == <<lives, manuals, drops>>
vars   == <<server, device, wires, mishaps, bounds>>

None  == -1
Pair  == 0 .. MaxLive + MaxManual
Fresh == lives + manuals + 1
Kept  == [cur : Pair, prev : Pair \cup {None}]
State == {"none", "comparing", "unheard", "rejected", "open", "ghost", "closing"}
Entry == [state : State, rotate : BOOLEAN,
          swept : BOOLEAN, secret : Pair, prev : Pair \cup {None}]
\* A call of rotateAgentLive: the pair it made, the entry it captured (NoConn
\* once that is gone) and the entry its request is pending at (NoConn while it
\* computes the hash).
Job   == [pair : Pair, on : Conn \cup {NoConn}, to : Conn \cup {NoConn}]
Frame == [kind : {"hello", "rotate", "refused", "ok", "bye"}, pair : Pair, sig : Pair]
\* late: a call ended with its request or answer still on the way;
\* crossed: a request went to another entry than the one captured;
\* stray: an ok was stored though the device has left its connection;
\* stacked: the device applied a pair while the server had not stored its last.
Mishaps == {"late", "crossed", "stray", "stacked"}
NoEntry == [state |-> "none", rotate |-> FALSE, swept |-> FALSE, secret |-> 0, prev |-> None]

TypeOK ==
    /\ stored \in Pair /\ pending \in BOOLEAN /\ owed \in Nat
    /\ srv \in [Conn -> Entry]
    /\ primary \in Conn \cup {NoConn} /\ conn \in Conn \cup {NoConn}
    /\ primary # NoConn => srv[primary].state \in {"open", "ghost"}
    /\ jobs \subseteq Job
    /\ mem \in Kept /\ disk \in Kept
    /\ grace \in Pair \cup {None} /\ applying \subseteq [pair : Pair, prev : Pair]
    /\ refused \in BOOLEAN /\ (refused => conn = NoConn)
    /\ cli \in Pair \cup {None}
    /\ link \in [Conn -> BOOLEAN] /\ token \in [Conn -> Pair]
    /\ toAgent \in [Conn -> Seq(Frame)] /\ toServer \in [Conn -> Seq(Frame)]
    /\ mishaps \subseteq Mishaps
    /\ lives \in 0..MaxLive /\ manuals \in 0..MaxManual /\ drops \in 0..MaxDrops

Init ==
    /\ stored = 0 /\ pending = TRUE /\ owed = 0
    /\ srv = [c \in Conn |-> NoEntry]
    /\ primary = NoConn /\ conn = NoConn
    /\ jobs = {}
    /\ mem = [cur |-> 0, prev |-> None] /\ disk = mem
    /\ grace = None /\ applying = {} /\ refused = FALSE /\ cli = None
    /\ link = [c \in Conn |-> FALSE] /\ token = [c \in Conn |-> 0]
    /\ toAgent = [c \in Conn |-> <<>>] /\ toServer = [c \in Conn |-> <<>>]
    /\ mishaps = {}
    /\ lives = 0 /\ manuals = 0 /\ drops = 0

-----------------------------------------------------------------------------
(* Sockets *)

Message(k, p, s) == [kind |-> k, pair |-> p, sig |-> s]

\* A frame sent on a lost connection goes nowhere.
Push(queues, c, f) == IF link[c] THEN [queues EXCEPT ![c] = Append(@, f)] ELSE queues

\* The sockets in the drive's peer set.
Peer(c) == srv[c].state \in {"open", "ghost", "closing"}

\* The connection is lost; each end notices on its own.
Lose(c) ==
    /\ link' = [link EXCEPT ![c] = FALSE]
    /\ toAgent' = [toAgent EXCEPT ![c] = <<>>]
    /\ \/ UNCHANGED toServer
       \/ toServer' = [toServer EXCEPT ![c] = <<>>]
    /\ UNCHANGED token

Drop(c) ==
    /\ drops < MaxDrops
    /\ link[c]
    /\ Lose(c)
    /\ drops' = drops + 1
    /\ UNCHANGED <<server, device, mishaps, lives, manuals>>

-----------------------------------------------------------------------------
(* The server's ends *)

\* "close" is emitted while onAgentConnect awaits: nobody listens yet.
CloseUnheard(c) ==
    /\ srv[c].state = "comparing" /\ ~link[c]
    /\ srv' = [srv EXCEPT ![c].state = "unheard"]
    /\ UNCHANGED <<stored, pending, primary, owed, jobs, device, wires, mishaps, bounds>>

\* onAgentConnect compared the token with the row it read before the await.
Accept(c) ==
    /\ srv[c].state \in {"comparing", "unheard"}
    /\ token[c] = srv[c].secret
    /\ srv' = [srv EXCEPT ![c].state = IF @ = "unheard" THEN "ghost" ELSE "open"]
    /\ primary' = c
    /\ owed' = IF srv[c].rotate THEN owed + 1 ELSE owed
    /\ toAgent' = Push(toAgent, c, Message("hello", 0, 0))
    /\ UNCHANGED <<stored, pending, jobs, device, link, token, toServer, mishaps, bounds>>

Refuse(c) ==
    /\ srv[c].state \in {"comparing", "unheard"}
    /\ token[c] # srv[c].secret
    /\ srv' = [srv EXCEPT ![c].state = "rejected"]
    /\ toAgent' = Push(toAgent, c, Message("refused", 0, 0))
    /\ UNCHANGED <<stored, pending, primary, owed, jobs, device, link, token, toServer, mishaps, bounds>>

\* The calls pending at an entry fail with it; a call that has yet to send
\* goes on and asks the registry again.
Closing(c) == {[j EXCEPT !.on = IF @ = c THEN NoConn ELSE @] : j \in {k \in jobs : k.to # c}}

\* Mutant: the drive's entry outlives its socket.
ServerClosesEntryStays(c) ==
    /\ srv[c].state \in {"rejected", "open", "closing"}
    /\ \/ toServer[c] # <<>> /\ Head(toServer[c]).kind = "bye"
       \/ ~link[c] /\ toServer[c] = <<>>
    /\ srv' = [srv EXCEPT ![c] = NoEntry]
    /\ jobs' = Closing(c)
    /\ link' = [link EXCEPT ![c] = FALSE]
    /\ toServer' = [toServer EXCEPT ![c] = <<>>]
    /\ toAgent' = [toAgent EXCEPT ![c] = <<>>]
    /\ UNCHANGED <<stored, pending, owed, primary, device, token, mishaps, bounds>>

\* "close": the entry goes, and the calls waiting on it fail.  A ghost's has
\* been emitted already, and the heartbeat skips a socket that is not open.
ServerCloses(c) ==
    /\ srv[c].state \in {"rejected", "open", "closing"}
    /\ \/ toServer[c] # <<>> /\ Head(toServer[c]).kind = "bye"
       \/ ~link[c] /\ toServer[c] = <<>>
    /\ srv' = [srv EXCEPT ![c] = NoEntry]
    /\ primary' = IF primary = c THEN NoConn ELSE primary
    /\ jobs' = Closing(c)
    /\ link' = [link EXCEPT ![c] = FALSE]
    /\ toServer' = [toServer EXCEPT ![c] = <<>>]
    /\ toAgent' = [toAgent EXCEPT ![c] = <<>>]
    /\ UNCHANGED <<stored, pending, owed, device, token, mishaps, bounds>>

-----------------------------------------------------------------------------
(* rotateAgentLive *)

\* The entry is captured and checked, then the hash of a new token is awaited.
CanRotate == /\ primary # NoConn
             /\ \A c \in Conn \ {primary} : ~Peer(c)
             /\ \A j \in jobs : j.on # primary
             /\ lives < MaxLive

Rotate ==
    /\ jobs' = jobs \cup {[pair |-> Fresh, on |-> primary, to |-> NoConn]}
    /\ lives' = lives + 1

\* The sweep comes every 5 minutes; long before the next one the heartbeat has
\* noticed that a socket is dead.
SweeperRotates ==
    /\ pending
    /\ CanRotate
    /\ srv[primary].swept => link[primary]
    /\ Rotate
    /\ srv' = [srv EXCEPT ![primary].swept = TRUE]
    /\ UNCHANGED <<stored, pending, primary, owed, device, wires, mishaps, manuals, drops>>

\* The timer does not look at rotation_pending again.
TimerRotates ==
    /\ owed > 0
    /\ owed' = owed - 1
    /\ IF CanRotate THEN Rotate ELSE UNCHANGED <<jobs, lives>>
    /\ UNCHANGED <<stored, pending, srv, primary, device, wires, mishaps, manuals, drops>>

\* sendRpc asks the registry itself: the request goes to whoever is primary
\* by now.
SendRotate(j) ==
    /\ j.to = NoConn
    /\ IF primary = NoConn
       THEN /\ jobs' = jobs \ {j}
            /\ UNCHANGED <<toAgent, mishaps>>
       ELSE /\ jobs' = (jobs \ {j}) \cup {[j EXCEPT !.to = primary]}
            /\ toAgent' = Push(toAgent, primary, Message("rotate", j.pair, srv[primary].secret))
            /\ mishaps' = IF j.on # primary THEN mishaps \cup {"crossed"} ELSE mishaps
    /\ UNCHANGED <<stored, pending, srv, primary, owed, device, link, token, toServer, bounds>>

\* The request, or the answer to it, is still on its way.
Underway(p) ==
    \/ \E c \in Conn : \/ \E i \in DOMAIN toAgent[c] : toAgent[c][i].kind = "rotate" /\ toAgent[c][i].pair = p
                      \/ \E i \in DOMAIN toServer[c] : toServer[c][i].kind = "ok" /\ toServer[c][i].pair = p
    \/ \E a \in applying : a.pair = p

\* 15 s without an answer: nothing came, or it takes longer than that.
RotateTimesOut(j) ==
    /\ j.to # NoConn
    /\ jobs' = jobs \ {j}
    /\ mishaps' = IF Underway(j.pair) THEN mishaps \cup {"late"} ELSE mishaps
    /\ UNCHANGED <<stored, pending, srv, primary, owed, device, wires, bounds>>

\* Mutant: the row changes, the live entry keeps signing with the old secret.
StoreRowOnly(j) ==
    /\ stored' = j.pair
    /\ pending' = FALSE
    /\ UNCHANGED srv

\* Mutant: rotation_pending is left set.
StorePending(j) ==
    /\ stored' = j.pair
    /\ UNCHANGED pending
    /\ srv' = IF j.on = NoConn THEN srv
              ELSE [srv EXCEPT ![j.on].prev = srv[j.on].secret, ![j.on].secret = j.pair]

\* The row and the captured entry change in one synchronous step after the ok,
\* whichever entry the ok came to.
Store(j) ==
    /\ stored' = j.pair
    /\ pending' = FALSE
    /\ srv' = IF j.on = NoConn THEN srv
              ELSE [srv EXCEPT ![j.on].prev = srv[j.on].secret, ![j.on].secret = j.pair]

\* A response: dropped unless its signature verifies and a call waits for it.
ServerReceives(c) ==
    LET f == Head(toServer[c])
        j == CHOOSE k \in jobs : k.pair = f.pair /\ k.to = c
    IN /\ Peer(c)
       /\ toServer[c] # <<>> /\ f.kind = "ok"
       /\ toServer' = [toServer EXCEPT ![c] = Tail(@)]
       /\ IF /\ f.sig \in {srv[c].secret, srv[c].prev}
             /\ \E k \in jobs : k.pair = f.pair /\ k.to = c
          THEN /\ Store(j)
               /\ jobs' = jobs \ {j}
               /\ mishaps' = IF conn # c THEN mishaps \cup {"stray"} ELSE mishaps
          ELSE UNCHANGED <<stored, pending, srv, jobs, mishaps>>
       /\ UNCHANGED <<primary, owed, device, link, token, toAgent, bounds>>

ServerGraceEnds(c) ==
    /\ srv[c].prev # None
    /\ srv' = [srv EXCEPT ![c].prev = None]
    /\ UNCHANGED <<stored, pending, primary, owed, jobs, device, wires, mishaps, bounds>>

-----------------------------------------------------------------------------
(* The device *)

\* A slot to take: they are alike, so the first will do.
Free(c) == srv[c].state = "none" /\ ~link[c]

\* runAgent connects again, a second or more after the last attempt: by then
\* its config write is over, and so is the comparison of its last token.
Connect(c) ==
    /\ conn = NoConn /\ ~refused /\ applying = {}
    /\ Free(c) /\ c = (CHOOSE d \in Conn : Free(d))
    /\ \A d \in Conn : srv[d].state \notin {"comparing", "unheard"}
    /\ conn' = c
    /\ link' = [link EXCEPT ![c] = TRUE]
    /\ token' = [token EXCEPT ![c] = mem.cur]
    /\ srv' = [srv EXCEPT ![c] = [state |-> "comparing", rotate |-> pending,
                                  swept |-> FALSE, secret |-> stored, prev |-> None]]
    /\ UNCHANGED <<stored, pending, primary, owed, jobs, mem, disk, grace,
                   applying, refused, cli, toAgent, toServer, mishaps, bounds>>

\* Mutant: the config in memory is written on every "hello".
CommitAlways == /\ mem' = [mem EXCEPT !.prev = None]
                /\ disk' = [cur |-> mem.cur, prev |-> None]

\* commitRotation, on "hello".
Commit == IF mem.prev # None
          THEN /\ mem' = [mem EXCEPT !.prev = None]
               /\ disk' = [cur |-> mem.cur, prev |-> None]
          ELSE UNCHANGED <<mem, disk>>

Received(c, k) == /\ conn = c
                  /\ toAgent[c] # <<>> /\ Head(toAgent[c]).kind = k

ReceiveHello(c) ==
    /\ Received(c, "hello")
    /\ Commit
    /\ toAgent' = [toAgent EXCEPT ![c] = Tail(@)]
    /\ UNCHANGED <<server, conn, grace, applying, refused, cli, link, token, toServer, mishaps, bounds>>

\* applyRotation writes the new pair and the one in use before it answers.
Persist(p) == /\ disk' = [cur |-> p, prev |-> mem.cur]
              /\ applying' = applying \cup {[pair |-> p, prev |-> mem.cur]}

\* The device is still ahead of the server from the rotation before.
Ahead == applying # {} \/ mem.cur # stored

ReceiveRotate(c) ==
    LET f == Head(toAgent[c])
    IN /\ Received(c, "rotate")
       /\ toAgent' = [toAgent EXCEPT ![c] = Tail(@)]
       /\ IF f.sig \in {mem.cur, grace}
          THEN /\ Persist(f.pair)
               /\ mishaps' = IF Ahead THEN mishaps \cup {"stacked"} ELSE mishaps
          ELSE UNCHANGED <<disk, applying, mishaps>>
       /\ UNCHANGED <<server, conn, mem, grace, refused, cli, link, token, toServer, bounds>>

\* Mutant: the new pair replaces the old one, no fallback is kept.
AdoptNoFallback(a) ==
    /\ toServer' = IF conn # NoConn
                   THEN Push(toServer, conn, Message("ok", a.pair, mem.cur)) ELSE toServer
    /\ mem' = [cur |-> a.pair, prev |-> None]
    /\ disk' = [cur |-> a.pair, prev |-> None]
    /\ grace' = a.prev
    /\ applying' = applying \ {a}
    /\ UNCHANGED <<server, conn, refused, cli, link, token, toAgent, mishaps, bounds>>

\* The ok goes out signed with the secret in use, then the new pair is adopted.
Adopt(a) ==
    /\ toServer' = IF conn # NoConn
                   THEN Push(toServer, conn, Message("ok", a.pair, mem.cur)) ELSE toServer
    /\ mem' = [cur |-> a.pair, prev |-> a.prev]
    /\ grace' = a.prev
    /\ applying' = applying \ {a}
    /\ UNCHANGED <<server, conn, disk, refused, cli, link, token, toAgent, mishaps, bounds>>

\* GRACE_MS is longer than the answer timeout.
AgentGraceEnds ==
    /\ grace # None
    /\ \A j \in jobs : j.pair # mem.cur
    /\ grace' = None
    /\ UNCHANGED <<server, conn, mem, disk, applying, refused, cli, wires, mishaps, bounds>>

\* Mutant: only a config that a live rotation wrote is adopted.
DiskIsRotated == disk.prev # None

\* adoptConfigOnDisk (the fallback that the file may hold is not read).
DiskIsNewer == disk.cur # mem.cur

\* Mutant: a refused device never goes back to its fallback.
FallBackToDisk ==
    \/ /\ DiskIsNewer
       /\ mem' = [mem EXCEPT !.cur = disk.cur]
       /\ UNCHANGED <<disk, refused>>
    \/ /\ ~DiskIsNewer
       /\ refused' = TRUE
       /\ UNCHANGED <<mem, disk>>

\* Closed with 4401: revertRotation, else adoptConfigOnDisk, else sleep.
FallBack ==
    \/ /\ mem.prev # None
       /\ mem' = [cur |-> mem.prev, prev |-> None]
       /\ disk' = [cur |-> mem.prev, prev |-> None]
       /\ UNCHANGED refused
    \/ /\ mem.prev = None /\ DiskIsNewer
       /\ mem' = [mem EXCEPT !.cur = disk.cur]
       /\ UNCHANGED <<disk, refused>>
    \/ /\ mem.prev = None /\ ~DiskIsNewer
       /\ refused' = TRUE
       /\ UNCHANGED <<mem, disk>>

ReceiveRefused(c) ==
    /\ Received(c, "refused")
    /\ FallBack
    /\ conn' = NoConn
    /\ toAgent' = [toAgent EXCEPT ![c] = <<>>]
    /\ toServer' = Push(toServer, c, Message("bye", 0, 0))
    /\ UNCHANGED <<server, grace, applying, cli, link, token, mishaps, bounds>>

\* Closed without 4401: the credentials stay as they are.
SeeDrop ==
    /\ conn # NoConn /\ ~link[conn]
    /\ conn' = NoConn
    /\ UNCHANGED <<server, mem, disk, grace, applying, refused, cli, wires, mishaps, bounds>>

\* waitForNewKey: the folder's config got another pair, or the wait is over.
WakeUp ==
    /\ refused
    /\ refused' = FALSE
    /\ mem' = IF DiskIsNewer THEN [mem EXCEPT !.cur = disk.cur] ELSE mem
    /\ UNCHANGED <<server, conn, disk, grace, applying, cli, wires, mishaps, bounds>>

\* The device stops, perhaps in the middle of applyRotation, and starts again.
Restart ==
    /\ drops < MaxDrops
    /\ mem' = disk
    /\ conn' = NoConn /\ grace' = None /\ applying' = {} /\ refused' = FALSE
    /\ IF conn # NoConn THEN Lose(conn) ELSE UNCHANGED wires
    /\ drops' = drops + 1
    /\ UNCHANGED <<server, disk, cli, mishaps, lives, manuals>>

-----------------------------------------------------------------------------
(* `aindrive rotate-token` in the folder *)

\* The rotate route: a new pair, and every socket is closed with 4401.
ManualRotate ==
    /\ manuals < MaxManual
    /\ cli = None
    /\ stored' = Fresh
    /\ cli' = Fresh
    /\ pending' = FALSE
    /\ primary' = NoConn
    /\ srv' = [c \in Conn |-> IF srv[c].state = "open"
                              THEN [srv[c] EXCEPT !.state = "closing"] ELSE srv[c]]
    /\ toAgent' = [c \in Conn |-> IF srv[c].state = "open" /\ link[c]
                                  THEN Append(toAgent[c], Message("refused", 0, 0))
                                  ELSE toAgent[c]]
    /\ manuals' = manuals + 1
    /\ UNCHANGED <<owed, jobs, conn, mem, disk, grace, applying, refused,
                   link, token, toServer, mishaps, lives, drops>>

CliWrites ==
    /\ cli # None
    /\ disk' = [cur |-> cli, prev |-> None]
    /\ cli' = None
    /\ UNCHANGED <<server, conn, mem, grace, applying, refused, wires, mishaps, bounds>>

-----------------------------------------------------------------------------
ServerStep ==
    \/ \E c \in Conn : \/ CloseUnheard(c) \/ Accept(c) \/ Refuse(c)
                       \/ ServerCloses(c) \/ ServerReceives(c)
    \/ \E j \in jobs : SendRotate(j) \/ RotateTimesOut(j)
    \/ SweeperRotates \/ TimerRotates

DeviceStep ==
    \/ \E c \in Conn : \/ Connect(c) \/ ReceiveHello(c) \/ ReceiveRotate(c)
                       \/ ReceiveRefused(c)
    \/ \E a \in applying : Adopt(a)
    \/ SeeDrop \/ WakeUp

Mishap == (\E c \in Conn : Drop(c)) \/ Restart

Next == \/ ServerStep \/ DeviceStep \/ CliWrites
        \/ AgentGraceEnds \/ (\E c \in Conn : ServerGraceEnds(c))
        \/ Mishap \/ ManualRotate

\* Timers, sockets and handlers run on; nothing has to go wrong, and nobody
\* has to rotate by hand.
Fairness ==
    /\ \A c \in Conn : /\ WF_vars(Accept(c)) /\ WF_vars(Refuse(c))
                       /\ WF_vars(ServerCloses(c)) /\ WF_vars(ServerReceives(c))
                       /\ WF_vars(ReceiveHello(c)) /\ WF_vars(ReceiveRotate(c))
                       /\ WF_vars(ReceiveRefused(c))
    /\ WF_vars(\E c \in Conn : Connect(c))
    /\ WF_vars(\E j \in jobs : SendRotate(j)) /\ WF_vars(\E j \in jobs : RotateTimesOut(j))
    /\ WF_vars(SweeperRotates) /\ WF_vars(TimerRotates)
    /\ WF_vars(\E a \in applying : Adopt(a))
    /\ WF_vars(SeeDrop) /\ WF_vars(WakeUp) /\ WF_vars(CliWrites)

Spec == Init /\ [][Next]_vars /\ Fairness

-----------------------------------------------------------------------------
(* Properties.  What `mishaps` excuses is named in each: a property says what *)
(* holds through every other accident.                                       *)

\* The pair the server holds is still somewhere in the folder - in use, kept as
\* a fallback, or about to be written (cli/src/rotation.js: "falls back to
\* `previousCredentials`, which the server still holds") - whatever is lost,
\* late or restarted, while a drive's rotations are of one kind.  Excused: an
\* ok that is stored though the device has left its connection, and a rotation
\* applied on top of one that the server has not stored.
NeverLockedOut ==
    /\ lives = 0 \/ manuals = 0
    /\ mishaps \cap {"stray", "stacked"} = {}
    => stored \in {mem.cur, mem.prev, disk.cur, disk.prev, cli}

Connected(c) == primary = c /\ conn = c /\ link[c]

\* Connected means reachable: with nothing of a rotation under way, the server
\* signs with the secret the device uses (agents.js: rotate "WITHOUT
\* disconnecting it").  Excused: an answer later than the server waits, and a
\* request that went to another entry than the one that is updated.
ConnectedIsReachable ==
    \A c \in Conn :
        /\ Connected(c)
        /\ \A p \in Pair : ~Underway(p)
        /\ mishaps \cap {"late", "crossed"} = {}
        => srv[c].secret = mem.cur

\* The server never goes back to a pair made before the one it holds.
NewestPairStays == [][stored' >= stored]_vars

\* A drive queued for rotation is rotated, however its device drops - unless a
\* socket whose close nobody heard stays in the peer set, or an answer that
\* came late has left both ends with different pairs.
Rotates == pending ~> \/ ~pending
                      \/ \E c \in Conn : srv[c].state = "ghost"
                      \/ "late" \in mishaps

\* The device always comes back online, with working credentials unless one of
\* the mishaps took them.
BackOnline ==
    []<>( \/ \E c \in Conn : /\ Connected(c)
                             /\ \/ srv[c].secret = mem.cur
                                \/ mishaps \cap {"late", "crossed"} # {}
          \/ mishaps \cap {"stray", "stacked"} # {} )
=============================================================================
