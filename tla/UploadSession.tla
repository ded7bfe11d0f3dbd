--------------------------- MODULE UploadSession ---------------------------
(***************************************************************************)
(* One resumable upload: the session row and the route that appends parts  *)
(* to a hidden temp file on the device and renames it onto the target      *)
(* (web/app/api/drives/[driveId]/fs/upload-sessions, lib/upload-sessions). *)
(* A file is the sequence of its 4 MiB chunks, each named by its position  *)
(* in the source; a part has up to PartChunks of them.  The device carries *)
(* out each call it gets, in any order and even when the server no longer  *)
(* waits for it; `crossed' remembers when that changed a file in use.      *)
(***************************************************************************)
EXTENDS Naturals, Sequences, FiniteSets

CONSTANTS
    Handler,     \* requests under way at once
    Client,      \* the one of them that the uploading client makes
    Size,        \* chunks in the file
    PartChunks,  \* chunks in a part: PART_BYTES / AGENT_CHUNK_BYTES
    MaxStray,    \* bound: requests beside the client's own
    MaxFail,     \* bound: failed calls and crashes of the server
    None

ASSUME UploadAssumption ==
    /\ Client \in Handler
    /\ Size \in Nat \ {0} /\ PartChunks \in Nat \ {0}
    /\ MaxStray \in Nat /\ MaxFail \in Nat
    /\ None \notin Handler \cup Nat \cup Seq(Nat)

VARIABLES
    received,    \* received_bytes of the session's row, None when it is gone
    usage,       \* files bumpOwnerUsage added
    lock,        \* the handler in inFlight, or None
    pc, kind,    \* of each handler, with its locals:
    snap,        \*   received_bytes of the row it read before its first await
    offset,      \*   X-Upload-Offset
    part,        \*   chunks of the part, then those still to be appended
    calls,       \* calls sent to the device and not carried out yet
    reply,       \* what the call of a handler returned, or None
    temp, target,\* the device's files, None when absent
    acked,       \* history: the largest receivedBytes a PATCH has answered,
                 \* 0 again once an abort is under way
    crossed,     \* history: a call that nobody waits for, given up or the
                 \* sweep's, changed a file it was not meant for
    strays, fails

row    == <<received, usage>>
locals == <<pc, kind, snap, offset, part>>
files  == <<temp, target>>
bounds == <<strays, fails>>
vars   == <<row, lock, locals, calls, reply, files, acked, crossed, bounds>>

Kind  == {"patch", "get", "delete"}
Op    == {"statTemp", "statTarget", "append", "rename", "delete"}
Call  == [by : Handler \cup {None}, op : Op, at : 0..Size]
Whole == [i \in 1..Size |-> i]
Reply == [ok : BOOLEAN, size : Nat]  \* ok: found, for a stat

TypeOK ==
    /\ received \in Nat \cup {None} /\ usage \in Nat
    /\ lock \in Handler \cup {None}
    /\ pc \in [Handler -> {"idle", "gated"} \cup Op]
    /\ kind \in [Handler -> Kind]
    /\ \A h \in Handler : snap[h] \in Nat /\ offset[h] \in Nat /\ part[h] \in 0..PartChunks
    /\ calls \subseteq Call
    /\ \A h \in Handler : reply[h] # None => reply[h] \in Reply /\ pc[h] \in Op
    /\ lock # None => pc[lock] \in Op /\ kind[lock] # "get"
    /\ temp = None \/ temp \in Seq(1..Size)
    /\ acked \in 0..Size /\ crossed \in BOOLEAN /\ strays \in 0..MaxStray /\ fails \in 0..MaxFail

Init ==
    /\ received = 0 /\ usage = 0 /\ lock = None
    /\ pc = [h \in Handler |-> "idle"]
    /\ kind = [h \in Handler |-> "patch"]
    /\ snap = [h \in Handler |-> 0]
    /\ offset = [h \in Handler |-> 0]
    /\ part = [h \in Handler |-> 0]
    /\ calls = {} /\ reply = [h \in Handler |-> None]
    /\ temp = None /\ target = None
    /\ acked = 0 /\ crossed = FALSE /\ strays = 0 /\ fails = 0

-----------------------------------------------------------------------------
(* Pieces of the handlers *)

Length(f) == IF f = None THEN 0 ELSE Len(f)

\* UPDATE ... WHERE id: nothing happens when the row is gone.
SetReceived(n) == received' = IF received = None THEN None ELSE n

Ask(h, op, at) ==
    /\ calls' = calls \cup {[by |-> h, op |-> op, at |-> at]}
    /\ pc' = [pc EXCEPT ![h] = op]
    /\ reply' = [reply EXCEPT ![h] = None]

\* Mutant: nothing takes the session out of inFlight.
FinishKeepingLock(h) ==
    /\ pc' = [pc EXCEPT ![h] = "idle"]
    /\ kind' = [kind EXCEPT ![h] = "patch"]
    /\ snap' = [snap EXCEPT ![h] = 0]
    /\ offset' = [offset EXCEPT ![h] = 0]
    /\ part' = [part EXCEPT ![h] = 0]
    /\ reply' = [reply EXCEPT ![h] = None]
    /\ UNCHANGED lock

\* Mutant: an answer is still kept when its request is over.
FinishKeepingReply(h) ==
    /\ pc' = [pc EXCEPT ![h] = "idle"]
    /\ kind' = [kind EXCEPT ![h] = "patch"]
    /\ snap' = [snap EXCEPT ![h] = 0]
    /\ offset' = [offset EXCEPT ![h] = 0]
    /\ part' = [part EXCEPT ![h] = 0]
    /\ lock' = IF lock = h THEN None ELSE lock
    /\ UNCHANGED reply

\* The response is sent; `finally` takes the session out of inFlight.
Finish(h) ==
    /\ pc' = [pc EXCEPT ![h] = "idle"]
    /\ kind' = [kind EXCEPT ![h] = "patch"]
    /\ snap' = [snap EXCEPT ![h] = 0]
    /\ offset' = [offset EXCEPT ![h] = 0]
    /\ part' = [part EXCEPT ![h] = 0]
    /\ reply' = [reply EXCEPT ![h] = None]
    /\ lock' = IF lock = h THEN None ELSE lock

\* bumpOwnerUsage and deleteUploadSession are adjacent.
Complete == usage' = usage + 1 /\ received' = None

-----------------------------------------------------------------------------
(* Requests *)

Arrive(h, k, o, n) ==
    /\ pc[h] = "idle" /\ received # None
    /\ pc' = [pc EXCEPT ![h] = "gated"]
    /\ kind' = [kind EXCEPT ![h] = k]
    /\ snap' = [snap EXCEPT ![h] = received]
    /\ offset' = [offset EXCEPT ![h] = o]
    /\ part' = [part EXCEPT ![h] = n]
    /\ UNCHANGED <<row, lock, calls, reply, files, crossed, acked>>

\* The client knows the resume point and sends the next part; an empty one
\* when nothing is left but the rename.
ClientSends ==
    LET o == IF temp # None THEN Len(temp) ELSE IF received = Size THEN Size ELSE 0
    IN /\ o <= Size
       /\ Arrive(Client, "patch", o, IF Size - o < PartChunks THEN Size - o ELSE PartChunks)
       /\ UNCHANGED bounds

\* A request the client repeats, sends from another tab, or resumes with.
StrayArrives(h, k, o, n) ==
    /\ h # Client /\ strays < MaxStray
    /\ k # "patch" => o = 0 /\ n = 0
    /\ o + n <= Size
    /\ Arrive(h, k, o, n)
    /\ strays' = strays + 1
    /\ UNCHANGED fails

Locks(h) == kind[h] \in {"patch", "delete"}

\* lockSession failed: 409.
TurnAway(h) ==
    /\ pc[h] = "gated" /\ Locks(h) /\ lock # None
    /\ Finish(h)
    /\ UNCHANGED <<row, calls, files, crossed, acked, bounds>>

Start(h) ==
    /\ pc[h] = "gated" /\ (Locks(h) => lock = None)
    /\ lock' = IF Locks(h) THEN h ELSE lock
    /\ Ask(h, IF kind[h] = "delete" THEN "delete" ELSE "statTemp", 0)
    /\ acked' = IF kind[h] = "delete" THEN 0 ELSE acked
    /\ UNCHANGED <<row, kind, snap, offset, part, files, crossed, bounds>>

-----------------------------------------------------------------------------
(* resolveState *)

Answered(h, op) == pc[h] = op /\ reply[h] # None

\* Mutant: the offset of the part is not compared with the temp's size.
ProceedAnywhere(h, n) ==
    /\ kind[h] = "patch"
    /\ n + part[h] <= Size
    /\ part[h] = 0 => n = Size
    /\ IF part[h] > 0 THEN Ask(h, "append", offset[h] + 1) ELSE Ask(h, "rename", 0)
    /\ UNCHANGED <<lock, kind, snap, offset, part>>

\* "active" at n, for a PATCH of the right offset: append, or rename again.
Proceed(h, n) ==
    /\ kind[h] = "patch" /\ offset[h] = n
    /\ n + part[h] <= Size
    /\ part[h] = 0 => n = Size
    /\ IF part[h] > 0 THEN Ask(h, "append", n + 1) ELSE Ask(h, "rename", 0)
    /\ UNCHANGED <<lock, kind, snap, offset, part>>

\* A GET, a stale offset (409) or a part that cannot be taken (400).
AnswersNow(h, n) ==
    /\ ~ /\ kind[h] = "patch" /\ offset[h] = n
         /\ n + part[h] <= Size
         /\ part[h] = 0 => n = Size
    /\ Finish(h)
    /\ UNCHANGED calls

\* The temp is there: its size goes into the row when the row read before the
\* await says otherwise.
TempFound(h) ==
    LET n == reply[h].size
    IN /\ Answered(h, "statTemp") /\ reply[h].ok
       /\ IF n # snap[h] THEN SetReceived(n) ELSE UNCHANGED received
       /\ Proceed(h, n) \/ AnswersNow(h, n)
       /\ UNCHANGED <<usage, files, crossed, acked, bounds>>

NothingWritten(h) ==
    /\ Answered(h, "statTemp") /\ ~reply[h].ok /\ snap[h] = 0
    /\ Proceed(h, 0) \/ AnswersNow(h, 0)
    /\ UNCHANGED <<row, files, crossed, acked, bounds>>

\* Mutant: with every byte landed and no temp the rename must have happened.
TempTakenForRenamed(h) ==
    /\ Answered(h, "statTemp") /\ ~reply[h].ok /\ snap[h] = Size
    /\ Complete
    /\ Finish(h)
    /\ UNCHANGED <<calls, files, crossed, acked, bounds>>

\* Every byte had landed: look for the target.
TempRenamed(h) ==
    /\ Answered(h, "statTemp") /\ ~reply[h].ok /\ snap[h] = Size
    /\ Ask(h, "statTarget", 0)
    /\ UNCHANGED <<row, lock, kind, snap, offset, part, files, crossed, acked, bounds>>

\* finishLost
Lost(h) ==
    /\ \/ Answered(h, "statTemp") /\ ~reply[h].ok /\ snap[h] \notin {0, Size}
       \/ Answered(h, "statTarget") /\ reply[h].size # Size
    /\ received' = None
    /\ Finish(h)
    /\ UNCHANGED <<usage, calls, files, crossed, acked, bounds>>

\* finishPublished for a PATCH; a GET only reports the size.
Published(h) ==
    /\ Answered(h, "statTarget") /\ reply[h].size = Size
    /\ IF kind[h] = "patch" THEN Complete ELSE UNCHANGED row
    /\ Finish(h)
    /\ UNCHANGED <<calls, files, crossed, acked, bounds>>

-----------------------------------------------------------------------------
(* appendPartToAgent, the rename, and DELETE *)

\* One chunk landed: the next one, or the part is done.
Appended(h) ==
    LET n == offset[h] + 1 IN
    /\ Answered(h, "append")
    /\ offset' = [offset EXCEPT ![h] = n]
    /\ part' = [part EXCEPT ![h] = @ - 1]
    /\ \/ /\ part[h] > 1
          /\ Ask(h, "append", n + 1)
          /\ UNCHANGED received
       \/ /\ part[h] = 1 /\ n = Size
          /\ SetReceived(n)
          /\ Ask(h, "rename", 0)
    /\ UNCHANGED <<usage, lock, kind, snap, files, crossed, acked, bounds>>

PartDone(h) ==
    /\ Answered(h, "append") /\ part[h] = 1 /\ offset[h] + 1 < Size
    /\ SetReceived(offset[h] + 1)
    /\ acked' = IF offset[h] + 1 > acked THEN offset[h] + 1 ELSE acked
    /\ Finish(h)
    /\ UNCHANGED <<usage, calls, files, crossed, bounds>>

Renamed(h) ==
    /\ Answered(h, "rename")
    /\ IF reply[h].ok THEN Complete ELSE UNCHANGED row
    /\ Finish(h)
    /\ UNCHANGED <<calls, files, crossed, acked, bounds>>

Aborted(h) ==
    /\ Answered(h, "delete")
    /\ received' = None
    /\ Finish(h)
    /\ UNCHANGED <<usage, calls, files, crossed, acked, bounds>>

-----------------------------------------------------------------------------
(* What goes wrong *)

Change == {"append", "rename", "delete"}

\* Calls the device carries out though nobody waits for them any more; a late
\* stat tells nobody anything.
Orphans(S) == {[c EXCEPT !.by = None] : c \in {d \in S : d.op \in Change}}

CallsOf(h) == {c \in calls : c.by = h}

\* The call timed out, or its answer was lost with the socket.  Only DELETE
\* goes on.
CallFails(h) ==
    /\ pc[h] \in Op /\ fails < MaxFail
    /\ calls' = (calls \ CallsOf(h)) \cup Orphans(CallsOf(h))
    /\ received' = IF kind[h] = "delete" THEN None ELSE received
    /\ Finish(h)
    /\ fails' = fails + 1
    /\ UNCHANGED <<usage, files, crossed, acked, strays>>

\* The server stops: handlers and locks are gone, the row is not.
Crash ==
    /\ fails < MaxFail /\ \E h \in Handler : pc[h] # "idle"
    /\ pc' = [h \in Handler |-> "idle"] /\ kind' = [h \in Handler |-> "patch"]
    /\ snap' = [h \in Handler |-> 0] /\ offset' = [h \in Handler |-> 0]
    /\ part' = [h \in Handler |-> 0] /\ reply' = [h \in Handler |-> None]
    /\ lock' = None
    /\ calls' = Orphans(calls)
    /\ fails' = fails + 1
    /\ UNCHANGED <<row, files, crossed, acked, strays>>

\* sweepStaleSessions, run by whoever opens another session on the drive.  It
\* takes no lock: a request may be under way, or past its gate.
Sweep ==
    /\ received # None /\ strays < MaxStray
    /\ received' = None
    /\ calls' = calls \cup {[by |-> None, op |-> "delete", at |-> 0]}
    /\ strays' = strays + 1
    /\ UNCHANGED <<usage, lock, locals, reply, files, crossed, acked, fails>>

-----------------------------------------------------------------------------
(* The device (cli/src/rpc.js) *)

\* Mutant: chunkId counts the chunks of a part.
WriteByPart(at) == IF at % PartChunks = 1 THEN <<at>>
                   ELSE Append(IF temp = None THEN <<>> ELSE temp, at)

\* chunkId 0 opens the file anew, any other appends and creates it if need be.
Write(at) == IF at = 1 THEN <<1>> ELSE Append(IF temp = None THEN <<>> ELSE temp, at)

\* A call nobody waits for does no harm while no request holds the lock and
\* the temp is as it was when the call was sent.
Harmless(c) ==
    /\ lock = None
    /\ c.op = "append" => Length(temp) + 1 = c.at
    /\ c.op = "rename" => temp = Whole
    /\ c.op = "delete" => received = None

Crosses(c) == c.by = None /\ c.op \in Change /\ ~Harmless(c)

Device(c) ==
    /\ calls' = calls \ {c}
    /\ crossed' = (crossed \/ Crosses(c))
    /\ CASE c.op = "append" -> temp' = Write(c.at) /\ UNCHANGED target
         [] c.op = "delete" -> temp' = None /\ UNCHANGED target
         [] c.op = "rename" -> IF temp # None THEN target' = temp /\ temp' = None
                                              ELSE UNCHANGED files
         [] OTHER -> UNCHANGED files
    /\ reply' = IF c.by = None THEN reply ELSE [reply EXCEPT ![c.by] =
          CASE c.op \in {"statTemp", "rename"} -> [ok |-> temp # None, size |-> Length(temp)]
            [] c.op = "statTarget" -> [ok |-> target # None, size |-> Length(target)]
            [] OTHER -> [ok |-> TRUE, size |-> 0]]
    /\ UNCHANGED <<row, lock, locals, acked, bounds>>

-----------------------------------------------------------------------------
HandlerStep(h) ==
    \/ TurnAway(h) \/ Start(h)
    \/ TempFound(h) \/ NothingWritten(h) \/ TempRenamed(h) \/ Lost(h) \/ Published(h)
    \/ Appended(h) \/ PartDone(h) \/ Renamed(h) \/ Aborted(h)

Next ==
    \/ ClientSends
    \/ \E h \in Handler, k \in Kind, o \in 0..Size, n \in 0..PartChunks : StrayArrives(h, k, o, n)
    \/ \E h \in Handler : HandlerStep(h) \/ CallFails(h)
    \/ \E c \in calls : Device(c)
    \/ Crash \/ Sweep

\* Handlers run on, the device answers while it is connected, and the client
\* keeps sending the next part.
Fairness == /\ \A h \in Handler : WF_vars(HandlerStep(h))
            /\ WF_vars(\E c \in calls : Device(c))
            /\ WF_vars(ClientSends)

Spec == Init /\ [][Next]_vars /\ Fairness

-----------------------------------------------------------------------------
(* Properties *)

\* The target holds its old content or the complete new one, never a partial
\* or a mixed file ([uploadId]/route.ts, "atomic publish" and "never gets
\* double-appended"), whatever part was repeated or died half-way, until a call
\* that timed out or the sweep's delete crosses a request at work.
PublishedIsWhole == crossed \/ target \in {None, Whole}

\* What a part's answer acknowledged is still in the temp file for as long as
\* the session can be resumed, with the same exception.
AckedBytesStay ==
    ~crossed /\ received # None /\ target = None => acked <= Length(temp)

\* A file is counted once, however often its completion is asked for
\* ([uploadId]/route.ts, finishPublished: "run them here, exactly once").
CountedOnce == usage <= 1

\* Only a published file is counted.
CountedIsPublished == usage > 0 => target # None

\* With a client that keeps going, every session ends, after any failure; only a
\* late part can make the temp longer than the file, where every part is refused.
SessionEnds == <>(received = None \/ crossed)
=============================================================================
