----------------------------- MODULE AfanBridge -----------------------------
(***************************************************************************)
(* The afan host bridge (cli/src/afan-bridge.js).  A request is a file in  *)
(* the shared folder; every host that serves the folder notices it, and    *)
(* one of them calls the agent and writes the answer to the result file.   *)
(* The result file is also the claim: it is created exclusively with       *)
(* status `running`, and only the device it names may go on with it.  The  *)
(* agent (external) answers a repeated message id with the same task.      *)
(***************************************************************************)
EXTENDS Naturals, FiniteSets

CONSTANTS
    Host,        \* bridges serving the folder
    Request,     \* request files, all by the drive's owner
    Key,         \* idempotency keys
    KeyOf,       \* the key a request carries
    WithFiles,   \* requests that name files
    Earlier,     \* requests of before: the folder may hold their answers already
    None,        \* no device
    SameName,    \* the hosts have the same os.hostname(), hence the same `device`
    MaxOutage,   \* bound: crashes and lost connections
    MaxStop      \* bound: cancellations and expiries

ASSUME BridgeAssumption ==
    /\ KeyOf \in [Request -> Key]
    /\ WithFiles \subseteq Request /\ Earlier \subseteq Request /\ None \notin Host
    /\ SameName \in BOOLEAN /\ MaxOutage \in Nat /\ MaxStop \in Nat

VARIABLES
    asked,       \* request files written
    canceled,    \* request files that say `canceled: true`
    expired,     \* request files whose `expires` has passed
    result,      \* the result file of a request: its status and device
    up,          \* hosts that run
    todo,        \* per host, requests whose timer or scan is due
    run,         \* per host and request: its processRequest
    task,        \* the agent's task for a message id
    grants,      \* requests whose files the server lets the agent fetch
    callers,     \* history: hosts that have sent a request to the agent
    outages

vars == <<asked, canceled, expired, result, up, todo, run, task, grants, callers, outages>>
fileVars == <<asked, canceled, expired>>

Final == {"completed", "failed", "canceled", "expired"}
Step  == {"idle", "check", "finish", "claim", "grant", "send", "wait",
          "revoke"}
Idle  == [at |-> "idle", resume |-> FALSE, status |-> "running"]

TypeOK ==
    /\ canceled \subseteq asked /\ expired \subseteq asked /\ asked \subseteq Request
    /\ result \in [Request -> [status : Final \cup {"none", "running"},
                               device : Host \cup {None}]]
    /\ \A r \in Request : result[r].status # "none" => r \in asked
    /\ up \subseteq Host /\ todo \in [Host -> SUBSET asked]
    /\ run \in [Host -> [Request -> [at : Step, resume : BOOLEAN,
                                     status : Final \cup {"running"}]]]
    /\ \A h \in Host \ up : todo[h] = {} /\ run[h] = [r \in Request |-> Idle]
    /\ task \in [Key -> {"none", "working", "completed", "failed", "canceled"}]
    /\ grants \subseteq WithFiles
    /\ callers \in [Request -> SUBSET Host] /\ outages \in 0..MaxOutage

Init ==
    /\ asked \in SUBSET Earlier /\ canceled = {} /\ expired = {}
    /\ result = [r \in Request |->
          [status |-> IF r \in asked THEN "completed" ELSE "none", device |-> None]]
    /\ up = Host /\ todo = [h \in Host |-> {}]
    /\ run = [h \in Host |-> [r \in Request |-> Idle]]
    /\ task = [k \in Key |-> "none"] /\ grants = {}
    /\ callers = [r \in Request |-> {}] /\ outages = 0

\* `device` in executed_by.
Device(h) == IF SameName THEN CHOOSE d \in Host : TRUE ELSE h

-----------------------------------------------------------------------------
(* The request file, and who notices it *)

\* Mutant: a host that does not run is told too.
NoticedAll(r) == [h \in Host |-> todo[h] \cup {r}]

\* notify: the file watch of every running host.
Noticed(r) == [h \in Host |-> IF h \in up THEN todo[h] \cup {r} ELSE todo[h]]

Ask(r) ==
    /\ r \notin asked \cup Earlier /\ asked' = asked \cup {r} /\ todo' = Noticed(r)
    /\ UNCHANGED <<canceled, expired, result, up, run, task, grants, callers, outages>>

MayStop == Cardinality(canceled) + Cardinality(expired) < MaxStop

Cancel(r) ==
    /\ MayStop /\ r \in asked \ canceled /\ canceled' = canceled \cup {r} /\ todo' = Noticed(r)
    /\ UNCHANGED <<asked, expired, result, up, run, task, grants, callers, outages>>

Expire(r) ==
    /\ MayStop /\ r \in asked \ expired /\ expired' = expired \cup {r}
    /\ UNCHANGED <<asked, canceled, result, up, todo, run, task, grants, callers, outages>>

\* scan: also after a reconnect, whatever is under way.
Scan(h) ==
    /\ h \in up /\ outages < MaxOutage /\ outages' = outages + 1
    /\ todo' = [todo EXCEPT ![h] = asked]
    /\ UNCHANGED <<fileVars, result, up, run, task, grants, callers>>

-----------------------------------------------------------------------------
(* One request *)

At(h, r, s) == h \in up /\ run[h][r].at = s
Goes(h, r, s) == run' = [run EXCEPT ![h][r].at = s]
Ends(h, r, s, status) ==
    run' = [run EXCEPT ![h][r] = [at |-> s, resume |-> run[h][r].resume, status |-> status]]
Stops(h, r) == run' = [run EXCEPT ![h][r] = Idle]

\* Mutant: a `running` result is always somebody else's.
ResumesNever(h, r) == FALSE

\* A `running` result this device left behind.
Resumes(h, r) == result[r].status = "running" /\ result[r].device = Device(h)

\* runRequest: one run per path, a notice that comes meanwhile is dropped;
\* then the head of processRequest, from the two files as they are read.
Start(h, r) ==
    /\ h \in up /\ r \in todo[h]
    /\ todo' = [todo EXCEPT ![h] = @ \ {r}]
    /\ IF run[h][r].at = "idle" /\ (result[r].status = "none" \/ Resumes(h, r))
       THEN run' = [run EXCEPT ![h][r] =
              [at |-> IF r \in canceled \cup expired THEN "finish" ELSE "check",
               resume |-> Resumes(h, r),
               status |-> IF r \in canceled THEN "canceled"
                          ELSE IF r \in expired THEN "expired" ELSE "running"]]
       ELSE UNCHANGED run
    /\ UNCHANGED <<fileVars, result, up, task, grants, callers, outages>>

\* verifyAuthor, findCompletedTwin, resolveAgent and the checks on what they
\* found: the server or the registry may refuse, or be out of reach.
Check(h, r) ==
    /\ At(h, r, "check")
    /\ \/ Ends(h, r, "finish", "failed")
       \/ IF \E q \in Request \ {r} : KeyOf[q] = KeyOf[r] /\ result[q].status = "completed"
          THEN Ends(h, r, "finish", "completed") ELSE Goes(h, r, "claim")
    /\ UNCHANGED <<fileVars, result, up, todo, task, grants, callers, outages>>

\* Mutant: the result is written over whatever is there.
PlacedOver(h, r) == TRUE

\* exclusiveWrite: the link is refused when the file is there.  (Where the
\* filesystem has no hard links the code looks and then renames, and says so.)
Placed(h, r) == result[r].status = "none"

\* The device is read only of a result that is still `running`.
ResultIs(h, r, status) ==
    result' = [result EXCEPT ![r] =
        [status |-> status, device |-> IF status = "running" THEN Device(h) ELSE None]]

\* finish before the call: refused, canceled, expired, or the twin's answer.
Finish(h, r) ==
    /\ At(h, r, "finish")
    /\ IF run[h][r].resume \/ Placed(h, r)
       THEN ResultIs(h, r, run[h][r].status) ELSE UNCHANGED result
    /\ Stops(h, r)
    /\ UNCHANGED <<fileVars, up, todo, task, grants, callers, outages>>

\* The claim: from here on no other host runs the request.
Claim(h, r) ==
    /\ At(h, r, "claim")
    /\ IF run[h][r].resume THEN Goes(h, r, "grant") /\ UNCHANGED result
       ELSE IF Placed(h, r) THEN Goes(h, r, "grant") /\ ResultIs(h, r, "running")
       ELSE Stops(h, r) /\ UNCHANGED result
    /\ UNCHANGED <<fileVars, up, todo, task, grants, callers, outages>>

\* write: the answer takes the place of `running`; this run's grant is still to
\* be taken back.
Answers(h, r, status) ==
    /\ ResultIs(h, r, status)
    /\ IF r \in WithFiles THEN Goes(h, r, "revoke") ELSE Stops(h, r)

\* grantFiles, for a request with files; a file may be gone, the grant refused, or
\* given by the server whose answer is lost: nobody takes that one back.
Grant(h, r) ==
    /\ At(h, r, "grant")
    /\ \/ /\ Goes(h, r, "send") /\ grants' = grants \cup ({r} \cap WithFiles)
          /\ UNCHANGED result
       \/ /\ r \in WithFiles /\ grants' \in {grants, grants \cup {r}}
          /\ ResultIs(h, r, "failed") /\ Stops(h, r)
    /\ UNCHANGED <<fileVars, up, todo, task, callers, outages>>

\* message/send, with the idempotency key as the message id; it may fail before
\* the agent has it or after.
Send(h, r) ==
    /\ At(h, r, "send") /\ UNCHANGED grants
    /\ \/ /\ task' = [task EXCEPT ![KeyOf[r]] = IF @ = "none" THEN "working" ELSE @]
          /\ \/ Goes(h, r, "wait") /\ UNCHANGED result
             \/ Answers(h, r, "failed")
       \/ UNCHANGED task /\ Answers(h, r, "failed")
    /\ callers' = [callers EXCEPT ![r] = @ \cup {h}]
    /\ UNCHANGED <<fileVars, up, todo, outages>>

\* runTask: the task is seen ended, or cannot be asked for.
Ended(h, r) ==
    /\ At(h, r, "wait") /\ UNCHANGED grants
    /\ Answers(h, r, IF task[KeyOf[r]] \in Final THEN task[KeyOf[r]] ELSE "failed")
    /\ UNCHANGED <<fileVars, up, todo, task, callers, outages>>

\* runTask's watch: `canceled: true`, `expires`, or the longest wait; tasks/cancel
\* when the task id is known, best effort.
Stop(h, r) ==
    /\ At(h, r, "wait") /\ UNCHANGED grants
    /\ Answers(h, r, IF r \in canceled THEN "canceled" ELSE "expired")
    /\ \/ task[KeyOf[r]] = "working" /\ task' = [task EXCEPT ![KeyOf[r]] = "canceled"]
       \/ UNCHANGED task
    /\ UNCHANGED <<fileVars, up, todo, callers, outages>>

\* revoke: taken back at the server by its audience, which names the request, or
\* left to expire.
Revoke(h, r) ==
    /\ At(h, r, "revoke") /\ Stops(h, r)
    /\ grants' \in {grants \ {r}, grants}
    /\ UNCHANGED <<fileVars, result, up, todo, task, callers, outages>>

\* HANDOFF_TTL_SECONDS is longer than MAX_WAIT_MS: a grant outlives its call.
GrantExpires(r) ==
    /\ r \in grants /\ \A h \in Host : run[h][r].at \notin {"send", "wait"}
    /\ grants' = grants \ {r}
    /\ UNCHANGED <<fileVars, result, up, todo, run, task, callers, outages>>

-----------------------------------------------------------------------------
(* The agent, and the hosts' crashes *)

AgentEnds(k) ==
    /\ task[k] = "working"
    /\ \E s \in {"completed", "failed"} : task' = [task EXCEPT ![k] = s]
    /\ UNCHANGED <<fileVars, result, up, todo, run, grants, callers, outages>>

Crash(h) ==
    /\ h \in up /\ outages < MaxOutage /\ outages' = outages + 1
    /\ up' = up \ {h} /\ todo' = [todo EXCEPT ![h] = {}]
    /\ run' = [run EXCEPT ![h] = [r \in Request |-> Idle]]
    /\ UNCHANGED <<fileVars, result, task, grants, callers>>

\* It starts again and scans the folder.
Restart(h) ==
    /\ h \in Host \ up /\ up' = up \cup {h}
    /\ todo' = [todo EXCEPT ![h] = asked]
    /\ UNCHANGED <<fileVars, result, run, task, grants, callers, outages>>

\* The rest of processRequest.
Proceed(h, r) ==
    \/ Check(h, r) \/ Finish(h, r) \/ Claim(h, r)
    \/ Grant(h, r) \/ Send(h, r) \/ Ended(h, r) \/ Stop(h, r)
    \/ Revoke(h, r)

Next ==
    \/ \E r \in Request : Ask(r) \/ Cancel(r) \/ Expire(r) \/ GrantExpires(r)
    \/ \E h \in Host : Scan(h) \/ Crash(h) \/ Restart(h)
    \/ \E h \in Host, r \in Request : Start(h, r) \/ Proceed(h, r)
    \/ \E k \in Key : AgentEnds(k)

Spec == Init /\ [][Next]_vars

\* A host's process goes on until it crashes, and a device that went away comes
\* back: what it left `running` is nobody else's to finish.
FairSpec ==
    /\ Spec
    /\ \A h \in Host, r \in Request : WF_vars(Start(h, r)) /\ WF_vars(Proceed(h, r))
    /\ \A h \in Host : WF_vars(Restart(h))

-----------------------------------------------------------------------------
(* Properties *)

\* Two hosts serving the same folder never both call the agent for a request,
\* whatever crashes and comes back between the claim, the call and the answer.
OneCaller == \A r \in Request : Cardinality(callers[r]) <= 1

\* While the agent works on a request with files, the grant over them is there:
\* no run that ends takes another one's away.
CalledWithGrant ==
    \A h \in Host, r \in WithFiles : run[h][r].at \in {"send", "wait"} => r \in grants

\* A result that says how a request ended is never written again: not by a host
\* that read the folder before it was, not by one that resumes.
FinalStays ==
    [][\A r \in Request : result[r].status \in Final => result'[r] = result[r]]_vars

\* Every request gets an answer, also when its host crashes in the middle of it.
EachAnswered == \A r \in Request : r \in asked ~> result[r].status \in Final

=============================================================================
