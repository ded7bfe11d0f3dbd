---------------------------- MODULE GitExecStream ----------------------------
(***************************************************************************)
(* One git-over-SSH session: the SSH channel, the relay that stands        *)
(* between it and the drive's agent (web/lib/git-ssh/relay.ts, openGitExec *)
(* of web/lib/agents.js), the frames of the agent's socket, and the live   *)
(* `git` process the agent runs (cli/src/git-exec.js).  Bytes are counted  *)
(* in units, the buffers of a stream's `data` event, all of one size; each *)
(* unit git writes has its number.  A push to a path without a repository  *)
(* has it made and asks once more.  The two ends of the socket learn of    *)
(* its loss each in their own time.                                        *)
(***************************************************************************)
EXTENDS Naturals, Sequences, FiniteSets

CONSTANTS
    Out,         \* bound: units git writes
    In,          \* bound: units the client sends
    Window,      \* windowBytes, of the agent
    InWindow,    \* GIT_SSH_WINDOW_BYTES, of the server
    Pipe,        \* units the operating system's pipe holds
    Dropped      \* BOOLEAN: a frame may fail to verify, as those may that come
                 \* with the answer of a live rotation; {FALSE}: none does

ASSUME StreamAssumption ==
    /\ Out \in Nat \ {0} /\ In \in Nat /\ Pipe \in Nat \ {0}
    /\ Window \in Nat \ {0} /\ InWindow \in Nat \ {0}
    /\ FALSE \in Dropped /\ Dropped \subseteq BOOLEAN

VARIABLES
    down, up,    \* frames under way to the agent and to the server
    socket,      \* the ends that hold the socket for open
    git,         \* "none", "running", "exited" (its stdout is still read), "gone"
    code,        \* its exit code, 1 for any but 0
    written,     \* units git wrote to its stdout
    read,        \* units of it the agent sent
    unacked,     \* outUnacked
    paused,      \* ex.paused
    stalled,     \* stdout was paused again after git's exit
    stdin,       \* units written to git's stdin, not read yet
    eof,         \* git's stdin was ended
    relay,       \* the call awaited: "opening", "initing", "reopening"; "answered"
                 \* (the handle is not set yet), "open", "done"
    outcome,     \* what onExit was given; 2 is nothing yet
    timedOut,    \* the relay's timer has fired
    inFlight,    \* units written to the agent, not acknowledged
    left,        \* what the client has still to send, the end included
    held,        \* the channel is paused
    writes,      \* units written to the channel, not flushed
    got,         \* units the client has
    status,      \* the exit status the client was given; 2 is none yet
    hungUp,      \* the client closed the channel
    lost         \* history: acks there was no handle for

gitVars   == <<git, code, written, read, stdin, eof>>
agentVars == <<gitVars, unacked, paused, stalled>>
chanVars  == <<left, held, writes, got, status, hungUp, lost>>
relayVars == <<relay, outcome, timedOut, inFlight, chanVars>>
vars      == <<down, up, socket, agentVars, relayVars>>

Alive == socket = {"agent", "server"}

Down    == {"start", "init", "in", "eof", "ack", "kill"}
Answer  == {"ok", "inited", "missing", "refused"}
Waiting == {"opening", "initing", "reopening"}
UpFrame == [type : {"out"}, unit : 1..Out] \cup [type : Answer \cup {"inack"}]
           \cup [type : {"exit"}, code : {0, 1}]

TypeOK ==
    /\ down \in Seq(Down) /\ up \in Seq(UpFrame)
    /\ socket \subseteq {"agent", "server"} /\ (~Alive => down = <<>> /\ up = <<>>)
    /\ git \in {"none", "running", "exited", "gone"} /\ code \in {0, 1}
    /\ written \in 0..Out /\ read \in 0..written /\ written - read <= Pipe
    /\ unacked \in 0..Out /\ paused \in BOOLEAN /\ stalled \in BOOLEAN
    /\ stdin \in 0..In /\ eof \in BOOLEAN
    /\ relay \in Waiting \cup {"answered", "open", "done"} /\ outcome \in 0..2
    /\ timedOut \in BOOLEAN /\ inFlight \in 0..In /\ left \in 0..(In + 1)
    /\ held \in BOOLEAN /\ writes \in Seq(1..Out) /\ got \subseteq 1..Out
    /\ status \in 0..2 /\ (status # 2 => relay = "done")
    /\ hungUp \in BOOLEAN /\ lost \in 0..Out

Init ==
    /\ down = <<"start">> /\ up = <<>> /\ socket = {"agent", "server"}
    /\ git = "none" /\ code = 1 /\ written = 0 /\ read = 0 /\ unacked = 0
    /\ paused = FALSE /\ stalled = FALSE /\ stdin = 0 /\ eof = FALSE
    /\ relay = "opening" /\ outcome = 2 /\ timedOut = FALSE /\ inFlight = 0
    /\ left = In + 1 /\ held = FALSE /\ writes = <<>> /\ got = {} /\ status = 2
    /\ hungUp = FALSE /\ lost = 0

\* A frame to the server: on a socket that is lost it is written in vain.
Up(f) == up' = IF Alive THEN Append(up, f) ELSE up

-----------------------------------------------------------------------------
(* git, on the device *)

GitWrites ==
    /\ git = "running" /\ written < Out /\ written - read < Pipe
    /\ written' = written + 1
    /\ UNCHANGED <<down, up, socket, git, code, read, stdin, eof, unacked, paused, stalled, relayVars>>

\* It reads its stdin: the callback of the agent's write acknowledges the unit.
GitReads ==
    /\ git = "running" /\ stdin > 0 /\ stdin' = stdin - 1
    /\ Up([type |-> "inack"])
    /\ UNCHANGED <<down, socket, git, code, written, read, eof, unacked, paused, stalled, relayVars>>

GitIsDone ==
    /\ git = "running" /\ written = Out /\ stdin = 0 /\ eof
    /\ git' = "exited" /\ code' = 0
    /\ UNCHANGED <<down, up, socket, written, read, stdin, eof, unacked, paused, stalled, relayVars>>

\* It dies of itself, or the agent's own cap of maxMs ends it.
GitStops ==
    /\ git = "running" /\ git' = "exited" /\ code' = 1
    /\ UNCHANGED <<down, up, socket, written, read, stdin, eof, unacked, paused, stalled, relayVars>>

-----------------------------------------------------------------------------
(* The agent: GitExecs *)

\* Mutant: stdout is never paused.
FullNever(n) == FALSE

\* Are n units too many to go on sending?
Full(n) == n >= Window

\* stdout's `data`.  When git exits node resumes it once, whatever ex.paused says.
AgentOut ==
    /\ (git = "running" /\ ~paused) \/ (git = "exited" /\ ~stalled)
    /\ read < written /\ read' = read + 1
    /\ unacked' = unacked + 1 /\ paused' = (paused \/ Full(unacked + 1))
    /\ stalled' = (git = "exited" /\ ~paused /\ Full(unacked + 1))
    /\ Up([type |-> "out", unit |-> read + 1])
    /\ UNCHANGED <<down, socket, git, code, written, stdin, eof, relayVars>>

\* Mutant: the child's `exit` is taken for its `close`.
ClosedAtExit == git = "exited"

\* The child's `close`: it has exited and its stdout was read to the end.
Closed == git = "exited" /\ read = written

AgentClose ==
    /\ Closed /\ git' = "gone" /\ Up([type |-> "exit", code |-> code])
    /\ UNCHANGED <<down, socket, code, written, read, stdin, eof, unacked, paused, stalled, relayVars>>

\* git-ssh-exec: start; "missing" is a push to what is not a repository.
AgentStart ==
    /\ Head(down) = "start"
    /\ \/ git' = "running" /\ Up([type |-> "ok"])
       \/ git' = "gone" /\ Up([type |-> "refused"])
       \/ git' = "none" /\ Up([type |-> "missing"])
    /\ UNCHANGED <<code, written, read, stdin, eof, unacked, paused, stalled>>

\* git-init.
AgentInit ==
    /\ Head(down) = "init" /\ \E t \in {"inited", "refused"} : Up([type |-> t])
    /\ UNCHANGED agentVars

AgentAck ==
    /\ Head(down) = "ack" /\ git # "gone"
    /\ unacked' = unacked - 1 /\ paused' = (paused /\ 2 * unacked' >= Window)
    /\ stalled' = (stalled /\ paused')
    /\ UNCHANGED <<up, gitVars>>

AgentIn ==
    /\ Head(down) \in {"in", "eof"} /\ git = "running"
    /\ IF Head(down) = "in" THEN stdin' = stdin + 1 /\ UNCHANGED eof
       ELSE eof' = TRUE /\ UNCHANGED stdin
    /\ UNCHANGED <<up, git, code, written, read, unacked, paused, stalled>>

AgentKill ==
    /\ Head(down) = "kill" /\ git = "running" /\ git' = "exited" /\ code' = 1
    /\ UNCHANGED <<up, written, read, stdin, eof, unacked, paused, stalled>>

\* A frame for a git that has ended.
AgentLate ==
    /\ git = "gone" \/ (git = "exited" /\ Head(down) # "ack")
    /\ UNCHANGED <<up, agentVars>>

AgentFrame ==
    /\ down # <<>> /\ down' = Tail(down)
    /\ AgentStart \/ AgentInit \/ AgentAck \/ AgentIn \/ AgentKill \/ AgentLate
    /\ UNCHANGED <<socket, relayVars>>

\* The agent sees the socket closed, before the server does or after it:
\* closeAll.
AgentDisconnects ==
    /\ "agent" \in socket /\ socket' = socket \ {"agent"} /\ down' = <<>> /\ up' = <<>>
    /\ git' = IF git = "none" THEN "none" ELSE "gone"
    /\ UNCHANGED <<code, written, read, stdin, eof, unacked, paused, stalled, relayVars>>

-----------------------------------------------------------------------------
(* The server: openGitExec and relayGitExec *)

Registered == relay \in {"answered", "open"} /\ outcome = 2

\* Mutant: a frame is put on a socket that is closed.
ToAgentAlways(f) == Append(down, f)

\* sendStdin.
ToAgent(f) == IF Alive /\ outcome = 2 THEN Append(down, f) ELSE down

\* A refusal before git runs, or no answer to the RPC: exit 1.
Fails == relay' = "done" /\ status' = 1

\* The call after the answer t: git-init when the first open finds no repository,
\* and the second open.
Retries(t) ==
    \/ t = "missing" /\ relay = "opening" /\ relay' = "initing" /\ down' = ToAgent("init")
    \/ t = "inited" /\ relay' = "reopening" /\ down' = ToAgent("start")

\* A call is answered; the handle is set when the caller goes on.
RelayAnswered ==
    /\ Head(up).type \in Answer
    /\ \/ relay \notin Waiting /\ UNCHANGED <<relay, status, down>>
       \/ /\ relay \in Waiting /\ UNCHANGED status
          /\ \/ Head(up).type = "ok" /\ relay' = "answered" /\ UNCHANGED down
             \/ Retries(Head(up).type)
       \/ /\ relay \in Waiting /\ Fails /\ UNCHANGED down
          /\ Head(up).type = "refused" \/ (Head(up).type = "missing" /\ relay = "reopening")
    /\ UNCHANGED <<outcome, inFlight, held, writes>>

RelayOut ==
    /\ Head(up).type = "out"
    /\ writes' = IF Registered THEN Append(writes, Head(up).unit) ELSE writes
    /\ UNCHANGED <<relay, outcome, inFlight, held, status>>

\* The channel is read again below half the window.
RelayAck ==
    /\ Head(up).type = "inack"
    /\ inFlight' = IF Registered THEN inFlight - 1 ELSE inFlight
    /\ held' = (held /\ 2 * inFlight' >= InWindow)
    /\ UNCHANGED <<relay, outcome, writes, status>>

RelayExit ==
    /\ Head(up).type = "exit"
    /\ outcome' = IF Registered THEN Head(up).code ELSE outcome
    /\ UNCHANGED <<relay, inFlight, held, writes, status>>

\* A frame of the agent; `seq` is not looked at, so nothing tells of one dropped.
RelayFrame ==
    /\ up # <<>> /\ up' = Tail(up)
    /\ \E drop \in Dropped :
          IF drop THEN UNCHANGED <<down, relay, outcome, inFlight, held, writes, status>>
          ELSE RelayAnswered \/ ((RelayOut \/ RelayAck \/ RelayExit) /\ UNCHANGED down)
    /\ UNCHANGED <<socket, agentVars, timedOut, left, got, hungUp, lost>>

RelayOpens ==
    /\ relay = "answered" /\ relay' = "open"
    /\ UNCHANGED <<down, up, socket, agentVars, outcome, timedOut, inFlight, chanVars>>

\* sendRpc's 15 s, or 25 for git-init; git may run on, for nobody.
RpcTimesOut ==
    /\ relay \in Waiting /\ Fails
    /\ UNCHANGED <<down, up, socket, agentVars, outcome, timedOut, inFlight,
                   left, held, writes, got, hungUp, lost>>

\* The relay's cap.
RelayTimer ==
    /\ relay = "open" /\ outcome = 2 /\ ~timedOut /\ timedOut' = TRUE
    /\ down' = ToAgent("kill")
    /\ UNCHANGED <<up, socket, agentVars, relay, outcome, inFlight, chanVars>>

\* Mutant: the execs of a closed socket are forgotten.
ClosedOutcomeNone == outcome

\* What an exec is told when its socket closes.
ClosedOutcome == IF Registered THEN 1 ELSE outcome

\* The server sees the socket closed: a pending RPC fails, a live exec exits.
ServerDisconnects ==
    /\ "server" \in socket /\ socket' = socket \ {"server"} /\ down' = <<>> /\ up' = <<>>
    /\ outcome' = ClosedOutcome
    /\ IF relay \in Waiting THEN Fails ELSE UNCHANGED <<relay, status>>
    /\ UNCHANGED <<agentVars, timedOut, inFlight, left, held, writes, got, hungUp, lost>>

\* The exit status goes out when the channel has taken every byte.
RelayEnds ==
    /\ relay = "open" /\ outcome # 2 /\ writes = <<>>
    /\ relay' = "done" /\ status' = outcome
    /\ UNCHANGED <<down, up, socket, agentVars, outcome, timedOut, inFlight,
                   left, held, writes, got, hungUp, lost>>

-----------------------------------------------------------------------------
(* The SSH channel *)

\* The channel flushes a write, to a client that is there or not; the ack goes
\* through the handle, if it is set.
Flush ==
    /\ writes # <<>> /\ writes' = Tail(writes)
    /\ got' = IF hungUp THEN got ELSE got \cup {Head(writes)}
    /\ IF relay = "answered" THEN lost' = lost + 1 /\ UNCHANGED down
       ELSE down' = ToAgent("ack") /\ UNCHANGED lost
    /\ UNCHANGED <<up, socket, agentVars, relay, outcome, timedOut, inFlight,
                   left, held, status, hungUp>>

\* `data` and, at last, `end`; above the window the channel is paused.
ClientSends ==
    /\ relay = "open" /\ ~hungUp /\ ~held /\ left > 0 /\ left' = left - 1
    /\ IF left = 1 THEN down' = ToAgent("eof") /\ UNCHANGED <<inFlight, held>>
       ELSE /\ down' = ToAgent("in") /\ inFlight' = inFlight + 1
            /\ held' = (inFlight' >= InWindow)
    /\ UNCHANGED <<up, socket, agentVars, relay, outcome, timedOut,
                   writes, got, status, hungUp, lost>>

\* The client goes away: git is killed, if the handlers are there already.
HangUp ==
    /\ ~hungUp /\ hungUp' = TRUE
    /\ down' = IF relay = "open" /\ outcome = 2 THEN ToAgent("kill") ELSE down
    /\ UNCHANGED <<up, socket, agentVars, relay, outcome, timedOut, inFlight,
                   left, held, writes, got, status, lost>>

-----------------------------------------------------------------------------
GitStep     == GitWrites \/ GitReads \/ GitIsDone
AgentStep   == AgentOut \/ AgentClose \/ AgentFrame
RelayStep   == RelayFrame \/ RelayOpens \/ RelayEnds \/ Flush
Disconnects == AgentDisconnects \/ ServerDisconnects

Next ==
    \/ GitStep \/ AgentStep \/ RelayStep \/ Disconnects
    \/ GitStops \/ RpcTimesOut \/ RelayTimer \/ ClientSends \/ HangUp

Spec == Init /\ [][Next]_vars

\* The processes run, both caps fire, the end that has not yet seen the socket
\* lost will, and the channel flushes (a client reads, or goes).  Nothing is asked
\* of git or of the client.
FairSpec ==
    /\ Spec
    /\ WF_vars(AgentOut \/ AgentClose) /\ WF_vars(AgentFrame) /\ WF_vars(GitStops)
    /\ WF_vars(RelayFrame) /\ WF_vars(RelayOpens) /\ WF_vars(RelayEnds) /\ WF_vars(Flush)
    /\ WF_vars(RelayTimer) /\ WF_vars(~Alive /\ Disconnects)

-----------------------------------------------------------------------------
(* Properties *)

\* A client told 0 has every byte git wrote: none is overtaken by the exit, on
\* the device, on the socket or in the channel.
CleanExit == status = 0 /\ ~hungUp => got = 1..Out

InUp   == {i \in 1..Len(up) : up[i].type = "out"}
InDown == {i \in 1..Len(down) : down[i] = "ack"}

\* The window's account: while the session lives, what the agent counts as
\* unacknowledged is on its way to the client or acknowledged on its way back,
\* but for acks that came before there was a handle; and what is buffered between
\* git and the client is never above the window.
WindowKept ==
    /\ (Alive /\ Registered /\ git \in {"running", "exited"} =>
          unacked = Cardinality(InUp) + Len(writes) + Cardinality(InDown) + lost)
    /\ (git = "running" => unacked <= Window) /\ inFlight <= InWindow

\* It is over for the client and on the device, or half a window of acks was lost.
\* An exec that was given up when its RPC timed out may be left on the device, with
\* its output stalled after git's exit, until the socket closes.
Ended ==
    \/ relay = "done" /\ (git \in {"none", "gone"} \/ stalled)
    \/ 2 * lost >= Window

\* Every session ends, for the client and on the device: whichever end is lost,
\* whoever hangs up or waits, and though some acks came before there was a handle.
Ends == <>Ended

=============================================================================
