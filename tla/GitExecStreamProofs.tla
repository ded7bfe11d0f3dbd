------------------------- MODULE GitExecStreamProofs -------------------------
(***************************************************************************)
(* Proofs, for any amounts, window and pipe, whichever end of the socket is *)
(* lost and whoever stops: the variables keep their types, whatever frames  *)
(* are dropped; and, as long as none fails to verify, a client told exit 0  *)
(* has every byte git wrote, and the windows' accounts are kept.            *)
(***************************************************************************)
EXTENDS GitExecStream, FiniteSetTheorems, SequenceTheorems, TLAPS

NoneDropped == Dropped = {FALSE}

OutFrame(u) == [type |-> "out", unit |-> u]

\* Unit u is with the client, in the channel, or on the socket.
InChannel(u) == \E i \in 1..Len(writes) : writes[i] = u
OnSocket(u)  == \E i \in 1..Len(up) : up[i] = OutFrame(u)

-----------------------------------------------------------------------------
(* The invariant *)

Types ==
    /\ up \in Seq(UpFrame) /\ down \in Seq(Down)
    /\ writes \in Seq(1..Out) /\ got \subseteq 1..Out
    /\ written \in 0..Out /\ read \in 0..Out /\ read <= written
    /\ git \in {"none", "running", "exited", "gone"} /\ code \in {0, 1}
    /\ relay \in Waiting \cup {"answered", "open", "done"} /\ outcome \in 0..2
    /\ (~Alive => down = <<>> /\ up = <<>>)

Calls == {"start", "init"}

\* Until git is started there is one call or one answer under way at most; then
\* there is none that would start it again.
StartInv ==
    /\ \A i \in 1..Len(down) : down[i] \in Calls => git = "none"
    /\ \A i \in 1..Len(up) : up[i].type \in {"missing", "inited"} => git = "none"
    /\ git = "none" =>
          /\ read = 0 /\ writes = <<>> /\ relay \in Waiting \cup {"done"}
          /\ Len(up) + Len(down) <= 1 /\ \A i \in 1..Len(up) : up[i].type # "ok"

\* The answer to a call is the first frame, and the relay has seen nothing yet.
AnswerInv ==
    /\ \A i \in 1..Len(up) : up[i].type \in Answer => i = 1 /\ relay \in Waiting \cup {"done"}
    /\ relay \in Waiting =>
          /\ writes = <<>> /\ outcome = 2
          /\ up # <<>> => up[1].type \in Answer
    /\ relay \in Waiting /\ Alive /\ git # "none" => up # <<>>

\* The exit is the last frame, and an exit of 0 follows the last unit.
ExitInv ==
    /\ code = 0 => written = Out /\ git \in {"exited", "gone"}
    /\ \A i \in 1..Len(up) : up[i].type = "exit" =>
          i = Len(up) /\ git = "gone" /\ (up[i].code = 0 => read = Out)

\* Until the exit nothing that was read is lost on a socket that is alive; the
\* exit of 0 leaves what is missing in the channel, the status nothing.
UnitsInv ==
    ~hungUp =>
      /\ relay # "done" /\ outcome = 2 /\ Alive =>
            \A u \in 1..read : u \in got \/ InChannel(u) \/ OnSocket(u)
      /\ outcome = 0 => \A u \in 1..Out : u \in got \/ InChannel(u)
      /\ status = 0 => \A u \in 1..Out : u \in got

StreamInv == Types /\ StartInv /\ AnswerInv /\ ExitInv /\ UnitsInv

-----------------------------------------------------------------------------
(* Frames and queues *)

LEMMA Frames ==
  /\ \A u \in 1..Out : OutFrame(u) \in UpFrame /\ OutFrame(u).type = "out" /\ OutFrame(u).unit = u
  /\ \A k \in Answer \cup {"inack"} : [type |-> k] \in UpFrame /\ [type |-> k].type = k
  /\ \A x \in {0, 1} : /\ [type |-> "exit", code |-> x] \in UpFrame
                       /\ [type |-> "exit", code |-> x].type = "exit"
                       /\ [type |-> "exit", code |-> x].code = x
BY DEF UpFrame, OutFrame, Answer

LEMMA Kinds ==
  \A f \in UpFrame :
     /\ f.type = "out" => f.unit \in 1..Out /\ f = OutFrame(f.unit)
     /\ f.type = "exit" => f.code \in {0, 1}
BY DEF UpFrame, OutFrame, Answer

\* A frame that the agent sends.
LEMMA UpAppends ==
  ASSUME Types, NEW f \in UpFrame, Up(f), Alive
  PROVE  /\ up' \in Seq(UpFrame) /\ Len(up') = Len(up) + 1 /\ up'[Len(up) + 1] = f
         /\ \A i \in 1..Len(up) : up'[i] = up[i]
  BY DEF Up, Types

\* A message that the relay sends.
LEMMA DownAppends ==
  ASSUME Types, StartInv, NEW m \in {"in", "eof", "ack", "kill"}
  PROVE  /\ ToAgent(m) \in Seq(Down) /\ (~Alive => ToAgent(m) = <<>>)
         /\ \A i \in 1..Len(ToAgent(m)) : ToAgent(m)[i] \in Calls => git = "none"
<1>1. CASE Alive /\ outcome = 2
  <2>1. /\ ToAgent(m) = Append(down, m) /\ Append(down, m) \in Seq(Down)
        /\ Len(Append(down, m)) = Len(down) + 1 /\ Append(down, m)[Len(down) + 1] = m
        /\ \A i \in 1..Len(down) : Append(down, m)[i] = down[i]
    BY <1>1 DEF ToAgent, Types, Down
  <2>2. m \notin Calls
    BY DEF Calls
  <2>3. QED
    BY <1>1, <2>1, <2>2 DEF StartInv, Types
<1>2. CASE ~(Alive /\ outcome = 2)
  BY <1>2 DEF ToAgent, StartInv, Types
<1>3. QED
  BY <1>1, <1>2

LEMMA QueueTail ==
  ASSUME NEW S
  PROVE  \A q \in Seq(S) : q # <<>> =>
            /\ Head(q) = q[1] /\ q[1] \in S /\ Len(q) \in Nat
            /\ Tail(q) \in Seq(S) /\ Len(Tail(q)) = Len(q) - 1
            /\ \A i \in 1..Len(Tail(q)) : Tail(q)[i] = q[i + 1]
OBVIOUS

\* The frames that follow the one the relay takes.
LEMMA UpTail ==
  ASSUME Types, up # <<>>
  PROVE  /\ Head(up) = up[1] /\ up[1] \in UpFrame /\ Alive /\ Len(up) >= 1
         /\ Tail(up) \in Seq(UpFrame) /\ Len(Tail(up)) = Len(up) - 1
         /\ \A i \in 1..Len(Tail(up)) : Tail(up)[i] = up[i + 1]
  BY DEF Types

LEMMA DownTail ==
  ASSUME Types, StartInv, down # <<>>
  PROVE  /\ Head(down) = down[1] /\ Alive /\ Len(down) \in Nat \ {0}
         /\ Tail(down) \in Seq(Down) /\ Len(Tail(down)) = Len(down) - 1
         /\ Head(down) \in Calls => git = "none"
         /\ \A i \in 1..Len(Tail(down)) : Tail(down)[i] \in Calls => git = "none"
<1>1. /\ Head(down) = down[1] /\ Alive /\ Len(down) \in Nat \ {0}
      /\ Tail(down) \in Seq(Down)
      /\ Len(Tail(down)) = Len(down) - 1 /\ \A i \in 1..Len(Tail(down)) : Tail(down)[i] = down[i + 1]
  BY DEF Types
<1>2. \A i \in 1..Len(Tail(down)) : i + 1 \in 1..Len(down)
  BY <1>1
<1>3. QED
  BY <1>1, <1>2 DEF StartInv

-----------------------------------------------------------------------------
(* git and the agent *)

\* A step of the other direction, and of what the client does.
LEMMA Elsewhere ==
  ASSUME StreamInv,
         UNCHANGED <<up, socket, writes, got, read, written, git, code, relay, outcome, status>>,
         hungUp' \in {hungUp, TRUE}, down' \in Seq(Down),
         \A i \in 1..Len(down') : down'[i] \in Calls => git = "none",
         git = "none" => Len(down') <= Len(down),
         ~Alive => down' = <<>>
  PROVE  StreamInv'
<1>1. Types'
  BY DEF StreamInv, Types, Alive
<1>2. StartInv'
  <2>1. Len(up) \in Nat /\ Len(down) \in Nat /\ Len(down') \in Nat
    BY DEF StreamInv, Types
  <2>2. git = "none" => Len(up') + Len(down') <= 1
    BY <2>1 DEF StreamInv, StartInv
  <2>3. QED
    BY <2>2 DEF StreamInv, StartInv
<1>3. AnswerInv' /\ ExitInv'
  BY DEF StreamInv, AnswerInv, ExitInv, Alive
<1>4. UnitsInv'
  BY ZenonT(40) DEF StreamInv, UnitsInv, Alive, InChannel, OnSocket
<1>5. QED
  BY <1>1, <1>2, <1>3, <1>4 DEF StreamInv

LEMMA GitStep1 ==
  ASSUME StreamInv, GitWrites \/ GitIsDone \/ GitStops
  PROVE  StreamInv'
<1>1. UNCHANGED <<up, down, socket, writes, got, read, relay, outcome, status, hungUp>>
  BY DEF GitWrites, GitIsDone, GitStops, relayVars, chanVars
<1>2. Types' /\ git # "none" /\ git' # "none"
  BY <1>1, StreamAssumption DEF StreamInv, Types, GitWrites, GitIsDone, GitStops, Alive
<1>3. ExitInv'
  BY <1>1 DEF StreamInv, Types, ExitInv, GitWrites, GitIsDone, GitStops
<1>4. StartInv' /\ AnswerInv' /\ UnitsInv'
  BY <1>1, <1>2 DEF StreamInv, StartInv, AnswerInv, UnitsInv, Alive, InChannel, OnSocket
<1>5. QED
  BY <1>2, <1>3, <1>4 DEF StreamInv

\* A frame more, not the answer and not the exit, from a git that is there.
LEMMA SendsStep ==
  ASSUME StreamInv, git \in {"running", "exited"}, NEW f \in UpFrame, Up(f),
         f.type \in {"out", "inack"},
         UNCHANGED <<down, socket, writes, got, written, git, code, relay, outcome, status, hungUp>>,
         read' = read \/ (read' = read + 1 /\ read' <= written /\ f = OutFrame(read'))
  PROVE  StreamInv'
<1>0. read' \in 0..Out /\ read' <= written /\ written \in 0..Out
  BY StreamAssumption DEF StreamInv, Types
<1>1. CASE Alive
  <2>1. /\ up' \in Seq(UpFrame) /\ Len(up') = Len(up) + 1 /\ up'[Len(up) + 1] = f
        /\ \A i \in 1..Len(up) : up'[i] = up[i]
    BY <1>1, UpAppends DEF StreamInv
  <2>2. up' # <<>> /\ Len(up) \in Nat
    BY <2>1 DEF StreamInv, Types
  <2>3. Types'
    BY <1>0, <1>1, <2>1 DEF StreamInv, Types, Alive
  <2>4. StartInv'
    <3>1. \A i \in 1..Len(up') : i \in 1..Len(up) \/ i = Len(up) + 1
      BY <2>1, <2>2
    <3>2. \A i \in 1..Len(up') : up'[i].type \notin {"missing", "inited"}
      BY <2>1, <3>1 DEF StreamInv, StartInv
    <3>3. QED
      BY <3>2 DEF StreamInv, StartInv
  <2>5. AnswerInv'
    <3>1. up # <<>> => up'[1] = up[1]
      BY <2>1 DEF StreamInv, Types
    <3>2. relay \in Waiting => up # <<>>
      BY <1>1 DEF StreamInv, AnswerInv
    <3>3. f.type \notin Answer
      BY DEF Answer
    <3>4. QED
      BY <2>1, <2>2, <3>1, <3>2, <3>3 DEF StreamInv, AnswerInv
  <2>6. ExitInv'
    <3>1. \A i \in 1..Len(up) : up[i].type # "exit"
      BY DEF StreamInv, ExitInv
    <3>2. \A i \in 1..Len(up') : up'[i].type # "exit"
      BY <2>1, <2>2, <3>1
    <3>3. QED
      BY <3>2 DEF StreamInv, ExitInv
  <2>7. UnitsInv'
    <3>1. SUFFICES ASSUME ~hungUp, relay # "done", outcome = 2, NEW u \in 1..read'
                   PROVE  (u \in got \/ InChannel(u) \/ OnSocket(u))'
      BY <1>1 DEF StreamInv, UnitsInv, Alive, InChannel
    <3>2. CASE u \in 1..read
      <4>1. u \in got \/ InChannel(u) \/ OnSocket(u)
        BY <1>1, <3>1, <3>2 DEF StreamInv, UnitsInv
      <4>2. OnSocket(u) => OnSocket(u)'
        BY <2>1, <2>2 DEF OnSocket
      <4>3. QED
        BY <4>1, <4>2 DEF InChannel
    <3>3. CASE u \notin 1..read
      <4>1. u = read' /\ f = OutFrame(u)
        BY <3>1, <3>3 DEF StreamInv, Types
      <4>2. OnSocket(u)'
        BY <2>1, <2>2, <4>1 DEF OnSocket
      <4>3. QED
        BY <4>2
    <3>4. QED
      BY <3>2, <3>3
  <2>8. QED
    BY <2>3, <2>4, <2>5, <2>6, <2>7 DEF StreamInv
<1>2. CASE ~Alive
  <2>1. up' = up
    BY <1>2 DEF Up
  <2>2. Types'
    BY <1>0, <2>1 DEF StreamInv, Types, Alive
  <2>3. StartInv' /\ AnswerInv' /\ ExitInv'
    BY <1>2, <2>1 DEF StreamInv, StartInv, AnswerInv, ExitInv, Alive, Types
  <2>4. UnitsInv'
    BY <1>2, <2>1 DEF StreamInv, UnitsInv, Alive, InChannel
  <2>5. QED
    BY <2>2, <2>3, <2>4 DEF StreamInv
<1>3. QED
  BY <1>1, <1>2

LEMMA GitReadsStep ==
  ASSUME StreamInv, GitReads
  PROVE  StreamInv'
<1>1. PICK f \in UpFrame : f = [type |-> "inack"] /\ f.type = "inack"
  BY Frames
<1>2. QED
  BY <1>1, SendsStep DEF GitReads, relayVars, chanVars

LEMMA AgentOutStep ==
  ASSUME StreamInv, AgentOut
  PROVE  StreamInv'
<1>1. read + 1 \in 1..Out
  BY StreamAssumption DEF AgentOut, StreamInv, Types
<1>2. PICK f \in UpFrame : f = OutFrame(read + 1) /\ f.type = "out"
  BY <1>1, Frames
<1>3. Up(f)
  BY <1>2 DEF AgentOut, OutFrame
<1>4. UNCHANGED <<down, socket, writes, got, written, git, code, relay, outcome, status, hungUp>>
  BY DEF AgentOut, relayVars, chanVars
<1>5. read' = read + 1 /\ read' <= written /\ git \in {"running", "exited"}
  BY StreamAssumption DEF AgentOut, StreamInv, Types
<1>6. f = OutFrame(read')
  BY <1>2, <1>5
<1>7. QED
  BY <1>2, <1>3, <1>4, <1>5, <1>6, SendsStep

LEMMA AgentCloseStep ==
  ASSUME StreamInv, AgentClose
  PROVE  StreamInv'
<1>1. PICK f \in UpFrame : f = [type |-> "exit", code |-> code] /\ f.type = "exit" /\ f.code = code
  BY Frames DEF StreamInv, Types
<1>2. Up(f) /\ git = "exited" /\ git' = "gone" /\ read = written
  BY <1>1 DEF AgentClose, Closed
<1>3. UNCHANGED <<down, socket, writes, got, read, written, code, relay, outcome, status, hungUp>>
  BY DEF AgentClose, relayVars, chanVars
<1>4. CASE Alive
  <2>1. /\ up' \in Seq(UpFrame) /\ Len(up') = Len(up) + 1 /\ up'[Len(up) + 1] = f
        /\ \A i \in 1..Len(up) : up'[i] = up[i]
    BY <1>2, <1>4, UpAppends DEF StreamInv
  <2>2. up' # <<>> /\ Len(up) \in Nat
    BY <2>1 DEF StreamInv, Types
  <2>3. Types'
    BY <1>2, <1>3, <1>4, <2>1 DEF StreamInv, Types, Alive
  <2>4. StartInv'
    <3>1. \A i \in 1..Len(up') : i \in 1..Len(up) \/ i = Len(up) + 1
      BY <2>1, <2>2
    <3>2. \A i \in 1..Len(up') : up'[i].type \notin {"missing", "inited"}
      BY <1>1, <1>2, <2>1, <3>1 DEF StreamInv, StartInv
    <3>3. QED
      BY <1>2, <1>3, <3>2 DEF StreamInv, StartInv
  <2>5. AnswerInv'
    <3>1. up # <<>> => up'[1] = up[1]
      BY <2>1 DEF StreamInv, Types
    <3>2. relay \in Waiting => up # <<>>
      BY <1>2, <1>4 DEF StreamInv, AnswerInv
    <3>3. f.type \notin Answer
      BY <1>1 DEF Answer
    <3>4. QED
      BY <1>3, <2>1, <2>2, <3>1, <3>2, <3>3 DEF StreamInv, AnswerInv
  <2>6. ExitInv'
    <3>1. \A i \in 1..Len(up) : up[i].type # "exit"
      BY <1>2 DEF StreamInv, ExitInv
    <3>2. code = 0 => read = Out
      BY <1>2 DEF StreamInv, ExitInv
    <3>3. QED
      BY <1>1, <1>2, <1>3, <2>1, <2>2, <3>1, <3>2 DEF StreamInv, ExitInv
  <2>7. UnitsInv'
    <3>1. \A u : OnSocket(u) => OnSocket(u)'
      BY <2>1, <2>2 DEF OnSocket
    <3>2. QED
      BY <1>3, <3>1 DEF StreamInv, UnitsInv, Alive, InChannel
  <2>8. QED
    BY <2>3, <2>4, <2>5, <2>6, <2>7 DEF StreamInv
<1>5. CASE ~Alive
  <2>1. up' = up /\ up = <<>>
    BY <1>2, <1>5 DEF Up, StreamInv, Types
  <2>2. Types'
    BY <1>2, <1>3, <2>1 DEF StreamInv, Types, Alive
  <2>3. StartInv' /\ AnswerInv' /\ ExitInv'
    BY <1>2, <1>3, <1>5, <2>1 DEF StreamInv, StartInv, AnswerInv, ExitInv, Alive, Types
  <2>4. UnitsInv'
    BY <1>3, <1>5, <2>1 DEF StreamInv, UnitsInv, Alive, InChannel
  <2>5. QED
    BY <2>2, <2>3, <2>4 DEF StreamInv
<1>6. QED
  BY <1>4, <1>5

LEMMA AgentFrameStep ==
  ASSUME StreamInv, AgentFrame
  PROVE  StreamInv'
<1>1. /\ down # <<>> /\ Head(down) = down[1] /\ Alive /\ Len(down) \in Nat \ {0}
      /\ down' = Tail(down) /\ down' \in Seq(Down) /\ Len(down') = Len(down) - 1
      /\ Head(down) \in Calls => git = "none"
      /\ \A i \in 1..Len(down') : down'[i] \in Calls => git = "none"
  BY DownTail DEF StreamInv, AgentFrame
<1>2. UNCHANGED <<socket, writes, got, relay, outcome, status, hungUp>>
  BY DEF AgentFrame, relayVars, chanVars
<1>3. CASE AgentStart \/ AgentInit
  <2>1. git = "none" /\ read = 0 /\ relay \in Waiting \cup {"done"} /\ writes = <<>>
    BY <1>1, <1>3 DEF AgentStart, AgentInit, Calls, StreamInv, StartInv
  <2>2. up = <<>> /\ Len(down') = 0
    <3>1. Len(up) + Len(down) <= 1 /\ Len(up) \in Nat
      BY <2>1 DEF StreamInv, StartInv, Types
    <3>2. Len(up) = 0 /\ Len(down) = 1
      BY <1>1, <3>1
    <3>3. QED
      BY <1>1, <3>2 DEF StreamInv, Types
  <2>3. PICK f \in UpFrame :
           /\ Up(f) /\ f.type \in Answer
           /\ \/ git' = "running" /\ f.type = "ok"
              \/ git' = "gone" /\ f.type = "refused"
              \/ git' = "none" /\ f.type # "ok"
    BY <1>3, <2>1, Frames DEF AgentStart, AgentInit, Answer, agentVars, gitVars
  <2>4. Len(up') = 1 /\ up'[1] = f /\ up' # <<>> /\ up' \in Seq(UpFrame)
    BY <1>1, <2>2, <2>3, UpAppends DEF StreamInv
  <2>5. UNCHANGED <<code, written, read>> /\ git' \in {"none", "running", "gone"}
    BY <1>3, <2>3 DEF AgentStart, AgentInit, agentVars, gitVars
  <2>6. code # 0
    BY <2>1 DEF StreamInv, ExitInv
  <2>7. Types'
    BY <1>1, <1>2, <2>4, <2>5 DEF StreamInv, Types, Alive
  <2>8. StartInv'
    <3>1. \A i \in 1..Len(up') : up'[i] = f
      BY <2>4
    <3>2. \A i \in 1..Len(down') : FALSE
      BY <2>2
    <3>3. Len(up') + Len(down') <= 1
      BY <2>2, <2>4
    <3>4. QED
      BY <1>2, <2>1, <2>3, <2>5, <3>1, <3>2, <3>3 DEF StartInv
  <2>9. AnswerInv'
    <3>1. \A i \in 1..Len(up') : i = 1
      BY <2>4
    <3>2. QED
      BY <1>2, <2>1, <2>3, <2>4, <3>1 DEF StreamInv, AnswerInv
  <2>10. ExitInv'
    <3>1. \A i \in 1..Len(up') : up'[i].type # "exit"
      BY <2>3, <2>4 DEF Answer
    <3>2. QED
      BY <2>5, <2>6, <3>1 DEF ExitInv
  <2>11. UnitsInv'
    BY <1>2, <2>1, <2>5 DEF StreamInv, UnitsInv, Alive, InChannel
  <2>12. QED
    BY <2>7, <2>8, <2>9, <2>10, <2>11 DEF StreamInv
<1>4. CASE AgentKill
  <2>1. git = "running" /\ git' = "exited" /\ code' = 1 /\ UNCHANGED <<up, written, read>>
    BY <1>4 DEF AgentKill
  <2>2. Types'
    BY <1>1, <1>2, <2>1 DEF StreamInv, Types, Alive
  <2>3. StartInv' /\ AnswerInv' /\ ExitInv'
    BY <1>1, <1>2, <2>1 DEF StreamInv, StartInv, AnswerInv, ExitInv, Alive
  <2>4. UnitsInv'
    BY <1>2, <2>1 DEF StreamInv, UnitsInv, Alive, InChannel, OnSocket
  <2>5. QED
    BY <2>2, <2>3, <2>4 DEF StreamInv
<1>5. CASE AgentAck \/ AgentIn \/ AgentLate
  <2>1. UNCHANGED <<up, git, code, written, read>>
    BY <1>5 DEF AgentAck, AgentIn, AgentLate, agentVars, gitVars
  <2>2. Len(down') <= Len(down)
    BY <1>1
  <2>3. QED
    BY <1>1, <1>2, <2>1, <2>2, Elsewhere
<1>6. QED
  BY <1>3, <1>4, <1>5 DEF AgentFrame

LEMMA AgentDisconnectsStep ==
  ASSUME StreamInv, AgentDisconnects
  PROVE  StreamInv'
<1>1. /\ ~Alive' /\ up' = <<>> /\ down' = <<>> /\ git' = IF git = "none" THEN "none" ELSE "gone"
      /\ UNCHANGED <<code, written, read, writes, got, relay, outcome, status, hungUp>>
  BY DEF AgentDisconnects, Alive, relayVars, chanVars
<1>2. Types' /\ StartInv' /\ AnswerInv'
  BY <1>1 DEF StreamInv, Types, StartInv, AnswerInv
<1>3. ExitInv' /\ UnitsInv'
  BY <1>1 DEF StreamInv, Types, ExitInv, UnitsInv, InChannel
<1>4. QED
  BY <1>2, <1>3 DEF StreamInv

-----------------------------------------------------------------------------
(* The relay *)

\* The frame the relay takes leaves the socket.
LEMMA TakesFrame ==
  ASSUME StreamInv, up # <<>>, up' = Tail(up)
  PROVE  /\ Alive /\ up[1] \in UpFrame /\ Head(up) = up[1]
         /\ up' \in Seq(UpFrame) /\ Len(up') = Len(up) - 1 /\ Len(up) \in Nat
         /\ \A i \in 1..Len(up') : up'[i] = up[i + 1] /\ up'[i].type \notin Answer
         /\ \A u : OnSocket(u) => up[1] = OutFrame(u) \/ OnSocket(u)'
<1>1. /\ Head(up) = up[1] /\ up[1] \in UpFrame /\ Alive /\ Len(up) >= 1
      /\ up' \in Seq(UpFrame) /\ Len(up') = Len(up) - 1 /\ Len(up) \in Nat
      /\ \A i \in 1..Len(up') : up'[i] = up[i + 1]
  BY UpTail DEF StreamInv, Types
<1>2. \A i \in 1..Len(up') : up'[i].type \notin Answer
  <2>1. TAKE i \in 1..Len(up')
  <2>2. i + 1 \in 1..Len(up) /\ i + 1 # 1 /\ up'[i] = up[i + 1]
    BY <1>1
  <2>3. QED
    BY <2>2 DEF StreamInv, AnswerInv
<1>3. ASSUME NEW u, OnSocket(u) PROVE up[1] = OutFrame(u) \/ OnSocket(u)'
  <2>1. PICK i \in 1..Len(up) : up[i] = OutFrame(u)
    BY <1>3 DEF OnSocket
  <2>2. CASE i = 1
    BY <2>1, <2>2
  <2>3. CASE i # 1
    <3>1. i - 1 \in 1..Len(up') /\ up'[i - 1] = up[(i - 1) + 1] /\ (i - 1) + 1 = i
      BY <1>1, <2>3
    <3>2. QED
      BY <2>1, <3>1 DEF OnSocket
  <2>4. QED
    BY <2>2, <2>3
<1>4. QED
  BY <1>1, <1>2, <1>3

\* What is left behind the frame keeps its place.
LEMMA RestOfFrames ==
  ASSUME StreamInv, up # <<>>, up' = Tail(up), UNCHANGED <<git, code, written, read>>
  PROVE  ExitInv'
<1>1. /\ Len(up') = Len(up) - 1 /\ Len(up) \in Nat
      /\ \A i \in 1..Len(up') : up'[i] = up[i + 1]
  BY TakesFrame
<1>2. \A i \in 1..Len(up') : up'[i].type = "exit" =>
          i = Len(up') /\ git = "gone" /\ (up'[i].code = 0 => read = Out)
  <2>1. TAKE i \in 1..Len(up')
  <2>2. i + 1 \in 1..Len(up) /\ up'[i] = up[i + 1]
    BY <1>1
  <2>3. up[i + 1].type = "exit" => i + 1 = Len(up) /\ git = "gone" /\ (up[i + 1].code = 0 => read = Out)
    BY <2>2, SMTT(30) DEF StreamInv, ExitInv
  <2>4. ASSUME i + 1 = Len(up) PROVE i = Len(up')
    <3>1. (i + 1) - 1 = i
      OBVIOUS
    <3>2. QED
      BY <1>1, <2>4, <3>1, Zenon
  <2>5. QED
    BY <2>2, <2>3, <2>4
<1>3. QED
  BY <1>2 DEF StreamInv, ExitInv

\* The relay asks once more: it is the only call under way.
LEMMA RetriesStep ==
  ASSUME StreamInv, up # <<>>, up' = Tail(up), UNCHANGED <<git, read, writes, outcome>>,
         relay \in Waiting, Retries(Head(up).type)
  PROVE  StartInv' /\ AnswerInv' /\ down' \in Seq(Down)
<1>1. /\ Alive /\ Head(up) = up[1] /\ Len(up') = Len(up) - 1 /\ Len(up) \in Nat \ {0}
  BY TakesFrame, UpTail DEF StreamInv
<1>2. up[1].type \in {"missing", "inited"} /\ relay' \in Waiting
  BY <1>1 DEF Retries, Waiting
<1>3. git = "none" /\ outcome = 2 /\ writes = <<>> /\ read = 0 /\ Len(up) + Len(down) <= 1
  BY <1>1, <1>2 DEF StreamInv, StartInv, AnswerInv
<1>4. Len(down) = 0 /\ Len(up') = 0 /\ down = <<>>
  <2>1. Len(down) \in Nat
    BY DEF StreamInv, Types
  <2>2. Len(down) = 0 /\ Len(up') = 0
    BY <1>1, <1>3, <2>1
  <2>3. QED
    BY <2>2 DEF StreamInv, Types
<1>5. PICK m \in Calls : down' = Append(down, m)
  BY <1>1, <1>3 DEF Retries, ToAgent, Calls
<1>6. down' \in Seq(Down) /\ Len(down') = 1
  BY <1>4, <1>5 DEF Calls, Down
<1>7. up' = <<>>
  BY <1>1, <1>4, TakesFrame
<1>8. Len(up') + Len(down') <= 1
  BY <1>4, <1>6
<1>9. StartInv'
  BY <1>2, <1>3, <1>7, <1>8 DEF StartInv
<1>10. QED
  BY <1>2, <1>3, <1>6, <1>7, <1>9 DEF AnswerInv

LEMMA RelayFrameStep ==
  ASSUME NoneDropped, StreamInv, RelayFrame
  PROVE  StreamInv'
<1>1. /\ up # <<>> /\ up' = Tail(up)
      /\ UNCHANGED <<socket, git, code, written, read, got, hungUp>>
  BY DEF RelayFrame, agentVars, gitVars
<1>2. RelayAnswered \/ ((RelayOut \/ RelayAck \/ RelayExit) /\ UNCHANGED down)
  BY DEF RelayFrame, NoneDropped
<1>3. /\ Alive /\ up[1] \in UpFrame /\ Head(up) = up[1]
      /\ up' \in Seq(UpFrame)
      /\ \A u : OnSocket(u) => up[1] = OutFrame(u) \/ OnSocket(u)'
  BY <1>1, TakesFrame
<1>4. relay \in Waiting => RelayAnswered
  <2>1. relay \in Waiting => up[1].type \in Answer
    BY <1>1 DEF StreamInv, AnswerInv
  <2>2. QED
    BY <1>2, <1>3, <2>1 DEF RelayOut, RelayAck, RelayExit, Answer
<1>5. StartInv' /\ AnswerInv' /\ down' \in Seq(Down)
  <2>1. CASE RelayAnswered /\ relay \in Waiting /\ Retries(Head(up).type)
    BY <1>1, <2>1, RetriesStep DEF RelayAnswered
  <2>2. CASE ~(RelayAnswered /\ relay \in Waiting /\ Retries(Head(up).type))
    <3>1. relay' \notin Waiting /\ down' = down
      BY <1>2, <1>4, <2>2 DEF RelayAnswered, RelayOut, RelayAck, RelayExit, Fails, Waiting
    <3>2. /\ Len(up') = Len(up) - 1 /\ Len(up) \in Nat
          /\ \A i \in 1..Len(up') : i + 1 \in 1..Len(up) /\ up'[i] = up[i + 1] /\ up'[i].type \notin Answer
      BY <1>1, TakesFrame
    <3>3. git = "none" => writes' = <<>> /\ relay' \in Waiting \cup {"done"}
      <4>1. SUFFICES ASSUME git = "none" PROVE writes' = <<>> /\ relay' \in Waiting \cup {"done"}
        OBVIOUS
      <4>2. writes = <<>> /\ relay \in Waiting \cup {"done"} /\ up[1].type # "ok"
        BY <1>1, <4>1 DEF StreamInv, StartInv, Types
      <4>3. ~Registered
        BY <4>2 DEF Registered, Waiting
      <4>4. writes' = <<>>
        BY <1>2, <4>2, <4>3 DEF RelayAnswered, RelayOut, RelayAck, RelayExit
      <4>5. relay' \in Waiting \cup {"done"}
        BY <1>2, <1>3, <2>2, <4>2 DEF RelayAnswered, RelayOut, RelayAck, RelayExit, Fails
      <4>6. QED
        BY <4>4, <4>5
    <3>4. Len(down) \in Nat
      BY DEF StreamInv, Types
    <3>5. git = "none" => Len(up') + Len(down') <= 1
      BY <3>1, <3>2, <3>4 DEF StreamInv, StartInv
    <3>6. \A i \in 1..Len(up') : up'[i].type \notin {"ok", "missing", "inited"}
      BY <3>2 DEF Answer
    <3>7. StartInv'
      BY <1>1, <3>1, <3>3, <3>5, <3>6 DEF StreamInv, StartInv
    <3>8. QED
      BY <3>1, <3>2, <3>7 DEF AnswerInv, StreamInv, Types
  <2>3. QED
    BY <2>1, <2>2
<1>6. ExitInv'
  BY <1>1, RestOfFrames
<1>7. CASE RelayAnswered
  <2>1. up[1].type # "out" /\ UNCHANGED <<outcome, writes>>
    BY <1>3, <1>7 DEF RelayAnswered, Answer
  <2>2. /\ relay' \in Waiting \cup {"answered", "open", "done"} /\ (relay' # "done" => relay # "done")
        /\ status' \in {status, 1}
    BY <1>7 DEF RelayAnswered, Retries, Waiting, Fails, StreamInv, Types
  <2>3. Types'
    BY <1>1, <1>3, <1>5, <2>1, <2>2 DEF StreamInv, Types, Alive
  <2>4. \A u : OnSocket(u) /\ u \in 1..Out => OnSocket(u)'
    BY <1>3, <2>1, Frames
  <2>5. UnitsInv'
    <3>1. \A u \in 1..read : u \in 1..Out
      BY StreamAssumption DEF StreamInv, Types
    <3>2. ASSUME ~hungUp, relay' # "done", outcome = 2, Alive, NEW u \in 1..read
          PROVE  u \in got \/ InChannel(u) \/ OnSocket(u)'
      BY <2>2, <2>4, <3>1, <3>2 DEF StreamInv, UnitsInv
    <3>3. \A u : InChannel(u)' <=> InChannel(u)
      BY <2>1 DEF InChannel
    <3>4. QED
      BY <1>1, <2>1, <2>2, <3>2, <3>3 DEF StreamInv, UnitsInv, Alive
  <2>6. QED
    BY <1>5, <1>6, <2>3, <2>5 DEF StreamInv
<1>8. CASE RelayOut
  <2>1. up[1].type = "out" /\ UNCHANGED <<relay, outcome, status>>
    BY <1>3, <1>8 DEF RelayOut
  <2>2. PICK v \in 1..Out : up[1] = OutFrame(v) /\ up[1].unit = v
    BY <1>3, <2>1, Kinds
  <2>3. writes' = IF Registered THEN Append(writes, v) ELSE writes
    BY <1>3, <1>8, <2>2 DEF RelayOut
  <2>4. /\ writes' \in Seq(1..Out)
        /\ \A u : InChannel(u) => InChannel(u)'
        /\ Registered => InChannel(v)'
    <3>1. writes \in Seq(1..Out)
      BY DEF StreamInv, Types
    <3>2. CASE Registered
      <4>1. /\ writes' \in Seq(1..Out) /\ Len(writes') = Len(writes) + 1 /\ Len(writes) \in Nat
            /\ writes'[Len(writes) + 1] = v /\ \A i \in 1..Len(writes) : writes'[i] = writes[i]
        BY <2>3, <3>1, <3>2
      <4>2. QED
        BY <4>1 DEF InChannel
    <3>3. CASE ~Registered
      BY <2>3, <3>1, <3>3 DEF InChannel
    <3>4. QED
      BY <3>2, <3>3
  <2>5. Types'
    BY <1>1, <1>3, <1>5, <2>1, <2>4 DEF StreamInv, Types, Alive
  <2>6. UnitsInv'
    <3>1. \A u \in 1..Out : OutFrame(v) = OutFrame(u) => u = v
      BY Frames
    <3>2. ASSUME ~hungUp, relay # "done", outcome = 2, Alive, NEW u \in 1..read
          PROVE  u \in got \/ InChannel(u)' \/ OnSocket(u)'
      <4>1. Registered
        BY <1>4, <2>1, <1>3, <3>2 DEF Registered, StreamInv, Types, RelayAnswered, Answer
      <4>2. u \in got \/ InChannel(u) \/ OnSocket(u)
        BY <3>2 DEF StreamInv, UnitsInv
      <4>3. u \in 1..Out
        BY StreamAssumption DEF StreamInv, Types
      <4>4. OnSocket(u) => u = v \/ OnSocket(u)'
        BY <1>3, <2>2, <3>1, <4>3
      <4>5. QED
        BY <2>4, <4>1, <4>2, <4>4
    <3>3. QED
      BY <1>1, <2>1, <2>4, <3>2 DEF StreamInv, UnitsInv, Alive
  <2>7. QED
    BY <1>5, <1>6, <2>5, <2>6 DEF StreamInv
<1>9. CASE RelayAck
  <2>1. up[1].type # "out" /\ UNCHANGED <<relay, outcome, writes, status>>
    BY <1>3, <1>9 DEF RelayAck
  <2>2. Types'
    BY <1>1, <1>3, <1>5, <2>1 DEF StreamInv, Types, Alive
  <2>3. \A u \in 1..read : OnSocket(u) => OnSocket(u)'
    <3>1. \A u \in 1..read : u \in 1..Out
      BY StreamAssumption DEF StreamInv, Types
    <3>2. QED
      BY <1>3, <2>1, <3>1, Frames
  <2>4. \A u : InChannel(u)' <=> InChannel(u)
    BY <2>1 DEF InChannel
  <2>5. UnitsInv'
    BY <1>1, <2>1, <2>3, <2>4 DEF StreamInv, UnitsInv, Alive
  <2>6. QED
    BY <1>5, <1>6, <2>2, <2>5 DEF StreamInv
<1>10. CASE RelayExit
  <2>1. /\ up[1].type = "exit" /\ UNCHANGED <<relay, writes, status>>
        /\ outcome' = IF Registered THEN up[1].code ELSE outcome
    BY <1>3, <1>10 DEF RelayExit
  <2>2. /\ 1 \in 1..Len(up) /\ Len(up) = 1 /\ (up[1].code = 0 => read = Out) /\ up[1].code \in {0, 1}
    <3>1. 1 \in 1..Len(up)
      BY <1>1 DEF StreamInv, Types
    <3>2. QED
      BY <1>3, <2>1, <3>1, Kinds DEF StreamInv, ExitInv
  <2>3. Types'
    BY <1>1, <1>3, <1>5, <2>1, <2>2 DEF StreamInv, Types, Alive
  <2>4. \A u \in 1..Out : ~OnSocket(u)
    BY <2>1, <2>2, Frames DEF OnSocket
  <2>5. \A u : InChannel(u)' <=> InChannel(u)
    BY <2>1 DEF InChannel
  <2>6. UnitsInv'
    <3>1. CASE Registered
      <4>1. outcome' # 2 /\ relay # "done" /\ outcome = 2
        BY <2>1, <2>2, <3>1 DEF Registered
      <4>2. ASSUME ~hungUp, outcome' = 0, NEW u \in 1..Out PROVE u \in got \/ InChannel(u)
        <5>1. read = Out
          BY <2>1, <2>2, <3>1, <4>2
        <5>2. u \in got \/ InChannel(u) \/ OnSocket(u)
          BY <1>3, <4>1, <4>2, <5>1 DEF StreamInv, UnitsInv
        <5>3. QED
          BY <2>4, <5>2
      <4>3. QED
        BY <1>1, <2>1, <2>5, <4>1, <4>2 DEF StreamInv, UnitsInv
    <3>2. CASE ~Registered
      <4>1. outcome' = outcome /\ (relay = "done" \/ outcome # 2)
        BY <1>4, <1>3, <2>1, <3>2 DEF Registered, StreamInv, Types, RelayAnswered, Answer
      <4>2. QED
        BY <1>1, <2>1, <2>5, <4>1 DEF StreamInv, UnitsInv
    <3>3. QED
      BY <3>1, <3>2
  <2>7. QED
    BY <1>5, <1>6, <2>3, <2>6 DEF StreamInv
<1>11. QED
  BY <1>2, <1>7, <1>8, <1>9, <1>10

\* The relay's state moves on, the units stay where they are.
LEMMA RelayMoves ==
  ASSUME StreamInv, UNCHANGED <<up, down, socket, git, code, written, read, writes, got, hungUp, outcome>>,
         relay' \in {"open", "done"}, relay' = "open" => relay = "answered",
         relay = "answered" \/ relay' = "done",
         status' = status \/ status' = 1 \/ (status' = outcome /\ writes = <<>>)
  PROVE  StreamInv'
<1>1. Types' /\ StartInv' /\ ExitInv'
  BY DEF StreamInv, Types, StartInv, ExitInv, Alive, Waiting
<1>2. AnswerInv'
  BY DEF StreamInv, AnswerInv, Waiting
<1>3. \A u : (InChannel(u)' <=> InChannel(u)) /\ (OnSocket(u)' <=> OnSocket(u))
  BY DEF InChannel, OnSocket
<1>4. writes = <<>> => \A u : ~InChannel(u)
  BY DEF InChannel
<1>5. UnitsInv'
  BY <1>3, <1>4 DEF StreamInv, UnitsInv, Alive
<1>6. QED
  BY <1>1, <1>2, <1>5 DEF StreamInv

LEMMA RelayMovesStep ==
  ASSUME StreamInv, RelayOpens \/ RpcTimesOut \/ RelayEnds
  PROVE  StreamInv'
BY RelayMoves DEF RelayOpens, RpcTimesOut, RelayEnds, Fails, agentVars, gitVars, chanVars

LEMMA ServerDisconnectsStep ==
  ASSUME StreamInv, ServerDisconnects
  PROVE  StreamInv'
<1>1. /\ ~Alive' /\ up' = <<>> /\ down' = <<>>
      /\ UNCHANGED <<git, code, written, read, writes, got, hungUp>>
      /\ outcome' = IF Registered THEN 1 ELSE outcome
  BY DEF ServerDisconnects, Alive, ClosedOutcome, agentVars, gitVars
<1>2. IF relay \in Waiting THEN relay' = "done" /\ status' = 1 ELSE UNCHANGED <<relay, status>>
  BY DEF ServerDisconnects, Fails
<1>3. Types' /\ StartInv' /\ AnswerInv'
  BY <1>1, <1>2 DEF StreamInv, Types, StartInv, AnswerInv, Waiting
<1>4. \A u : InChannel(u)' <=> InChannel(u)
  BY <1>1 DEF InChannel
<1>5. ExitInv' /\ UnitsInv'
  BY <1>1, <1>2, <1>4 DEF StreamInv, Types, ExitInv, UnitsInv
<1>6. QED
  BY <1>3, <1>5 DEF StreamInv

-----------------------------------------------------------------------------
(* The channel *)

LEMMA FlushStep ==
  ASSUME StreamInv, Flush
  PROVE  StreamInv'
<1>1. /\ writes # <<>> /\ writes' = Tail(writes) /\ got' = IF hungUp THEN got ELSE got \cup {Head(writes)}
      /\ UNCHANGED <<up, socket, git, code, written, read, relay, outcome, status, hungUp>>
  BY DEF Flush, agentVars, gitVars
<1>2. /\ Head(writes) = writes[1] /\ writes[1] \in 1..Out /\ Len(writes) \in Nat
      /\ writes' \in Seq(1..Out) /\ Len(writes') = Len(writes) - 1
      /\ \A i \in 1..Len(writes') : writes'[i] = writes[i + 1]
  <2>1. writes \in Seq(1..Out) /\ writes # <<>>
    BY <1>1 DEF StreamInv, Types
  <2>2. QED
    BY <1>1, <2>1, QueueTail
<1>3. /\ down' \in Seq(Down) /\ (~Alive => down' = <<>>)
      /\ \A i \in 1..Len(down') : down'[i] \in Calls => git = "none"
  <2>1. down' = down \/ down' = ToAgent("ack")
    BY DEF Flush
  <2>2. CASE down' = down
    BY <2>2 DEF StreamInv, Types, StartInv
  <2>3. CASE down' = ToAgent("ack")
    BY <2>3, DownAppends DEF StreamInv
  <2>4. QED
    BY <2>1, <2>2, <2>3
<1>4. ASSUME NEW u, ~hungUp, InChannel(u) PROVE u \in got' \/ InChannel(u)'
  <2>1. PICK i \in 1..Len(writes) : writes[i] = u
    BY <1>4 DEF InChannel
  <2>2. CASE i = 1
    BY <1>1, <1>2, <1>4, <2>1, <2>2
  <2>3. CASE i # 1
    <3>1. i - 1 \in 1..Len(writes') /\ writes'[i - 1] = writes[(i - 1) + 1] /\ (i - 1) + 1 = i
      BY <1>2, <2>3
    <3>2. QED
      BY <2>1, <3>1 DEF InChannel
  <2>4. QED
    BY <2>2, <2>3
<1>5. got \subseteq got' /\ got' \subseteq 1..Out
  BY <1>1, <1>2 DEF StreamInv, Types
<1>6. Types'
  BY <1>1, <1>2, <1>3, <1>5 DEF StreamInv, Types, Alive
<1>7. StartInv' /\ AnswerInv' /\ ExitInv'
  <2>1. git # "none"
    BY <1>1 DEF StreamInv, StartInv
  <2>2. QED
    BY <1>1, <1>3, <2>1 DEF StreamInv, StartInv, AnswerInv, ExitInv, Alive
<1>8. UnitsInv'
  <2>1. \A u : OnSocket(u)' <=> OnSocket(u)
    BY <1>1 DEF OnSocket
  <2>2. QED
    BY <1>1, <1>4, <1>5, <2>1 DEF StreamInv, UnitsInv, Alive
<1>9. QED
  BY <1>6, <1>7, <1>8 DEF StreamInv

LEMMA ClientStep ==
  ASSUME StreamInv, RelayTimer \/ ClientSends \/ HangUp
  PROVE  StreamInv'
<1>1. /\ down' \in {down, ToAgent("kill"), ToAgent("in"), ToAgent("eof")} /\ hungUp' \in {hungUp, TRUE}
      /\ UNCHANGED <<up, socket, writes, got, read, written, git, code, relay, outcome, status>>
  BY DEF RelayTimer, ClientSends, HangUp, agentVars, gitVars, chanVars
<1>2. /\ down' \in Seq(Down) /\ (~Alive => down' = <<>>)
      /\ \A i \in 1..Len(down') : down'[i] \in Calls => git = "none"
  <2>1. CASE down' = down
    BY <2>1 DEF StreamInv, Types, StartInv
  <2>2. CASE down' = ToAgent("kill")
    BY <2>2, DownAppends DEF StreamInv
  <2>3. CASE down' = ToAgent("in")
    BY <2>3, DownAppends DEF StreamInv
  <2>4. CASE down' = ToAgent("eof")
    BY <2>4, DownAppends DEF StreamInv
  <2>5. QED
    BY <1>1, <2>1, <2>2, <2>3, <2>4
<1>3. git = "none" => Len(down') <= Len(down)
  <2>1. down' = down \/ relay = "open"
    BY DEF RelayTimer, ClientSends, HangUp
  <2>2. git = "none" => down' = down
    BY <2>1 DEF StreamInv, StartInv, Waiting
  <2>3. QED
    BY <2>2 DEF StreamInv, Types
<1>4. QED
  BY <1>1, <1>2, <1>3, Elsewhere

-----------------------------------------------------------------------------
(* The theorem *)

LEMMA StreamInit ==
  ASSUME Init
  PROVE  StreamInv
<1>1. down \in Seq(Down) /\ Len(down) = 1 /\ Len(up) = 0
  BY DEF Init, Down
<1>2. Types
  BY <1>1, StreamAssumption DEF Init, Types, Alive, Waiting
<1>3. StartInv /\ AnswerInv /\ ExitInv
  BY <1>1 DEF Init, StartInv, AnswerInv, ExitInv, Waiting
<1>4. UnitsInv
  BY DEF Init, UnitsInv
<1>5. QED
  BY <1>2, <1>3, <1>4 DEF StreamInv

LEMMA StreamStep ==
  ASSUME NoneDropped, StreamInv, [Next]_vars
  PROVE  StreamInv'
<1>1. CASE UNCHANGED vars
  <2>1. UNCHANGED <<up, socket, writes, got, read, written, git, code, relay, outcome, status, down, hungUp>>
    BY <1>1 DEF vars, agentVars, gitVars, relayVars, chanVars
  <2>2. QED
    BY <2>1, Elsewhere DEF StreamInv, Types, StartInv
<1>2. CASE GitStep \/ AgentStep \/ GitStops
  BY <1>2, GitStep1, GitReadsStep, AgentOutStep, AgentCloseStep, AgentFrameStep DEF GitStep, AgentStep
<1>3. CASE RelayStep \/ RpcTimesOut
  BY <1>3, RelayFrameStep, RelayMovesStep, FlushStep DEF RelayStep
<1>4. CASE Disconnects \/ RelayTimer \/ ClientSends \/ HangUp
  BY <1>4, AgentDisconnectsStep, ServerDisconnectsStep, ClientStep DEF Disconnects
<1>5. QED
  BY <1>1, <1>2, <1>3, <1>4 DEF Next

\* The pipeline from git to the client loses nothing before the exit of 0.
THEOREM StreamInvariance ==
  ASSUME NoneDropped
  PROVE  Spec => []StreamInv
<1>1. Init => StreamInv
  BY StreamInit
<1>2. StreamInv /\ [Next]_vars => StreamInv'
  BY StreamStep
<1>3. QED
  BY <1>1, <1>2, PTL DEF Spec

\* A client told 0 has every byte git wrote.
THEOREM CleanExitHolds ==
  ASSUME NoneDropped
  PROVE  Spec => []CleanExit
<1>1. StreamInv => CleanExit
  BY DEF StreamInv, Types, UnitsInv, CleanExit
<1>2. QED
  BY <1>1, StreamInvariance, PTL

-----------------------------------------------------------------------------
(* Counting the frames of a queue *)

\* The places of a queue that hold one of K.
Places(q, K) == {i \in 1..Len(q) : q[i] \in K}
Count(q, K)  == Cardinality(Places(q, K))

LEMMA CountFacts ==
  ASSUME NEW S, NEW K
  PROVE  \A q \in Seq(S) : /\ Count(q, K) \in Nat /\ IsFiniteSet(Places(q, K))
                           /\ (\A i \in 1..Len(q) : q[i] \notin K) => Count(q, K) = 0
<1> SUFFICES ASSUME NEW q \in Seq(S)
             PROVE  /\ Count(q, K) \in Nat /\ IsFiniteSet(Places(q, K))
                    /\ (\A i \in 1..Len(q) : q[i] \notin K) => Count(q, K) = 0
  OBVIOUS
<1>1. IsFiniteSet(1..Len(q)) /\ Places(q, K) \in SUBSET (1..Len(q))
  BY FS_Interval DEF Places
<1>2. IsFiniteSet(Places(q, K))
  BY <1>1, FS_Subset
<1>3. (\A i \in 1..Len(q) : q[i] \notin K) => Places(q, K) = {}
  BY DEF Places
<1> QED
  BY <1>2, <1>3, FS_CardinalityType, FS_EmptySet DEF Count

LEMMA CountAppend ==
  ASSUME NEW S, NEW K
  PROVE  \A q \in Seq(S), e \in S :
            Count(Append(q, e), K) = IF e \in K THEN Count(q, K) + 1 ELSE Count(q, K)
<1> SUFFICES ASSUME NEW q \in Seq(S), NEW e \in S
             PROVE  Count(Append(q, e), K) = IF e \in K THEN Count(q, K) + 1 ELSE Count(q, K)
  OBVIOUS
<1>1. PICK a : a = Append(q, e)
  OBVIOUS
<1>2. /\ Len(a) = Len(q) + 1 /\ a[Len(q) + 1] = e /\ Len(q) \in Nat
      /\ \A i \in 1..Len(q) : a[i] = q[i]
  BY <1>1
<1>3. Places(a, K) = IF e \in K THEN Places(q, K) \cup {Len(q) + 1} ELSE Places(q, K)
  <2>1. \A i \in 1..Len(a) : i \in 1..Len(q) \/ i = Len(q) + 1
    BY <1>2
  <2>2. 1..Len(q) \subseteq 1..Len(a) /\ Len(q) + 1 \in 1..Len(a)
    BY <1>2
  <2> QED
    BY <1>2, <2>1, <2>2 DEF Places
<1>4. Len(q) + 1 \notin Places(q, K)
  BY <1>2 DEF Places
<1> QED
  BY <1>1, <1>3, <1>4, CountFacts, FS_AddElement DEF Count

LEMMA CountTail ==
  ASSUME NEW S, NEW K
  PROVE  \A q \in Seq(S) : q # <<>> =>
            Count(Tail(q), K) = IF Head(q) \in K THEN Count(q, K) - 1 ELSE Count(q, K)
<1> SUFFICES ASSUME NEW q \in Seq(S), q # <<>>
             PROVE  Count(Tail(q), K) = IF Head(q) \in K THEN Count(q, K) - 1 ELSE Count(q, K)
  OBVIOUS
<1>1. PICK r : r = Tail(q)
  OBVIOUS
<1>2. /\ r \in Seq(S) /\ Len(r) = Len(q) - 1 /\ Len(q) \in Nat /\ Len(q) >= 1 /\ Head(q) = q[1]
      /\ \A i \in 1..Len(r) : r[i] = q[i + 1]
  BY <1>1
<1> DEFINE J == Places(r, K)
           I == Places(q, K) \ {1}
           next == [i \in J |-> i + 1]
<1>3. \A i \in J : i \in Nat /\ i + 1 \in I
  BY <1>2 DEF Places
<1>4. \A k \in I : k - 1 \in J /\ (k - 1) + 1 = k
  <2>1. TAKE k \in I
  <2>2. k \in 1..Len(q) /\ k # 1 /\ q[k] \in K
    BY DEF Places
  <2>3. k - 1 \in 1..Len(r) /\ (k - 1) + 1 = k
    BY <1>2, <2>2
  <2>4. r[k - 1] = q[k]
    BY <1>2, <2>3
  <2> QED
    BY <2>2, <2>3, <2>4 DEF Places
<1>5. next \in [J -> I]
  BY <1>3
<1>6. \A i, k \in J : next[i] = next[k] => i = k
  BY <1>3
<1>7. \A k \in I : \E i \in J : next[i] = k
  BY <1>4
<1>8. next \in Bijection(J, I)
  BY <1>5, <1>6, <1>7 DEF Bijection, Injection, Surjection, IsInjective
<1>9. IsFiniteSet(J) /\ Count(r, K) \in Nat /\ IsFiniteSet(Places(q, K)) /\ Count(q, K) \in Nat
  BY <1>2, CountFacts
<1>10. Cardinality(I) = Count(r, K)
  <2> HIDE DEF next, I, J
  <2>1. ExistsBijection(J, I)
    BY <1>8 DEF ExistsBijection
  <2>2. Cardinality(I) = Cardinality(J)
    BY <1>9, <2>1, FS_Bijection
  <2> QED
    BY <2>2 DEF Count, J
<1>11. 1 \in Places(q, K) <=> Head(q) \in K
  BY <1>2 DEF Places
<1>12. Cardinality(I) = IF 1 \in Places(q, K) THEN Count(q, K) - 1 ELSE Count(q, K)
  BY <1>9, FS_RemoveElement DEF Count
<1> QED
  BY <1>1, <1>9, <1>10, <1>11, <1>12

-----------------------------------------------------------------------------
(* The windows' accounts, with any frames dropped *)

OfType(k) == {f \in UpFrame : f.type = k}

Outs   == Count(up, OfType("out"))      \* units on their way to the server
Inacks == Count(up, OfType("inack"))
Acks   == Count(down, {"ack"})
Ins    == Count(down, {"in"})           \* units on their way to git

\* What is sent and not acknowledged is at least what is under way.
SumOut  == Outs + Len(writes) + Acks + lost <= unacked /\ unacked <= read
SumIn   == Ins + stdin + Inacks <= inFlight
SumLeft == inFlight <= In /\ (left > 0 => inFlight + left <= In + 1)

Sums == SumOut /\ SumIn /\ SumLeft

\* At the window a sender is paused.
BoundOut == git \in {"none", "running"} => unacked <= Window /\ (paused \/ unacked < Window)
BoundIn  == inFlight <= InWindow /\ (held \/ inFlight < InWindow)

Bounds == BoundOut /\ BoundIn

Account == TypeOK /\ StartInv /\ Sums /\ Bounds

Queues == up \in Seq(UpFrame) /\ down \in Seq(Down)

LEMMA BelowWindow ==
  /\ \A n, w \in Nat : ~(2 * n >= w) => n < w
  /\ \A n, w \in Nat : ~(n >= w) => n < w
OBVIOUS

LEMMA OldSums ==
  Account => /\ Outs + Len(writes) + Acks + lost <= unacked /\ unacked <= read
             /\ Ins + stdin + Inacks <= inFlight
             /\ inFlight <= In /\ (left > 0 => inFlight + left <= In + 1)
BY DEF Account, Sums, SumOut, SumIn, SumLeft

LEMMA AccountQueues == TypeOK => Queues /\ Len(writes) \in Nat
BY DEF TypeOK, Queues

LEMMA CountsNat ==
  /\ up \in Seq(UpFrame) => Outs \in Nat /\ Inacks \in Nat
  /\ down \in Seq(Down) => Acks \in Nat /\ Ins \in Nat
BY CountFacts DEF Outs, Inacks, Acks, Ins

LEMMA NoCounts ==
  /\ up' = <<>> => up' \in Seq(UpFrame) /\ Outs' = 0 /\ Inacks' = 0
  /\ down' = <<>> => down' \in Seq(Down) /\ Acks' = 0 /\ Ins' = 0
<1>1. \A K, q : q = <<>> => Count(q, K) = 0
  <2>1. \A K : Places(<<>>, K) = {}
    BY DEF Places
  <2> QED
    BY <2>1, FS_EmptySet DEF Count
<1>2. up' = <<>> => up' \in Seq(UpFrame)
  OBVIOUS
<1>3. down' = <<>> => down' \in Seq(Down)
  OBVIOUS
<1>4. up' = <<>> => Outs' = 0 /\ Inacks' = 0
  BY <1>1 DEF Outs, Inacks
<1>5. down' = <<>> => Acks' = 0 /\ Ins' = 0
  BY <1>1 DEF Acks, Ins
<1> QED
  BY <1>2, <1>3, <1>4, <1>5

\* A frame the agent writes is counted while the socket is there.
LEMMA UpCounts ==
  \A f \in UpFrame : Queues /\ Up(f) =>
     /\ up' \in Seq(UpFrame) /\ (up' = up \/ (Alive /\ up' # <<>>))
     /\ Outs' = IF Alive /\ f.type = "out" THEN Outs + 1 ELSE Outs
     /\ Inacks' = IF Alive /\ f.type = "inack" THEN Inacks + 1 ELSE Inacks
<1> SUFFICES ASSUME NEW f \in UpFrame, Queues, Up(f)
             PROVE  /\ up' \in Seq(UpFrame) /\ (up' = up \/ (Alive /\ up' # <<>>))
                    /\ Outs' = IF Alive /\ f.type = "out" THEN Outs + 1 ELSE Outs
                    /\ Inacks' = IF Alive /\ f.type = "inack" THEN Inacks + 1 ELSE Inacks
  OBVIOUS
<1>1. CASE Alive
  <2>1. up \in Seq(UpFrame) /\ up' = Append(up, f)
    BY <1>1 DEF Queues, Up
  <2>2. f \in OfType("out") <=> f.type = "out"
    BY DEF OfType
  <2>3. f \in OfType("inack") <=> f.type = "inack"
    BY DEF OfType
  <2>4. Outs' = IF f.type = "out" THEN Outs + 1 ELSE Outs
    BY <2>1, <2>2, CountAppend DEF Outs
  <2>5. Inacks' = IF f.type = "inack" THEN Inacks + 1 ELSE Inacks
    BY <2>1, <2>3, CountAppend DEF Inacks
  <2> QED
    BY <1>1, <2>1, <2>4, <2>5, AppendProperties
<1>2. CASE ~Alive
  BY <1>2 DEF Queues, Up, Outs, Inacks
<1> QED
  BY <1>1, <1>2

\* So is one that the relay takes.
LEMMA UpTakes ==
  ASSUME Queues, up # <<>>, up' = Tail(up)
  PROVE  /\ Head(up) \in UpFrame /\ up' \in Seq(UpFrame)
         /\ Outs' = IF Head(up).type = "out" THEN Outs - 1 ELSE Outs
         /\ Inacks' = IF Head(up).type = "inack" THEN Inacks - 1 ELSE Inacks
<1>1. up \in Seq(UpFrame) /\ Head(up) \in UpFrame /\ up' \in Seq(UpFrame)
  BY DEF Queues
<1>2. /\ Head(up) \in OfType("out") <=> Head(up).type = "out"
      /\ Head(up) \in OfType("inack") <=> Head(up).type = "inack"
  BY <1>1 DEF OfType
<1>3. Outs' = IF Head(up) \in OfType("out") THEN Outs - 1 ELSE Outs
  BY <1>1, CountTail DEF Outs
<1>4. Inacks' = IF Head(up) \in OfType("inack") THEN Inacks - 1 ELSE Inacks
  BY <1>1, CountTail DEF Inacks
<1> QED
  BY <1>1, <1>2, <1>3, <1>4

\* A message of the relay is counted while the exec is not known to have ended.
LEMMA DownCounts ==
  \A m \in Down : Queues /\ StartInv /\ (m \in Calls => git = "none") /\ down' = ToAgent(m) =>
     /\ down' \in Seq(Down) /\ Len(down') <= Len(down) + 1
     /\ \A i \in 1..Len(down') : down'[i] \in Calls => git = "none"
     /\ (~Alive => down' = down)
     /\ Acks' = IF Alive /\ outcome = 2 /\ m = "ack" THEN Acks + 1 ELSE Acks
     /\ Ins' = IF Alive /\ outcome = 2 /\ m = "in" THEN Ins + 1 ELSE Ins
<1> SUFFICES ASSUME NEW m \in Down, Queues, StartInv, m \in Calls => git = "none", down' = ToAgent(m)
             PROVE  /\ down' \in Seq(Down) /\ Len(down') <= Len(down) + 1
                    /\ \A i \in 1..Len(down') : down'[i] \in Calls => git = "none"
                    /\ (~Alive => down' = down)
                    /\ Acks' = IF Alive /\ outcome = 2 /\ m = "ack" THEN Acks + 1 ELSE Acks
                    /\ Ins' = IF Alive /\ outcome = 2 /\ m = "in" THEN Ins + 1 ELSE Ins
  OBVIOUS
<1>1. CASE Alive /\ outcome = 2
  <2>1. down \in Seq(Down) /\ down' = Append(down, m)
    BY <1>1 DEF Queues, ToAgent
  <2>2. /\ down' \in Seq(Down) /\ Len(down') = Len(down) + 1 /\ down'[Len(down) + 1] = m
        /\ \A i \in 1..Len(down) : down'[i] = down[i]
    BY <2>1, AppendProperties
  <2>3. \A i \in 1..Len(down') : down'[i] \in Calls => git = "none"
    <3>1. \A i \in 1..Len(down') : i \in 1..Len(down) \/ i = Len(down) + 1
      BY <2>1, <2>2
    <3> QED
      BY <2>2, <3>1 DEF StartInv
  <2>4. Acks' = IF m = "ack" THEN Acks + 1 ELSE Acks
    BY <2>1, CountAppend DEF Acks
  <2>5. Ins' = IF m = "in" THEN Ins + 1 ELSE Ins
    BY <2>1, CountAppend DEF Ins
  <2>6. Len(down') <= Len(down) + 1
    BY <2>1, <2>2
  <2> QED
    BY <1>1, <2>2, <2>3, <2>4, <2>5, <2>6
<1>2. CASE ~(Alive /\ outcome = 2)
  <2>1. down' = down
    BY <1>2 DEF ToAgent
  <2>2. Len(down) <= Len(down) + 1
    BY DEF Queues
  <2> QED
    BY <1>2, <2>1, <2>2 DEF Queues, StartInv, Acks, Ins
<1> QED
  BY <1>1, <1>2

\* A message for an exec that is there.
LEMMA TellsGit ==
  \A m \in {"in", "eof", "ack", "kill"} : m \in Down /\ m \notin Calls
BY DEF Down, Calls

LEMMA DownTakes ==
  ASSUME Queues, StartInv, down # <<>>, down' = Tail(down)
  PROVE  /\ Head(down) \in Down /\ down' \in Seq(Down)
         /\ Len(down') = Len(down) - 1 /\ Len(down) \in Nat \ {0}
         /\ Head(down) \in Calls => git = "none"
         /\ \A i \in 1..Len(down') : down'[i] \in Calls => git = "none"
         /\ Acks' = IF Head(down) = "ack" THEN Acks - 1 ELSE Acks
         /\ Ins' = IF Head(down) = "in" THEN Ins - 1 ELSE Ins
<1>1. /\ down \in Seq(Down) /\ Head(down) \in Down /\ down' \in Seq(Down)
      /\ Head(down) = down[1] /\ 1 \in 1..Len(down) /\ Len(down') = Len(down) - 1 /\ Len(down) \in Nat \ {0}
      /\ \A i \in 1..Len(down') : down'[i] = down[i + 1]
  BY DEF Queues
<1>2. Acks' = IF Head(down) = "ack" THEN Acks - 1 ELSE Acks
  BY <1>1, CountTail DEF Acks
<1>3. Ins' = IF Head(down) = "in" THEN Ins - 1 ELSE Ins
  BY <1>1, CountTail DEF Ins
<1>4. \A i \in 1..Len(down') : down'[i] \in Calls => git = "none"
  <2>1. TAKE i \in 1..Len(down')
  <2>2. i + 1 \in 1..Len(down) /\ down'[i] = down[i + 1]
    BY <1>1
  <2> QED
    BY <2>2 DEF StartInv
<1>5. Head(down) \in Calls => git = "none"
  BY <1>1 DEF StartInv
<1> QED
  BY <1>1, <1>2, <1>3, <1>4, <1>5

\* A frame of a git that is there is not the answer to a call.
LEMMA StartSends ==
  ASSUME Queues, StartInv, NEW f \in UpFrame, Up(f), f.type \in {"out", "inack", "exit"}, git # "none",
         git' # "none", UNCHANGED down
  PROVE  StartInv'
<1>1. CASE Alive
  <2>1. up \in Seq(UpFrame) /\ up' = Append(up, f)
    BY <1>1 DEF Queues, Up
  <2>2. /\ Len(up') = Len(up) + 1 /\ up'[Len(up) + 1] = f /\ Len(up) \in Nat
        /\ \A i \in 1..Len(up) : up'[i] = up[i]
    BY <2>1
  <2>3. \A i \in 1..Len(up') : i \in 1..Len(up) \/ i = Len(up) + 1
    BY <2>2
  <2>4. \A i \in 1..Len(up') : up'[i].type \notin {"missing", "inited"}
    BY <2>2, <2>3 DEF StartInv
  <2> QED
    BY <2>4 DEF StartInv
<1>2. CASE ~Alive
  BY <1>2 DEF Up, StartInv
<1> QED
  BY <1>1, <1>2

-----------------------------------------------------------------------------
(* Each step keeps the accounts *)

LEMMA GitAccount ==
  ASSUME Account, GitWrites \/ GitIsDone \/ GitStops
  PROVE  Account'
<1>1. /\ UNCHANGED <<up, down, socket, read, stdin, eof, unacked, paused, stalled>> /\ UNCHANGED relayVars
      /\ git = "running" /\ git' \in {"running", "exited"} /\ code' \in {0, 1}
      /\ \/ written' = written
         \/ written < Out /\ written - read < Pipe /\ written' = written + 1
  BY DEF GitWrites, GitIsDone, GitStops, Account, TypeOK
<1>2. TypeOK'
  <2>1. written' \in 0..Out /\ read' \in 0..written' /\ written' - read' <= Pipe
    BY <1>1, StreamAssumption DEF Account, TypeOK
  <2> QED
    BY <1>1, <2>1 DEF Account, TypeOK, relayVars, chanVars, Alive
<1>3. StartInv'
  BY <1>1 DEF Account, StartInv, relayVars, chanVars
<1>4. Sums' /\ Bounds'
  BY <1>1 DEF Account, Sums, SumOut, SumIn, SumLeft, Bounds, BoundOut, BoundIn, Outs, Inacks, Acks, Ins, relayVars, chanVars
<1> QED
  BY <1>2, <1>3, <1>4 DEF Account

LEMMA GitReadsAccount ==
  ASSUME Account, GitReads
  PROVE  Account'
<1>1. PICK f \in UpFrame : f = [type |-> "inack"] /\ f.type = "inack"
  BY Frames
<1>2. /\ git = "running" /\ stdin > 0 /\ stdin' = stdin - 1 /\ Up(f)
      /\ UNCHANGED <<down, socket, git, code, written, read, eof, unacked, paused, stalled>>
      /\ UNCHANGED <<relay, outcome, timedOut, inFlight, left, held, writes, got, status, hungUp, lost>>
  BY <1>1 DEF GitReads, relayVars, chanVars
<1>3. /\ up' \in Seq(UpFrame) /\ (up' = up \/ Alive) /\ Outs' = Outs
      /\ Inacks' = IF Alive THEN Inacks + 1 ELSE Inacks
  BY <1>1, <1>2, UpCounts, AccountQueues DEF Account
<1>4. Acks' = Acks /\ Ins' = Ins
  BY <1>2 DEF Acks, Ins
<1>5. /\ stdin \in Nat /\ Inacks \in Nat /\ Ins \in Nat /\ inFlight \in Nat /\ stdin' \in 0..In
      /\ In \in Nat
  BY <1>2, StreamAssumption, CountsNat, AccountQueues DEF Account, Queues, TypeOK
<1>6. TypeOK'
  BY <1>2, <1>3, <1>5 DEF Account, TypeOK, Alive
<1>7. StartInv'
  BY <1>1, <1>2, StartSends, AccountQueues DEF Account
<1>8. Sums'
  <2>1. SumOut'
    BY <1>2, <1>3, <1>4, <1>5 DEF Account, Sums, SumOut
  <2>2. SumIn'
    BY <1>2, <1>3, <1>4, <1>5 DEF Account, Sums, SumIn
  <2>3. SumLeft'
    BY <1>2, <1>3, <1>4, <1>5 DEF Account, Sums, SumLeft
  <2> QED
    BY <2>1, <2>2, <2>3 DEF Sums
<1>9. Bounds'
  BY <1>2 DEF Account, Bounds, BoundOut, BoundIn
<1> QED
  BY <1>6, <1>7, <1>8, <1>9 DEF Account

LEMMA AgentOutAccount ==
  ASSUME Account, AgentOut
  PROVE  Account'
<1>1. /\ written \in 0..Out /\ read \in Nat /\ read < written /\ Out \in Nat /\ read + 1 \in 1..Out
      /\ unacked \in Nat /\ Window \in Nat /\ git # "none" /\ written - read <= Pipe /\ Pipe \in Nat
  BY StreamAssumption DEF AgentOut, Account, TypeOK
<1>2. PICK f \in UpFrame : f = OutFrame(read + 1) /\ f.type = "out"
  BY <1>1, Frames
<1>3. /\ (git = "running" /\ ~paused) \/ git = "exited"
      /\ read' = read + 1 /\ unacked' = unacked + 1 /\ paused' = (paused \/ unacked + 1 >= Window)
      /\ stalled' = (git = "exited" /\ ~paused /\ unacked + 1 >= Window)
      /\ Up(f) /\ UNCHANGED <<down, socket, git, code, written, stdin, eof>>
      /\ UNCHANGED <<relay, outcome, timedOut, inFlight, left, held, writes, got, status, hungUp, lost>>
  BY <1>2 DEF AgentOut, Full, OutFrame, relayVars, chanVars
<1>4. /\ up' \in Seq(UpFrame) /\ (up' = up \/ Alive) /\ Inacks' = Inacks
      /\ Outs' = IF Alive THEN Outs + 1 ELSE Outs
  BY <1>2, <1>3, UpCounts, AccountQueues DEF Account
<1>5. Acks' = Acks /\ Ins' = Ins
  BY <1>3 DEF Acks, Ins
<1>6. Outs \in Nat /\ Acks \in Nat /\ Len(writes) \in Nat /\ lost \in Nat
  BY CountsNat, AccountQueues DEF Account, Queues, TypeOK
<1>7. Sums'
  <2>1. SumOut'
    BY <1>1, <1>3, <1>4, <1>5, <1>6 DEF Account, Sums, SumOut
  <2>2. SumIn'
    BY <1>1, <1>3, <1>4, <1>5, <1>6 DEF Account, Sums, SumIn
  <2>3. SumLeft'
    BY <1>1, <1>3, <1>4, <1>5, <1>6 DEF Account, Sums, SumLeft
  <2> QED
    BY <2>1, <2>2, <2>3 DEF Sums
<1>8. unacked' \in 0..Out /\ read' \in 0..written' /\ written' - read' <= Pipe
  BY <1>1, <1>3 DEF Account, Sums, SumOut, SumIn, SumLeft
<1>9. TypeOK'
  BY <1>3, <1>4, <1>8 DEF Account, TypeOK, Alive
<1>10. StartInv'
  BY <1>1, <1>2, <1>3, StartSends, AccountQueues DEF Account
<1>11. Bounds'
  <2>1. BoundOut'
    <3>1. ASSUME git' \in {"none", "running"}
          PROVE  unacked' <= Window /\ (paused' \/ unacked' < Window)
      <4>1. git = "running" /\ ~paused
        BY <1>1, <1>3, <3>1
      <4>2. unacked < Window
        BY <4>1 DEF Account, Bounds, BoundOut
      <4>3. unacked' = unacked + 1 /\ (unacked + 1 >= Window => paused')
        BY <1>3
      <4> QED
        BY <1>1, <4>2, <4>3
    <3> QED
      BY <3>1 DEF BoundOut
  <2>2. BoundIn'
    BY <1>3 DEF Account, Bounds, BoundIn
  <2> QED
    BY <2>1, <2>2 DEF Bounds
<1> QED
  BY <1>7, <1>9, <1>10, <1>11 DEF Account

LEMMA AgentCloseAccount ==
  ASSUME Account, AgentClose
  PROVE  Account'
<1>1. PICK f \in UpFrame : f = [type |-> "exit", code |-> code] /\ f.type = "exit"
  BY Frames DEF Account, TypeOK
<1>2. /\ git' = "gone" /\ Up(f)
      /\ UNCHANGED <<down, socket, code, written, read, stdin, eof, unacked, paused, stalled>>
      /\ UNCHANGED <<relay, outcome, timedOut, inFlight, left, held, writes, got, status, hungUp, lost>>
  BY <1>1 DEF AgentClose, relayVars, chanVars
<1>3. up' \in Seq(UpFrame) /\ (up' = up \/ Alive) /\ Outs' = Outs /\ Inacks' = Inacks
  BY <1>1, <1>2, UpCounts, AccountQueues DEF Account
<1>4. Acks' = Acks /\ Ins' = Ins
  BY <1>2 DEF Acks, Ins
<1>5. TypeOK'
  BY <1>2, <1>3 DEF Account, TypeOK, Alive
<1>6. StartInv'
  <2>1. git # "none"
    BY DEF AgentClose, Closed
  <2> QED
    BY <1>1, <1>2, <2>1, StartSends, AccountQueues DEF Account
<1>7. Sums' /\ Bounds'
  BY <1>2, <1>3, <1>4 DEF Account, Sums, SumOut, SumIn, SumLeft, Bounds, BoundOut, BoundIn
<1> QED
  BY <1>5, <1>6, <1>7 DEF Account

LEMMA AgentFrameAccount ==
  ASSUME Account, AgentFrame
  PROVE  Account'
<1>1. /\ down # <<>> /\ down' = Tail(down) /\ UNCHANGED socket
      /\ UNCHANGED <<relay, outcome, timedOut, inFlight, left, held, writes, got, status, hungUp, lost>>
  BY DEF AgentFrame, relayVars, chanVars
<1>2. /\ Head(down) \in Down /\ down' \in Seq(Down)
      /\ Len(down') = Len(down) - 1 /\ Len(down) \in Nat \ {0}
      /\ Head(down) \in Calls => git = "none"
      /\ \A i \in 1..Len(down') : down'[i] \in Calls => git = "none"
      /\ Acks' = IF Head(down) = "ack" THEN Acks - 1 ELSE Acks
      /\ Ins' = IF Head(down) = "in" THEN Ins - 1 ELSE Ins
  BY <1>1, DownTakes, AccountQueues DEF Account
<1>20. /\ Acks' \in Nat /\ Ins' \in Nat
       /\ (Head(down) = "ack" => Acks >= 1) /\ (Head(down) = "in" => Ins >= 1)
  <2>1. Acks' \in Nat /\ Ins' \in Nat
    BY <1>2, CountFacts DEF Acks, Ins
  <2>2. Acks \in Nat /\ Ins \in Nat
    BY CountsNat, AccountQueues DEF Account, Queues
  <2>3. Head(down) = "ack" => Acks >= 1
    BY <1>2, <2>1, <2>2
  <2>4. Head(down) = "in" => Ins >= 1
    BY <1>2, <2>1, <2>2
  <2> QED
    BY <2>1, <2>3, <2>4
<1>3. /\ Outs \in Nat /\ Inacks \in Nat /\ Acks \in Nat /\ Ins \in Nat /\ Len(writes) \in Nat
      /\ lost \in Nat /\ unacked \in Nat /\ stdin \in Nat /\ inFlight \in Nat /\ Alive
      /\ read \in 0..Out /\ Out \in Nat /\ In \in Nat /\ Window \in Nat \ {0} /\ paused \in BOOLEAN
  <2>1. Outs \in Nat /\ Inacks \in Nat /\ Acks \in Nat /\ Ins \in Nat /\ Len(writes) \in Nat
    BY CountsNat, AccountQueues DEF Account, Queues
  <2> QED
    BY <1>1, <2>1, StreamAssumption DEF Account, TypeOK
<1>30. /\ \A i \in 1..Len(down') : down'[i] \in Calls => git = "none"
       /\ git = "none" => Len(up) + Len(down') <= 1
  <2>1. Len(up) \in Nat
    BY DEF Account, TypeOK
  <2> QED
    BY <1>2, <2>1 DEF Account, StartInv
<1>4. CASE AgentStart \/ AgentInit
  <2>1. PICK f \in UpFrame :
           /\ Up(f) /\ f.type \in Answer
           /\ \/ git' = "running" /\ f.type = "ok"
              \/ git' = "gone" /\ f.type = "refused"
              \/ git' = git /\ f.type # "ok"
              \/ git' = "none" /\ f.type # "ok"
    BY <1>4, Frames DEF AgentStart, AgentInit, Answer, agentVars, gitVars
  <2>2. up' \in Seq(UpFrame) /\ Outs' = Outs /\ Inacks' = Inacks
    BY <2>1, UpCounts, AccountQueues DEF Account, Answer
  <2>3. /\ Head(down) \in Calls /\ git' \in {"none", "running", "gone"} /\ git = "none"
        /\ UNCHANGED <<code, written, read, stdin, eof, unacked, paused, stalled>>
    BY <1>2, <1>4, <2>1 DEF AgentStart, AgentInit, Calls, agentVars, gitVars
  <2>4. TypeOK'
    BY <1>1, <1>2, <1>3, <2>2, <2>3 DEF Account, TypeOK, Alive
  <2>5. StartInv'
    <3>1. /\ Len(up) + Len(down) <= 1 /\ Len(up) \in Nat
          /\ read = 0 /\ writes = <<>> /\ relay \in Waiting \cup {"done"}
      BY <2>3 DEF Account, StartInv, TypeOK
    <3>2. Len(up) = 0 /\ Len(down) = 1 /\ Len(down') = 0
      BY <1>2, <3>1
    <3>3. up' = Append(up, f) /\ up \in Seq(UpFrame)
      BY <1>3, <2>1 DEF Up, Account, TypeOK
    <3>4. Len(up') = 1 /\ up'[1] = f
      BY <3>2, <3>3
    <3>5. \A i \in 1..Len(up') : up'[i] = f
      BY <3>4
    <3>6. \A i \in 1..Len(down') : FALSE
      BY <3>2
    <3>7. Len(up') + Len(down') <= 1
      BY <3>2, <3>4
    <3> QED
      BY <1>1, <2>1, <2>3, <3>1, <3>5, <3>6, <3>7 DEF StartInv
  <2>6. Sums'
    <3>1. SumOut'
      BY <1>1, <1>2, <1>3, <2>2, <2>3 DEF Account, Sums, SumOut
    <3>2. SumIn'
      BY <1>1, <1>2, <1>3, <2>2, <2>3 DEF Account, Sums, SumIn
    <3>3. SumLeft'
      BY <1>1, <1>2, <1>3, <2>2, <2>3 DEF Account, Sums, SumLeft
    <3> QED
      BY <3>1, <3>2, <3>3 DEF Sums
  <2>7. Bounds'
    BY <1>1, <2>3 DEF Account, Bounds, BoundOut, BoundIn
  <2> QED
    BY <2>4, <2>5, <2>6, <2>7 DEF Account
<1>5. CASE AgentAck
  <2>1. /\ Head(down) = "ack" /\ git # "gone" /\ unacked' = unacked - 1
        /\ paused' = (paused /\ 2 * unacked' >= Window) /\ stalled' = (stalled /\ paused')
        /\ UNCHANGED <<up, git, code, written, read, stdin, eof>>
    BY <1>5 DEF AgentAck, gitVars
  <2>2. Outs' = Outs /\ Inacks' = Inacks /\ Acks' = Acks - 1 /\ Ins' = Ins
    BY <1>2, <2>1 DEF Outs, Inacks
  <2>3. Sums'
    <3>1. UNCHANGED <<writes, lost, read, stdin, inFlight, left>> /\ unacked' = unacked - 1
      BY <1>1, <2>1
    <3>2. Outs' + Len(writes') + Acks' + lost' <= unacked'
      BY <1>3, <2>2, <3>1, OldSums
    <3>3. unacked' <= read'
      BY <1>3, <3>1, OldSums
    <3>4. SumIn'
      BY <2>2, <3>1, OldSums DEF SumIn
    <3>5. SumLeft'
      BY <3>1, OldSums DEF SumLeft
    <3> QED
      BY <3>2, <3>3, <3>4, <3>5 DEF Sums, SumOut
  <2>4. unacked' \in 0..Out
    <3>1. unacked >= 1 /\ unacked <= Out
      BY <1>3, <1>20, <2>1, OldSums
    <3> QED
      BY <1>3, <2>1, <3>1
  <2>5. TypeOK'
    BY <1>1, <1>2, <1>3, <2>1, <2>4 DEF Account, TypeOK, Alive
  <2>6. StartInv'
    BY <1>1, <1>30, <2>1 DEF Account, StartInv
  <2>7. Bounds'
    <3>1. ASSUME git \in {"none", "running"}
          PROVE  unacked' <= Window /\ (paused' \/ unacked' < Window)
      <4>1. unacked <= Window
        BY <3>1 DEF Account, Bounds, BoundOut, BoundIn
      <4> QED
        BY <1>3, <2>1, <2>4, <4>1
    <3> QED
      BY <1>1, <2>1, <3>1 DEF Account, Bounds, BoundOut, BoundIn
  <2> QED
    BY <2>3, <2>5, <2>6, <2>7 DEF Account
<1>6. CASE AgentIn
  <2>1. /\ git = "running" /\ UNCHANGED <<up, git, code, written, read, unacked, paused, stalled>>
        /\ \/ Head(down) = "in" /\ stdin' = stdin + 1 /\ eof' = eof
           \/ Head(down) = "eof" /\ eof' = TRUE /\ stdin' = stdin
    BY <1>6 DEF AgentIn
  <2>2. Outs' = Outs /\ Inacks' = Inacks /\ Acks' = Acks
         /\ \/ Ins' = Ins - 1 /\ stdin' = stdin + 1
            \/ Ins' = Ins /\ stdin' = stdin
    <3>1. Outs' = Outs /\ Inacks' = Inacks
      BY <2>1 DEF Outs, Inacks
    <3>2. Acks' = Acks /\ Ins' = IF Head(down) = "in" THEN Ins - 1 ELSE Ins
      BY <1>2, <2>1
    <3> QED
      BY <2>1, <3>1, <3>2
  <2>3. Sums'
    <3>1. UNCHANGED <<writes, lost, read, unacked, inFlight, left>>
      BY <1>1, <2>1
    <3>2. SumOut'
      BY <2>2, <3>1, OldSums DEF SumOut
    <3>3. Ins' + stdin' + Inacks' <= inFlight'
      BY <1>3, <2>2, <3>1, OldSums
    <3>4. SumLeft' /\ inFlight' <= In
      BY <3>1, OldSums DEF SumLeft
    <3> QED
      BY <3>2, <3>3, <3>4 DEF Sums, SumIn
  <2>4. stdin' \in 0..In
    <3>1. stdin' \in Nat
      BY <1>3, <2>1
    <3>2. Ins + stdin + Inacks <= inFlight /\ inFlight <= In
      BY OldSums
    <3>3. stdin' = stdin \/ (stdin' = stdin + 1 /\ Ins >= 1)
      BY <1>20, <2>1
    <3>4. stdin' <= In
      BY <1>3, <3>2, <3>3
    <3> QED
      BY <3>1, <3>4
  <2>5. TypeOK'
    BY <1>1, <1>2, <1>3, <2>1, <2>4 DEF Account, TypeOK, Alive
  <2>6. StartInv' /\ Bounds'
    BY <1>1, <1>30, <2>1 DEF Account, StartInv, Bounds, BoundOut, BoundIn
  <2> QED
    BY <2>3, <2>5, <2>6 DEF Account
<1>7. CASE AgentKill \/ AgentLate
  <2>1. /\ UNCHANGED <<up, written, read, stdin, eof, unacked, paused, stalled>> /\ code' \in {0, 1}
        /\ git # "none" /\ git' # "none"
        /\ git' \in {git, "exited"} /\ (git' = "running" => git = "running")
    BY <1>7 DEF AgentKill, AgentLate, agentVars, gitVars, Account, TypeOK
  <2>2. Outs' = Outs /\ Inacks' = Inacks 
         /\ Acks' \in {Acks, Acks - 1} /\ Ins' \in {Ins, Ins - 1}
    <3>1. Outs' = Outs /\ Inacks' = Inacks
      BY <2>1 DEF Outs, Inacks
    <3>2. (Acks' = Acks - 1 \/ Acks' = Acks) /\ (Ins' = Ins - 1 \/ Ins' = Ins)
      BY <1>2
    <3> QED
      BY <3>1, <3>2
  <2>3. Sums'
    <3>1. UNCHANGED <<writes, lost, read, stdin, unacked, inFlight, left>>
      BY <1>1, <2>1
    <3>2. Outs' + Len(writes') + Acks' + lost' <= unacked'
      BY <1>3, <2>2, <3>1, OldSums
    <3>3. unacked' <= read'
      BY <3>1, OldSums
    <3>4. Ins' + stdin' + Inacks' <= inFlight'
      <4>1. CASE Ins' = Ins
        BY <2>2, <3>1, <4>1, OldSums
      <4>2. CASE Ins' = Ins - 1
        BY <1>3, <2>2, <3>1, <4>2, OldSums
      <4> QED
        BY <2>2, <4>1, <4>2
    <3>5. SumLeft'
      BY <3>1, OldSums DEF SumLeft
    <3> QED
      BY <3>2, <3>3, <3>4, <3>5 DEF Sums, SumOut, SumIn
  <2>4. TypeOK'
    BY <1>1, <1>2, <1>3, <2>1 DEF Account, TypeOK, Alive
  <2>5. StartInv' /\ Bounds'
    BY <1>1, <1>30, <2>1 DEF Account, StartInv, Bounds, BoundOut, BoundIn
  <2> QED
    BY <2>3, <2>4, <2>5 DEF Account
<1> QED
  BY <1>4, <1>5, <1>6, <1>7 DEF AgentFrame

\* What was under way on the socket is gone: less is, and no more is counted.
LEMMA DisconnectAccount ==
  ASSUME Account, Disconnects
  PROVE  Account'
<1>1. /\ up' = <<>> /\ down' = <<>> /\ ~Alive' /\ socket' \subseteq {"agent", "server"}
      /\ git' \in {git, "gone"} /\ git' \in {"none", "running", "exited", "gone"}
      /\ relay' \in Waiting \cup {"answered", "open", "done"} /\ outcome' \in 0..2
      /\ status' \in 0..2 /\ (status' # 2 => relay' = "done")
      /\ (git' = "none" => git = "none") /\ (relay \in Waiting \cup {"done"} => relay' \in Waiting \cup {"done"})
      /\ UNCHANGED <<code, written, read, stdin, eof, unacked, paused, timedOut, inFlight, left, held,
                     writes, got, hungUp, lost>>
  <2>1. CASE AgentDisconnects
    <3>1. /\ up' = <<>> /\ down' = <<>> /\ socket' = socket \ {"agent"}
          /\ git' = IF git = "none" THEN "none" ELSE "gone"
          /\ UNCHANGED <<code, written, read, stdin, eof, unacked, paused, timedOut, inFlight, left, held,
                         writes, got, hungUp, lost, relay, outcome, status>>
      BY <2>1 DEF AgentDisconnects, relayVars, chanVars
    <3> QED
      BY <3>1 DEF Account, TypeOK, Alive
  <2>2. CASE ServerDisconnects
    <3>1. /\ up' = <<>> /\ down' = <<>> /\ socket' = socket \ {"server"}
          /\ outcome' \in {1, outcome}
          /\ IF relay \in Waiting THEN relay' = "done" /\ status' = 1 ELSE UNCHANGED <<relay, status>>
          /\ UNCHANGED <<code, written, read, stdin, eof, unacked, paused, timedOut, inFlight, left, held,
                         writes, got, hungUp, lost, git>>
      BY <2>2 DEF ServerDisconnects, ClosedOutcome, Fails, agentVars, gitVars
    <3>2. /\ relay \in Waiting \cup {"answered", "open", "done"} /\ outcome \in 0..2 /\ status \in 0..2
          /\ (status # 2 => relay = "done") /\ socket \subseteq {"agent", "server"}
          /\ git \in {"none", "running", "exited", "gone"}
      BY DEF Account, TypeOK
    <3>3. /\ relay' \in Waiting \cup {"answered", "open", "done"} /\ outcome' \in 0..2 /\ status' \in 0..2
          /\ (status' # 2 => relay' = "done")
          /\ (relay \in Waiting \cup {"done"} => relay' \in Waiting \cup {"done"})
      BY <3>1, <3>2
    <3>4. ~Alive' /\ socket' \subseteq {"agent", "server"}
      BY <3>1, <3>2 DEF Alive
    <3> QED
      BY <3>1, <3>2, <3>3, <3>4
  <2> QED
    BY <2>1, <2>2 DEF Disconnects
<1>2. /\ up' \in Seq(UpFrame) /\ down' \in Seq(Down)
      /\ Outs' = 0 /\ Inacks' = 0 /\ Acks' = 0 /\ Ins' = 0
  BY <1>1, NoCounts
<1>3. TypeOK'
  <2>1. /\ down' \in Seq(Down) /\ up' \in Seq(UpFrame)
        /\ socket' \subseteq {"agent", "server"} /\ (~Alive' => down' = <<>> /\ up' = <<>>)
        /\ git' \in {"none", "running", "exited", "gone"}
        /\ relay' \in Waiting \cup {"answered", "open", "done"} /\ outcome' \in 0..2
        /\ status' \in 0..2 /\ (status' # 2 => relay' = "done")
    BY <1>1, <1>2
  <2>2. /\ code' \in {0, 1} /\ written' \in 0..Out /\ read' \in 0..written' /\ written' - read' <= Pipe
        /\ unacked' \in 0..Out /\ stdin' \in 0..In /\ inFlight' \in 0..In /\ left' \in 0..(In + 1)
        /\ writes' \in Seq(1..Out) /\ got' \subseteq 1..Out /\ lost' \in 0..Out
    BY <1>1 DEF Account, TypeOK
  <2>3. /\ paused' \in BOOLEAN /\ stalled' \in BOOLEAN /\ eof' \in BOOLEAN /\ timedOut' \in BOOLEAN
        /\ held' \in BOOLEAN /\ hungUp' \in BOOLEAN
    BY Zenon DEF Account, TypeOK, Disconnects, AgentDisconnects, ServerDisconnects,
                 agentVars, gitVars, relayVars, chanVars
  <2> QED
    BY <2>1, <2>2, <2>3 DEF TypeOK
<1>4. StartInv'
  <2>1. /\ \A i \in 1..Len(down') : FALSE
        /\ \A i \in 1..Len(up') : FALSE
        /\ Len(up') + Len(down') <= 1
    BY <1>1
  <2> QED
    BY <1>1, <2>1 DEF Account, StartInv
<1>5. Sums'
  <2>1. /\ Outs \in Nat /\ Inacks \in Nat /\ Acks \in Nat /\ Ins \in Nat /\ Len(writes) \in Nat
        /\ lost \in Nat /\ stdin \in Nat /\ unacked \in Nat /\ inFlight \in Nat
    BY CountsNat, AccountQueues DEF Account, Queues, TypeOK
  <2> QED
    BY <1>1, <1>2, <2>1 DEF Account, Sums, SumOut, SumIn, SumLeft
<1>6. Bounds'
  BY <1>1 DEF Account, Bounds, BoundOut, BoundIn
<1> QED
  BY <1>3, <1>4, <1>5, <1>6 DEF Account

\* The relay asks once more.
LEMMA RetriesAccount ==
  ASSUME Account, RelayFrame, RelayAnswered, relay \in Waiting, Retries(Head(up).type)
  PROVE  Account'
<1>1. /\ up # <<>> /\ up' = Tail(up)
      /\ UNCHANGED <<socket, git, code, written, read, stdin, eof, unacked, paused, stalled>>
      /\ UNCHANGED <<timedOut, left, got, hungUp, lost>>
  BY DEF RelayFrame, agentVars, gitVars
<1>2. /\ Head(up).type \in {"missing", "inited"} /\ relay' \in Waiting /\ relay' # "done"
      /\ down' \in {ToAgent("init"), ToAgent("start")}
  BY DEF Retries, Waiting
<1>3. UNCHANGED <<status, outcome, inFlight, held, writes>>
  BY <1>2 DEF RelayAnswered, Fails
<1>4. up \in Seq(UpFrame) /\ Len(down) \in Nat /\ Queues /\ StartInv /\ Alive
  BY <1>1, AccountQueues DEF Account, TypeOK
<1>5. /\ Len(up') = Len(up) - 1 /\ Len(up) \in Nat \ {0} /\ Head(up) = up[1] /\ 1 \in 1..Len(up)
      /\ \A i \in 1..Len(up') : i + 1 \in 1..Len(up) /\ up'[i] = up[i + 1]
  BY <1>1, <1>4
<1>6. git = "none"
  BY <1>2, <1>4, <1>5 DEF StartInv
<1>7. /\ up' \in Seq(UpFrame) /\ Outs' = Outs
      /\ Inacks' = Inacks
  BY <1>1, <1>2, <1>4, UpTakes
<1>8. /\ down' \in Seq(Down) /\ Len(down') <= Len(down) + 1
      /\ \A i \in 1..Len(down') : down'[i] \in Calls => git = "none"
      /\ Acks' = Acks /\ Ins' = Ins
  <2>1. CASE down' = ToAgent("init")
    BY <1>4, <1>6, <2>1, DownCounts DEF Down
  <2>2. CASE down' = ToAgent("start")
    BY <1>4, <1>6, <2>2, DownCounts DEF Down
  <2> QED
    BY <1>2, <2>1, <2>2
<1>9. TypeOK'
  <2>1. status = 2
    BY DEF Account, TypeOK, Waiting
  <2> QED
    BY <1>1, <1>2, <1>3, <1>4, <1>7, <1>8, <2>1 DEF Account, TypeOK, Alive
<1>10. StartInv'
  <2>1. Len(up') + Len(down') <= 1
    <3>1. Len(up) + Len(down) <= 1 /\ Len(down') \in Nat
      BY <1>4, <1>6, <1>8 DEF StartInv
    <3> QED
      BY <1>4, <1>5, <1>8, <3>1
  <2>2. \A i \in 1..Len(up') : up'[i].type # "ok"
    BY <1>4, <1>5, <1>6 DEF StartInv
  <2>3. read = 0 /\ writes = <<>>
    BY <1>4, <1>6 DEF StartInv
  <2> QED
    BY <1>1, <1>2, <1>3, <1>6, <1>8, <2>1, <2>2, <2>3 DEF StartInv
<1>11. Sums' /\ Bounds'
  BY <1>1, <1>3, <1>7, <1>8 DEF Account, Sums, SumOut, SumIn, SumLeft, Bounds, BoundOut, BoundIn
<1> QED
  BY <1>9, <1>10, <1>11 DEF Account

\* A frame the relay drops or looks at.
LEMMA RelayFrameAccount ==
  ASSUME Account, RelayFrame
  PROVE  Account'
<1>1. /\ up # <<>> /\ up' = Tail(up)
      /\ UNCHANGED <<socket, git, code, written, read, stdin, eof, unacked, paused, stalled>>
      /\ UNCHANGED <<timedOut, left, got, hungUp, lost>>
  BY DEF RelayFrame, agentVars, gitVars
<1>2. /\ Head(up) \in UpFrame /\ up' \in Seq(UpFrame)
      /\ Outs' = IF Head(up).type = "out" THEN Outs - 1 ELSE Outs
      /\ Inacks' = IF Head(up).type = "inack" THEN Inacks - 1 ELSE Inacks
  BY <1>1, UpTakes, AccountQueues DEF Account
<1>20. /\ Outs \in Nat /\ Inacks \in Nat
       /\ (Head(up).type = "out" => Outs >= 1) /\ (Head(up).type = "inack" => Inacks >= 1)
  <2>1. Outs' \in Nat /\ Inacks' \in Nat
    BY <1>2, CountFacts DEF Outs, Inacks
  <2>2. Outs \in Nat /\ Inacks \in Nat
    BY CountsNat, AccountQueues DEF Account, Queues
  <2>3. Head(up).type = "out" => Outs >= 1
    BY <1>2, <2>1, <2>2
  <2>4. Head(up).type = "inack" => Inacks >= 1
    BY <1>2, <2>1, <2>2
  <2> QED
    BY <2>2, <2>3, <2>4
<1>3. /\ Outs \in Nat /\ Inacks \in Nat /\ Acks \in Nat /\ Ins \in Nat /\ Len(writes) \in Nat
      /\ lost \in Nat /\ unacked \in Nat /\ stdin \in Nat /\ inFlight \in Nat /\ In \in Nat
      /\ InWindow \in Nat \ {0} /\ left \in Nat /\ held \in BOOLEAN /\ Alive
  <2>2. Acks \in Nat /\ Ins \in Nat /\ Len(writes) \in Nat
    BY CountsNat, AccountQueues DEF Account, Queues
  <2>3. Alive
    BY <1>1 DEF Account, TypeOK
  <2> QED
    BY <1>20, <2>2, <2>3, StreamAssumption DEF Account, TypeOK
<1>4. ASSUME down' = down, git = "none" => writes' = writes /\ relay' \in Waiting \cup {"done"}
      PROVE  StartInv' /\ Acks' = Acks /\ Ins' = Ins
  <2>1. up \in Seq(UpFrame) /\ Len(down) \in Nat
    BY DEF Account, TypeOK
  <2>2. /\ Len(up') = Len(up) - 1 /\ Len(up) \in Nat
        /\ \A i \in 1..Len(up') : i + 1 \in 1..Len(up) /\ up'[i] = up[i + 1]
    BY <1>1, <2>1
  <2>3. StartInv'
    <3>1. git = "none" => Len(up') + Len(down') <= 1
      BY <1>4, <2>1, <2>2 DEF Account, StartInv
    <3>2. \A i \in 1..Len(up') : up'[i].type \in {"missing", "inited"} => git = "none"
      BY <2>2 DEF Account, StartInv
    <3>3. git = "none" => \A i \in 1..Len(up') : up'[i].type # "ok"
      BY <2>2 DEF Account, StartInv
    <3> QED
      BY <1>1, <1>4, <3>1, <3>2, <3>3 DEF Account, StartInv
  <2> QED
    BY <1>4, <2>3 DEF Acks, Ins
<1>12. CASE RelayAnswered /\ relay \in Waiting /\ Retries(Head(up).type)
  BY <1>12, RetriesAccount
<1>13. git = "none" => ~Registered /\ relay \in Waiting \cup {"done"} /\ Head(up).type # "ok"
  <2>1. Head(up) = up[1] /\ 1 \in 1..Len(up)
    BY <1>1 DEF Account, TypeOK
  <2> QED
    BY <2>1 DEF Account, StartInv, Registered, Waiting
<1>11. (Outs' = Outs - 1 \/ Outs' = Outs) /\ (Inacks' = Inacks - 1 \/ Inacks' = Inacks)
  BY <1>2
<1>5. ASSUME UNCHANGED <<inFlight, held, writes>>,
             down' = down, git = "none" => relay' \in Waiting \cup {"done"},
             relay' \in Waiting \cup {"answered", "open", "done"}, outcome' \in 0..2,
             status' \in 0..2, status' # 2 => relay' = "done"
      PROVE  Account'
  <2>0. StartInv' /\ Acks' = Acks /\ Ins' = Ins
    BY <1>4, <1>5
  <2>1. TypeOK'
    BY <1>1, <1>2, <1>3, <1>5 DEF Account, TypeOK, Alive
  <2>2. Sums'
    <3>1. UNCHANGED <<writes, lost, read, stdin, unacked, inFlight, left>>
      BY <1>1, <1>5
    <3>2. Outs' + Len(writes') + Acks' + lost' <= unacked'
      BY <1>3, <1>11, <2>0, <3>1, OldSums
    <3>3. unacked' <= read'
      BY <3>1, OldSums
    <3>4. Ins' + stdin' + Inacks' <= inFlight'
      BY <1>3, <1>11, <2>0, <3>1, OldSums
    <3>5. SumLeft'
      BY <3>1, OldSums DEF SumLeft
    <3> QED
      BY <3>2, <3>3, <3>4, <3>5 DEF Sums, SumOut, SumIn
  <2>3. Bounds'
    BY <1>1, <1>5 DEF Account, Bounds, BoundOut, BoundIn
  <2> QED
    BY <2>0, <2>1, <2>2, <2>3 DEF Account
<1>6. CASE UNCHANGED <<down, relay, outcome, inFlight, held, writes, status>>
  BY <1>5, <1>6, <1>13 DEF Account, TypeOK
<1>7. CASE RelayAnswered /\ ~(relay \in Waiting /\ Retries(Head(up).type))
  <2>1. /\ UNCHANGED <<outcome, inFlight, held, writes>>
        /\ down' = down
        /\ \/ UNCHANGED <<relay, status>>
           \/ relay' = "done" /\ status' = 1
           \/ relay \in Waiting /\ Head(up).type = "ok" /\ relay' = "answered" /\ status' = status
    BY <1>7 DEF RelayAnswered, Fails
  <2>2. /\ relay \in Waiting \cup {"answered", "open", "done"} /\ outcome \in 0..2 /\ status \in 0..2
        /\ (status # 2 => relay = "done")
    BY DEF Account, TypeOK
  <2>3. /\ relay' \in Waiting \cup {"answered", "open", "done"} /\ outcome' \in 0..2 /\ status' \in 0..2
        /\ (status' # 2 => relay' = "done")
    BY <2>1, <2>2 DEF Waiting
  <2>4. git = "none" => relay' \in Waiting \cup {"done"}
    BY <1>13, <2>1
  <2> QED
    BY <1>5, <2>1, <2>3, <2>4
<1>8. CASE RelayExit /\ UNCHANGED down
  <2>1. Head(up).code \in {0, 1}
    BY <1>2, <1>8, Kinds DEF RelayExit
  <2>2. /\ outcome' = (IF Registered THEN Head(up).code ELSE outcome)
        /\ UNCHANGED <<relay, inFlight, held, writes, status>>
    BY <1>8 DEF RelayExit
  <2>3. /\ relay \in Waiting \cup {"answered", "open", "done"} /\ outcome \in 0..2 /\ status \in 0..2
        /\ (status # 2 => relay = "done")
    BY DEF Account, TypeOK
  <2>4. outcome' \in 0..2
    BY <2>1, <2>2, <2>3
  <2>5. /\ relay' \in Waiting \cup {"answered", "open", "done"} /\ status' \in 0..2
        /\ (status' # 2 => relay' = "done")
    BY <2>2, <2>3
  <2> QED
    BY <1>5, <1>8, <1>13, <2>2, <2>4, <2>5
<1>9. CASE RelayOut /\ UNCHANGED down
  <2>1. /\ Head(up).type = "out" /\ Head(up).unit \in 1..Out
        /\ writes' = (IF Registered THEN Append(writes, Head(up).unit) ELSE writes)
        /\ UNCHANGED <<relay, outcome, inFlight, held, status>>
    BY <1>2, <1>9, Kinds DEF RelayOut
  <2>2. writes' \in Seq(1..Out) /\ Len(writes') <= Len(writes) + 1 /\ Len(writes') \in Nat
    <3>1. PICK S : S = 1..Out
      OBVIOUS
    <3>2. writes \in Seq(S) /\ Head(up).unit \in S
      BY <2>1, <3>1 DEF Account, TypeOK
    <3>3. writes' \in Seq(S) /\ Len(writes') <= Len(writes) + 1
      BY <1>3, <2>1, <3>2
    <3> QED
      BY <3>1, <3>3
  <2>0. StartInv' /\ Acks' = Acks /\ Ins' = Ins
    BY <1>4, <1>9, <1>13, <2>1
  <2>3. TypeOK'
    BY <1>1, <1>2, <1>3, <1>9, <2>1, <2>2 DEF Account, TypeOK, Alive
  <2>4. Sums'
    <3>1. UNCHANGED <<lost, read, stdin, unacked, inFlight, left>>
      BY <1>1, <2>1
    <3>2. Outs' = Outs - 1 /\ Inacks' = Inacks
      BY <1>2, <2>1
    <3>3. Outs' + Len(writes') + Acks' + lost' <= unacked'
      BY <1>3, <2>0, <2>2, <3>1, <3>2, OldSums
    <3>4. unacked' <= read'
      BY <3>1, OldSums
    <3>5. Ins' + stdin' + Inacks' <= inFlight'
      BY <1>3, <2>0, <3>1, <3>2, OldSums
    <3>6. SumLeft'
      BY <3>1, OldSums DEF SumLeft
    <3> QED
      BY <3>3, <3>4, <3>5, <3>6 DEF Sums, SumOut, SumIn
  <2>5. Bounds'
    BY <1>1, <2>1 DEF Account, Bounds, BoundOut, BoundIn
  <2> QED
    BY <2>0, <2>3, <2>4, <2>5 DEF Account
<1>10. CASE RelayAck /\ UNCHANGED down
  <2>1. /\ Head(up).type = "inack" /\ inFlight' = (IF Registered THEN inFlight - 1 ELSE inFlight)
        /\ held' = (held /\ 2 * inFlight' >= InWindow)
        /\ UNCHANGED <<relay, outcome, writes, status>>
    BY <1>10 DEF RelayAck
  <2>0. StartInv' /\ Acks' = Acks /\ Ins' = Ins
    BY <1>4, <1>10, <1>13, <2>1
  <2>2. Inacks' = Inacks - 1 /\ Outs' = Outs
    BY <1>2, <2>1
  <2>3. inFlight' \in {inFlight - 1, inFlight} /\ inFlight >= 1
    <3>1. inFlight >= 1
      BY <1>3, <1>20, <2>1, OldSums
    <3> QED
      BY <2>1, <3>1
  <2>4. Sums'
    <3>1. UNCHANGED <<writes, lost, read, stdin, unacked, left>>
      BY <1>1, <2>1
    <3>2. SumOut'
      BY <1>3, <2>0, <2>2, <3>1, OldSums DEF SumOut
    <3>3. Ins' + stdin' + Inacks' <= inFlight'
      BY <1>3, <2>0, <2>2, <2>3, <3>1, OldSums
    <3>5. inFlight' <= In /\ UNCHANGED left
      BY <1>3, <2>3, <3>1, OldSums
    <3>4. left > 0 => inFlight' + left <= In + 1
      <4>1. CASE inFlight' = inFlight
        BY <4>1, OldSums
      <4>2. CASE inFlight' = inFlight - 1
        BY <1>3, <4>2, OldSums
      <4> QED
        BY <2>3, <4>1, <4>2
    <3> QED
      BY <3>1, <3>2, <3>3, <3>4, <3>5 DEF Sums, SumIn, SumLeft
  <2>5. inFlight' \in 0..In
    BY <1>3, <2>3 DEF Account, Sums, SumOut, SumIn, SumLeft
  <2>6. TypeOK'
    BY <1>1, <1>2, <1>3, <1>10, <2>1, <2>5 DEF Account, TypeOK, Alive
  <2>7. Bounds'
    <3>1. inFlight <= InWindow
      BY DEF Account, Bounds, BoundOut, BoundIn
    <3>2. inFlight' <= InWindow /\ (held' \/ inFlight' < InWindow)
      <4>1. inFlight' \in Nat /\ inFlight' <= InWindow /\ (held \/ inFlight' < InWindow)
        BY <1>3, <2>3, <2>5, <3>1 DEF Account, Bounds, BoundOut, BoundIn
      <4>2. ~(2 * inFlight' >= InWindow) => inFlight' < InWindow
        <5>1. inFlight' \in Nat /\ InWindow \in Nat
          BY <1>3, <4>1
        <5> QED
          BY <5>1, BelowWindow
      <4>3. held' = (held /\ 2 * inFlight' >= InWindow)
        BY <2>1
      <4> QED
        BY <4>1, <4>2, <4>3
    <3> QED
      BY <1>1, <3>2 DEF Account, Bounds, BoundOut, BoundIn
  <2> QED
    BY <2>0, <2>4, <2>6, <2>7 DEF Account
<1> QED
  BY <1>6, <1>7, <1>8, <1>9, <1>10, <1>12 DEF RelayFrame

LEMMA RelayMovesAccount ==
  ASSUME Account, RelayOpens \/ RpcTimesOut \/ RelayEnds
  PROVE  Account'
<1>1. /\ UNCHANGED <<up, down, socket, git, code, written, read, stdin, eof, unacked, paused, stalled>>
      /\ UNCHANGED <<outcome, timedOut, inFlight, left, held, writes, got, hungUp, lost>>
      /\ relay' \in {"open", "done"} /\ status' \in 0..2 /\ (status' # 2 => relay' = "done")
      /\ (relay' = "open" => relay = "answered")
  BY DEF RelayOpens, RpcTimesOut, RelayEnds, Fails, agentVars, gitVars, chanVars, Account, TypeOK
<1>2. TypeOK'
  BY <1>1, SMTT(30) DEF Account, TypeOK, Alive, Waiting
<1>3. StartInv'
  BY <1>1 DEF Account, StartInv, Waiting
<1>4. Sums' /\ Bounds'
  BY <1>1 DEF Account, Sums, SumOut, SumIn, SumLeft, Bounds, BoundOut, BoundIn, Outs, Inacks, Acks, Ins
<1> QED
  BY <1>2, <1>3, <1>4 DEF Account

LEMMA KillAccount ==
  ASSUME Account, RelayTimer \/ HangUp
  PROVE  Account'
<1>1. /\ UNCHANGED <<up, socket, git, code, written, read, stdin, eof, unacked, paused, stalled>>
      /\ UNCHANGED <<relay, outcome, inFlight, left, held, writes, got, status, lost>>
      /\ timedOut' \in BOOLEAN /\ hungUp' \in BOOLEAN
      /\ down' = down \/ (relay = "open" /\ down' = ToAgent("kill"))
  BY DEF RelayTimer, HangUp, agentVars, gitVars, chanVars, Account, TypeOK
<1>2. /\ down' \in Seq(Down) /\ (~Alive => down' = down) /\ Acks' = Acks /\ Ins' = Ins
      /\ \A i \in 1..Len(down') : down'[i] \in Calls => git = "none"
      /\ (git = "none" => down' = down)
  <2>1. CASE down' = down
    BY <2>1, AccountQueues DEF Account, Queues, StartInv, Acks, Ins
  <2>2. CASE relay = "open" /\ down' = ToAgent("kill")
    <3>1. git # "none"
      BY <2>2 DEF Account, StartInv, Waiting
    <3> QED
      BY <2>2, <3>1, DownCounts, TellsGit, AccountQueues DEF Account
  <2> QED
    BY <1>1, <2>1, <2>2
<1>3. TypeOK'
  BY <1>1, <1>2 DEF Account, TypeOK, Alive
<1>4. StartInv'
  BY <1>1, <1>2 DEF Account, StartInv
<1>5. Sums' /\ Bounds'
  BY <1>1, <1>2 DEF Account, Sums, SumOut, SumIn, SumLeft, Bounds, BoundOut, BoundIn, Outs, Inacks
<1> QED
  BY <1>3, <1>4, <1>5 DEF Account

LEMMA FlushAccount ==
  ASSUME Account, Flush
  PROVE  Account'
<1>1. /\ writes # <<>> /\ writes' = Tail(writes)
      /\ got' = (IF hungUp THEN got ELSE got \cup {Head(writes)})
      /\ \/ lost' = lost + 1 /\ down' = down
         \/ lost' = lost /\ down' = ToAgent("ack")
      /\ UNCHANGED <<up, socket, git, code, written, read, stdin, eof, unacked, paused, stalled>>
      /\ UNCHANGED <<relay, outcome, timedOut, inFlight, left, held, status, hungUp>>
  BY DEF Flush, agentVars, gitVars
<1>2. /\ Head(writes) \in 1..Out /\ writes' \in Seq(1..Out) /\ Len(writes') = Len(writes) - 1
      /\ Len(writes) \in Nat
  <2>1. writes \in Seq(1..Out) /\ writes # <<>>
    BY <1>1 DEF Account, TypeOK
  <2> QED
    BY <1>1, <2>1, QueueTail
<1>3. /\ Outs \in Nat /\ Acks \in Nat /\ Ins \in Nat /\ Inacks \in Nat
      /\ lost \in Nat /\ unacked \in Nat /\ read \in 0..Out /\ Out \in Nat
  BY StreamAssumption, CountsNat, AccountQueues DEF Account, Queues, TypeOK
<1>4. /\ down' \in Seq(Down) /\ (~Alive => down' = down) /\ Ins' = Ins
      /\ \A i \in 1..Len(down') : down'[i] \in Calls => git = "none"
      /\ Acks' \in Nat /\ lost' \in Nat
      /\ \/ lost' = lost + 1 /\ Acks' = Acks
         \/ lost' = lost /\ Acks' \in {Acks, Acks + 1}
  <2>1. CASE lost' = lost + 1 /\ down' = down
    BY <1>3, <2>1, AccountQueues DEF Account, Queues, StartInv, Acks, Ins
  <2>2. CASE lost' = lost /\ down' = ToAgent("ack")
    <3>1. /\ down' \in Seq(Down) /\ (~Alive => down' = down) /\ Ins' = Ins
          /\ \A i \in 1..Len(down') : down'[i] \in Calls => git = "none"
          /\ Acks' = IF Alive /\ outcome = 2 THEN Acks + 1 ELSE Acks
      BY <2>2, DownCounts, TellsGit, AccountQueues DEF Account
    <3> QED
      BY <1>3, <2>2, <3>1
  <2> QED
    BY <1>1, <2>1, <2>2
<1>5. Outs' = Outs /\ Inacks' = Inacks
  BY <1>1 DEF Outs, Inacks
<1>6. Sums'
  <2>1. Len(writes') = Len(writes) - 1 /\ Len(writes) \in Nat
    BY <1>2
  <2>2. \/ lost' = lost + 1 /\ Acks' = Acks
        \/ lost' = lost /\ Acks' \in {Acks, Acks + 1}
    BY <1>4
  <2>3. UNCHANGED <<read, stdin, unacked, inFlight, left>>
    BY <1>1
  <2>4. Outs' + Len(writes') + Acks' + lost' <= unacked'
    BY <1>3, <1>5, <2>1, <2>2, <2>3, OldSums
  <2>5. unacked' <= read'
    BY <2>3, OldSums
  <2>6. Ins' + stdin' + Inacks' <= inFlight'
    BY <1>4, <1>5, <2>3, OldSums
  <2>7. SumLeft'
    BY <2>3, OldSums DEF SumLeft
  <2> QED
    BY <2>4, <2>5, <2>6, <2>7 DEF Sums, SumOut, SumIn
<1>7. lost' \in 0..Out
  <2>1. Len(writes) >= 1
    BY <1>1, <1>2
  <2>2. lost + 1 <= Out
    BY <1>2, <1>3, <2>1, OldSums
  <2> QED
    BY <1>3, <1>4, <2>2
<1>8. got' \subseteq 1..Out
  BY <1>1, <1>2 DEF Account, TypeOK
<1>9. TypeOK'
  BY <1>1, <1>2, <1>4, <1>7, <1>8, SMTT(30) DEF Account, TypeOK, Alive
<1>10. StartInv' /\ Bounds'
  BY <1>1, <1>4 DEF Account, StartInv, Bounds, BoundOut, BoundIn
<1> QED
  BY <1>6, <1>9, <1>10 DEF Account

LEMMA ClientAccount ==
  ASSUME Account, ClientSends
  PROVE  Account'
<1>1. /\ ~held /\ left > 0 /\ left' = left - 1 /\ relay = "open"
      /\ UNCHANGED <<up, socket, git, code, written, read, stdin, eof, unacked, paused, stalled>>
      /\ UNCHANGED <<relay, outcome, timedOut, writes, got, status, hungUp, lost>>
  BY DEF ClientSends, agentVars, gitVars
<1>2. /\ Outs' = Outs /\ Inacks' = Inacks /\ Ins \in Nat /\ Inacks \in Nat /\ stdin \in Nat
      /\ inFlight \in Nat /\ left \in Nat /\ In \in Nat /\ InWindow \in Nat \ {0} /\ held \in BOOLEAN
      /\ left <= In + 1 /\ git # "none"
  BY <1>1, StreamAssumption, CountsNat, AccountQueues DEF Account, Queues, TypeOK, Outs, Inacks, StartInv, Waiting
<1>3. CASE left = 1
  <2>1. down' = ToAgent("eof") /\ UNCHANGED <<inFlight, held>>
    BY <1>3 DEF ClientSends
  <2>2. /\ down' \in Seq(Down) /\ (~Alive => down' = down) /\ Acks' = Acks /\ Ins' = Ins
        /\ \A i \in 1..Len(down') : down'[i] \in Calls => git = "none"
    BY <2>1, DownCounts, TellsGit, AccountQueues DEF Account
  <2>3. left' \in 0..(In + 1) /\ left' = 0
    BY <1>1, <1>2, <1>3
  <2>4. TypeOK'
    BY <1>1, <2>1, <2>2, <2>3 DEF Account, TypeOK, Alive
  <2>5. StartInv' /\ Bounds'
    BY <1>1, <1>2, <2>1, <2>2 DEF Account, StartInv, Bounds, BoundOut, BoundIn
  <2>6. Sums'
    <3>1. SumOut'
      BY <1>1, <1>2, <2>1, <2>2, <2>3 DEF Account, Sums, SumOut
    <3>2. SumIn'
      BY <1>1, <1>2, <2>1, <2>2, <2>3 DEF Account, Sums, SumIn
    <3>3. SumLeft'
      BY <1>1, <1>2, <2>1, <2>2, <2>3 DEF Account, Sums, SumLeft
    <3> QED
      BY <3>1, <3>2, <3>3 DEF Sums
  <2> QED
    BY <2>4, <2>5, <2>6 DEF Account
<1>4. CASE left # 1
  <2>1. down' = ToAgent("in") /\ inFlight' = inFlight + 1 /\ held' = (inFlight' >= InWindow)
    BY <1>4 DEF ClientSends
  <2>2. /\ down' \in Seq(Down) /\ (~Alive => down' = down) /\ Acks' = Acks
        /\ Ins' \in {Ins, Ins + 1}
        /\ \A i \in 1..Len(down') : down'[i] \in Calls => git = "none"
    BY <2>1, DownCounts, TellsGit, AccountQueues DEF Account
  <2>3. left' \in 1..(In + 1) /\ inFlight' + left' <= In + 1 /\ inFlight' \in 0..In
    BY <1>1, <1>2, <1>4, <2>1 DEF Account, Sums, SumOut, SumIn, SumLeft
  <2>4. TypeOK'
    BY <1>1, <1>2, <2>1, <2>2, <2>3 DEF Account, TypeOK, Alive
  <2>5. StartInv'
    BY <1>1, <1>2, <2>2 DEF Account, StartInv
  <2>6. Bounds'
    <3>1. inFlight < InWindow
      BY <1>1 DEF Account, Bounds, BoundOut, BoundIn
    <3>2. inFlight' <= InWindow
      BY <1>2, <2>1, <3>1
    <3>3. inFlight' \in Nat /\ InWindow \in Nat /\ held' = (inFlight' >= InWindow)
      BY <1>2, <2>1
    <3>4. held' \/ inFlight' < InWindow
      BY <3>3, BelowWindow
    <3> QED
      BY <1>1, <3>2, <3>4 DEF Account, Bounds, BoundOut, BoundIn
  <2>7. Sums'
    <3>0. stdin' = stdin /\ (Ins' = Ins \/ Ins' = Ins + 1)
      BY <1>1, <2>2
    <3>1. Ins' + stdin' + Inacks' <= inFlight'
      BY <1>2, <2>1, <3>0, OldSums
    <3>2. inFlight' <= In
      BY <1>2, <2>3
    <3> QED
      BY <1>1, <1>2, <2>2, <2>3, <3>1, <3>2 DEF Account, Sums, SumOut, SumIn, SumLeft
  <2> QED
    BY <2>4, <2>5, <2>6, <2>7 DEF Account
<1> QED
  BY <1>3, <1>4

LEMMA AccountInit == Init => Account
<1> SUFFICES ASSUME Init PROVE Account
  OBVIOUS
<1>1. down \in Seq(Down) /\ Len(down) = 1 /\ down[1] = "start"
  BY DEF Init, Down
<1>2. up = <<>> /\ up \in Seq(UpFrame) /\ Len(up) = 0 /\ writes = <<>> /\ writes \in Seq(1..Out)
  BY DEF Init
<1>3. Outs = 0 /\ Inacks = 0
  <2>1. \A i \in 1..Len(up) : FALSE
    BY <1>2
  <2> QED
    BY <1>2, <2>1, CountFacts DEF Outs, Inacks
<1>4. Acks = 0 /\ Ins = 0
  <2>1. \A i \in 1..Len(down) : down[i] \notin {"ack"}
    BY <1>1
  <2>2. \A i \in 1..Len(down) : down[i] \notin {"in"}
    BY <1>1
  <2>3. Acks = 0
    BY <1>1, <2>1, CountFacts DEF Acks
  <2>4. Ins = 0
    BY <1>1, <2>2, CountFacts DEF Ins
  <2> QED
    BY <2>3, <2>4
<1>5. TypeOK
  <2>1. Out \in Nat /\ In \in Nat
    BY StreamAssumption
  <2>2. /\ down \in Seq(Down) /\ up \in Seq(UpFrame)
        /\ socket \subseteq {"agent", "server"} /\ (~Alive => down = <<>> /\ up = <<>>)
    BY <1>1, <1>2 DEF Init, Alive
  <2>3. /\ git \in {"none", "running", "exited", "gone"} /\ code \in {0, 1}
        /\ written \in 0..Out /\ read \in 0..written /\ written - read <= Pipe
        /\ unacked \in 0..Out /\ stdin \in 0..In
    BY <2>1, StreamAssumption DEF Init
  <2>4. paused \in BOOLEAN /\ stalled \in BOOLEAN /\ eof \in BOOLEAN /\ timedOut \in BOOLEAN /\ held \in BOOLEAN /\ hungUp \in BOOLEAN
    BY DEF Init
  <2>5. /\ relay \in Waiting \cup {"answered", "open", "done"} /\ outcome \in 0..2
        /\ inFlight \in 0..In /\ left \in 0..(In + 1) /\ got \subseteq 1..Out
        /\ status \in 0..2 /\ (status # 2 => relay = "done") /\ lost \in 0..Out
    BY <2>1 DEF Init, Waiting
  <2> QED
    BY <1>2, <2>2, <2>3, <2>4, <2>5 DEF TypeOK
<1>6. StartInv
  BY <1>1, <1>2 DEF Init, StartInv, Waiting
<1>7. Sums /\ Bounds
  BY <1>2, <1>3, <1>4, StreamAssumption DEF Init, Sums, SumOut, SumIn, SumLeft, Bounds, BoundOut, BoundIn
<1> QED
  BY <1>5, <1>6, <1>7 DEF Account

LEMMA AccountStep == Account /\ [Next]_vars => Account'
<1> SUFFICES ASSUME Account, [Next]_vars PROVE Account'
  OBVIOUS
<1>1. CASE UNCHANGED vars
  <2>1. /\ UNCHANGED <<up, down, socket, git, code, written, read, stdin, eof, unacked, paused, stalled>>
        /\ UNCHANGED <<relay, outcome, timedOut, inFlight, left, held, writes, got, status, hungUp, lost>>
    BY <1>1 DEF vars, agentVars, gitVars, relayVars, chanVars
  <2>2. TypeOK' /\ StartInv'
    BY <2>1 DEF Account, TypeOK, StartInv, Alive
  <2>3. Sums' /\ Bounds'
    BY <2>1 DEF Account, Sums, SumOut, SumIn, SumLeft, Bounds, BoundOut, BoundIn, Outs, Inacks, Acks, Ins
  <2> QED
    BY <2>2, <2>3 DEF Account
<1>2. CASE GitStep \/ GitStops
  BY <1>2, GitAccount, GitReadsAccount DEF GitStep
<1>3. CASE AgentStep
  BY <1>3, AgentOutAccount, AgentCloseAccount, AgentFrameAccount DEF AgentStep
<1>4. CASE RelayStep \/ RpcTimesOut
  BY <1>4, RelayFrameAccount, RelayMovesAccount, FlushAccount DEF RelayStep
<1>5. CASE Disconnects \/ RelayTimer \/ ClientSends \/ HangUp
  BY <1>5, DisconnectAccount, KillAccount, ClientAccount
<1> QED
  BY <1>1, <1>2, <1>3, <1>4, <1>5 DEF Next

\* Every variable keeps its type: no counter of either window ever goes below
\* zero or above what was sent, whatever is lost, dropped or acknowledged late.
THEOREM TypeCorrect == Spec => []TypeOK
<1>1. Account => TypeOK
  BY DEF Account
<1> QED
  BY <1>1, AccountInit, AccountStep, PTL DEF Spec

\* Neither sender ever has more than a window on its way, and one that has not
\* paused has less: also when frames are dropped, and the acks with them.
THEOREM NeverAboveWindow == Spec => []Bounds
<1>1. Account => Bounds
  BY DEF Account
<1> QED
  BY <1>1, AccountInit, AccountStep, PTL DEF Spec

-----------------------------------------------------------------------------
(* Nothing of the outgoing window is unaccounted for *)

Live == Alive /\ outcome = 2 /\ relay # "done" /\ git # "gone"
Due  == unacked = Outs + Len(writes) + Acks + lost

\* While the session lives, what is not acknowledged is under way, in the
\* channel, or lost for want of a handle.
Kept == Live => Due

LEMMA DueNat ==
  Account => /\ Outs \in Nat /\ Acks \in Nat /\ Len(writes) \in Nat /\ lost \in Nat /\ unacked \in Nat
             /\ Queues /\ StartInv
BY CountsNat, AccountQueues DEF Account, Queues, TypeOK

LEMMA DueStays ==
  ASSUME Due, UNCHANGED <<unacked, writes, lost>>, Outs' = Outs, Acks' = Acks
  PROVE  Due'
BY DEF Due

LEMMA KeptAgent ==
  ASSUME Account, Kept, GitStep \/ GitStops \/ AgentOut \/ AgentClose
  PROVE  Kept'
<1> SUFFICES ASSUME Live' PROVE Due'
  BY DEF Kept
<1>1. UNCHANGED <<socket, outcome, relay, writes, lost, down>>
  BY DEF GitStep, GitWrites, GitReads, GitIsDone, GitStops, AgentOut, AgentClose, relayVars, chanVars
<1>2. /\ Outs \in Nat /\ Acks \in Nat /\ Len(writes) \in Nat /\ lost \in Nat /\ unacked \in Nat
      /\ Queues /\ StartInv
  BY DueNat
<1>3. Acks' = Acks
  BY <1>1 DEF Acks
<1>4. Alive
  BY <1>1 DEF Live, Alive
<1>5. ASSUME git # "gone" PROVE Due
  BY <1>1, <1>4, <1>5 DEF Kept, Live
<1>6. CASE GitWrites \/ GitIsDone \/ GitStops
  <2>1. UNCHANGED <<up, unacked>> /\ git # "gone"
    BY <1>6 DEF GitWrites, GitIsDone, GitStops
  <2>2. Outs' = Outs
    BY <2>1 DEF Outs
  <2> QED
    BY <1>1, <1>3, <1>5, <2>1, <2>2, DueStays
<1>7. CASE GitReads
  <2>1. PICK f \in UpFrame : f = [type |-> "inack"] /\ f.type = "inack"
    BY Frames
  <2>2. Up(f) /\ git # "gone" /\ UNCHANGED unacked
    BY <1>7, <2>1 DEF GitReads
  <2>3. Outs' = Outs
    BY <1>2, <2>1, <2>2, UpCounts
  <2> QED
    BY <1>1, <1>3, <1>5, <2>2, <2>3, DueStays
<1>8. CASE AgentOut
  <2>1. read + 1 \in 1..Out
    BY <1>8, StreamAssumption DEF AgentOut, Account, TypeOK
  <2>2. PICK f \in UpFrame : f = OutFrame(read + 1) /\ f.type = "out"
    BY <2>1, Frames
  <2>3. Up(f) /\ git # "gone" /\ unacked' = unacked + 1
    BY <1>8, <2>2 DEF AgentOut, OutFrame
  <2>4. Outs' = Outs + 1
    BY <1>2, <1>4, <2>2, <2>3, UpCounts
  <2>5. unacked = Outs + Len(writes) + Acks + lost
    BY <1>5, <2>3 DEF Due
  <2> QED
    BY <1>1, <1>2, <1>3, <2>3, <2>4, <2>5 DEF Due
<1>9. CASE AgentClose
  BY <1>9 DEF AgentClose, Live
<1> QED
  BY <1>6, <1>7, <1>8, <1>9 DEF GitStep

LEMMA KeptAgentFrame ==
  ASSUME Account, Kept, AgentFrame
  PROVE  Kept'
<1> SUFFICES ASSUME Live' PROVE Due'
  BY DEF Kept
<1>1. /\ down # <<>> /\ down' = Tail(down)
      /\ UNCHANGED <<socket, outcome, relay, writes, lost>>
  BY DEF AgentFrame, relayVars, chanVars
<1>2. /\ Outs \in Nat /\ Acks \in Nat /\ Len(writes) \in Nat /\ lost \in Nat /\ unacked \in Nat
      /\ Queues /\ StartInv
  BY DueNat
<1>3. /\ Head(down) \in Calls => git = "none"
      /\ Acks' = IF Head(down) = "ack" THEN Acks - 1 ELSE Acks
  BY <1>1, <1>2, DownTakes
<1>4. ASSUME git # "gone" PROVE Due
  BY <1>1, <1>4 DEF Kept, Live, Alive
<1>5. CASE AgentStart \/ AgentInit
  <2>1. PICK f \in UpFrame : Up(f) /\ f.type \in Answer
    BY <1>5, Frames DEF AgentStart, AgentInit, Answer
  <2>2. Head(down) \in Calls /\ UNCHANGED unacked
    BY <1>5 DEF AgentStart, AgentInit, Calls, agentVars
  <2>3. Outs' = Outs
    BY <1>2, <2>1, UpCounts DEF Answer
  <2>4. Acks' = Acks /\ git # "gone"
    BY <1>3, <2>2 DEF Calls
  <2> QED
    BY <1>1, <1>4, <2>2, <2>3, <2>4, DueStays
<1>6. CASE AgentAck
  <2>1. git # "gone" /\ Head(down) = "ack" /\ unacked' = unacked - 1 /\ UNCHANGED up
    BY <1>6 DEF AgentAck
  <2>2. Outs' = Outs /\ Acks' = Acks - 1
    BY <1>3, <2>1 DEF Outs
  <2>3. unacked = Outs + Len(writes) + Acks + lost
    BY <1>4, <2>1 DEF Due
  <2> QED
    BY <1>1, <1>2, <2>1, <2>2, <2>3 DEF Due
<1>7. CASE AgentIn \/ AgentKill \/ AgentLate
  <2>1. UNCHANGED <<up, unacked>> /\ git # "gone" /\ Head(down) # "ack"
    BY <1>7, <1>3 DEF AgentIn, AgentKill, AgentLate, agentVars, gitVars, Live
  <2>2. Outs' = Outs /\ Acks' = Acks
    BY <1>3, <2>1 DEF Outs
  <2> QED
    BY <1>1, <1>4, <2>1, <2>2, DueStays
<1> QED
  BY <1>5, <1>6, <1>7 DEF AgentFrame

LEMMA KeptRelayFrame ==
  ASSUME NoneDropped, Account, AnswerInv, Kept, RelayFrame
  PROVE  Kept'
<1> SUFFICES ASSUME Live' PROVE Due'
  BY DEF Kept
<1>1. /\ up # <<>> /\ up' = Tail(up) /\ UNCHANGED <<socket, git, unacked, lost>>
  BY DEF RelayFrame, agentVars, gitVars
<1>2. RelayAnswered \/ ((RelayOut \/ RelayAck \/ RelayExit) /\ UNCHANGED down)
  BY DEF RelayFrame, NoneDropped
<1>3. /\ Outs \in Nat /\ Acks \in Nat /\ Len(writes) \in Nat /\ lost \in Nat /\ unacked \in Nat
      /\ Queues /\ StartInv
  BY DueNat
<1>4. /\ Head(up) \in UpFrame /\ Head(up) = up[1]
      /\ Outs' = IF Head(up).type = "out" THEN Outs - 1 ELSE Outs
  BY <1>1, <1>3, UpTakes
<1>5. Acks' = Acks
  <2>1. CASE UNCHANGED down
    BY <2>1 DEF Acks
  <2>2. CASE relay \in Waiting /\ Retries(Head(up).type)
    <3>1. git = "none"
      BY <1>1, <1>3, <1>4, <2>2 DEF Retries, StartInv, Queues
    <3>2. down' \in {ToAgent("init"), ToAgent("start")}
      BY <2>2 DEF Retries
    <3>3. CASE down' = ToAgent("init")
      BY <1>3, <3>1, <3>3, DownCounts DEF Down
    <3>4. CASE down' = ToAgent("start")
      BY <1>3, <3>1, <3>4, DownCounts DEF Down
    <3> QED
      BY <3>2, <3>3, <3>4
  <2> QED
    BY <1>2, <2>1, <2>2 DEF RelayAnswered
<1>6. Live
  <2>1. Alive /\ git # "gone"
    BY <1>1 DEF Live, Alive
  <2>2. outcome = 2
    <3>1. outcome' = outcome \/ (outcome' \in {0, 1})
      BY <1>2, <1>4, Kinds DEF RelayAnswered, RelayOut, RelayAck, RelayExit
    <3> QED
      BY <3>1 DEF Live
  <2>3. relay # "done"
    BY <1>2 DEF Waiting, Live, RelayAnswered, RelayOut, RelayAck, RelayExit
  <2> QED
    BY <2>1, <2>2, <2>3 DEF Live
<1>7. Due
  BY <1>6 DEF Kept
<1>8. CASE RelayOut
  <2>1. Head(up).type = "out" /\ writes' = IF Registered THEN Append(writes, Head(up).unit) ELSE writes
    BY <1>8 DEF RelayOut
  <2>2. Registered
    <3>1. relay \notin Waiting
      BY <1>1, <1>4, <2>1 DEF AnswerInv, Answer
    <3>2. relay \in {"answered", "open"} /\ outcome = 2
      BY <1>6, <3>1 DEF Live, Account, TypeOK
    <3> QED
      BY <3>2 DEF Registered
  <2>3. Len(writes') = Len(writes) + 1
    <3>1. PICK S : S = 1..Out
      OBVIOUS
    <3>2. writes \in Seq(S) /\ Head(up).unit \in S
      BY <1>4, <2>1, <3>1, Kinds DEF Account, TypeOK
    <3> QED
      BY <2>1, <2>2, <3>2
  <2>4. Outs' = Outs - 1
    BY <1>4, <2>1
  <2>5. unacked = Outs + Len(writes) + Acks + lost
    BY <1>7 DEF Due
  <2> QED
    BY <1>1, <1>3, <1>5, <2>3, <2>4, <2>5 DEF Due
<1>9. CASE RelayAnswered \/ RelayAck \/ RelayExit
  <2>1. Head(up).type # "out" /\ writes' = writes
    BY <1>9 DEF RelayAnswered, RelayAck, RelayExit, Answer
  <2> QED
    BY <1>1, <1>4, <1>5, <1>7, <2>1, DueStays
<1> QED
  BY <1>2, <1>8, <1>9

LEMMA KeptChannel ==
  ASSUME Account, Kept,
         Flush \/ RelayOpens \/ RelayEnds \/ RpcTimesOut \/ RelayTimer \/ ClientSends \/ HangUp \/ Disconnects
  PROVE  Kept'
<1> SUFFICES ASSUME Live' PROVE Due'
  BY DEF Kept
<1>1. /\ Outs \in Nat /\ Acks \in Nat /\ Len(writes) \in Nat /\ lost \in Nat /\ unacked \in Nat
      /\ Queues /\ StartInv
  BY DueNat
<1>2. CASE Flush
  <2>1. /\ writes # <<>> /\ writes' = Tail(writes) /\ UNCHANGED <<up, socket, git, unacked, relay, outcome>>
        /\ \/ lost' = lost + 1 /\ down' = down
           \/ lost' = lost /\ down' = ToAgent("ack")
    BY <1>2 DEF Flush, agentVars, gitVars
  <2>2. Live /\ Alive /\ outcome = 2
    BY <2>1 DEF Live, Alive
  <2>3. unacked = Outs + Len(writes) + Acks + lost
    BY <2>2 DEF Kept, Due
  <2>4. Len(writes') = Len(writes) - 1
    BY <2>1 DEF Account, TypeOK
  <2>5. Outs' = Outs
    BY <2>1 DEF Outs
  <2>6. CASE lost' = lost + 1 /\ down' = down
    <3>1. Acks' = Acks
      BY <2>6 DEF Acks
    <3> QED
      BY <1>1, <2>1, <2>3, <2>4, <2>5, <2>6, <3>1 DEF Due
  <2>7. CASE lost' = lost /\ down' = ToAgent("ack")
    <3>1. Acks' = Acks + 1
      BY <1>1, <2>2, <2>7, DownCounts, TellsGit
    <3> QED
      BY <1>1, <2>1, <2>3, <2>4, <2>5, <2>7, <3>1 DEF Due
  <2> QED
    BY <2>1, <2>6, <2>7
<1>3. CASE RelayOpens
  <2>1. UNCHANGED <<socket, outcome, git, up, down, unacked, writes, lost>> /\ relay # "done"
    BY <1>3 DEF RelayOpens, agentVars, gitVars, chanVars
  <2>2. Due /\ Outs' = Outs /\ Acks' = Acks
    BY <2>1 DEF Kept, Live, Alive, Outs, Acks
  <2> QED
    BY <2>1, <2>2, DueStays
<1>4. CASE RelayEnds \/ RpcTimesOut
  BY <1>4 DEF RelayEnds, RpcTimesOut, Fails, Live
<1>5. CASE RelayTimer \/ ClientSends \/ HangUp
  <2>1. /\ UNCHANGED <<socket, outcome, relay, git, up, unacked, writes, lost>>
        /\ \/ down' = down
           \/ \E m \in {"kill", "in", "eof"} : down' = ToAgent(m)
    BY <1>5 DEF RelayTimer, ClientSends, HangUp, agentVars, gitVars, chanVars
  <2>2. Due /\ Outs' = Outs
    BY <2>1 DEF Kept, Live, Alive, Outs
  <2>3. Acks' = Acks
    <3>1. CASE down' = down
      BY <3>1 DEF Acks
    <3>2. CASE \E m \in {"kill", "in", "eof"} : down' = ToAgent(m)
      BY <1>1, <3>2, DownCounts, TellsGit
    <3> QED
      BY <2>1, <3>1, <3>2
  <2> QED
    BY <2>1, <2>2, <2>3, DueStays
<1>6. CASE Disconnects
  <2>1. ~Alive'
    BY <1>6 DEF Disconnects, AgentDisconnects, ServerDisconnects, Alive
  <2> QED
    BY <2>1 DEF Live
<1> QED
  BY <1>2, <1>3, <1>4, <1>5, <1>6

LEMMA KeptStep ==
  ASSUME NoneDropped, Account, StreamInv, Kept, [Next]_vars
  PROVE  Kept'
<1>1. CASE UNCHANGED vars
  <2>1. UNCHANGED <<socket, outcome, relay, git, up, down, unacked, writes, lost>>
    BY <1>1 DEF vars, agentVars, gitVars, relayVars, chanVars
  <2> QED
    BY <2>1 DEF Kept, Live, Due, Alive, Outs, Acks
<1>2. CASE GitStep \/ GitStops \/ AgentStep
  BY <1>2, KeptAgent, KeptAgentFrame DEF AgentStep
<1>3. CASE RelayFrame
  BY <1>3, KeptRelayFrame DEF StreamInv
<1>4. CASE RelayStep \/ RpcTimesOut \/ RelayTimer \/ ClientSends \/ HangUp \/ Disconnects
  BY <1>3, <1>4, KeptChannel DEF RelayStep
<1> QED
  BY <1>1, <1>2, <1>3, <1>4 DEF Next

LEMMA KeptInit == Init => Kept
<1> SUFFICES ASSUME Init PROVE Due
  BY DEF Kept
<1>1. Account
  BY AccountInit
<1>2. Outs + Len(writes) + Acks + lost <= unacked /\ unacked = 0
  BY <1>1, OldSums DEF Init
<1> QED
  BY <1>1, <1>2, DueNat DEF Due

\* The places and the counts are the same.
LEMMA SameCounts ==
  Account => Cardinality(InUp) = Outs /\ Cardinality(InDown) = Acks
<1> SUFFICES ASSUME Account PROVE Cardinality(InUp) = Outs /\ Cardinality(InDown) = Acks
  OBVIOUS
<1>1. up \in Seq(UpFrame)
  BY DEF Account, TypeOK
<1>2. \A i \in 1..Len(up) : up[i] \in UpFrame
  BY <1>1
<1>3. InUp = Places(up, OfType("out"))
  BY <1>2 DEF InUp, Places, OfType
<1>4. InDown = Places(down, {"ack"})
  BY DEF InDown, Places
<1> QED
  BY <1>3, <1>4 DEF Outs, Acks, Count

\* The window's account holds, and neither window is ever exceeded, however
\* late an ack is and whatever ends first.
THEOREM WindowKeptHolds ==
  ASSUME NoneDropped
  PROVE  Spec => []WindowKept
<1> DEFINE I == StreamInv /\ Account /\ Kept
<1>1. Init => I
  BY StreamInit, AccountInit, KeptInit
<1>2. I /\ [Next]_vars => I'
  BY StreamStep, AccountStep, KeptStep
<1>3. I => WindowKept
  <2> SUFFICES ASSUME I PROVE WindowKept
    OBVIOUS
  <2>1. ASSUME Alive, Registered, git \in {"running", "exited"}
        PROVE  unacked = Cardinality(InUp) + Len(writes) + Cardinality(InDown) + lost
    <3>1. Live
      BY <2>1 DEF Live, Registered
    <3> QED
      BY <3>1, SameCounts DEF Kept, Due
  <2>2. git = "running" => unacked <= Window
    BY DEF Account, Bounds, BoundOut
  <2>3. inFlight <= InWindow
    BY DEF Account, Bounds, BoundIn
  <2> QED
    BY <2>1, <2>2, <2>3 DEF WindowKept
<1> QED
  BY <1>1, <1>2, <1>3, PTL DEF Spec
=============================================================================
