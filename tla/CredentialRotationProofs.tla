---------------------- MODULE CredentialRotationProofs ----------------------
(***************************************************************************)
(* Proofs about CredentialRotation, for any number of sockets, rotations,   *)
(* lost connections and restarts, and for answers as late as they like:     *)
(*  - the variables keep their types;                                       *)
(*  - the pair the server holds stays in the folder, while a drive's        *)
(*    rotations are of one kind (with the excuses NeverLockedOut names);    *)
(*  - a connected device is reachable (with those of ConnectedIsReachable); *)
(*  - rotations by hand follow each other.                                  *)
(* Queues are seen as the sets of their frames of a kind: only the order of *)
(* a "hello", a request and an answer among the others ever matters.        *)
(***************************************************************************)
EXTENDS CredentialRotation, SequenceTheorems, TLAPS

-----------------------------------------------------------------------------
(* Queues, as sets of frames *)

\* The frames of a kind, and a kind of which there is one, at the front or at the end.
Of(q, k)    == {q[i] : i \in {n \in DOMAIN q : q[n].kind = k}}
First(q, k) == \A i \in DOMAIN q : q[i].kind = k => i = 1
Last(q, k)  == \A i \in DOMAIN q : q[i].kind = k => i = Len(q)

LEMMA EmptyQueue ==
  \A k : Of(<<>>, k) = {} /\ First(<<>>, k) /\ Last(<<>>, k)
BY DEF Of, First, Last

LEMMA AppendQueue ==
  ASSUME NEW q \in Seq(Frame), NEW f \in Frame
  PROVE  /\ Append(q, f) \in Seq(Frame)
         /\ \A k : /\ Of(Append(q, f), k) = Of(q, k) \cup (IF f.kind = k THEN {f} ELSE {})
                   /\ First(q, k) /\ (f.kind # k \/ q = <<>>) => First(Append(q, f), k)
                   /\ Of(q, k) = {} => Last(Append(q, f), k)
<1> DEFINE r == Append(q, f)
<1>1. /\ r \in Seq(Frame) /\ Len(q) \in Nat /\ Len(r) = Len(q) + 1
      /\ DOMAIN q = 1 .. Len(q) /\ DOMAIN r = 1 .. Len(q) + 1
  OBVIOUS
<1>2. r[Len(q) + 1] = f /\ \A i \in 1 .. Len(q) : r[i] = q[i]
  OBVIOUS
<1>3. q = <<>> => Len(q) = 0
  OBVIOUS
<1> HIDE DEF r
<1>4. ASSUME NEW k PROVE Of(r, k) = Of(q, k) \cup (IF f.kind = k THEN {f} ELSE {})
  <2>1. ASSUME NEW g \in Of(r, k) PROVE g \in Of(q, k) \cup (IF f.kind = k THEN {f} ELSE {})
    <3>1. PICK i \in 1 .. Len(q) + 1 : r[i] = g /\ g.kind = k
      BY <1>1 DEF Of
    <3>2. CASE i = Len(q) + 1
      BY <3>1, <3>2, <1>2
    <3>3. CASE i \in 1 .. Len(q)
      BY <3>1, <3>3, <1>1, <1>2 DEF Of
    <3>4. QED
      BY <3>2, <3>3, <1>1
  <2>2. ASSUME NEW g \in Of(q, k) PROVE g \in Of(r, k)
    <3>1. PICK i \in 1 .. Len(q) : q[i] = g /\ g.kind = k
      BY <1>1 DEF Of
    <3>2. i \in DOMAIN r /\ r[i] = g
      BY <3>1, <1>1, <1>2
    <3>3. QED
      BY <3>1, <3>2 DEF Of
  <2>3. f.kind = k => f \in Of(r, k)
    <3>1. Len(q) + 1 \in DOMAIN r
      BY <1>1
    <3>2. QED
      BY <3>1, <1>2 DEF Of
  <2>4. QED
    BY <2>1, <2>2, <2>3
<1>5. ASSUME NEW k, First(q, k), f.kind # k \/ q = <<>> PROVE First(r, k)
  BY <1>1, <1>2, <1>3, <1>5 DEF First
<1>6. ASSUME NEW k, Of(q, k) = {} PROVE Last(r, k)
  <2>1. \A i \in 1 .. Len(q) : q[i].kind # k
    BY <1>1, <1>6 DEF Of
  <2>2. QED
    BY <1>1, <1>2, <2>1 DEF Last
<1>7. QED
  BY <1>1, <1>4, <1>5, <1>6 DEF r

LEMMA TailQueue ==
  ASSUME NEW q \in Seq(Frame), q # <<>>
  PROVE  /\ Head(q) \in Frame /\ Tail(q) \in Seq(Frame)
         /\ \A k : /\ Of(Tail(q), k) \subseteq Of(q, k)
                   /\ Head(q).kind = k => Head(q) \in Of(q, k)
                   /\ First(q, k) => First(Tail(q), k) /\ Of(Tail(q), k) = {}
                   /\ Last(q, k) => Last(Tail(q), k) /\ (Head(q).kind = k => Of(Tail(q), k) = {})
<1> DEFINE r == Tail(q)
<1>1. /\ Head(q) \in Frame /\ r \in Seq(Frame) /\ Len(q) \in Nat \ {0} /\ Len(r) = Len(q) - 1
      /\ DOMAIN q = 1 .. Len(q) /\ DOMAIN r = 1 .. Len(q) - 1
  OBVIOUS
<1>2. Head(q) = q[1] /\ \A i \in 1 .. Len(q) - 1 : r[i] = q[i + 1]
  OBVIOUS
<1> HIDE DEF r
<1>3. ASSUME NEW k PROVE Of(r, k) \subseteq Of(q, k)
  <2>1. ASSUME NEW g \in Of(r, k) PROVE g \in Of(q, k)
    <3>1. PICK i \in 1 .. Len(q) - 1 : r[i] = g /\ g.kind = k
      BY <1>1 DEF Of
    <3>2. i + 1 \in DOMAIN q /\ q[i + 1] = g
      BY <3>1, <1>1, <1>2
    <3>3. QED
      BY <3>1, <3>2 DEF Of
  <2>2. QED
    BY <2>1
<1>4. ASSUME NEW k, Head(q).kind = k PROVE Head(q) \in Of(q, k)
  BY <1>1, <1>2, <1>4 DEF Of
<1>5. ASSUME NEW k, First(q, k) PROVE First(r, k) /\ Of(r, k) = {}
  <2>1. \A i \in 1 .. Len(q) - 1 : r[i].kind # k
    BY <1>1, <1>2, <1>5 DEF First
  <2>2. QED
    BY <1>1, <2>1 DEF First, Of
<1>6. ASSUME NEW k, Last(q, k) PROVE Last(r, k) /\ (Head(q).kind = k => Of(r, k) = {})
  <2>1. Last(r, k)
    BY <1>1, <1>2, <1>6 DEF Last
  <2>2. ASSUME Head(q).kind = k PROVE Of(r, k) = {}
    <3>1. Len(q) = 1
      BY <1>1, <1>2, <1>6, <2>2 DEF Last
    <3>2. DOMAIN r = {}
      BY <3>1, <1>1
    <3>3. QED
      BY <3>2 DEF Of
  <2>3. QED
    BY <2>1, <2>2
<1>7. QED
  BY <1>1, <1>3, <1>4, <1>5, <1>6 DEF r

LEMMA Frames ==
  \A k \in {"hello", "rotate", "refused", "ok", "bye"}, p \in Pair, s \in Pair :
     /\ Message(k, p, s) \in Frame
     /\ Message(k, p, s).kind = k /\ Message(k, p, s).pair = p /\ Message(k, p, s).sig = s
BY DEF Message, Frame

LEMMA Pairs ==
  /\ 0 \in Pair /\ None \notin Pair /\ NoConn \notin Conn
  /\ \A p \in Pair : p # None /\ p \in Int
BY RotationAssumption DEF Pair, None

\* A frame more on a connected socket.
LEMMA PushType ==
  ASSUME TypeOK, NEW c \in Conn, NEW f \in Frame, NEW q \in [Conn -> Seq(Frame)]
  PROVE  /\ Push(q, c, f) \in [Conn -> Seq(Frame)]
         /\ \A d \in Conn : Push(q, c, f)[d] = IF d = c /\ link[c] THEN Append(q[c], f) ELSE q[d]
<1>1. Append(q[c], f) \in Seq(Frame)
  OBVIOUS
<1>2. QED
  BY <1>1 DEF Push

LEMMA TailType ==
  \A q \in [Conn -> Seq(Frame)], c \in Conn :
     q[c] # <<>> => [q EXCEPT ![c] = Tail(@)] \in [Conn -> Seq(Frame)]
<1>1. TAKE q \in [Conn -> Seq(Frame)], c \in Conn
<1>2. HAVE q[c] # <<>>
<1>3. Tail(q[c]) \in Seq(Frame)
  BY <1>2
<1>4. QED
  BY <1>3

\* What becomes of the server's end of a socket.
Into(e, s)    == [e EXCEPT !.state = s]
Swept(e)      == [e EXCEPT !.swept = TRUE]
Expired(e)    == [e EXCEPT !.prev = None]
Holding(e, p) == [e EXCEPT !.prev = e.secret, !.secret = p]

LEMMA EntryTypes ==
  \A e \in Entry :
     /\ \A s \in State : /\ Into(e, s) \in Entry
                         /\ Into(e, s).state = s /\ Into(e, s).secret = e.secret
     /\ Swept(e) \in Entry /\ Swept(e).state = e.state /\ Swept(e).secret = e.secret
     /\ Expired(e) \in Entry /\ Expired(e).state = e.state /\ Expired(e).secret = e.secret
     /\ \A p \in Pair : /\ Holding(e, p) \in Entry
                        /\ Holding(e, p).state = e.state /\ Holding(e, p).secret = p
BY Pairs DEF Entry, Into, Swept, Expired, Holding

LEMMA NoEntryType == NoEntry \in Entry /\ NoEntry.state = "none"
BY Pairs DEF Entry, NoEntry, State

-----------------------------------------------------------------------------
(* The types *)

LEMMA TypeInit == Init => TypeOK
<1> SUFFICES ASSUME Init PROVE TypeOK
  OBVIOUS
<1>1. stored \in Pair /\ mem \in Kept /\ disk \in Kept /\ token \in [Conn -> Pair]
  BY Pairs DEF Init, Kept
<1>2. srv \in [Conn -> Entry] /\ jobs \subseteq Job /\ link \in [Conn -> BOOLEAN] /\ owed \in Nat
  BY NoEntryType DEF Init
<1>3. toAgent \in [Conn -> Seq(Frame)] /\ toServer \in [Conn -> Seq(Frame)]
  BY DEF Init
<1>4. lives \in 0 .. MaxLive /\ manuals \in 0 .. MaxManual /\ drops \in 0 .. MaxDrops
  BY RotationAssumption DEF Init
<1>5. QED
  BY <1>1, <1>2, <1>3, <1>4 DEF Init, TypeOK

\* Fresh pairs are within the bounds.
LEMMA FreshType ==
  ASSUME TypeOK, lives < MaxLive \/ manuals < MaxManual
  PROVE  Fresh \in Pair
BY RotationAssumption DEF TypeOK, Fresh, Pair

LEMMA PushedType ==
  ASSUME TypeOK, NEW c \in Conn
  PROVE  \A k \in {"hello", "rotate", "refused", "ok", "bye"}, p \in Pair, s \in Pair :
            /\ Push(toAgent, c, Message(k, p, s)) \in [Conn -> Seq(Frame)]
            /\ Push(toServer, c, Message(k, p, s)) \in [Conn -> Seq(Frame)]
<1>1. TAKE k \in {"hello", "rotate", "refused", "ok", "bye"}, p \in Pair, s \in Pair
<1>2. PICK f \in Frame : f = Message(k, p, s)
  BY Frames
<1>3. toAgent \in [Conn -> Seq(Frame)] /\ toServer \in [Conn -> Seq(Frame)]
  BY DEF TypeOK
<1>4. Push(toAgent, c, f) \in [Conn -> Seq(Frame)] /\ Push(toServer, c, f) \in [Conn -> Seq(Frame)]
  BY <1>3, PushType
<1>5. QED
  BY <1>2, <1>4

\* The server's end of one socket changes, but a primary stays open.
LEMMA EndType ==
  ASSUME TypeOK, NEW c \in Conn,
         NEW s \in State, srv[c].state \notin {"open", "ghost"},
         srv' = [srv EXCEPT ![c].state = s], primary' \in {primary, c},
         primary' = c => s \in {"open", "ghost"}
  PROVE  /\ srv' \in [Conn -> Entry] /\ primary' \in Conn \cup {NoConn}
         /\ primary' # NoConn => srv'[primary'].state \in {"open", "ghost"}
         /\ srv'[c].state = s /\ srv'[c].secret = srv[c].secret
         /\ \A d \in Conn \ {c} : srv'[d] = srv[d]
<1>1. srv[c] \in Entry
  BY DEF TypeOK
<1>2. srv' = [srv EXCEPT ![c] = Into(srv[c], s)]
  BY DEF Into
<1>3. /\ Into(srv[c], s) \in Entry /\ Into(srv[c], s).state = s
      /\ Into(srv[c], s).secret = srv[c].secret
  BY <1>1, EntryTypes
<1>4. /\ srv' \in [Conn -> Entry] /\ srv'[c].state = s /\ srv'[c].secret = srv[c].secret
      /\ \A d \in Conn \ {c} : srv'[d] = srv[d]
  BY <1>2, <1>3 DEF TypeOK
<1>5. QED
  BY <1>4, Pairs DEF TypeOK

\* A token that was compared: what the server's end is then.
LEMMA Compared ==
  ASSUME TypeOK, NEW c \in Conn, CloseUnheard(c) \/ Accept(c) \/ Refuse(c)
  PROVE  /\ srv' \in [Conn -> Entry] /\ primary' \in Conn \cup {NoConn}
         /\ primary' # NoConn => srv'[primary'].state \in {"open", "ghost"}
         /\ srv'[c].secret = srv[c].secret
         /\ \A d \in Conn \ {c} : srv'[d] = srv[d]
         /\ CloseUnheard(c) => srv'[c].state = "unheard"
         /\ Accept(c) => srv'[c].state = IF srv[c].state = "unheard" THEN "ghost" ELSE "open"
         /\ Refuse(c) => srv'[c].state = "rejected"
<1>1. srv[c].state \notin {"open", "ghost"} /\ primary # c /\ srv[c] \in Entry
  BY Pairs DEF CloseUnheard, Accept, Refuse, TypeOK
<1> DEFINE Common(s) ==
            /\ srv' \in [Conn -> Entry] /\ primary' \in Conn \cup {NoConn}
            /\ primary' # NoConn => srv'[primary'].state \in {"open", "ghost"}
            /\ srv'[c].secret = srv[c].secret /\ srv'[c].state = s
            /\ \A d \in Conn \ {c} : srv'[d] = srv[d]
<1>2. CloseUnheard(c) => Common("unheard")
  BY <1>1, EndType DEF CloseUnheard, State
<1>3. Refuse(c) => Common("rejected")
  BY <1>1, EndType DEF Refuse, State
<1>4. ASSUME Accept(c) PROVE Common(IF srv[c].state = "unheard" THEN "ghost" ELSE "open")
  <2>1. CASE srv[c].state = "unheard"
    <3>1. srv' = [srv EXCEPT ![c].state = "ghost"] /\ primary' = c
      BY <1>4, <2>1 DEF Accept
    <3>2. Common("ghost")
      BY <1>1, <3>1, EndType DEF State
    <3>3. QED
      BY <2>1, <3>2
  <2>2. CASE srv[c].state # "unheard"
    <3>1. srv' = [srv EXCEPT ![c].state = "open"] /\ primary' = c
      BY <1>4, <2>2 DEF Accept
    <3>2. Common("open")
      BY <1>1, <3>1, EndType DEF State
    <3>3. QED
      BY <2>2, <3>2
  <2>3. QED
    BY <2>1, <2>2
<1>5. QED
  BY <1>2, <1>3, <1>4

LEMMA AcceptsType ==
  ASSUME TypeOK, NEW c \in Conn, CloseUnheard(c) \/ Accept(c) \/ Refuse(c)
  PROVE  TypeOK'
<1>1. /\ srv' \in [Conn -> Entry] /\ primary' \in Conn \cup {NoConn}
      /\ primary' # NoConn => srv'[primary'].state \in {"open", "ghost"}
  BY Compared
<1>2. CASE CloseUnheard(c)
  BY <1>1, <1>2 DEF CloseUnheard, TypeOK, device, wires, bounds
<1>3. CASE Accept(c)
  <2>1. toAgent' \in [Conn -> Seq(Frame)]
    BY <1>3, PushedType, Pairs DEF Accept
  <2>2. owed' \in Nat
    BY <1>3 DEF Accept, TypeOK
  <2>3. QED
    BY <1>1, <1>3, <2>1, <2>2 DEF Accept, TypeOK, device, bounds
<1>4. CASE Refuse(c)
  <2>1. toAgent' \in [Conn -> Seq(Frame)]
    BY <1>4, PushedType, Pairs DEF Refuse
  <2>2. QED
    BY <1>1, <1>4, <2>1 DEF Refuse, TypeOK, device, bounds
<1>5. QED
  BY <1>2, <1>3, <1>4

\* The calls that a close leaves: those that have yet to send, or wait elsewhere.
LEMMA ClosingJobs ==
  ASSUME TypeOK, NEW c \in Conn
  PROVE  /\ Closing(c) \subseteq Job
         /\ \A j \in Closing(c) : \E k \in jobs :
               /\ j.pair = k.pair /\ j.to = k.to /\ k.to # c /\ j.on # c
               /\ j.on = IF k.on = c THEN NoConn ELSE k.on
               /\ j = [k EXCEPT !.on = IF @ = c THEN NoConn ELSE @]
<1>1. ASSUME NEW j \in Closing(c)
      PROVE  /\ j \in Job
             /\ \E k \in jobs :
                   /\ j.pair = k.pair /\ j.to = k.to /\ k.to # c /\ j.on # c
                   /\ j.on = IF k.on = c THEN NoConn ELSE k.on
                   /\ j = [k EXCEPT !.on = IF @ = c THEN NoConn ELSE @]
  <2>1. PICK k \in jobs : k.to # c /\ j = [k EXCEPT !.on = IF @ = c THEN NoConn ELSE @]
    BY DEF Closing
  <2>2. k \in Job
    BY DEF TypeOK
  <2>3. j \in Job /\ j.pair = k.pair /\ j.to = k.to /\ j.on = IF k.on = c THEN NoConn ELSE k.on
    BY <2>1, <2>2 DEF Job
  <2>4. QED
    BY <2>1, <2>3, Pairs
<1>2. QED
  BY <1>1

LEMMA ServerClosesType ==
  ASSUME TypeOK, NEW c \in Conn, ServerCloses(c)
  PROVE  TypeOK'
<1>1. srv' \in [Conn -> Entry] /\ \A d \in Conn \ {c} : srv'[d] = srv[d]
  BY NoEntryType DEF ServerCloses, TypeOK
<1>2. toAgent' \in [Conn -> Seq(Frame)] /\ toServer' \in [Conn -> Seq(Frame)]
  BY DEF ServerCloses, TypeOK
<1>3. jobs' \subseteq Job /\ link' \in [Conn -> BOOLEAN]
  BY ClosingJobs DEF ServerCloses, TypeOK
<1>4. primary' \in Conn \cup {NoConn} /\ (primary' # NoConn => primary' = primary /\ primary # c)
  BY DEF ServerCloses, TypeOK
<1>5. QED
  BY <1>1, <1>2, <1>3, <1>4 DEF ServerCloses, TypeOK, device, bounds

\* A rotation starts: the call, and what the sweep marks.
LEMMA RotatesType ==
  ASSUME TypeOK, SweeperRotates \/ TimerRotates
  PROVE  /\ TypeOK'
         /\ \A d \in Conn : srv'[d].state = srv[d].state /\ srv'[d].secret = srv[d].secret
<1>1. CASE CanRotate /\ Rotate
  <2>1. PICK c \in Conn : c = primary
    BY <1>1 DEF CanRotate, TypeOK
  <2>2. Fresh \in Pair /\ lives' \in 0 .. MaxLive
    BY <1>1, FreshType, RotationAssumption DEF CanRotate, Rotate, TypeOK
  <2>3. jobs' \subseteq Job
    BY <1>1, <2>1, <2>2 DEF Rotate, TypeOK, Job
  <2>4. srv' \in [Conn -> Entry] /\ \A d \in Conn : srv'[d].state = srv[d].state /\ srv'[d].secret = srv[d].secret
    <3>1. CASE srv' = srv
      BY <3>1 DEF TypeOK
    <3>2. CASE srv' = [srv EXCEPT ![primary].swept = TRUE]
      <4>1. srv' = [srv EXCEPT ![c] = Swept(srv[c])]
        BY <3>2, <2>1 DEF Swept
      <4>2. srv[c] \in Entry
        BY DEF TypeOK
      <4>3. QED
        BY <4>1, <4>2, EntryTypes DEF TypeOK
    <3>3. QED
      BY <3>1, <3>2 DEF SweeperRotates, TimerRotates
  <2>5. /\ UNCHANGED <<stored, pending, primary, device, wires, mishaps, manuals, drops>>
        /\ owed' \in Nat
    BY DEF SweeperRotates, TimerRotates, TypeOK
  <2>6. QED
    BY <2>2, <2>3, <2>4, <2>5 DEF TypeOK, device, wires
<1>2. CASE TimerRotates /\ ~CanRotate
  BY <1>2 DEF TimerRotates, TypeOK, device, wires
<1>3. QED
  BY <1>1, <1>2 DEF SweeperRotates, TimerRotates

LEMMA SendsType ==
  ASSUME TypeOK, NEW j \in jobs, SendRotate(j)
  PROVE  TypeOK'
<1>1. CASE primary = NoConn
  BY <1>1 DEF SendRotate, TypeOK, device, bounds
<1>2. CASE primary # NoConn
  <2>1. PICK c \in Conn : c = primary
    BY <1>2 DEF TypeOK
  <2>2. j.pair \in Pair /\ srv[c].secret \in Pair /\ [j EXCEPT !.to = c] \in Job
    <3>1. j \in Job /\ srv[c] \in Entry
      BY DEF TypeOK
    <3>2. QED
      BY <3>1 DEF Job, Entry
  <2>3. toAgent' \in [Conn -> Seq(Frame)]
    <3>1. toAgent' = Push(toAgent, c, Message("rotate", j.pair, srv[c].secret))
      BY <1>2, <2>1 DEF SendRotate
    <3>2. PICK p \in Pair, q \in Pair : p = j.pair /\ q = srv[c].secret
      BY <2>2
    <3>3. Push(toAgent, c, Message("rotate", p, q)) \in [Conn -> Seq(Frame)]
      BY PushedType
    <3>4. QED
      BY <3>1, <3>2, <3>3
  <2>4. jobs' \subseteq Job
    BY <1>2, <2>1, <2>2 DEF SendRotate, TypeOK
  <2>5. mishaps' \subseteq Mishaps
    BY <1>2 DEF SendRotate, TypeOK, Mishaps
  <2>6. QED
    BY <1>2, <2>3, <2>4, <2>5 DEF SendRotate, TypeOK, device, bounds
<1>3. QED
  BY <1>1, <1>2

\* What an answer that is taken does: the call it answers, and where the pair goes.
Answered(c, j) ==
    /\ j \in jobs /\ j.to = c /\ j.pair = Head(toServer[c]).pair
    /\ Head(toServer[c]).sig \in {srv[c].secret, srv[c].prev}
    /\ stored' = j.pair /\ pending' = FALSE
    /\ srv' = IF j.on = NoConn THEN srv ELSE [srv EXCEPT ![j.on] = Holding(srv[j.on], j.pair)]
    /\ jobs' = jobs \ {j}
    /\ mishaps' = IF conn # c THEN mishaps \cup {"stray"} ELSE mishaps

LEMMA Answers ==
  ASSUME TypeOK, NEW c \in Conn, ServerReceives(c)
  PROVE  \/ /\ UNCHANGED <<stored, pending, srv, jobs, mishaps>>
            /\ ~(/\ Head(toServer[c]).sig \in {srv[c].secret, srv[c].prev}
                 /\ \E k \in jobs : k.pair = Head(toServer[c]).pair /\ k.to = c)
         \/ \E j \in jobs : Answered(c, j)
<1> DEFINE f == Head(toServer[c])
           j == CHOOSE k \in jobs : k.pair = f.pair /\ k.to = c
<1>1. CASE /\ f.sig \in {srv[c].secret, srv[c].prev}
           /\ \E k \in jobs : k.pair = f.pair /\ k.to = c
  <2>1. j \in jobs /\ j.pair = f.pair /\ j.to = c
    BY <1>1, Zenon
  <2>2. /\ Store(j) /\ jobs' = jobs \ {j}
        /\ mishaps' = IF conn # c THEN mishaps \cup {"stray"} ELSE mishaps
    BY <1>1, SMTT(30) DEF ServerReceives
  <2>3. srv' = IF j.on = NoConn THEN srv ELSE [srv EXCEPT ![j.on] = Holding(srv[j.on], j.pair)]
    <3>1. CASE j.on = NoConn
      BY <3>1, <2>2 DEF Store
    <3>2. CASE j.on # NoConn
      <4>1. PICK d \in Conn : d = j.on
        BY <3>2, <2>1 DEF TypeOK, Job
      <4> DEFINE p == j.pair
      <4>2. srv' = [srv EXCEPT ![d].prev = srv[d].secret, ![d].secret = p]
        BY <3>2, <4>1, <2>2 DEF Store
      <4> HIDE DEF p
      <4>3. srv' = [srv EXCEPT ![d] = Holding(srv[d], p)]
        BY <4>2 DEF Holding, TypeOK
      <4> USE DEF p
      <4>4. QED
        BY <3>2, <4>1, <4>3
    <3>3. QED
      BY <3>1, <3>2, ZenonT(40)
  <2>4. stored' = j.pair /\ pending' = FALSE
    BY <2>2 DEF Store
  <2> HIDE DEF j
  <2>5. Answered(c, j)
    BY <1>1, <2>1, <2>2, <2>3, <2>4, SMTT(30) DEF Answered
  <2>6. QED
    BY <2>1, <2>5, Zenon
<1>2. CASE ~(/\ f.sig \in {srv[c].secret, srv[c].prev}
             /\ \E k \in jobs : k.pair = f.pair /\ k.to = c)
  BY <1>2 DEF ServerReceives
<1>3. QED
  BY <1>1, <1>2

\* ... to an entry that keeps its state.
LEMMA AnsweredEntry ==
  ASSUME TypeOK, NEW c \in Conn, NEW j \in jobs, Answered(c, j)
  PROVE  /\ srv' \in [Conn -> Entry]
         /\ \A d \in Conn : /\ srv'[d].state = srv[d].state
                            /\ srv'[d].secret = IF d = j.on THEN j.pair ELSE srv[d].secret
<1>1. j.pair \in Pair /\ j.on \in Conn \cup {NoConn}
  BY DEF TypeOK, Job
<1>2. CASE j.on = NoConn
  BY <1>2, Pairs DEF Answered, TypeOK
<1>3. CASE j.on # NoConn
  <2>1. PICK d \in Conn, p \in Pair : d = j.on /\ p = j.pair
    BY <1>1, <1>3
  <2>2. srv' = [srv EXCEPT ![d] = Holding(srv[d], p)]
    BY <1>3, <2>1 DEF Answered
  <2>3. srv[d] \in Entry
    BY DEF TypeOK
  <2>4. Holding(srv[d], p) \in Entry /\ Holding(srv[d], p).state = srv[d].state /\ Holding(srv[d], p).secret = p
    BY <2>3, EntryTypes
  <2>5. QED
    BY <2>1, <2>2, <2>4 DEF TypeOK
<1>4. QED
  BY <1>2, <1>3

LEMMA AnswersType ==
  ASSUME TypeOK, NEW c \in Conn, ServerReceives(c)
  PROVE  TypeOK'
<1>1. toServer' \in [Conn -> Seq(Frame)]
  BY TailType DEF ServerReceives, TypeOK
<1>2. CASE UNCHANGED <<stored, pending, srv, jobs, mishaps>>
  BY <1>1, <1>2 DEF ServerReceives, TypeOK, device, bounds
<1>3. CASE \E j \in jobs : Answered(c, j)
  <2>1. PICK j \in jobs : Answered(c, j)
    BY <1>3
  <2>2. srv' \in [Conn -> Entry] /\ \A d \in Conn : srv'[d].state = srv[d].state
    BY <2>1, AnsweredEntry
  <2>3. stored' \in Pair /\ pending' \in BOOLEAN /\ jobs' \subseteq Job
    BY <2>1 DEF Answered, TypeOK, Job
  <2>4. mishaps' \subseteq Mishaps
    BY <2>1 DEF Answered, TypeOK, Mishaps
  <2>5. QED
    BY <1>1, <2>2, <2>3, <2>4 DEF ServerReceives, TypeOK, device, bounds
<1>4. QED
  BY <1>2, <1>3, Answers

LEMMA ExpiresType ==
  ASSUME TypeOK, NEW c \in Conn, ServerGraceEnds(c)
  PROVE  /\ TypeOK'
         /\ \A d \in Conn : srv'[d].state = srv[d].state /\ srv'[d].secret = srv[d].secret
<1>1. srv' = [srv EXCEPT ![c] = Expired(srv[c])]
  BY DEF ServerGraceEnds, Expired
<1>2. srv' \in [Conn -> Entry] /\ \A d \in Conn : srv'[d].state = srv[d].state /\ srv'[d].secret = srv[d].secret
  BY <1>1, EntryTypes DEF TypeOK
<1>3. QED
  BY <1>2 DEF ServerGraceEnds, TypeOK, device, wires, bounds

LEMMA ConnectType ==
  ASSUME TypeOK, NEW c \in Conn, Connect(c)
  PROVE  /\ TypeOK'
         /\ srv'[c].state = "comparing" /\ srv'[c].secret = stored
         /\ \A d \in Conn \ {c} : srv'[d] = srv[d]
<1> DEFINE e == [state |-> "comparing", rotate |-> pending,
                 swept |-> FALSE, secret |-> stored, prev |-> None]
<1>1. e \in Entry /\ srv' = [srv EXCEPT ![c] = e] /\ e.state = "comparing" /\ e.secret = stored
  BY DEF TypeOK, Entry, State, Connect
<1> HIDE DEF e
<1>2. /\ srv' \in [Conn -> Entry] /\ \A d \in Conn \ {c} : srv'[d] = srv[d]
      /\ srv'[c].state = "comparing" /\ srv'[c].secret = stored
  BY <1>1 DEF TypeOK
<1>3. primary # c
  BY Pairs DEF TypeOK, Connect, Free
<1>4. mem.cur \in Pair
  BY DEF TypeOK, Kept
<1>5. token' \in [Conn -> Pair] /\ link' \in [Conn -> BOOLEAN]
  BY <1>4 DEF TypeOK, Connect
<1>6. QED
  BY <1>2, <1>3, <1>5 DEF Connect, TypeOK, bounds

LEMMA ReceivesType ==
  ASSUME TypeOK, NEW c \in Conn, ReceiveHello(c) \/ ReceiveRotate(c) \/ ReceiveRefused(c)
  PROVE  TypeOK'
<1>1. [mem EXCEPT !.prev = None] \in Kept /\ [cur |-> mem.cur, prev |-> None] \in Kept
  BY DEF TypeOK, Kept
<1>2. toAgent[c] # <<>> /\ toAgent[c] \in Seq(Frame)
  BY DEF ReceiveHello, ReceiveRotate, ReceiveRefused, Received, TypeOK
<1>3. [toAgent EXCEPT ![c] = Tail(@)] \in [Conn -> Seq(Frame)]
  BY <1>2, TailType DEF TypeOK
<1>4. CASE ReceiveHello(c)
  BY <1>1, <1>3, <1>4 DEF ReceiveHello, Commit, TypeOK, server, bounds
<1>5. CASE ReceiveRotate(c)
  <2>1. Head(toAgent[c]) \in Frame
    BY <1>2
  <2>2. Head(toAgent[c]).pair \in Pair /\ mem.cur \in Pair
    BY <2>1 DEF Frame, TypeOK, Kept
  <2>3. disk' \in Kept /\ applying' \subseteq [pair : Pair, prev : Pair]
    BY <1>5, <2>2 DEF ReceiveRotate, Persist, TypeOK, Kept
  <2>4. mishaps' \subseteq Mishaps
    BY <1>5 DEF ReceiveRotate, TypeOK, Mishaps
  <2>5. QED
    BY <1>3, <1>5, <2>3, <2>4 DEF ReceiveRotate, TypeOK, server, bounds
<1>6. CASE ReceiveRefused(c)
  <2>1. mem' \in Kept /\ disk' \in Kept /\ refused' \in BOOLEAN
    <3>1. CASE mem.prev # None
      BY <1>6, <3>1 DEF ReceiveRefused, FallBack, TypeOK, Kept
    <3>2. CASE mem.prev = None
      BY <1>6, <3>2 DEF ReceiveRefused, FallBack, TypeOK, Kept
    <3>3. QED
      BY <3>1, <3>2
  <2>2. toAgent' \in [Conn -> Seq(Frame)]
    BY <1>6 DEF ReceiveRefused, TypeOK
  <2>3. toServer' \in [Conn -> Seq(Frame)]
    BY <1>6, PushedType, Pairs DEF ReceiveRefused
  <2>4. QED
    BY <1>6, <2>1, <2>2, <2>3 DEF ReceiveRefused, TypeOK, server, bounds
<1>7. QED
  BY <1>4, <1>5, <1>6

LEMMA AdoptType ==
  ASSUME TypeOK, NEW a \in applying, Adopt(a)
  PROVE  TypeOK'
<1>1. a.pair \in Pair /\ a.prev \in Pair /\ mem.cur \in Pair
  BY DEF TypeOK, Kept
<1>2. mem' \in Kept /\ grace' \in Pair \cup {None} /\ applying' \subseteq [pair : Pair, prev : Pair]
  BY <1>1 DEF Adopt, Kept, TypeOK
<1>3. toServer' \in [Conn -> Seq(Frame)]
  <2>1. CASE conn = NoConn
    BY <2>1 DEF Adopt, TypeOK
  <2>2. CASE conn # NoConn
    <3>1. PICK c \in Conn : c = conn
      BY <2>2 DEF TypeOK
    <3>2. QED
      BY <1>1, <2>2, <3>1, PushedType DEF Adopt
  <2>3. QED
    BY <2>1, <2>2
<1>4. QED
  BY <1>2, <1>3 DEF Adopt, TypeOK, server, bounds

\* A lost connection carries nothing more to the device; what it carries to the
\* server may arrive.
LEMMA Loses ==
  ASSUME TypeOK, NEW c \in Conn, Lose(c)
  PROVE  /\ link' \in [Conn -> BOOLEAN] /\ token' = token
         /\ toAgent' \in [Conn -> Seq(Frame)] /\ toServer' \in [Conn -> Seq(Frame)]
         /\ ~link'[c] /\ toAgent'[c] = <<>> /\ toServer'[c] \in {toServer[c], <<>>}
         /\ \A d \in Conn \ {c} : /\ link'[d] = link[d]
                                  /\ toAgent'[d] = toAgent[d] /\ toServer'[d] = toServer[d]
<1>1. link' = [link EXCEPT ![c] = FALSE] /\ toAgent' = [toAgent EXCEPT ![c] = <<>>]
  BY DEF Lose
<1>2. toServer' = toServer \/ toServer' = [toServer EXCEPT ![c] = <<>>]
  BY DEF Lose
<1>3. link' \in [Conn -> BOOLEAN] /\ token' = token /\ ~link'[c] /\ \A d \in Conn \ {c} : link'[d] = link[d]
  BY <1>1 DEF Lose, TypeOK
<1>4. toAgent' \in [Conn -> Seq(Frame)] /\ toAgent'[c] = <<>> /\ \A d \in Conn \ {c} : toAgent'[d] = toAgent[d]
  BY <1>1 DEF TypeOK
<1>5. /\ toServer' \in [Conn -> Seq(Frame)] /\ toServer'[c] \in {toServer[c], <<>>}
      /\ \A d \in Conn \ {c} : toServer'[d] = toServer[d]
  <2>1. CASE toServer' = toServer
    BY <2>1 DEF TypeOK
  <2>2. CASE toServer' = [toServer EXCEPT ![c] = <<>>]
    BY <2>2 DEF TypeOK
  <2>3. QED
    BY <1>2, <2>1, <2>2
<1>6. QED
  BY <1>3, <1>4, <1>5

LEMMA DropType ==
  ASSUME TypeOK, NEW c \in Conn, Drop(c)
  PROVE  TypeOK'
<1>1. drops' \in 0 .. MaxDrops
  BY RotationAssumption DEF Drop, TypeOK
<1>2. QED
  BY <1>1, Loses DEF Drop, TypeOK, server, device

LEMMA RestartType ==
  ASSUME TypeOK, Restart
  PROVE  TypeOK'
<1>1. drops' \in 0 .. MaxDrops
  BY RotationAssumption DEF Restart, TypeOK
<1>2. /\ link' \in [Conn -> BOOLEAN] /\ token' \in [Conn -> Pair]
      /\ toAgent' \in [Conn -> Seq(Frame)] /\ toServer' \in [Conn -> Seq(Frame)]
  <2>1. CASE conn = NoConn
    BY <2>1 DEF Restart, TypeOK, wires
  <2>2. CASE conn # NoConn
    <3>1. PICK c \in Conn : c = conn
      BY <2>2 DEF TypeOK
    <3>2. Lose(c)
      BY <2>2, <3>1 DEF Restart
    <3>3. QED
      BY <3>2, Loses DEF TypeOK
  <2>3. QED
    BY <2>1, <2>2
<1>3. QED
  BY <1>1, <1>2 DEF Restart, TypeOK, server

LEMMA ManualRotateType ==
  ASSUME TypeOK, ManualRotate
  PROVE  /\ TypeOK'
         /\ \A c \in Conn : /\ srv'[c].state = IF srv[c].state = "open" THEN "closing" ELSE srv[c].state
                            /\ srv'[c].secret = srv[c].secret
<1>1. Fresh \in Pair /\ manuals' \in 0 .. MaxManual
  BY FreshType, RotationAssumption DEF ManualRotate, TypeOK
<1>2. /\ srv' \in [Conn -> Entry]
      /\ \A c \in Conn : /\ srv'[c].state = IF srv[c].state = "open" THEN "closing" ELSE srv[c].state
                         /\ srv'[c].secret = srv[c].secret
  <2>1. ASSUME NEW c \in Conn
        PROVE  /\ srv'[c] \in Entry /\ srv'[c].secret = srv[c].secret
               /\ srv'[c].state = IF srv[c].state = "open" THEN "closing" ELSE srv[c].state
    <3>1. /\ srv[c] \in Entry /\ Into(srv[c], "closing") \in Entry
          /\ Into(srv[c], "closing").state = "closing" /\ Into(srv[c], "closing").secret = srv[c].secret
      BY EntryTypes DEF TypeOK, State
    <3>2. srv'[c] = IF srv[c].state = "open" THEN Into(srv[c], "closing") ELSE srv[c]
      BY DEF ManualRotate, Into
    <3>3. QED
      BY <3>1, <3>2
  <2>2. QED
    BY <2>1 DEF ManualRotate
<1>3. toAgent' \in [Conn -> Seq(Frame)]
  <2>1. PICK f \in Frame : f = Message("refused", 0, 0)
    BY Frames, Pairs
  <2>2. ASSUME NEW c \in Conn PROVE Append(toAgent[c], f) \in Seq(Frame)
    BY DEF TypeOK
  <2>3. toAgent' = [c \in Conn |-> IF srv[c].state = "open" /\ link[c]
                                   THEN Append(toAgent[c], f) ELSE toAgent[c]]
    BY <2>1 DEF ManualRotate
  <2>4. QED
    BY <2>2, <2>3 DEF TypeOK
<1>4. QED
  BY <1>1, <1>2, <1>3 DEF ManualRotate, TypeOK

LEMMA TypeStep ==
  ASSUME TypeOK, [Next]_vars
  PROVE  TypeOK'
<1>1. CASE ServerStep
  <2>1. ASSUME NEW j \in jobs, RotateTimesOut(j) PROVE TypeOK'
    <3>1. jobs' \subseteq Job /\ mishaps' \subseteq Mishaps
      BY <2>1 DEF RotateTimesOut, TypeOK, Mishaps
    <3>2. QED
      BY <2>1, <3>1 DEF RotateTimesOut, TypeOK, device, wires, bounds
  <2>2. QED
    BY <1>1, <2>1, AcceptsType, ServerClosesType, AnswersType, RotatesType, SendsType DEF ServerStep
<1>2. CASE DeviceStep
  <2>1. CASE SeeDrop
    BY <2>1 DEF SeeDrop, TypeOK, server, wires, bounds
  <2>2. CASE WakeUp
    BY <2>2 DEF WakeUp, TypeOK, Kept, server, wires, bounds
  <2>3. QED
    BY <1>2, <2>1, <2>2, ConnectType, ReceivesType, AdoptType DEF DeviceStep
<1>3. CASE CliWrites
  BY <1>3 DEF CliWrites, TypeOK, Kept, server, wires, bounds
<1>4. CASE AgentGraceEnds
  BY <1>4 DEF AgentGraceEnds, TypeOK, server, wires, bounds
<1>5. CASE UNCHANGED vars
  BY <1>5 DEF vars, server, device, wires, bounds, TypeOK
<1>6. QED
  BY <1>1, <1>2, <1>3, <1>4, <1>5, ExpiresType, DropType, RestartType, ManualRotateType DEF Next, Mishap

\* The variables keep their types, whatever the constants are.
THEOREM TypeCorrect == Spec => []TypeOK
<1>1. TypeOK /\ [Next]_vars => TypeOK'
  BY TypeStep
<1>2. QED
  BY <1>1, TypeInit, PTL DEF Spec

-----------------------------------------------------------------------------
(* Rotations by hand alone *)

HandFrame == {f \in Frame : f.kind \notin {"rotate", "ok"}}

\* The server's pair is on disk, or on its way there from the route's answer;
\* no fallback is ever kept, and no frame of a live rotation is sent.
HandInv ==
    /\ TypeOK
    /\ jobs = {} /\ applying = {} /\ mem.prev = None /\ disk.prev = None
    /\ stored = IF cli = None THEN disk.cur ELSE cli
    /\ toAgent \in [Conn -> Seq(HandFrame)] /\ toServer \in [Conn -> Seq(HandFrame)]

LEMMA HandFrames ==
  ASSUME HandInv, NEW c \in Conn
  PROVE  /\ \A k \in {"hello", "refused", "bye"} :
               /\ Push(toAgent, c, Message(k, 0, 0)) \in [Conn -> Seq(HandFrame)]
               /\ Push(toServer, c, Message(k, 0, 0)) \in [Conn -> Seq(HandFrame)]
         /\ toAgent[c] # <<>> => Head(toAgent[c]).kind # "rotate"
         /\ toServer[c] # <<>> => Head(toServer[c]).kind # "ok"
         /\ toAgent[c] # <<>> => [toAgent EXCEPT ![c] = Tail(@)] \in [Conn -> Seq(HandFrame)]
<1>1. \A k \in {"hello", "refused", "bye"} : Message(k, 0, 0) \in HandFrame
  BY Frames, Pairs DEF HandFrame
<1>2. toAgent[c] \in Seq(HandFrame) /\ toServer[c] \in Seq(HandFrame)
  BY DEF HandInv
<1>3. ASSUME NEW f \in HandFrame
      PROVE  /\ Push(toAgent, c, f) \in [Conn -> Seq(HandFrame)]
             /\ Push(toServer, c, f) \in [Conn -> Seq(HandFrame)]
  <2>1. Append(toAgent[c], f) \in Seq(HandFrame) /\ Append(toServer[c], f) \in Seq(HandFrame)
    BY <1>2
  <2>2. QED
    BY <2>1 DEF Push, HandInv
<1>4. ASSUME NEW k \in {"hello", "refused", "bye"}
      PROVE  /\ Push(toAgent, c, Message(k, 0, 0)) \in [Conn -> Seq(HandFrame)]
             /\ Push(toServer, c, Message(k, 0, 0)) \in [Conn -> Seq(HandFrame)]
  <2>1. PICK f \in HandFrame : f = Message(k, 0, 0)
    BY <1>1
  <2>2. QED
    BY <1>3, <2>1
<1>5. ASSUME toAgent[c] # <<>>
      PROVE  /\ Head(toAgent[c]).kind # "rotate"
             /\ [toAgent EXCEPT ![c] = Tail(@)] \in [Conn -> Seq(HandFrame)]
  <2>1. Head(toAgent[c]) \in HandFrame /\ Tail(toAgent[c]) \in Seq(HandFrame)
    BY <1>2, <1>5
  <2>2. QED
    BY <2>1 DEF HandFrame, HandInv
<1>6. ASSUME toServer[c] # <<>> PROVE Head(toServer[c]).kind # "ok"
  <2>1. Head(toServer[c]) \in HandFrame
    BY <1>2, <1>6
  <2>2. QED
    BY <2>1 DEF HandFrame
<1>7. QED
  BY <1>4, <1>5, <1>6

\* Nothing the invariant is about changes, but for the queues.
LEMMA HandKeeps ==
  ASSUME HandInv, [Next]_vars,
         UNCHANGED <<stored, applying, mem, disk, cli>>,
         jobs' = {},
         toAgent' \in [Conn -> Seq(HandFrame)], toServer' \in [Conn -> Seq(HandFrame)]
  PROVE  HandInv'
BY TypeStep DEF HandInv

LEMMA HandInit ==
  ASSUME Init
  PROVE  HandInv
<1>1. toAgent \in [Conn -> Seq(HandFrame)] /\ toServer \in [Conn -> Seq(HandFrame)]
  BY DEF Init
<1>2. QED
  BY <1>1, TypeInit DEF Init, HandInv

LEMMA HandServerStep ==
  ASSUME HandInv, lives = 0, lives' = 0, ServerStep
  PROVE  HandInv'
<1>1. [Next]_vars
  BY DEF Next
<1>2. ~Rotate
  BY RotationAssumption DEF Rotate, HandInv, TypeOK
<1>3. ASSUME NEW c \in Conn, CloseUnheard(c) \/ Accept(c) \/ Refuse(c) PROVE HandInv'
  <2>1. toAgent' \in [Conn -> Seq(HandFrame)]
    BY <1>3, HandFrames DEF CloseUnheard, Accept, Refuse, HandInv, wires
  <2>2. UNCHANGED <<stored, applying, mem, disk, cli, jobs, toServer>>
    BY <1>3 DEF CloseUnheard, Accept, Refuse, device, wires
  <2>3. QED
    BY <1>1, <2>1, <2>2, HandKeeps DEF HandInv
<1>4. ASSUME NEW c \in Conn, ServerCloses(c) PROVE HandInv'
  <2>1. toAgent' \in [Conn -> Seq(HandFrame)] /\ toServer' \in [Conn -> Seq(HandFrame)]
    BY <1>4 DEF ServerCloses, HandInv
  <2>2. jobs' = {}
    BY <1>4 DEF ServerCloses, Closing, HandInv
  <2>3. QED
    BY <1>1, <1>4, <2>1, <2>2, HandKeeps DEF ServerCloses, device
<1>5. ~ (\E c \in Conn : ServerReceives(c)) /\ jobs = {}
  BY HandFrames DEF ServerReceives, HandInv
<1>6. ASSUME TimerRotates PROVE HandInv'
  BY <1>1, <1>2, <1>6, HandKeeps DEF TimerRotates, device, wires, HandInv
<1>7. ~SweeperRotates
  BY <1>2 DEF SweeperRotates
<1>8. QED
  BY <1>3, <1>4, <1>5, <1>6, <1>7 DEF ServerStep

LEMMA HandDeviceStep ==
  ASSUME HandInv, DeviceStep
  PROVE  HandInv'
<1>1. [Next]_vars
  BY DEF Next
<1>2. ASSUME NEW c \in Conn, Connect(c) PROVE HandInv'
  BY <1>1, <1>2, HandKeeps DEF Connect, HandInv
<1>3. ASSUME NEW c \in Conn, ReceiveHello(c) PROVE HandInv'
  <2>1. toAgent' \in [Conn -> Seq(HandFrame)]
    BY <1>3, HandFrames DEF ReceiveHello, Received
  <2>2. UNCHANGED <<stored, applying, mem, disk, cli, jobs, toServer>>
    BY <1>3 DEF ReceiveHello, Commit, HandInv, server
  <2>3. QED
    BY <1>1, <2>1, <2>2, HandKeeps DEF HandInv
<1>4. ~ (\E c \in Conn : ReceiveRotate(c)) /\ applying = {}
  BY HandFrames DEF ReceiveRotate, Received, HandInv
<1>5. ASSUME NEW c \in Conn, ReceiveRefused(c) PROVE HandInv'
  <2>1. toAgent' \in [Conn -> Seq(HandFrame)]
    BY <1>5 DEF ReceiveRefused, HandInv
  <2>2. toServer' \in [Conn -> Seq(HandFrame)]
    BY <1>5, HandFrames DEF ReceiveRefused
  <2>3. mem'.prev = None /\ UNCHANGED <<disk, stored, cli, applying, jobs>>
    BY <1>5 DEF ReceiveRefused, FallBack, HandInv, TypeOK, Kept, server
  <2>4. QED
    BY <1>1, <2>1, <2>2, <2>3, TypeStep DEF HandInv
<1>6. ASSUME SeeDrop PROVE HandInv'
  BY <1>1, <1>6, HandKeeps DEF SeeDrop, server, wires, HandInv
<1>7. ASSUME WakeUp PROVE HandInv'
  <2>1. mem'.prev = None /\ UNCHANGED <<disk, stored, cli, applying, jobs, toAgent, toServer>>
    BY <1>7 DEF WakeUp, HandInv, TypeOK, Kept, server, wires
  <2>2. QED
    BY <1>1, <2>1, TypeStep DEF HandInv
<1>8. QED
  BY <1>2, <1>3, <1>4, <1>5, <1>6, <1>7 DEF DeviceStep

LEMMA HandMishapStep ==
  ASSUME HandInv, Mishap
  PROVE  HandInv'
<1>1. [Next]_vars
  BY DEF Next
<1>2. ASSUME NEW c \in Conn, Lose(c)
      PROVE  toAgent' \in [Conn -> Seq(HandFrame)] /\ toServer' \in [Conn -> Seq(HandFrame)]
  <2>1. CASE toServer' = toServer
    BY <1>2, <2>1 DEF Lose, HandInv
  <2>2. CASE toServer' = [toServer EXCEPT ![c] = <<>>]
    BY <1>2, <2>2 DEF Lose, HandInv
  <2>3. QED
    BY <1>2, <2>1, <2>2 DEF Lose
<1>3. ASSUME NEW c \in Conn, Drop(c) PROVE HandInv'
  BY <1>1, <1>2, <1>3, HandKeeps DEF Drop, HandInv, server, device
<1>4. ASSUME Restart PROVE HandInv'
  <2>1. toAgent' \in [Conn -> Seq(HandFrame)] /\ toServer' \in [Conn -> Seq(HandFrame)]
    <3>1. CASE conn = NoConn
      BY <1>4, <3>1 DEF Restart, HandInv, wires
    <3>2. CASE conn # NoConn
      <4>1. PICK c \in Conn : c = conn
        BY <3>2 DEF HandInv, TypeOK
      <4>2. Lose(c)
        BY <1>4, <3>2, <4>1 DEF Restart
      <4>3. QED
        BY <1>2, <4>2
    <3>3. QED
      BY <3>1, <3>2
  <2>2. mem'.prev = None /\ applying' = {} /\ UNCHANGED <<stored, disk, cli, jobs>>
    BY <1>4 DEF Restart, HandInv, server
  <2>3. QED
    BY <1>1, <2>1, <2>2, TypeStep DEF HandInv
<1>5. QED
  BY <1>3, <1>4 DEF Mishap

LEMMA HandRotateStep ==
  ASSUME HandInv, ManualRotate
  PROVE  HandInv'
<1>1. [Next]_vars
  BY DEF Next
<1>2. Fresh \in Pair /\ Fresh # None
  BY FreshType, Pairs DEF ManualRotate, HandInv
<1>3. toAgent' \in [Conn -> Seq(HandFrame)]
  <2>1. PICK f \in HandFrame : f = Message("refused", 0, 0)
    BY Frames, Pairs DEF HandFrame
  <2>2. ASSUME NEW c \in Conn PROVE Append(toAgent[c], f) \in Seq(HandFrame)
    BY DEF HandInv
  <2>3. toAgent' = [c \in Conn |-> IF srv[c].state = "open" /\ link[c]
                                   THEN Append(toAgent[c], f) ELSE toAgent[c]]
    BY <2>1 DEF ManualRotate
  <2>4. QED
    BY <2>2, <2>3 DEF HandInv
<1>4. stored' = cli' /\ cli' # None /\ UNCHANGED <<jobs, applying, mem, disk, toServer>>
  BY <1>2 DEF ManualRotate
<1>5. QED
  BY <1>1, <1>3, <1>4, TypeStep DEF HandInv

LEMMA HandStep ==
  ASSUME HandInv, lives = 0, lives' = 0, [Next]_vars
  PROVE  HandInv'
<1>1. CASE CliWrites
  <2>1. /\ disk'.prev = None /\ disk'.cur = stored /\ cli' = None
        /\ UNCHANGED <<stored, applying, mem, jobs, toAgent, toServer>>
    BY <1>1 DEF CliWrites, HandInv, server, wires
  <2>2. QED
    BY <2>1, TypeStep DEF HandInv
<1>2. CASE AgentGraceEnds \/ (\E c \in Conn : ServerGraceEnds(c)) \/ UNCHANGED vars
  <2>1. UNCHANGED <<stored, applying, mem, disk, cli, jobs, toAgent, toServer>>
    BY <1>2 DEF AgentGraceEnds, ServerGraceEnds, vars, server, device, wires
  <2>2. QED
    BY <2>1, HandKeeps DEF HandInv
<1>3. QED
  BY <1>1, <1>2, HandServerStep, HandDeviceStep, HandMishapStep, HandRotateStep DEF Next

LEMMA HandInvariance == Spec => [](TypeOK /\ (lives = 0 => HandInv))
<1> DEFINE I == TypeOK /\ (lives = 0 => HandInv)
<1>1. Init => I
  BY HandInit, TypeInit
<1>2. I /\ [Next]_vars => I'
  <2>1. SUFFICES ASSUME I, [Next]_vars, lives' = 0 PROVE HandInv'
    BY TypeStep
  <2>2. lives = 0
    <3>1. lives' = lives \/ lives' = lives + 1
      BY <2>1 DEF Next, ServerStep, DeviceStep, Mishap, CloseUnheard, Accept, Refuse, ServerCloses,
           ServerReceives, RotateTimesOut, SweeperRotates, TimerRotates, Rotate, SendRotate,
           ServerGraceEnds, Connect, ReceiveHello, ReceiveRotate, ReceiveRefused, Adopt, AgentGraceEnds,
           SeeDrop, WakeUp, Restart, Drop, CliWrites, ManualRotate, vars, bounds
    <3>2. lives \in Nat
      BY <2>1, RotationAssumption DEF TypeOK
    <3>3. QED
      BY <2>1, <3>1, <3>2
  <2>3. QED
    BY <2>1, <2>2, HandStep
<1>3. QED
  BY <1>1, <1>2, PTL DEF Spec

\* Rotations by hand follow each other: each pair is newer than the one before.
THEOREM NewestPairStaysByHand ==
  ASSUME MaxLive = 0
  PROVE  Spec => NewestPairStays
<1> DEFINE Numbered == HandInv /\ stored <= manuals
<1>1. Init => Numbered
  <2>1. Init => HandInv
    BY HandInit
  <2>2. Init => stored <= manuals
    BY DEF Init
  <2>3. QED
    BY <2>1, <2>2
<1>2. Numbered /\ [Next]_vars => Numbered' /\ stored' >= stored
  <2>0. SUFFICES ASSUME Numbered, [Next]_vars PROVE Numbered' /\ stored' >= stored
    OBVIOUS
  <2>1. SUFFICES stored' <= manuals' /\ stored' >= stored
    <3>1. TypeOK /\ TypeOK'
      BY <2>0, TypeStep DEF HandInv
    <3>2. lives = 0 /\ lives' = 0
      BY <3>1 DEF TypeOK
    <3>3. HandInv'
      BY <2>0, <3>2, HandStep
    <3>4. QED
      BY <3>3
  <2>2. stored \in Int /\ manuals \in Int /\ lives = 0
    BY <2>0, Pairs DEF HandInv, TypeOK
  <2>3. CASE ManualRotate
    <3>1. stored' = manuals + 1 /\ manuals' = manuals + 1
      BY <2>2, <2>3 DEF ManualRotate, Fresh
    <3>2. QED
      BY <2>0, <2>2, <3>1
  <2>4. CASE ~ManualRotate
    <3>1. UNCHANGED <<stored, manuals>>
      <4>1. ~ \E c \in Conn : ServerReceives(c)
        BY <2>0, HandFrames DEF ServerReceives
      <4>2. QED
        BY <2>0, <2>4, <4>1 DEF Next, ServerStep, DeviceStep, Mishap, CloseUnheard, Accept, Refuse,
             ServerCloses, RotateTimesOut, SweeperRotates, TimerRotates, Rotate, CanRotate, SendRotate, ServerGraceEnds,
             Connect, ReceiveHello, ReceiveRotate, ReceiveRefused, Adopt, AgentGraceEnds, SeeDrop,
             WakeUp, Restart, Drop, CliWrites, vars, server, bounds
    <3>2. QED
      BY <2>0, <2>2, <3>1
  <2>5. QED
    BY <2>3, <2>4
<1>3. Numbered /\ [Next]_vars => Numbered'
  BY <1>2
<1>4. Numbered /\ [Next]_vars => [stored' >= stored]_vars
  BY <1>2
<1>5. QED
  BY <1>1, <1>3, <1>4, PTL DEF Spec, NewestPairStays

-----------------------------------------------------------------------------
(* Where sockets and calls can be, whatever happens *)

Sending == {"open", "ghost", "closing"}

\* A slot that nobody uses is empty, and nothing is sent to a device before its
\* token has been compared.
SlotInv ==
    \A c \in Conn :
       /\ link[c] => srv[c].state \notin {"none", "unheard", "ghost"}
       /\ srv[c].state = "none" => toAgent[c] = <<>> /\ toServer[c] = <<>>
       /\ srv[c].state \in {"comparing", "unheard"} => toAgent[c] = <<>>

\* A call captures an entry, and waits at one, that the server has accepted.
JobInv ==
    \A j \in jobs : /\ j.on # NoConn => srv[j.on].state \in Sending
                    /\ j.to # NoConn => srv[j.to].state \in Sending

PlaceInv == TypeOK /\ SlotInv /\ JobInv

LEMMA PlaceInit == Init => PlaceInv
<1>1. Init => SlotInv /\ JobInv
  BY DEF Init, SlotInv, JobInv, NoEntry
<1>2. QED
  BY <1>1, TypeInit DEF PlaceInv

\* A socket's end, wire and queues stay as they are, or become this.
LEMMA PlaceKeeps ==
  ASSUME PlaceInv, TypeOK',
         \A d \in Conn : /\ srv'[d].state = srv[d].state
                         /\ link'[d] => link[d]
                         /\ srv[d].state \in {"none", "comparing", "unheard"} =>
                               /\ toAgent'[d] \in {toAgent[d], <<>>}
                         /\ srv[d].state = "none" => toServer'[d] \in {toServer[d], <<>>},
         \A j \in jobs' : /\ j.on # NoConn => srv[j.on].state \in Sending
                          /\ j.to # NoConn => srv[j.to].state \in Sending
  PROVE  PlaceInv'
<1>1. \A j \in jobs' : j.on \in Conn \cup {NoConn} /\ j.to \in Conn \cup {NoConn}
  BY DEF TypeOK, Job
<1>2. JobInv'
  BY <1>1 DEF JobInv
<1>3. SlotInv'
  BY DEF PlaceInv, SlotInv
<1>4. QED
  BY <1>2, <1>3 DEF PlaceInv

\* A frame is pushed on the wire of an accepted socket.
LEMMA PushPlace ==
  ASSUME PlaceInv, NEW c \in Conn
  PROVE  \A k \in {"hello", "rotate", "refused", "ok", "bye"}, p \in Pair, s \in Pair, d \in Conn :
            /\ Push(toAgent, c, Message(k, p, s))[d] =
                  IF d = c /\ link[c] THEN Append(toAgent[c], Message(k, p, s)) ELSE toAgent[d]
            /\ Push(toServer, c, Message(k, p, s))[d] =
                  IF d = c /\ link[c] THEN Append(toServer[c], Message(k, p, s)) ELSE toServer[d]
<1>1. TAKE k \in {"hello", "rotate", "refused", "ok", "bye"}, p \in Pair, s \in Pair, d \in Conn
<1>2. PICK f \in Frame : f = Message(k, p, s)
  BY Frames
<1>3. toAgent \in [Conn -> Seq(Frame)] /\ toServer \in [Conn -> Seq(Frame)]
  BY DEF PlaceInv, TypeOK
<1>4. /\ Push(toAgent, c, f)[d] = IF d = c /\ link[c] THEN Append(toAgent[c], f) ELSE toAgent[d]
      /\ Push(toServer, c, f)[d] = IF d = c /\ link[c] THEN Append(toServer[c], f) ELSE toServer[d]
  BY <1>3, PushType DEF PlaceInv
<1>5. QED
  BY <1>2, <1>4

LEMMA PlaceServerStep ==
  ASSUME PlaceInv, TypeOK', ServerStep
  PROVE  PlaceInv'
<1>1. ASSUME NEW c \in Conn, CloseUnheard(c) \/ Accept(c) \/ Refuse(c) PROVE PlaceInv'
  <2>1. /\ \A d \in Conn \ {c} : srv'[d] = srv[d] /\ toAgent'[d] = toAgent[d]
        /\ srv'[c].state \notin {"none", "comparing"} /\ srv[c].state \in {"comparing", "unheard"}
        /\ srv[c].state = "unheard" => ~link[c]
        /\ UNCHANGED <<link, toServer, jobs>>
        /\ srv'[c].state \in {"unheard", "ghost"} => ~link[c]
        /\ srv'[c].state = "unheard" => toAgent'[c] = toAgent[c]
    <3>1. CASE CloseUnheard(c)
      BY <3>1, Compared DEF PlaceInv, SlotInv, CloseUnheard, wires
    <3>2. CASE Accept(c)
      <4>1. \A d \in Conn \ {c} : toAgent'[d] = toAgent[d]
        BY <3>2, PushPlace, Pairs DEF Accept
      <4>2. srv'[c].state = (IF srv[c].state = "unheard" THEN "ghost" ELSE "open") /\ \A d \in Conn \ {c} : srv'[d] = srv[d]
        BY <3>2, Compared DEF PlaceInv
      <4>3. srv[c].state \in {"comparing", "unheard"} /\ UNCHANGED <<link, toServer, jobs>>
        BY <3>2 DEF Accept
      <4>4. QED
        BY <4>1, <4>2, <4>3 DEF PlaceInv, SlotInv
    <3>3. CASE Refuse(c)
      <4>1. \A d \in Conn \ {c} : toAgent'[d] = toAgent[d]
        BY <3>3, PushPlace, Pairs DEF Refuse
      <4>2. srv'[c].state = "rejected" /\ \A d \in Conn \ {c} : srv'[d] = srv[d]
        BY <3>3, Compared DEF PlaceInv
      <4>3. srv[c].state \in {"comparing", "unheard"} /\ UNCHANGED <<link, toServer, jobs>>
        BY <3>3 DEF Refuse
      <4>4. QED
        BY <4>1, <4>2, <4>3 DEF PlaceInv, SlotInv
    <3>4. QED
      BY <1>1, <3>1, <3>2, <3>3
  <2>2. SlotInv'
    BY <2>1 DEF PlaceInv, SlotInv
  <2>3. \A j \in jobs : j.on # c /\ j.to # c /\ j.on \in Conn \cup {NoConn} /\ j.to \in Conn \cup {NoConn}
    <3>1. \A j \in jobs : j.on \in Conn \cup {NoConn} /\ j.to \in Conn \cup {NoConn}
      BY DEF PlaceInv, TypeOK, Job
    <3>2. srv[c].state \notin Sending
      BY <2>1 DEF Sending
    <3>3. QED
      BY <3>1, <3>2, Pairs DEF PlaceInv, JobInv
  <2>4. JobInv'
    BY <2>1, <2>3 DEF PlaceInv, JobInv
  <2>5. QED
    BY <2>2, <2>4 DEF PlaceInv
<1>2. ASSUME NEW c \in Conn, ServerCloses(c) PROVE PlaceInv'
  <2>1. /\ \A d \in Conn \ {c} : srv'[d] = srv[d]
        /\ srv'[c].state = "none" /\ jobs' = Closing(c)
    BY <1>2, NoEntryType DEF ServerCloses, PlaceInv, TypeOK
  <2>2. /\ \A d \in Conn \ {c} : link'[d] = link[d] /\ toAgent'[d] = toAgent[d] /\ toServer'[d] = toServer[d]
        /\ ~link'[c] /\ toAgent'[c] = <<>> /\ toServer'[c] = <<>>
    BY <1>2 DEF ServerCloses, PlaceInv, TypeOK
  <2>3. SlotInv'
    BY <2>1, <2>2 DEF PlaceInv, SlotInv
  <2>4. ASSUME NEW j \in jobs'
        PROVE  /\ j.on # NoConn => srv'[j.on].state \in Sending
               /\ j.to # NoConn => srv'[j.to].state \in Sending
    <3>1. PICK k \in jobs : /\ j.to = k.to /\ k.to # c /\ j.on # c
                            /\ j.on = IF k.on = c THEN NoConn ELSE k.on
      BY <2>1, <2>4, ClosingJobs DEF PlaceInv
    <3>2. k.on \in Conn \cup {NoConn} /\ k.to \in Conn \cup {NoConn}
      BY DEF PlaceInv, TypeOK, Job
    <3>3. QED
      BY <2>1, <3>1, <3>2 DEF PlaceInv, JobInv
  <2>5. QED
    BY <2>3, <2>4 DEF PlaceInv, JobInv
<1>3. ASSUME NEW c \in Conn, ServerReceives(c) PROVE PlaceInv'
  <2>1. \A d \in Conn : srv'[d].state = srv[d].state
    BY <1>3, Answers, AnsweredEntry DEF PlaceInv
  <2>2. jobs' \subseteq jobs
    BY <1>3, Answers DEF PlaceInv, Answered
  <2>3. \A d \in Conn : srv[d].state = "none" => toServer'[d] = toServer[d]
    BY <1>3 DEF ServerReceives, PlaceInv, TypeOK, Peer
  <2>4. UNCHANGED <<link, toAgent>>
    BY <1>3 DEF ServerReceives
  <2>5. QED
    BY <2>1, <2>2, <2>3, <2>4, PlaceKeeps DEF PlaceInv, JobInv
<1>4. ASSUME NEW j \in jobs, RotateTimesOut(j) PROVE PlaceInv'
  BY <1>4, PlaceKeeps DEF RotateTimesOut, wires, PlaceInv, JobInv
<1>5. ASSUME NEW j \in jobs, SendRotate(j) PROVE PlaceInv'
  <2>1. CASE primary = NoConn
    BY <1>5, <2>1, PlaceKeeps DEF SendRotate, PlaceInv, JobInv
  <2>2. CASE primary # NoConn
    <3>1. PICK c \in Conn : c = primary
      BY <2>2 DEF PlaceInv, TypeOK
    <3>2. srv[c].state \in {"open", "ghost"}
      BY <2>2, <3>1 DEF PlaceInv, TypeOK
    <3>3. PICK p \in Pair, s \in Pair : p = j.pair /\ s = srv[c].secret
      <4>1. j \in Job /\ srv[c] \in Entry
        BY DEF PlaceInv, TypeOK
      <4>2. QED
        BY <4>1 DEF Job, Entry
    <3>4. \A d \in Conn \ {c} : toAgent'[d] = toAgent[d]
      <4>1. toAgent' = Push(toAgent, c, Message("rotate", p, s))
        BY <1>5, <2>2, <3>1, <3>3 DEF SendRotate
      <4>2. QED
        BY <4>1, PushPlace
    <3>5. \A k \in jobs' : \/ k \in jobs
                           \/ k.on = j.on /\ k.to = c
      <4>1. j \in Job /\ jobs' = (jobs \ {j}) \cup {[j EXCEPT !.to = c]}
        BY <1>5, <2>2, <3>1 DEF SendRotate, PlaceInv, TypeOK
      <4>2. QED
        BY <4>1 DEF Job
    <3>6. UNCHANGED <<srv, link, toServer>>
      BY <1>5 DEF SendRotate
    <3>7. QED
      BY <3>2, <3>4, <3>5, <3>6, PlaceKeeps DEF PlaceInv, JobInv, Sending
  <2>3. QED
    BY <2>1, <2>2
<1>6. ASSUME SweeperRotates \/ TimerRotates PROVE PlaceInv'
  <2>1. /\ \A d \in Conn : srv'[d].state = srv[d].state
        /\ UNCHANGED <<link, toAgent, toServer>>
    BY <1>6, RotatesType DEF PlaceInv, SweeperRotates, TimerRotates, wires
  <2>2. \A j \in jobs' : j \in jobs \/ (j.on = primary /\ primary # NoConn /\ j.to = NoConn)
    BY <1>6 DEF SweeperRotates, TimerRotates, Rotate, CanRotate
  <2>3. QED
    BY <2>1, <2>2, PlaceKeeps DEF PlaceInv, JobInv, Sending, TypeOK
<1>7. QED
  BY <1>1, <1>2, <1>3, <1>4, <1>5, <1>6 DEF ServerStep

LEMMA PlaceDeviceStep ==
  ASSUME PlaceInv, TypeOK', DeviceStep
  PROVE  PlaceInv'
<1>1. ASSUME NEW c \in Conn, Connect(c) PROVE PlaceInv'
  <2>1. /\ srv'[c].state = "comparing" /\ srv[c].state = "none"
        /\ \A d \in Conn \ {c} : srv'[d] = srv[d] /\ link'[d] = link[d]
        /\ UNCHANGED <<toAgent, toServer, jobs>>
    BY <1>1, ConnectType DEF Connect, Free, PlaceInv, TypeOK
  <2>2. SlotInv'
    BY <2>1 DEF PlaceInv, SlotInv
  <2>3. \A j \in jobs : j.on # c /\ j.to # c /\ j.on \in Conn \cup {NoConn} /\ j.to \in Conn \cup {NoConn}
    <3>1. \A j \in jobs : j.on \in Conn \cup {NoConn} /\ j.to \in Conn \cup {NoConn}
      BY DEF PlaceInv, TypeOK, Job
    <3>2. srv[c].state \notin Sending
      BY <2>1 DEF Sending
    <3>3. QED
      BY <3>1, <3>2, Pairs DEF PlaceInv, JobInv
  <2>4. JobInv'
    BY <2>1, <2>3 DEF PlaceInv, JobInv
  <2>5. QED
    BY <2>2, <2>4 DEF PlaceInv
<1>2. ASSUME NEW c \in Conn, ReceiveHello(c) \/ ReceiveRotate(c) PROVE PlaceInv'
  <2>1. toAgent[c] # <<>> /\ toAgent' = [toAgent EXCEPT ![c] = Tail(@)]
    BY <1>2 DEF ReceiveHello, ReceiveRotate, Received
  <2>2. \A d \in Conn : srv[d].state \in {"none", "comparing", "unheard"} => toAgent'[d] = toAgent[d]
    BY <2>1 DEF PlaceInv, SlotInv, TypeOK
  <2>3. UNCHANGED <<srv, link, toServer, jobs>>
    BY <1>2 DEF ReceiveHello, ReceiveRotate, server
  <2>4. QED
    BY <2>2, <2>3, PlaceKeeps DEF PlaceInv, JobInv
<1>3. ASSUME NEW c \in Conn, ReceiveRefused(c) PROVE PlaceInv'
  <2>1. /\ toAgent[c] # <<>> /\ toAgent' = [toAgent EXCEPT ![c] = <<>>]
        /\ toServer' = Push(toServer, c, Message("bye", 0, 0)) /\ UNCHANGED <<srv, link, jobs>>
    BY <1>3 DEF ReceiveRefused, Received, server
  <2>2. \A d \in Conn \ {c} : toServer'[d] = toServer[d] /\ toAgent'[d] = toAgent[d]
    <3>1. \A d \in Conn \ {c} : toServer'[d] = toServer[d]
      BY <2>1, PushPlace, Pairs
    <3>2. \A d \in Conn \ {c} : toAgent'[d] = toAgent[d]
      BY <2>1 DEF PlaceInv, TypeOK
    <3>3. QED
      BY <3>1, <3>2
  <2>3. srv[c].state # "none" /\ toAgent'[c] = <<>>
    BY <2>1 DEF PlaceInv, SlotInv, TypeOK
  <2>4. QED
    BY <2>1, <2>2, <2>3, PlaceKeeps DEF PlaceInv, JobInv
<1>4. ASSUME NEW a \in applying, Adopt(a) PROVE PlaceInv'
  <2>1. UNCHANGED <<srv, link, toAgent, jobs>>
    BY <1>4 DEF Adopt, server
  <2>2. \A d \in Conn : srv[d].state = "none" => toServer'[d] = toServer[d]
    <3>1. CASE conn = NoConn
      BY <1>4, <3>1 DEF Adopt
    <3>2. CASE conn # NoConn
      <4>1. PICK c \in Conn, p \in Pair, s \in Pair : c = conn /\ p = a.pair /\ s = mem.cur
        BY <3>2 DEF PlaceInv, TypeOK, Kept
      <4>2. toServer' = Push(toServer, c, Message("ok", p, s))
        BY <1>4, <3>2, <4>1 DEF Adopt
      <4>3. QED
        BY <4>2, PushPlace DEF PlaceInv, SlotInv
    <3>3. QED
      BY <3>1, <3>2
  <2>3. QED
    BY <2>1, <2>2, PlaceKeeps DEF PlaceInv, JobInv
<1>5. ASSUME SeeDrop \/ WakeUp PROVE PlaceInv'
  BY <1>5, PlaceKeeps DEF SeeDrop, WakeUp, server, wires, PlaceInv, JobInv
<1>6. QED
  BY <1>1, <1>2, <1>3, <1>4, <1>5 DEF DeviceStep

LEMMA PlaceStep ==
  ASSUME PlaceInv, [Next]_vars
  PROVE  PlaceInv'
<1>1. TypeOK'
  BY TypeStep DEF PlaceInv
<1>2. ASSUME NEW c \in Conn, Lose(c), UNCHANGED server PROVE PlaceInv'
  BY <1>1, <1>2, Loses, PlaceKeeps DEF PlaceInv, JobInv, server
<1>3. CASE Mishap
  <2>1. ASSUME NEW c \in Conn, Drop(c) PROVE PlaceInv'
    BY <1>2, <2>1 DEF Drop
  <2>2. ASSUME Restart PROVE PlaceInv'
    <3>1. CASE conn = NoConn
      BY <1>1, <2>2, <3>1, PlaceKeeps DEF Restart, server, wires, PlaceInv, JobInv
    <3>2. CASE conn # NoConn
      BY <1>2, <2>2, <3>2 DEF Restart, PlaceInv, TypeOK
    <3>3. QED
      BY <3>1, <3>2
  <2>3. QED
    BY <1>3, <2>1, <2>2 DEF Mishap
<1>4. CASE ManualRotate
  <2>1. /\ \A c \in Conn : srv'[c].state = IF srv[c].state = "open" THEN "closing" ELSE srv[c].state
        /\ \A c \in Conn : srv[c].state # "open" => toAgent'[c] = toAgent[c]
        /\ UNCHANGED <<link, toServer, jobs>>
    BY <1>4, ManualRotateType DEF ManualRotate, PlaceInv, TypeOK
  <2>2. SlotInv'
    BY <2>1 DEF PlaceInv, SlotInv
  <2>3. \A j \in jobs : j.on \in Conn \cup {NoConn} /\ j.to \in Conn \cup {NoConn}
    BY DEF PlaceInv, TypeOK, Job
  <2>4. JobInv'
    BY <2>1, <2>3 DEF PlaceInv, JobInv, Sending
  <2>5. QED
    BY <1>1, <2>2, <2>4 DEF PlaceInv
<1>5. CASE CliWrites \/ AgentGraceEnds \/ UNCHANGED vars
  BY <1>1, <1>5, PlaceKeeps DEF CliWrites, AgentGraceEnds, vars, server, wires, PlaceInv, JobInv
<1>6. CASE \E c \in Conn : ServerGraceEnds(c)
  <2>1. /\ \A d \in Conn : srv'[d].state = srv[d].state
        /\ UNCHANGED <<link, toAgent, toServer, jobs>>
    BY <1>6, ExpiresType DEF ServerGraceEnds, wires, PlaceInv
  <2>2. QED
    BY <1>1, <2>1, PlaceKeeps DEF PlaceInv, JobInv
<1>7. QED
  BY <1>1, <1>3, <1>4, <1>5, <1>6, PlaceServerStep, PlaceDeviceStep DEF Next

-----------------------------------------------------------------------------
(* What a step does to the queues *)

Kind == {"hello", "rotate", "refused", "ok", "bye"}

LEMMA PushOf ==
  ASSUME TypeOK, NEW c \in Conn, NEW k \in Kind, NEW p \in Pair, NEW s \in Pair
  PROVE  \A d \in Conn, l \in Kind :
            /\ Of(Push(toAgent, c, Message(k, p, s))[d], l) =
                  Of(toAgent[d], l) \cup (IF d = c /\ link[c] /\ l = k THEN {Message(k, p, s)} ELSE {})
            /\ Of(Push(toServer, c, Message(k, p, s))[d], l) =
                  Of(toServer[d], l) \cup (IF d = c /\ link[c] /\ l = k THEN {Message(k, p, s)} ELSE {})
            /\ First(toAgent[d], l) /\ (l # k \/ toAgent[d] = <<>>) =>
                  First(Push(toAgent, c, Message(k, p, s))[d], l)
            /\ Last(toAgent[d], l) /\ Of(toAgent[d], l) = {} =>
                  Last(Push(toAgent, c, Message(k, p, s))[d], l)
            /\ Last(toServer[d], l) /\ Of(toServer[d], l) = {} =>
                  Last(Push(toServer, c, Message(k, p, s))[d], l)
<1> DEFINE f == Message(k, p, s)
<1>1. f \in Frame /\ f.kind = k
  BY Frames DEF Kind
<1> HIDE DEF f
<1>2. toAgent \in [Conn -> Seq(Frame)] /\ toServer \in [Conn -> Seq(Frame)]
  BY DEF TypeOK
<1>3. TAKE d \in Conn, l \in Kind
<1>4. /\ Push(toAgent, c, f)[d] = IF d = c /\ link[c] THEN Append(toAgent[d], f) ELSE toAgent[d]
      /\ Push(toServer, c, f)[d] = IF d = c /\ link[c] THEN Append(toServer[d], f) ELSE toServer[d]
  <2>1. \A e \in Conn : Push(toAgent, c, f)[e] = IF e = c /\ link[c] THEN Append(toAgent[c], f) ELSE toAgent[e]
    BY <1>1, <1>2, PushType
  <2>2. \A e \in Conn : Push(toServer, c, f)[e] = IF e = c /\ link[c] THEN Append(toServer[c], f) ELSE toServer[e]
    BY <1>1, <1>2, PushType
  <2>3. QED
    BY <2>1, <2>2
<1>5. toAgent[d] \in Seq(Frame) /\ toServer[d] \in Seq(Frame)
  BY <1>2
<1>6. CASE d = c /\ link[c]
  BY <1>1, <1>4, <1>5, <1>6, AppendQueue DEF f
<1>7. CASE ~(d = c /\ link[c])
  BY <1>4, <1>7 DEF f
<1>8. QED
  BY <1>6, <1>7

\* A frame is taken from a queue of the device, or of the server.
LEMMA TakeOfAgent ==
  ASSUME TypeOK, NEW c \in Conn, toAgent[c] # <<>>, toAgent' = [toAgent EXCEPT ![c] = Tail(@)]
  PROVE  /\ Head(toAgent[c]) \in Frame
         /\ \A l \in Kind : /\ Head(toAgent[c]).kind = l => Head(toAgent[c]) \in Of(toAgent[c], l)
                            /\ First(toAgent[c], l) => Of(toAgent'[c], l) = {}
                            /\ Last(toAgent[c], l) /\ Head(toAgent[c]).kind = l => Of(toAgent'[c], l) = {}
         /\ \A d \in Conn, l \in Kind : /\ Of(toAgent'[d], l) \subseteq Of(toAgent[d], l)
                                        /\ First(toAgent[d], l) => First(toAgent'[d], l)
                                        /\ Last(toAgent[d], l) => Last(toAgent'[d], l)
<1>1. toAgent[c] \in Seq(Frame) /\ toAgent'[c] = Tail(toAgent[c]) /\ \A d \in Conn \ {c} : toAgent'[d] = toAgent[d]
  BY DEF TypeOK
<1> DEFINE q == toAgent[c]
           r == Tail(q)
<1>2. q \in Seq(Frame) /\ q # <<>>
  BY <1>1
<1> HIDE DEF q, r
<1>3. /\ Head(q) \in Frame
      /\ \A l : /\ Of(r, l) \subseteq Of(q, l)
                /\ Head(q).kind = l => Head(q) \in Of(q, l)
                /\ First(q, l) => First(r, l) /\ Of(r, l) = {}
                /\ Last(q, l) => Last(r, l) /\ (Head(q).kind = l => Of(r, l) = {})
  BY <1>2, TailQueue DEF r
<1>4. q = toAgent[c] /\ r = toAgent'[c]
  BY <1>1 DEF q, r
<1>5. QED
  BY <1>1, <1>3, <1>4

LEMMA TakeOfServer ==
  ASSUME TypeOK, NEW c \in Conn, toServer[c] # <<>>, toServer' = [toServer EXCEPT ![c] = Tail(@)]
  PROVE  /\ Head(toServer[c]) \in Frame
         /\ \A l \in Kind : /\ Head(toServer[c]).kind = l => Head(toServer[c]) \in Of(toServer[c], l)
                            /\ First(toServer[c], l) => Of(toServer'[c], l) = {}
                            /\ Last(toServer[c], l) /\ Head(toServer[c]).kind = l => Of(toServer'[c], l) = {}
         /\ \A d \in Conn, l \in Kind : /\ Of(toServer'[d], l) \subseteq Of(toServer[d], l)
                                        /\ First(toServer[d], l) => First(toServer'[d], l)
                                        /\ Last(toServer[d], l) => Last(toServer'[d], l)
<1>1. toServer[c] \in Seq(Frame) /\ toServer'[c] = Tail(toServer[c]) /\ \A d \in Conn \ {c} : toServer'[d] = toServer[d]
  BY DEF TypeOK
<1> DEFINE q == toServer[c]
           r == Tail(q)
<1>2. q \in Seq(Frame) /\ q # <<>>
  BY <1>1
<1> HIDE DEF q, r
<1>3. /\ Head(q) \in Frame
      /\ \A l : /\ Of(r, l) \subseteq Of(q, l)
                /\ Head(q).kind = l => Head(q) \in Of(q, l)
                /\ First(q, l) => First(r, l) /\ Of(r, l) = {}
                /\ Last(q, l) => Last(r, l) /\ (Head(q).kind = l => Of(r, l) = {})
  BY <1>2, TailQueue DEF r
<1>4. q = toServer[c] /\ r = toServer'[c]
  BY <1>1 DEF q, r
<1>5. QED
  BY <1>1, <1>3, <1>4

-----------------------------------------------------------------------------
(* The pair the server holds stays in the folder: live rotations *)

\* No accident that NeverLockedOut excuses has happened.
Tame == manuals = 0 /\ mishaps \cap {"stray", "stacked"} = {}

\* The device uses the server's pair, or has it as its fallback; on disk is what
\* it uses, or what it is about to use.
DeviceInv ==
    /\ ~refused /\ cli = None
    /\ \/ applying = {} /\ disk = mem /\ stored \in {mem.cur, mem.prev}
       \/ \E a \in applying : /\ applying = {a} /\ a.prev = mem.cur /\ mem.cur = stored
                              /\ disk = [cur |-> a.pair, prev |-> mem.cur]

\* A pair that has been sent is not the one of a call that has yet to send.
Old(p) == p <= lives /\ \A j \in jobs : j.to = NoConn => j.pair # p

NumberInv ==
    /\ stored <= lives
    /\ \A c \in Conn : /\ \A f \in Of(toAgent[c], "rotate") : Old(f.pair)
                       /\ \A f \in Of(toServer[c], "ok") : Old(f.pair)
    /\ \A a \in applying : Old(a.pair)
    /\ \A j \in jobs : /\ j.pair <= lives /\ j.pair # stored
                       /\ \A k \in jobs : k.pair = j.pair => k = j

\* A socket that refused its token carries nothing but that.
RefusalInv ==
    \A c \in Conn :
       /\ srv[c].state = "rejected" => Of(toAgent[c], "rotate") = {} /\ Of(toAgent[c], "hello") = {}
       /\ srv[c].state # "rejected" => Of(toAgent[c], "refused") = {}
       /\ First(toAgent[c], "hello")

\* On the device's socket: until "hello" has arrived, the server holds the
\* pair in use, unless it refused it; and an answer a call waits for is about
\* the pair in use.
StageInv ==
    \A c \in Conn : conn = c =>
       /\ srv[c].state \in {"comparing", "unheard"} => token[c] = mem.cur /\ srv[c].secret = stored
       /\ srv[c].state \in {"comparing", "unheard", "rejected"} => applying = {} /\ Of(toServer[c], "ok") = {}
       /\ srv[c].state = "rejected" => mem.cur # stored
       /\ Of(toAgent[c], "hello") # {} => mem.cur = stored /\ applying = {} /\ Of(toServer[c], "ok") = {}
       /\ \A f \in Of(toServer[c], "ok"), j \in jobs : j.pair = f.pair /\ j.to = c => mem.cur = f.pair

LiveInv == DeviceInv /\ NumberInv /\ RefusalInv /\ StageInv

LEMMA LiveInit == Init => LiveInv
<1> SUFFICES ASSUME Init PROVE LiveInv
  OBVIOUS
<1>1. \A c \in Conn : toAgent[c] = <<>> /\ toServer[c] = <<>> /\ srv[c].state = "none"
  BY DEF Init, NoEntry
<1>2. DeviceInv
  BY DEF Init, DeviceInv
<1>3. NumberInv
  BY <1>1, EmptyQueue DEF Init, NumberInv
<1>4. RefusalInv
  BY <1>1, EmptyQueue DEF RefusalInv
<1>5. StageInv
  BY Pairs DEF Init, StageInv
<1>6. QED
  BY <1>2, <1>3, <1>4, <1>5 DEF LiveInv

\* What a step may do to a socket without touching the device or the pair.
Steady(d) == /\ srv'[d].state = srv[d].state /\ srv'[d].secret = srv[d].secret
             /\ token'[d] = token[d]
             /\ \A k \in Kind : /\ Of(toAgent'[d], k) \subseteq Of(toAgent[d], k)
                                /\ Of(toServer'[d], k) \subseteq Of(toServer[d], k)
             /\ First(toAgent'[d], "hello")
Emptied(d) == /\ srv'[d].state = "none"
              /\ \A k \in Kind : Of(toAgent'[d], k) = {} /\ Of(toServer'[d], k) = {}
              /\ First(toAgent'[d], "hello")

\* The calls are some of those there were.
Fewer == /\ \A j \in jobs' : \E k \in jobs : j.pair = k.pair /\ j.to = k.to
         /\ \A j, k \in jobs' : j.pair = k.pair => j = k

LEMMA FewerOld ==
  ASSUME Fewer, lives' = lives
  PROVE  \A p : Old(p) => Old(p)'
BY DEF Fewer, Old

LEMMA LiveKeeps ==
  ASSUME LiveInv, Fewer,
         UNCHANGED <<stored, mem, disk, applying, refused, cli, lives>>,
         conn' \in {conn, NoConn}, NoConn \notin Conn,
         \A d \in Conn : Steady(d) \/ Emptied(d)
  PROVE  LiveInv'
<1>1. DeviceInv'
  BY DEF LiveInv, DeviceInv
<1>2. \A d \in Conn, k \in Kind : /\ Of(toAgent'[d], k) \subseteq Of(toAgent[d], k)
                                  /\ Of(toServer'[d], k) \subseteq Of(toServer[d], k)
  BY DEF Steady, Emptied
<1>3. NumberInv'
  <2>1. \A c \in Conn : /\ \A f \in Of(toAgent'[c], "rotate") : Old(f.pair)'
                        /\ \A f \in Of(toServer'[c], "ok") : Old(f.pair)'
    BY <1>2, FewerOld DEF LiveInv, NumberInv, Kind
  <2>2. \A a \in applying' : Old(a.pair)'
    BY FewerOld DEF LiveInv, NumberInv
  <2>3. \A j \in jobs' : /\ j.pair <= lives' /\ j.pair # stored'
                         /\ \A k \in jobs' : k.pair = j.pair => k = j
    BY DEF LiveInv, NumberInv, Fewer
  <2>4. QED
    BY <2>1, <2>2, <2>3 DEF LiveInv, NumberInv
<1>4. RefusalInv'
  BY <1>2 DEF LiveInv, RefusalInv, Steady, Emptied, Kind
<1>5. StageInv'
  <2>1. SUFFICES ASSUME NEW c \in Conn, conn' = c
                 PROVE  /\ srv'[c].state \in {"comparing", "unheard"} => token'[c] = mem.cur /\ srv'[c].secret = stored
                        /\ srv'[c].state \in {"comparing", "unheard", "rejected"} =>
                              applying = {} /\ Of(toServer'[c], "ok") = {}
                        /\ srv'[c].state = "rejected" => mem.cur # stored
                        /\ Of(toAgent'[c], "hello") # {} =>
                              mem.cur = stored /\ applying = {} /\ Of(toServer'[c], "ok") = {}
                        /\ \A f \in Of(toServer'[c], "ok"), j \in jobs' :
                              j.pair = f.pair /\ j.to = c => mem.cur = f.pair
    BY DEF StageInv
  <2>2. conn = c
    BY <2>1
  <2>3. \A f \in Of(toServer'[c], "ok"), j \in jobs' : j.pair = f.pair /\ j.to = c => mem.cur = f.pair
    BY <1>2, <2>2 DEF LiveInv, StageInv, Fewer, Kind
  <2>4. CASE Steady(c)
    BY <2>2, <2>3, <2>4, <1>2 DEF LiveInv, StageInv, Steady, Kind
  <2>5. CASE Emptied(c)
    BY <2>3, <2>5 DEF Emptied, Kind
  <2>6. QED
    BY <2>4, <2>5
<1>6. QED
  BY <1>1, <1>3, <1>4, <1>5 DEF LiveInv

\* Nothing happens to a socket.
Same(d) == /\ srv'[d].state = srv[d].state /\ srv'[d].secret = srv[d].secret
           /\ token'[d] = token[d] /\ toAgent'[d] = toAgent[d] /\ toServer'[d] = toServer[d]

LEMMA SameSteady ==
  ASSUME LiveInv
  PROVE  \A d \in Conn : Same(d) => Steady(d)
BY DEF LiveInv, RefusalInv, Same, Steady

LEMMA SameJobs ==
  ASSUME LiveInv, jobs' \subseteq jobs
  PROVE  Fewer
BY DEF LiveInv, NumberInv, Fewer

LEMMA OfType ==
  ASSUME TypeOK
  PROVE  \A c \in Conn : \A k :
            /\ \A f \in Of(toAgent[c], k) : f \in Frame /\ f.pair \in Pair /\ f.kind = k
            /\ \A f \in Of(toServer[c], k) : f \in Frame /\ f.pair \in Pair /\ f.kind = k
<1>1. TAKE c \in Conn
<1> TAKE k
<1>2. toAgent[c] \in Seq(Frame) /\ toServer[c] \in Seq(Frame)
  BY DEF TypeOK
<1>3. ASSUME NEW q \in Seq(Frame), NEW f \in Of(q, k) PROVE f \in Frame /\ f.pair \in Pair /\ f.kind = k
  <2>1. PICK i \in DOMAIN q : q[i] = f /\ f.kind = k
    BY <1>3 DEF Of
  <2>2. f \in Frame
    BY <2>1
  <2>3. QED
    BY <2>1, <2>2 DEF Frame
<1>4. QED
  BY <1>2, <1>3

\* The numbers still hold if no request or answer has come and no call either.
LEMMA NumberKeeps ==
  ASSUME LiveInv, Fewer, UNCHANGED <<stored, applying, lives>>,
         \A d \in Conn : /\ Of(toAgent'[d], "rotate") \subseteq Of(toAgent[d], "rotate")
                         /\ Of(toServer'[d], "ok") \subseteq Of(toServer[d], "ok")
  PROVE  NumberInv'
<1>1. \A c \in Conn : /\ \A f \in Of(toAgent'[c], "rotate") : Old(f.pair)'
                      /\ \A f \in Of(toServer'[c], "ok") : Old(f.pair)'
  BY FewerOld DEF LiveInv, NumberInv
<1>2. \A a \in applying' : Old(a.pair)'
  BY FewerOld DEF LiveInv, NumberInv
<1>3. \A j \in jobs' : /\ j.pair <= lives' /\ j.pair # stored'
                       /\ \A k \in jobs' : k.pair = j.pair => k = j
  BY DEF LiveInv, NumberInv, Fewer
<1>4. QED
  BY <1>1, <1>2, <1>3 DEF LiveInv, NumberInv

LEMMA LiveCompared ==
  ASSUME PlaceInv, LiveInv, NEW c \in Conn, CloseUnheard(c) \/ Accept(c) \/ Refuse(c)
  PROVE  LiveInv'
<1>1. /\ srv[c].state \in {"comparing", "unheard"} /\ toAgent[c] = <<>>
      /\ UNCHANGED <<stored, mem, disk, applying, refused, cli, lives, jobs, conn, token, toServer>>
  BY DEF CloseUnheard, Accept, Refuse, device, wires, bounds, PlaceInv, SlotInv
<1>2. /\ srv'[c].secret = srv[c].secret /\ \A d \in Conn \ {c} : srv'[d] = srv[d]
      /\ CloseUnheard(c) => srv'[c].state = "unheard"
      /\ Accept(c) => srv'[c].state = IF srv[c].state = "unheard" THEN "ghost" ELSE "open"
      /\ Refuse(c) => srv'[c].state = "rejected"
  BY Compared DEF PlaceInv
<1>3. \A k \in Kind : Of(toAgent[c], k) = {} /\ First(toAgent[c], k)
  BY <1>1, EmptyQueue
<1>4. /\ \A d \in Conn \ {c} : toAgent'[d] = toAgent[d]
      /\ First(toAgent'[c], "hello")
      /\ \A k \in Kind : CloseUnheard(c) => Of(toAgent'[c], k) = {}
      /\ \A k \in Kind \ {"hello"} : Accept(c) => Of(toAgent'[c], k) = {}
      /\ \A k \in Kind \ {"refused"} : Refuse(c) => Of(toAgent'[c], k) = {}
  <2>1. CASE CloseUnheard(c)
    <3>1. toAgent' = toAgent /\ ~Accept(c) /\ ~Refuse(c)
      BY <2>1, <1>2 DEF CloseUnheard, wires
    <3>2. QED
      BY <2>1, <3>1, <1>3 DEF Kind
  <2>2. CASE Accept(c)
    <3>1. toAgent' = Push(toAgent, c, Message("hello", 0, 0)) /\ ~CloseUnheard(c) /\ ~Refuse(c)
      BY <2>2, <1>2 DEF Accept
    <3>2. \A d \in Conn \ {c} : toAgent'[d] = toAgent[d]
      BY <3>1, PushPlace, Pairs
    <3>3. First(toAgent'[c], "hello") /\ \A k \in Kind \ {"hello"} : Of(toAgent'[c], k) = {}
      BY <3>1, <1>1, <1>3, PushOf, Pairs DEF Kind, PlaceInv
    <3>4. QED
      BY <3>1, <3>2, <3>3
  <2>3. CASE Refuse(c)
    <3>1. toAgent' = Push(toAgent, c, Message("refused", 0, 0)) /\ ~CloseUnheard(c) /\ ~Accept(c)
      BY <2>3, <1>2 DEF Refuse
    <3>2. \A d \in Conn \ {c} : toAgent'[d] = toAgent[d]
      BY <3>1, PushPlace, Pairs
    <3>3. First(toAgent'[c], "hello") /\ \A k \in Kind \ {"refused"} : Of(toAgent'[c], k) = {}
      BY <3>1, <1>1, <1>3, PushOf, Pairs DEF Kind, PlaceInv
    <3>4. QED
      BY <3>1, <3>2, <3>3
  <2>4. QED
    BY <2>1, <2>2, <2>3
<1>5. DeviceInv'
  BY <1>1 DEF LiveInv, DeviceInv
<1>6. NumberInv'
  <2>1. \A d \in Conn : Of(toAgent'[d], "rotate") \subseteq Of(toAgent[d], "rotate")
    BY <1>4 DEF Kind
  <2>2. QED
    BY <1>1, <2>1, SameJobs, NumberKeeps
<1>7. RefusalInv'
  BY <1>2, <1>4 DEF LiveInv, RefusalInv, Kind
<1>8. StageInv'
  <2>1. SUFFICES ASSUME NEW d \in Conn, conn = d
                 PROVE  /\ srv'[d].state \in {"comparing", "unheard"} => token[d] = mem.cur /\ srv'[d].secret = stored
                        /\ srv'[d].state \in {"comparing", "unheard", "rejected"} =>
                              applying = {} /\ Of(toServer[d], "ok") = {}
                        /\ srv'[d].state = "rejected" => mem.cur # stored
                        /\ Of(toAgent'[d], "hello") # {} =>
                              mem.cur = stored /\ applying = {} /\ Of(toServer[d], "ok") = {}
                        /\ \A f \in Of(toServer[d], "ok"), j \in jobs :
                              j.pair = f.pair /\ j.to = d => mem.cur = f.pair
    BY <1>1 DEF StageInv
  <2>2. CASE d # c
    BY <2>1, <2>2, <1>2, <1>4 DEF LiveInv, StageInv
  <2>3. CASE d = c
    <3>1. applying = {} /\ Of(toServer[c], "ok") = {} /\ token[c] = mem.cur /\ srv[c].secret = stored
      BY <2>1, <2>3, <1>1 DEF LiveInv, StageInv
    <3>2. CASE CloseUnheard(c)
      BY <2>3, <3>1, <3>2, <1>2, <1>4 DEF Kind
    <3>3. CASE Accept(c)
      <4>1. mem.cur = stored /\ srv'[c].state \in {"open", "ghost"}
        BY <3>1, <3>3, <1>2 DEF Accept
      <4>2. QED
        BY <2>3, <3>1, <4>1
    <3>4. CASE Refuse(c)
      <4>1. mem.cur # stored /\ srv'[c].state = "rejected" /\ Of(toAgent'[c], "hello") = {}
        BY <3>1, <3>4, <1>2, <1>4 DEF Refuse, Kind
      <4>2. QED
        BY <2>3, <3>1, <4>1
    <3>5. QED
      BY <3>2, <3>3, <3>4
  <2>4. QED
    BY <2>2, <2>3
<1>9. QED
  BY <1>5, <1>6, <1>7, <1>8 DEF LiveInv

\* A rotation starts: its pair is newer than all there are.
LEMMA LiveRotates ==
  ASSUME PlaceInv, LiveInv, manuals = 0, SweeperRotates \/ TimerRotates
  PROVE  LiveInv'
<1>1. /\ UNCHANGED <<stored, mem, disk, applying, refused, cli, conn, token, toAgent, toServer>>
      /\ \A d \in Conn : Same(d)
  BY RotatesType DEF SweeperRotates, TimerRotates, device, wires, PlaceInv, Same
<1>2. CASE UNCHANGED <<jobs, lives>>
  BY <1>1, <1>2, SameJobs, SameSteady, LiveKeeps, Pairs
<1>3. CASE CanRotate /\ Rotate
  <2> DEFINE n == [pair |-> lives + 1, on |-> primary, to |-> NoConn]
  <2>1. jobs' = jobs \cup {n} /\ lives' = lives + 1
    BY <1>3 DEF Rotate, Fresh, PlaceInv, TypeOK
  <2>2. n.pair = lives + 1 /\ n.to = NoConn
    OBVIOUS
  <2> HIDE DEF n
  <2>3. /\ lives \in Int /\ stored \in Int /\ \A j \in jobs : j.pair \in Int /\ j.pair <= lives
        /\ stored <= lives
    BY Pairs DEF PlaceInv, TypeOK, LiveInv, NumberInv, Job
  <2>4. \A p \in Pair : Old(p) => Old(p)'
    <3>1. SUFFICES ASSUME NEW p \in Pair, Old(p) PROVE Old(p)'
      OBVIOUS
    <3>2. p \in Int /\ p <= lives
      BY <3>1, Pairs DEF Old
    <3>3. p <= lives' /\ n.pair # p
      BY <2>1, <2>2, <2>3, <3>2
    <3>4. QED
      BY <2>1, <3>1, <3>3 DEF Old
  <2>5. /\ \A c \in Conn : /\ \A f \in Of(toAgent'[c], "rotate") : Old(f.pair)'
                           /\ \A f \in Of(toServer'[c], "ok") : Old(f.pair)'
        /\ \A a \in applying' : Old(a.pair)'
    <3>1. \A a \in applying : a.pair \in Pair
      BY DEF PlaceInv, TypeOK
    <3>2. QED
      BY <1>1, <2>4, <3>1, OfType DEF PlaceInv, LiveInv, NumberInv
  <2>6. \A j \in jobs' : /\ j.pair <= lives' /\ j.pair # stored'
                         /\ \A k \in jobs' : k.pair = j.pair => k = j
    <3>1. /\ n.pair <= lives' /\ n.pair # stored /\ \A j \in jobs : j.pair # n.pair
          /\ \A j \in jobs : j.pair <= lives'
      BY <2>1, <2>2, <2>3
    <3>2. QED
      BY <1>1, <2>1, <3>1 DEF LiveInv, NumberInv
  <2>7. stored' <= lives'
    BY <1>1, <2>1, <2>3
  <2>8. DeviceInv' /\ RefusalInv'
    BY <1>1 DEF LiveInv, DeviceInv, RefusalInv, Same
  <2>9. StageInv'
    <3>1. \A j \in jobs', c \in Conn : j.to = c => j \in jobs
      BY <2>1, <2>2, Pairs
    <3>2. QED
      BY <1>1, <3>1 DEF LiveInv, StageInv, Same
  <2>10. QED
    BY <2>5, <2>6, <2>7, <2>8, <2>9 DEF LiveInv, NumberInv
<1>4. QED
  BY <1>2, <1>3 DEF SweeperRotates, TimerRotates

\* The request goes out: no answer to it was there before.
LEMMA LiveSends ==
  ASSUME PlaceInv, LiveInv, NEW j \in jobs, SendRotate(j)
  PROVE  LiveInv'
<1>1. /\ UNCHANGED <<stored, srv, mem, disk, applying, refused, cli, conn, lives, token, toServer>>
      /\ j.to = NoConn
  BY DEF SendRotate, device, bounds
<1>2. CASE primary = NoConn
  <2>1. jobs' \subseteq jobs /\ toAgent' = toAgent
    BY <1>2 DEF SendRotate
  <2>2. \A d \in Conn : Same(d)
    BY <1>1, <2>1 DEF Same
  <2>3. QED
    BY <1>1, <2>1, <2>2, SameJobs, SameSteady, LiveKeeps, Pairs
<1>3. CASE primary # NoConn
  <2>1. PICK c \in Conn : c = primary
    BY <1>3 DEF PlaceInv, TypeOK
  <2>2. srv[c].state \in {"open", "ghost"}
    BY <1>3, <2>1 DEF PlaceInv, TypeOK
  <2>3. PICK p \in Pair, s \in Pair : p = j.pair /\ s = srv[c].secret
    <3>1. j \in Job /\ srv[c] \in Entry
      BY DEF PlaceInv, TypeOK
    <3>2. QED
      BY <3>1 DEF Job, Entry
  <2>4. toAgent' = Push(toAgent, c, Message("rotate", p, s))
    BY <1>3, <2>1, <2>3 DEF SendRotate
  <2>5. /\ \A d \in Conn, l \in Kind \ {"rotate"} : Of(toAgent'[d], l) = Of(toAgent[d], l)
        /\ \A d \in Conn : \A f \in Of(toAgent'[d], "rotate") : f \in Of(toAgent[d], "rotate") \/ (d = c /\ f.pair = p)
        /\ \A d \in Conn : First(toAgent'[d], "hello")
    <3>1. Message("rotate", p, s).pair = p
      BY Frames
    <3>2. \A d \in Conn : First(toAgent[d], "hello")
      BY DEF LiveInv, RefusalInv
    <3>3. \A d \in Conn, l \in Kind : Of(toAgent'[d], l) =
             Of(toAgent[d], l) \cup (IF d = c /\ link[c] /\ l = "rotate" THEN {Message("rotate", p, s)} ELSE {})
      <4>1. "rotate" \in Kind
        BY DEF Kind
      <4>2. \A d \in Conn, l \in Kind : Of(Push(toAgent, c, Message("rotate", p, s))[d], l) =
               Of(toAgent[d], l) \cup (IF d = c /\ link[c] /\ l = "rotate" THEN {Message("rotate", p, s)} ELSE {})
        BY <4>1, PushOf DEF PlaceInv
      <4>3. QED
        BY <2>4, <4>2
    <3>4. \A d \in Conn : First(toAgent'[d], "hello")
      BY <2>4, <3>2, PushOf DEF Kind, PlaceInv
    <3>5. QED
      BY <3>1, <3>3, <3>4 DEF Kind
  <2>6. /\ \A k \in jobs' : \/ k \in jobs /\ k # j
                            \/ k.pair = p /\ k.to = c
        /\ \A k, l \in jobs' : k.pair = l.pair => k = l
    <3>1. PICK m : m = [j EXCEPT !.to = c]
      OBVIOUS
    <3>2. m.pair = p /\ m.to = c
      BY <3>1, <2>3 DEF PlaceInv, TypeOK, Job
    <3>3. jobs' = (jobs \ {j}) \cup {m}
      BY <1>3, <2>1, <3>1 DEF SendRotate
    <3>4. QED
      BY <3>2, <3>3, <2>3 DEF LiveInv, NumberInv
  <2>7. \A k \in jobs' : k.to = NoConn => k \in jobs /\ k.pair # p
    BY <2>6, <2>3, Pairs DEF LiveInv, NumberInv
  <2>8. Old(p)' /\ \A q : Old(q) => Old(q)'
    BY <1>1, <2>3, <2>7 DEF LiveInv, NumberInv, Old
  <2>9. NumberInv'
    <3>1. \A d \in Conn : /\ \A f \in Of(toAgent'[d], "rotate") : Old(f.pair)'
                          /\ \A f \in Of(toServer'[d], "ok") : Old(f.pair)'
      BY <1>1, <2>5, <2>8 DEF LiveInv, NumberInv
    <3>2. \A a \in applying' : Old(a.pair)'
      BY <1>1, <2>8 DEF LiveInv, NumberInv
    <3>3. \A k \in jobs' : k.pair <= lives' /\ k.pair # stored'
      BY <1>1, <2>3, <2>6 DEF LiveInv, NumberInv
    <3>4. QED
      BY <1>1, <2>6, <3>1, <3>2, <3>3 DEF LiveInv, NumberInv
  <2>10. RefusalInv'
    <3>1. \A d \in Conn : srv[d].state = "rejected" => Of(toAgent'[d], "rotate") = {}
      BY <2>2, <2>5 DEF LiveInv, RefusalInv
    <3>2. QED
      BY <1>1, <2>5, <3>1 DEF LiveInv, RefusalInv, Kind
  <2>11. DeviceInv'
    BY <1>1 DEF LiveInv, DeviceInv
  <2>12. StageInv'
    <3>1. \A d \in Conn : \A f \in Of(toServer[d], "ok"), k \in jobs' : conn = d /\ k.pair = f.pair /\ k.to = d => mem.cur = f.pair
      <4>1. \A d \in Conn : \A f \in Of(toServer[d], "ok") : f.pair # p
        BY <1>1, <2>3 DEF LiveInv, NumberInv, Old
      <4>2. QED
        BY <2>6, <4>1 DEF LiveInv, StageInv
    <3>2. \A d \in Conn : Of(toAgent'[d], "hello") = Of(toAgent[d], "hello")
      BY <2>5 DEF Kind
    <3>3. QED
      BY <1>1, <3>1, <3>2 DEF LiveInv, StageInv
  <2>13. QED
    BY <2>9, <2>10, <2>11, <2>12 DEF LiveInv
<1>4. QED
  BY <1>2, <1>3

\* An answer is stored: it is about the pair the device uses.
LEMMA LiveAnswers ==
  ASSUME PlaceInv, LiveInv, Tame', NEW c \in Conn, ServerReceives(c)
  PROVE  LiveInv'
<1>1. /\ UNCHANGED <<mem, disk, applying, refused, cli, conn, lives, token, toAgent>>
      /\ toServer[c] # <<>> /\ toServer' = [toServer EXCEPT ![c] = Tail(@)]
      /\ Head(toServer[c]).kind = "ok"
  BY DEF ServerReceives, device, bounds
<1>2. /\ Head(toServer[c]) \in Of(toServer[c], "ok")
      /\ \A d \in Conn, k \in Kind : Of(toServer'[d], k) \subseteq Of(toServer[d], k)
  <2>1. "ok" \in Kind /\ TypeOK
    BY DEF Kind, PlaceInv
  <2>2. \A l \in Kind : Head(toServer[c]).kind = l => Head(toServer[c]) \in Of(toServer[c], l)
    BY <1>1, <2>1, TakeOfServer
  <2>3. \A d \in Conn, l \in Kind : /\ Of(toServer'[d], l) \subseteq Of(toServer[d], l)
                                    /\ First(toServer[d], l) => First(toServer'[d], l)
                                    /\ Last(toServer[d], l) => Last(toServer'[d], l)
    BY <1>1, <2>1, TakeOfServer
  <2>4. Head(toServer[c]) \in Of(toServer[c], "ok")
    BY <1>1, <2>1, <2>2
  <2>5. QED
    BY <2>3, <2>4
<1>3. CASE UNCHANGED <<stored, pending, srv, jobs, mishaps>>
  <2>1. \A d \in Conn : Steady(d)
    BY <1>1, <1>2, <1>3 DEF Steady, LiveInv, RefusalInv
  <2>2. QED
    BY <1>1, <1>3, <2>1, SameJobs, LiveKeeps, Pairs
<1>4. CASE \E j \in jobs : Answered(c, j)
  <2>1. PICK j \in jobs : Answered(c, j)
    BY <1>4
  <2>2. conn = c
    BY <2>1 DEF Answered, Tame
  <2>3. /\ j.to = c /\ j.pair = Head(toServer[c]).pair /\ stored' = j.pair /\ jobs' = jobs \ {j}
        /\ j.pair \in Pair
    BY <2>1 DEF Answered, PlaceInv, TypeOK, Job
  <2>4. mem.cur = j.pair /\ j.pair # stored
    BY <1>2, <2>2, <2>3 DEF LiveInv, StageInv, NumberInv
  <2>5. DeviceInv'
    BY <1>1, <2>3, <2>4 DEF LiveInv, DeviceInv
  <2>6. \A d \in Conn : srv'[d].state = srv[d].state
    BY <2>1, AnsweredEntry DEF PlaceInv
  <2>7. Fewer
    BY <2>3, SameJobs
  <2>8. NumberInv'
    <3>1. \A d \in Conn : /\ \A f \in Of(toAgent'[d], "rotate") : Old(f.pair)'
                          /\ \A f \in Of(toServer'[d], "ok") : Old(f.pair)'
      BY <1>1, <1>2, <2>7, FewerOld DEF LiveInv, NumberInv, Kind
    <3>2. \A a \in applying' : Old(a.pair)'
      BY <1>1, <2>7, FewerOld DEF LiveInv, NumberInv
    <3>3. \A k \in jobs' : /\ k.pair <= lives' /\ k.pair # stored'
                           /\ \A l \in jobs' : l.pair = k.pair => l = k
      BY <1>1, <2>3 DEF LiveInv, NumberInv
    <3>4. stored' <= lives'
      BY <1>1, <2>3 DEF LiveInv, NumberInv
    <3>5. QED
      BY <3>1, <3>2, <3>3, <3>4 DEF NumberInv
  <2>9. RefusalInv'
    BY <1>1, <2>6 DEF LiveInv, RefusalInv
  <2>10. StageInv'
    <3>1. /\ srv[c].state \notin {"comparing", "unheard", "rejected"}
          /\ Of(toAgent[c], "hello") = {}
      BY <1>2, <2>2 DEF LiveInv, StageInv
    <3>2. \A f \in Of(toServer'[c], "ok"), k \in jobs' : k.pair = f.pair /\ k.to = c => mem.cur = f.pair
      BY <1>1, <1>2, <2>2, <2>3 DEF LiveInv, StageInv, Kind
    <3>3. QED
      BY <1>1, <2>2, <2>6, <3>1, <3>2 DEF StageInv
  <2>11. QED
    BY <2>5, <2>8, <2>9, <2>10 DEF LiveInv
<1>5. QED
  BY <1>3, <1>4, Answers DEF PlaceInv

LEMMA LiveCloses ==
  ASSUME PlaceInv, LiveInv, NEW c \in Conn, ServerCloses(c)
  PROVE  LiveInv'
<1>1. /\ UNCHANGED <<stored, mem, disk, applying, refused, cli, lives, conn, token>>
      /\ jobs' = Closing(c) /\ srv'[c].state = "none"
      /\ \A d \in Conn \ {c} : srv'[d] = srv[d] /\ toAgent'[d] = toAgent[d] /\ toServer'[d] = toServer[d]
      /\ toAgent'[c] = <<>> /\ toServer'[c] = <<>>
  BY NoEntryType DEF ServerCloses, device, bounds, PlaceInv, TypeOK
<1>2. Emptied(c)
  BY <1>1, EmptyQueue DEF Emptied
<1>3. \A d \in Conn \ {c} : Steady(d)
  BY <1>1, SameSteady DEF Same
<1>4. Fewer
  <2>1. \A j \in jobs' : \E k \in jobs : /\ j.pair = k.pair /\ j.to = k.to
                                         /\ j = [k EXCEPT !.on = IF @ = c THEN NoConn ELSE @]
    BY <1>1, ClosingJobs DEF PlaceInv
  <2>2. ASSUME NEW i \in jobs', NEW j \in jobs', i.pair = j.pair PROVE i = j
    <3>1. PICK k \in jobs : i.pair = k.pair /\ i = [k EXCEPT !.on = IF @ = c THEN NoConn ELSE @]
      BY <2>1
    <3>2. PICK l \in jobs : j.pair = l.pair /\ j = [l EXCEPT !.on = IF @ = c THEN NoConn ELSE @]
      BY <2>1
    <3>3. k = l
      BY <2>2, <3>1, <3>2 DEF LiveInv, NumberInv
    <3>4. QED
      BY <3>1, <3>2, <3>3
  <2>3. QED
    BY <2>1, <2>2 DEF Fewer
<1>5. QED
  BY <1>1, <1>2, <1>3, <1>4, LiveKeeps, Pairs

\* Steps that leave the device's credentials, the pair and the pairs' numbers alone.
LEMMA LiveQuiet ==
  ASSUME PlaceInv, LiveInv,
         \/ \E j \in jobs : RotateTimesOut(j)
         \/ \E c \in Conn : ServerGraceEnds(c) \/ Drop(c)
         \/ SeeDrop \/ AgentGraceEnds \/ UNCHANGED vars
  PROVE  LiveInv'
<1>1. CASE \/ \E j \in jobs : RotateTimesOut(j)
           \/ \E c \in Conn : ServerGraceEnds(c)
           \/ SeeDrop \/ AgentGraceEnds \/ UNCHANGED vars
  <2>1. /\ UNCHANGED <<stored, mem, disk, applying, refused, cli, lives, token, toAgent, toServer>>
        /\ conn' \in {conn, NoConn} /\ jobs' \subseteq jobs
    BY <1>1 DEF RotateTimesOut, ServerGraceEnds, SeeDrop, AgentGraceEnds, vars, server, device, wires, bounds
  <2>2. \A d \in Conn : srv'[d].state = srv[d].state /\ srv'[d].secret = srv[d].secret
    <3>1. CASE srv' = srv
      BY <3>1
    <3>2. CASE \E c \in Conn : ServerGraceEnds(c)
      BY <3>2, ExpiresType DEF PlaceInv
    <3>3. QED
      BY <1>1, <3>1, <3>2 DEF RotateTimesOut, SeeDrop, AgentGraceEnds, vars, server
  <2>3. \A d \in Conn : Steady(d)
    BY <2>1, <2>2, SameSteady DEF Same
  <2>4. QED
    BY <2>1, <2>3, SameJobs, LiveKeeps, Pairs
<1>2. ASSUME NEW c \in Conn, Drop(c) PROVE LiveInv'
  <2>1. /\ UNCHANGED <<stored, srv, mem, disk, applying, refused, cli, lives, conn, jobs>>
        /\ Lose(c)
    BY <1>2 DEF Drop, server, device
  <2>2. /\ token' = token /\ toAgent'[c] = <<>> /\ toServer'[c] \in {toServer[c], <<>>}
        /\ \A d \in Conn \ {c} : toAgent'[d] = toAgent[d] /\ toServer'[d] = toServer[d]
    BY <2>1, Loses DEF PlaceInv
  <2>3. Steady(c)
    BY <2>1, <2>2, EmptyQueue DEF Steady
  <2>4. \A d \in Conn \ {c} : Steady(d)
    BY <2>1, <2>2, SameSteady DEF Same
  <2>5. QED
    BY <2>1, <2>3, <2>4, SameJobs, LiveKeeps, Pairs
<1>3. QED
  BY <1>1, <1>2

LEMMA LiveConnects ==
  ASSUME PlaceInv, LiveInv, NEW c \in Conn, Connect(c)
  PROVE  LiveInv'
<1>1. /\ UNCHANGED <<stored, mem, disk, applying, refused, cli, lives, jobs, toAgent, toServer>>
      /\ conn' = c /\ applying = {}
      /\ token'[c] = mem.cur /\ \A d \in Conn \ {c} : token'[d] = token[d]
      /\ toAgent[c] = <<>> /\ toServer[c] = <<>>
  BY DEF Connect, Free, bounds, PlaceInv, SlotInv, TypeOK
<1>2. /\ srv'[c].state = "comparing" /\ srv'[c].secret = stored
      /\ \A d \in Conn \ {c} : srv'[d] = srv[d]
  BY ConnectType DEF PlaceInv
<1>3. \A k \in Kind : Of(toAgent[c], k) = {} /\ Of(toServer[c], k) = {}
  BY <1>1, EmptyQueue
<1>4. DeviceInv'
  BY <1>1 DEF LiveInv, DeviceInv
<1>5. NumberInv'
  BY <1>1, SameJobs, NumberKeeps
<1>6. RefusalInv'
  BY <1>1, <1>2, <1>3 DEF LiveInv, RefusalInv, Kind
<1>7. StageInv'
  BY <1>1, <1>2, <1>3 DEF StageInv, Kind
<1>8. QED
  BY <1>4, <1>5, <1>6, <1>7 DEF LiveInv

LEMMA LiveHello ==
  ASSUME PlaceInv, LiveInv, NEW c \in Conn, ReceiveHello(c)
  PROVE  LiveInv'
<1>1. /\ UNCHANGED <<stored, srv, jobs, applying, refused, cli, lives, conn, token, toServer>>
      /\ conn = c /\ toAgent[c] # <<>> /\ Head(toAgent[c]).kind = "hello"
      /\ toAgent' = [toAgent EXCEPT ![c] = Tail(@)]
  BY DEF ReceiveHello, Received, server, bounds
<1>2. /\ Of(toAgent[c], "hello") # {}
      /\ \A d \in Conn, k \in Kind : Of(toAgent'[d], k) \subseteq Of(toAgent[d], k)
      /\ \A d \in Conn : First(toAgent'[d], "hello")
  <2>1. "hello" \in Kind /\ \A d \in Conn : First(toAgent[d], "hello")
    BY DEF Kind, LiveInv, RefusalInv
  <2>2. QED
    BY <1>1, <2>1, TakeOfAgent DEF PlaceInv
<1>3. mem.cur = stored /\ applying = {} /\ disk = mem
  BY <1>1, <1>2 DEF LiveInv, StageInv, DeviceInv
<1>4. mem'.cur = mem.cur /\ disk' = mem'
  BY <1>3 DEF ReceiveHello, Commit, PlaceInv, TypeOK, Kept
<1>5. DeviceInv'
  BY <1>1, <1>3, <1>4 DEF LiveInv, DeviceInv
<1>6. NumberInv'
  BY <1>1, <1>2, SameJobs, NumberKeeps DEF Kind
<1>7. RefusalInv'
  BY <1>1, <1>2 DEF LiveInv, RefusalInv, Kind
<1>8. StageInv'
  BY <1>1, <1>2, <1>4 DEF LiveInv, StageInv, Kind
<1>9. QED
  BY <1>5, <1>6, <1>7, <1>8 DEF LiveInv

\* A request is applied, or dropped.
LEMMA LiveRequest ==
  ASSUME PlaceInv, LiveInv, Tame', NEW c \in Conn, ReceiveRotate(c)
  PROVE  LiveInv'
<1> DEFINE f == Head(toAgent[c])
<1>1. /\ UNCHANGED <<stored, srv, jobs, mem, refused, cli, lives, conn, token, toServer>>
      /\ conn = c /\ toAgent[c] # <<>> /\ f.kind = "rotate"
      /\ toAgent' = [toAgent EXCEPT ![c] = Tail(@)]
  BY DEF ReceiveRotate, Received, server, bounds
<1>2. \A d \in Conn : First(toAgent[d], "hello")
  BY DEF LiveInv, RefusalInv
<1>3. /\ f \in Of(toAgent[c], "rotate") /\ Of(toAgent'[c], "hello") = {}
      /\ \A d \in Conn, k \in Kind : Of(toAgent'[d], k) \subseteq Of(toAgent[d], k)
      /\ \A d \in Conn : First(toAgent'[d], "hello")
  <2>1. "hello" \in Kind /\ "rotate" \in Kind
    BY DEF Kind
  <2>2. QED
    BY <1>1, <1>2, <2>1, TakeOfAgent DEF PlaceInv
<1>4. CASE UNCHANGED <<disk, applying, mishaps>>
  <2>1. \A d \in Conn : Steady(d)
    BY <1>1, <1>3 DEF Steady
  <2>2. QED
    BY <1>1, <1>4, <2>1, SameJobs, LiveKeeps, Pairs
<1>5. CASE Persist(f.pair) /\ mishaps' = IF Ahead THEN mishaps \cup {"stacked"} ELSE mishaps
  <2>1. ~Ahead
    BY <1>5 DEF Tame
  <2>2. applying = {} /\ mem.cur = stored
    BY <2>1 DEF Ahead
  <2>3. PICK a : a = [pair |-> f.pair, prev |-> mem.cur]
    OBVIOUS
  <2>4. applying' = {a} /\ disk' = [cur |-> a.pair, prev |-> mem.cur] /\ a.pair = f.pair /\ a.prev = mem.cur
    BY <1>5, <2>2, <2>3 DEF Persist
  <2>5. DeviceInv'
    BY <1>1, <2>2, <2>4 DEF LiveInv, DeviceInv
  <2>6. NumberInv'
    <3>1. \A p : Old(p) => Old(p)'
      BY <1>1 DEF Old
    <3>2. Old(f.pair)
      BY <1>3 DEF LiveInv, NumberInv
    <3>3. \A d \in Conn : /\ \A g \in Of(toAgent'[d], "rotate") : Old(g.pair)'
                          /\ \A g \in Of(toServer'[d], "ok") : Old(g.pair)'
      BY <1>1, <1>3, <3>1 DEF LiveInv, NumberInv, Kind
    <3>4. \A b \in applying' : Old(b.pair)'
      BY <2>4, <3>1, <3>2
    <3>5. QED
      BY <1>1, <3>3, <3>4 DEF LiveInv, NumberInv
  <2>7. RefusalInv'
    BY <1>1, <1>3 DEF LiveInv, RefusalInv, Kind
  <2>8. StageInv'
    <3>1. srv[c].state \notin {"comparing", "unheard", "rejected"}
      BY <1>1, <1>3 DEF LiveInv, RefusalInv, PlaceInv, SlotInv
    <3>2. QED
      BY <1>1, <1>3, <3>1 DEF LiveInv, StageInv
  <2>9. QED
    BY <2>5, <2>6, <2>7, <2>8 DEF LiveInv
<1>6. QED
  BY <1>4, <1>5 DEF ReceiveRotate

\* A refused device goes back to its fallback, which the server holds.
LEMMA LiveRefused ==
  ASSUME PlaceInv, LiveInv, NEW c \in Conn, ReceiveRefused(c)
  PROVE  LiveInv'
<1>1. /\ UNCHANGED <<stored, srv, jobs, applying, cli, lives, token>>
      /\ conn = c /\ conn' = NoConn /\ toAgent[c] # <<>> /\ Head(toAgent[c]).kind = "refused"
      /\ toAgent' = [toAgent EXCEPT ![c] = <<>>]
      /\ toServer' = Push(toServer, c, Message("bye", 0, 0))
  BY DEF ReceiveRefused, Received, server, bounds
<1>2. Of(toAgent[c], "refused") # {}
  <2>1. toAgent[c] \in Seq(Frame)
    BY DEF PlaceInv, TypeOK
  <2>2. QED
    BY <1>1, <2>1, TailQueue
<1>3. srv[c].state = "rejected"
  BY <1>2 DEF LiveInv, RefusalInv
<1>4. applying = {} /\ mem.cur # stored
  BY <1>1, <1>3 DEF LiveInv, StageInv
<1>5. mem.prev = stored /\ mem.prev # None
  BY <1>4, Pairs DEF LiveInv, DeviceInv, PlaceInv, TypeOK
<1>6. mem'.cur = stored /\ disk' = mem' /\ refused' = refused
  BY <1>5 DEF ReceiveRefused, FallBack
<1>7. /\ \A d \in Conn, k \in Kind : Of(toAgent'[d], k) \subseteq Of(toAgent[d], k)
      /\ \A d \in Conn : First(toAgent'[d], "hello")
  <2>1. /\ \A d \in Conn : First(toAgent[d], "hello")
        /\ toAgent'[c] = <<>> /\ \A d \in Conn \ {c} : toAgent'[d] = toAgent[d]
    BY <1>1 DEF LiveInv, RefusalInv, PlaceInv, TypeOK
  <2>2. QED
    BY <2>1, EmptyQueue
<1>8. \A d \in Conn : Of(toServer'[d], "ok") = Of(toServer[d], "ok")
  <2>1. "bye" \in Kind /\ "ok" \in Kind /\ 0 \in Pair
    BY Pairs DEF Kind
  <2>2. \A d \in Conn, l \in Kind : Of(Push(toServer, c, Message("bye", 0, 0))[d], l) =
           Of(toServer[d], l) \cup (IF d = c /\ link[c] /\ l = "bye" THEN {Message("bye", 0, 0)} ELSE {})
    BY <2>1, PushOf DEF PlaceInv
  <2>3. "ok" # "bye"
    OBVIOUS
  <2>4. \A d \in Conn : Of(toServer'[d], "ok") =
           Of(toServer[d], "ok") \cup (IF d = c /\ link[c] /\ "ok" = "bye" THEN {Message("bye", 0, 0)} ELSE {})
    BY <1>1, <2>1, <2>2, Zenon
  <2>5. QED
    BY <2>3, <2>4
<1>9. DeviceInv'
  BY <1>1, <1>4, <1>6 DEF LiveInv, DeviceInv
<1>10. NumberInv'
  BY <1>1, <1>7, <1>8, SameJobs, NumberKeeps DEF Kind
<1>11. RefusalInv'
  BY <1>1, <1>7 DEF LiveInv, RefusalInv, Kind
<1>12. StageInv'
  BY <1>1, Pairs DEF StageInv
<1>13. QED
  BY <1>9, <1>10, <1>11, <1>12 DEF LiveInv

\* The answer goes out, and the pair it is about is in use.
LEMMA LiveAdopts ==
  ASSUME PlaceInv, LiveInv, NEW a \in applying, Adopt(a)
  PROVE  LiveInv'
<1>1. /\ UNCHANGED <<stored, srv, jobs, disk, refused, cli, lives, conn, token, toAgent>>
      /\ mem' = [cur |-> a.pair, prev |-> a.prev] /\ applying' = applying \ {a}
  BY DEF Adopt, server, bounds
<1>2. applying = {a} /\ a.prev = mem.cur /\ mem.cur = stored /\ disk = [cur |-> a.pair, prev |-> mem.cur]
  BY DEF LiveInv, DeviceInv
<1>3. applying' = {} /\ mem'.cur = a.pair /\ mem'.prev = stored /\ disk' = mem'
  BY <1>1, <1>2
<1>4. \A d \in Conn : /\ d # conn => Of(toServer'[d], "ok") = Of(toServer[d], "ok")
                      /\ \A f \in Of(toServer'[d], "ok") : f \in Of(toServer[d], "ok") \/ f.pair = a.pair
  <2>1. CASE conn = NoConn
    BY <2>1 DEF Adopt
  <2>2. CASE conn # NoConn
    <3>1. PICK c \in Conn, p \in Pair, s \in Pair : c = conn /\ p = a.pair /\ s = mem.cur
      BY <2>2 DEF PlaceInv, TypeOK, Kept
    <3>2. toServer' = Push(toServer, c, Message("ok", p, s))
      BY <2>2, <3>1 DEF Adopt
    <3>3. "ok" \in Kind /\ Message("ok", p, s).pair = p
      BY Frames DEF Kind
    <3>4. \A d \in Conn : Of(Push(toServer, c, Message("ok", p, s))[d], "ok") =
             Of(toServer[d], "ok") \cup (IF d = c /\ link[c] /\ "ok" = "ok" THEN {Message("ok", p, s)} ELSE {})
      BY <3>3, PushOf DEF PlaceInv
    <3>5. QED
      BY <3>1, <3>2, <3>3, <3>4
  <2>3. QED
    BY <2>1, <2>2
<1>5. DeviceInv'
  BY <1>1, <1>3 DEF LiveInv, DeviceInv
<1>6. NumberInv'
  <2>1. Old(a.pair) /\ \A p : Old(p) => Old(p)'
    BY <1>1 DEF LiveInv, NumberInv, Old
  <2>2. \A d \in Conn : /\ \A f \in Of(toAgent'[d], "rotate") : Old(f.pair)'
                        /\ \A f \in Of(toServer'[d], "ok") : Old(f.pair)'
    BY <1>1, <1>4, <2>1 DEF LiveInv, NumberInv
  <2>3. QED
    BY <1>1, <1>3, <2>2 DEF LiveInv, NumberInv
<1>7. RefusalInv'
  BY <1>1 DEF LiveInv, RefusalInv
<1>8. StageInv'
  <2>1. SUFFICES ASSUME NEW c \in Conn, conn = c
                 PROVE  /\ srv[c].state \notin {"comparing", "unheard", "rejected"}
                        /\ Of(toAgent[c], "hello") = {}
                        /\ \A f \in Of(toServer'[c], "ok"), j \in jobs :
                              j.pair = f.pair /\ j.to = c => mem'.cur = f.pair
    BY <1>1 DEF StageInv
  <2>2. srv[c].state \notin {"comparing", "unheard", "rejected"} /\ Of(toAgent[c], "hello") = {}
    BY <1>2, <2>1 DEF LiveInv, StageInv
  <2>3. \A f \in Of(toServer[c], "ok"), j \in jobs : ~(j.pair = f.pair /\ j.to = c)
    BY <1>2, <2>1 DEF LiveInv, StageInv, NumberInv
  <2>4. QED
    BY <1>3, <1>4, <2>2, <2>3
<1>9. QED
  BY <1>5, <1>6, <1>7, <1>8 DEF LiveInv

\* What is on disk is enough to start again.
LEMMA LiveRestarts ==
  ASSUME PlaceInv, LiveInv, Restart
  PROVE  LiveInv'
<1>1. /\ UNCHANGED <<stored, srv, jobs, disk, cli, lives, token>>
      /\ mem' = disk /\ conn' = NoConn /\ applying' = {} /\ ~refused'
  <2>1. token' = token
    BY DEF Restart, Lose, wires
  <2>2. QED
    BY <2>1 DEF Restart, server
<1>2. DeviceInv'
  BY <1>1 DEF LiveInv, DeviceInv
<1>3. \A d \in Conn : /\ toAgent'[d] \in {toAgent[d], <<>>} /\ toServer'[d] \in {toServer[d], <<>>}
  <2>1. CASE conn = NoConn
    BY <2>1 DEF Restart, wires
  <2>2. CASE conn # NoConn
    <3>1. PICK c \in Conn : c = conn
      BY <2>2 DEF PlaceInv, TypeOK
    <3>2. Lose(c)
      BY <2>2, <3>1 DEF Restart
    <3>3. QED
      BY <3>2, Loses DEF PlaceInv
  <2>3. QED
    BY <2>1, <2>2
<1>4. \A d \in Conn, k \in Kind : /\ Of(toAgent'[d], k) \subseteq Of(toAgent[d], k)
                                  /\ Of(toServer'[d], k) \subseteq Of(toServer[d], k)
  BY <1>3, EmptyQueue
<1>5. \A d \in Conn : First(toAgent'[d], "hello")
  BY <1>3, EmptyQueue DEF LiveInv, RefusalInv
<1>6. NumberInv'
  <2>1. Fewer
    BY <1>1, SameJobs
  <2>2. \A d \in Conn : /\ \A f \in Of(toAgent'[d], "rotate") : Old(f.pair)'
                        /\ \A f \in Of(toServer'[d], "ok") : Old(f.pair)'
    BY <1>1, <1>4, <2>1, FewerOld DEF LiveInv, NumberInv, Kind
  <2>3. QED
    BY <1>1, <2>2 DEF LiveInv, NumberInv
<1>7. RefusalInv'
  BY <1>1, <1>4, <1>5 DEF LiveInv, RefusalInv, Kind
<1>8. StageInv'
  BY <1>1, Pairs DEF StageInv
<1>9. QED
  BY <1>2, <1>6, <1>7, <1>8 DEF LiveInv

\* An accident once excused stays so.
LEMMA Tamed ==
  ASSUME PlaceInv, [Next]_vars, Tame'
  PROVE  Tame /\ manuals' = manuals
<1>1. manuals \in Nat
  BY RotationAssumption DEF PlaceInv, TypeOK
<1>2. ~ManualRotate
  BY <1>1 DEF ManualRotate, Tame
<1>3. ASSUME NEW c \in Conn, ServerReceives(c) PROVE Tame /\ manuals' = manuals
  BY <1>3, Answers DEF Answered, ServerReceives, bounds, Tame, PlaceInv
<1>4. ASSUME NEW c \in Conn, ReceiveRotate(c) PROVE Tame /\ manuals' = manuals
  BY <1>4 DEF ReceiveRotate, bounds, Tame
<1>5. ASSUME NEW j \in jobs, SendRotate(j) \/ RotateTimesOut(j) PROVE Tame /\ manuals' = manuals
  BY <1>5 DEF SendRotate, RotateTimesOut, bounds, Tame
<1>6. ASSUME UNCHANGED <<mishaps, manuals>> PROVE Tame /\ manuals' = manuals
  BY <1>6 DEF Tame
<1>7. QED
  BY <1>2, <1>3, <1>4, <1>5, <1>6 DEF Next, ServerStep, DeviceStep, Mishap, CloseUnheard, Accept, Refuse,
     ServerCloses, SweeperRotates, TimerRotates, ServerGraceEnds, Connect, ReceiveHello, ReceiveRefused,
     Adopt, AgentGraceEnds, SeeDrop, WakeUp, Restart, Drop, CliWrites, vars, bounds

LEMMA LiveStep ==
  ASSUME PlaceInv, LiveInv, Tame, Tame', [Next]_vars
  PROVE  LiveInv'
<1>1. ~ManualRotate /\ ~WakeUp /\ ~CliWrites /\ manuals = 0
  <2>1. manuals = 0 /\ manuals' = 0
    BY DEF Tame
  <2>2. ~ManualRotate
    BY <2>1 DEF ManualRotate
  <2>3. QED
    BY <2>1, <2>2 DEF WakeUp, CliWrites, LiveInv, DeviceInv
<1>2. CASE ServerStep
  BY <1>1, <1>2, LiveCompared, LiveCloses, LiveAnswers, LiveSends, LiveQuiet, LiveRotates DEF ServerStep
<1>3. CASE DeviceStep
  BY <1>1, <1>3, LiveConnects, LiveHello, LiveRequest, LiveRefused, LiveAdopts, LiveQuiet DEF DeviceStep
<1>4. CASE Mishap
  BY <1>4, LiveRestarts, LiveQuiet DEF Mishap
<1>5. QED
  BY <1>1, <1>2, <1>3, <1>4, LiveQuiet DEF Next

\* Whatever the constants are, and whatever is lost, late or restarted: while a
\* drive's rotations are all live or all by hand, the pair the server holds is
\* in the folder or about to be written there - unless an ok was stored
\* although the device had left its connection, or a rotation was applied on
\* top of one that the server had not stored.
THEOREM NeverLockedOutHolds == Spec => []NeverLockedOut
<1> DEFINE I == PlaceInv /\ (Tame => LiveInv)
<1>1. Init => I
  BY PlaceInit, LiveInit
<1>2. I /\ [Next]_vars => I'
  BY PlaceStep, LiveStep, Tamed
<1>3. I /\ (TypeOK /\ (lives = 0 => HandInv)) => NeverLockedOut
  <2>1. SUFFICES ASSUME I, lives = 0 => HandInv, lives = 0 \/ manuals = 0,
                        mishaps \cap {"stray", "stacked"} = {}
                 PROVE  stored \in {mem.cur, mem.prev, disk.cur, disk.prev, cli}
    BY DEF NeverLockedOut
  <2>2. CASE lives = 0
    BY <2>1, <2>2 DEF HandInv
  <2>3. CASE manuals = 0
    BY <2>1, <2>3 DEF Tame, LiveInv, DeviceInv
  <2>4. QED
    BY <2>1, <2>2, <2>3
<1>4. QED
  BY <1>1, <1>2, <1>3, HandInvariance, PTL DEF Spec

-----------------------------------------------------------------------------
(* A connected device is reachable, whatever kinds its rotations are of *)

\* No accident that ConnectedIsReachable excuses has happened.
InTurn == mishaps \cap {"late", "crossed"} = {}

\* A call waits at the entry it captured, and is the only one that did.
JobsApart ==
    \A j \in jobs : /\ j.to # NoConn => j.on = j.to
                    /\ \A k \in jobs : j.on # NoConn /\ k.on = j.on => k = j

Awaited(c, p) == \E j \in jobs : j.pair = p /\ j.on = c /\ j.to = c

\* On the socket the server accepted from the device: one rotation at a time is
\* a request on the wire, a pair being written, or an answer on the wire, and a
\* call waits for it; until there is an answer both ends use the same pair.
Serves(c) ==
    /\ Last(toAgent[c], "rotate") /\ Last(toServer[c], "ok")
    /\ Of(toServer[c], "ok") = {} => mem.cur = srv[c].secret
    /\ Of(toAgent[c], "rotate") # {} => applying = {} /\ Of(toServer[c], "ok") = {}
    /\ applying # {} => Of(toAgent[c], "rotate") = {} /\ Of(toServer[c], "ok") = {}
    /\ \A f \in Of(toAgent[c], "rotate") : Awaited(c, f.pair)
    /\ \A a \in applying : Awaited(c, a.pair) /\ applying = {a}
    /\ \A f \in Of(toServer[c], "ok") :
          Awaited(c, f.pair) /\ f.pair = mem.cur /\ f.sig = srv[c].secret

\* On the socket whose token is compared there is nothing yet.
Compares(c) == token[c] = mem.cur /\ applying = {} /\ Of(toServer[c], "ok") = {}

Reaches(c) == /\ srv[c].state = "comparing" => Compares(c)
              /\ srv[c].state = "open" => Serves(c)

ReachInv == JobsApart /\ \A c \in Conn : conn = c /\ link[c] => Reaches(c)

LEMMA NoneLast == \A q, k : Of(q, k) = {} => Last(q, k)
BY DEF Of, Last

LEMMA ReachInit == Init => ReachInv
BY Pairs DEF Init, ReachInv, JobsApart

\* Nothing happens on the device's socket, and whoever waits there still does.
LEMMA ReachKeeps ==
  ASSUME ReachInv, JobsApart', NoConn \notin Conn,
         \A c \in Conn : conn' = c /\ link'[c] =>
            /\ conn = c /\ link[c] /\ srv'[c].secret = srv[c].secret
            /\ srv'[c].state \in {srv[c].state, "closing"} /\ token'[c] = token[c]
            /\ toAgent'[c] = toAgent[c] /\ toServer'[c] = toServer[c]
            /\ mem'.cur = mem.cur /\ applying' = applying
            /\ \A p : Awaited(c, p) /\ srv[c].state = "open" =>
                  Awaited(c, p)' \/ (/\ \A f \in Of(toAgent[c], "rotate") : f.pair # p
                                     /\ \A f \in Of(toServer[c], "ok") : f.pair # p
                                     /\ \A a \in applying : a.pair # p)
  PROVE  ReachInv'
<1>1. SUFFICES ASSUME NEW c \in Conn, conn' = c /\ link'[c] PROVE Reaches(c)'
  BY DEF ReachInv
<1>2. Reaches(c)
  BY <1>1 DEF ReachInv
<1>3. CASE srv'[c].state = "comparing"
  BY <1>1, <1>2, <1>3 DEF Reaches, Compares
<1>4. CASE srv'[c].state = "open"
  <2>1. srv[c].state = "open" /\ Serves(c)
    BY <1>1, <1>2, <1>4 DEF Reaches
  <2>2. /\ \A f \in Of(toAgent[c], "rotate") : Awaited(c, f.pair)'
        /\ \A a \in applying : Awaited(c, a.pair)'
        /\ \A f \in Of(toServer[c], "ok") : Awaited(c, f.pair)'
    BY <1>1, <2>1 DEF Serves
  <2>3. Serves(c)'
    BY <1>1, <2>1, <2>2 DEF Serves
  <2>4. QED
    BY <1>4, <2>3 DEF Reaches
<1>5. QED
  BY <1>3, <1>4 DEF Reaches

LEMMA ApartFewer ==
  ASSUME ReachInv, jobs' \subseteq jobs
  PROVE  JobsApart'
BY DEF ReachInv, JobsApart

LEMMA ReachCompared ==
  ASSUME PlaceInv, ReachInv, NEW c \in Conn, CloseUnheard(c) \/ Accept(c) \/ Refuse(c)
  PROVE  ReachInv'
<1>1. /\ srv[c].state \in {"comparing", "unheard"} /\ toAgent[c] = <<>>
      /\ UNCHANGED <<mem, applying, jobs, conn, link, token, toServer>>
  BY DEF CloseUnheard, Accept, Refuse, device, wires, bounds, PlaceInv, SlotInv
<1>2. /\ srv'[c].secret = srv[c].secret /\ \A d \in Conn \ {c} : srv'[d] = srv[d]
      /\ CloseUnheard(c) => srv'[c].state = "unheard"
      /\ Accept(c) => srv'[c].state = IF srv[c].state = "unheard" THEN "ghost" ELSE "open"
      /\ Refuse(c) => srv'[c].state = "rejected"
  BY Compared DEF PlaceInv
<1>3. \A d \in Conn \ {c} : toAgent'[d] = toAgent[d]
  <2>1. CASE CloseUnheard(c)
    BY <2>1 DEF CloseUnheard, wires
  <2>2. CASE Accept(c)
    BY <2>2, PushPlace, Pairs DEF Accept
  <2>3. CASE Refuse(c)
    BY <2>3, PushPlace, Pairs DEF Refuse
  <2>4. QED
    BY <2>1, <2>2, <2>3
<1>4. ASSUME NEW d \in Conn, conn' = d, link'[d], d # c PROVE Reaches(d)'
  <2>1. Reaches(d)
    BY <1>1, <1>4 DEF ReachInv
  <2>2. QED
    BY <1>1, <1>2, <1>3, <1>4, <2>1 DEF Reaches, Serves, Compares, Awaited
<1>5. ASSUME conn' = c, link'[c] PROVE Reaches(c)'
  <2>1. srv[c].state = "comparing" /\ Compares(c)
    BY <1>1, <1>5 DEF PlaceInv, SlotInv, ReachInv, Reaches
  <2>2. CASE Accept(c)
    <3>1. srv'[c].state = "open" /\ token[c] = srv[c].secret
      BY <2>1, <2>2, <1>2 DEF Accept
    <3>2. Of(toAgent'[c], "rotate") = {}
      <4>1. toAgent' = Push(toAgent, c, Message("hello", 0, 0))
        BY <2>2 DEF Accept
      <4>2. "hello" \in Kind /\ "rotate" \in Kind /\ "rotate" # "hello" /\ 0 \in Pair
        BY Pairs DEF Kind
      <4>3. \A d \in Conn, l \in Kind : Of(Push(toAgent, c, Message("hello", 0, 0))[d], l) =
               Of(toAgent[d], l) \cup (IF d = c /\ link[c] /\ l = "hello" THEN {Message("hello", 0, 0)} ELSE {})
        BY <4>2, PushOf DEF PlaceInv
      <4>4. Of(toAgent[c], "rotate") = {}
        BY <1>1, EmptyQueue
      <4>5. QED
        BY <4>1, <4>2, <4>3, <4>4
    <3>3. Serves(c)'
      BY <1>1, <1>2, <2>1, <3>1, <3>2, NoneLast DEF Serves, Compares
    <3>4. QED
      BY <3>1, <3>3 DEF Reaches
  <2>3. CASE ~Accept(c)
    BY <2>3, <1>2 DEF Reaches
  <2>4. QED
    BY <2>2, <2>3
<1>6. JobsApart'
  BY <1>1, ApartFewer
<1>7. QED
  BY <1>4, <1>5, <1>6 DEF ReachInv

LEMMA ReachCloses ==
  ASSUME PlaceInv, ReachInv, NEW c \in Conn, ServerCloses(c)
  PROVE  ReachInv'
<1>1. /\ UNCHANGED <<mem, applying, conn, token>> /\ jobs' = Closing(c) /\ ~link'[c]
      /\ \A d \in Conn \ {c} : /\ srv'[d] = srv[d] /\ link'[d] = link[d]
                               /\ toAgent'[d] = toAgent[d] /\ toServer'[d] = toServer[d]
  BY DEF ServerCloses, device, PlaceInv, TypeOK
<1>2. \A j \in jobs' : \E k \in jobs : /\ j.pair = k.pair /\ j.to = k.to /\ k.to # c /\ j.on # c
                                       /\ j.on = IF k.on = c THEN NoConn ELSE k.on
                                       /\ j = [k EXCEPT !.on = IF @ = c THEN NoConn ELSE @]
  BY <1>1, ClosingJobs DEF PlaceInv
<1>3. JobsApart'
  <2>1. ASSUME NEW j \in jobs', j.to # NoConn PROVE j.on = j.to
    BY <1>2, <2>1 DEF ReachInv, JobsApart
  <2>2. ASSUME NEW i \in jobs', NEW j \in jobs', i.on # NoConn, j.on = i.on PROVE j = i
    <3>1. PICK k \in jobs : i.on = (IF k.on = c THEN NoConn ELSE k.on) /\ i = [k EXCEPT !.on = IF @ = c THEN NoConn ELSE @]
      BY <1>2
    <3>2. PICK l \in jobs : j.on = (IF l.on = c THEN NoConn ELSE l.on) /\ j = [l EXCEPT !.on = IF @ = c THEN NoConn ELSE @]
      BY <1>2
    <3>3. k = l
      BY <2>2, <3>1, <3>2 DEF ReachInv, JobsApart
    <3>4. QED
      BY <3>1, <3>2, <3>3
  <2>3. QED
    BY <2>1, <2>2 DEF JobsApart
<1>4. ASSUME NEW d \in Conn, d # c, NEW p, Awaited(d, p) PROVE Awaited(d, p)'
  <2>1. PICK j \in jobs : j.pair = p /\ j.on = d /\ j.to = d
    BY <1>4 DEF Awaited
  <2>2. j \in Job
    BY DEF PlaceInv, TypeOK
  <2>3. [j EXCEPT !.on = IF @ = c THEN NoConn ELSE @] = j
    BY <1>4, <2>1, <2>2 DEF Job
  <2>4. j \in Closing(c)
    BY <1>4, <2>1, <2>3 DEF Closing
  <2>5. QED
    BY <1>1, <2>1, <2>4 DEF Awaited
<1>5. QED
  BY <1>1, <1>3, <1>4, ReachKeeps, Pairs

\* An answer makes the server follow the device.
LEMMA ReachAnswers ==
  ASSUME PlaceInv, ReachInv, NEW c \in Conn, ServerReceives(c)
  PROVE  ReachInv'
<1>1. /\ UNCHANGED <<mem, applying, conn, link, token, toAgent>>
      /\ toServer[c] # <<>> /\ toServer' = [toServer EXCEPT ![c] = Tail(@)]
      /\ Head(toServer[c]).kind = "ok"
  BY DEF ServerReceives, device
<1>2. /\ Head(toServer[c]) \in Of(toServer[c], "ok")
      /\ Last(toServer[c], "ok") => Of(toServer'[c], "ok") = {}
      /\ \A d \in Conn \ {c} : toServer'[d] = toServer[d]
  <2>1. "ok" \in Kind /\ TypeOK /\ \A d \in Conn \ {c} : toServer'[d] = toServer[d]
    BY <1>1 DEF Kind, PlaceInv, TypeOK
  <2>2. \A l \in Kind : /\ Head(toServer[c]).kind = l => Head(toServer[c]) \in Of(toServer[c], l)
                        /\ Last(toServer[c], l) /\ Head(toServer[c]).kind = l => Of(toServer'[c], l) = {}
    BY <1>1, <2>1, TakeOfServer
  <2>3. QED
    BY <1>1, <2>1, <2>2
<1>3. ASSUME conn = c, link[c], srv[c].state = "open"
      PROVE  /\ Serves(c) /\ applying = {} /\ Of(toAgent[c], "rotate") = {}
             /\ Of(toServer'[c], "ok") = {} /\ Head(toServer[c]).pair = mem.cur
             /\ Head(toServer[c]).sig = srv[c].secret /\ Awaited(c, Head(toServer[c]).pair)
  BY <1>2, <1>3 DEF ReachInv, Reaches, Serves
<1>4. ASSUME conn = c, link[c] PROVE srv[c].state # "comparing"
  BY <1>2, <1>4 DEF ReachInv, Reaches, Compares
<1>5. CASE /\ UNCHANGED <<stored, pending, srv, jobs, mishaps>>
           /\ ~(/\ Head(toServer[c]).sig \in {srv[c].secret, srv[c].prev}
                /\ \E k \in jobs : k.pair = Head(toServer[c]).pair /\ k.to = c)
  <2>1. ~(conn = c /\ link[c] /\ srv[c].state = "open")
    BY <1>3, <1>5 DEF Awaited
  <2>2. ASSUME NEW d \in Conn, conn' = d, link'[d] PROVE Reaches(d)'
    <3>1. Reaches(d)
      BY <1>1, <2>2 DEF ReachInv
    <3>2. CASE d = c
      BY <1>1, <1>4, <1>5, <2>1, <2>2, <3>2 DEF Reaches
    <3>3. CASE d # c
      BY <1>1, <1>2, <1>5, <3>1, <3>3 DEF Reaches, Serves, Compares, Awaited
    <3>4. QED
      BY <3>2, <3>3
  <2>3. QED
    BY <1>5, <2>2, ApartFewer DEF ReachInv
<1>6. CASE \E j \in jobs : Answered(c, j)
  <2>1. PICK j \in jobs : Answered(c, j)
    BY <1>6
  <2>2. j.to = c /\ j.on = c /\ j.pair = Head(toServer[c]).pair /\ jobs' = jobs \ {j}
    BY <2>1, Pairs DEF Answered, ReachInv, JobsApart
  <2>3. \A d \in Conn : /\ srv'[d].state = srv[d].state
                        /\ srv'[d].secret = IF d = c THEN j.pair ELSE srv[d].secret
    BY <2>1, <2>2, AnsweredEntry DEF PlaceInv
  <2>4. ASSUME NEW d \in Conn, conn' = d, link'[d] PROVE Reaches(d)'
    <3>1. Reaches(d)
      BY <1>1, <2>4 DEF ReachInv
    <3>2. CASE d = c
      <4>1. srv'[c].state # "comparing"
        BY <1>1, <1>4, <2>3, <2>4, <3>2
      <4>2. ASSUME srv'[c].state = "open" PROVE Serves(c)'
        <5>1. /\ applying = {} /\ Of(toAgent[c], "rotate") = {} /\ Of(toServer'[c], "ok") = {}
              /\ mem.cur = j.pair
          BY <1>1, <1>3, <2>2, <2>3, <2>4, <3>2, <4>2
        <5>2. QED
          BY <1>1, <2>3, <5>1, NoneLast DEF Serves
      <4>3. QED
        BY <3>2, <4>1, <4>2 DEF Reaches
    <3>3. CASE d # c
      <4>1. \A p : Awaited(d, p) => Awaited(d, p)'
        BY <2>2, <3>3 DEF Awaited
      <4>2. QED
        BY <1>1, <1>2, <2>3, <3>1, <3>3, <4>1 DEF Reaches, Serves, Compares
    <3>4. QED
      BY <3>2, <3>3
  <2>5. QED
    BY <2>2, <2>4, ApartFewer DEF ReachInv
<1>7. QED
  BY <1>5, <1>6, Answers DEF PlaceInv

\* A call that is given up had nothing under way.
LEMMA ReachTimesOut ==
  ASSUME PlaceInv, ReachInv, InTurn', NEW j \in jobs, RotateTimesOut(j)
  PROVE  ReachInv'
<1>1. /\ UNCHANGED <<srv, mem, applying, conn, link, token, toAgent, toServer>>
      /\ jobs' = jobs \ {j} /\ ~Underway(j.pair)
  BY DEF RotateTimesOut, device, wires, InTurn
<1>2. /\ \A c \in Conn : /\ \A f \in Of(toAgent[c], "rotate") : f.pair # j.pair
                         /\ \A f \in Of(toServer[c], "ok") : f.pair # j.pair
      /\ \A a \in applying : a.pair # j.pair
  BY <1>1 DEF Underway, Of
<1>3. \A c \in Conn : \A p : Awaited(c, p) => Awaited(c, p)' \/ p = j.pair
  BY <1>1 DEF Awaited
<1>4. QED
  BY <1>1, <1>2, <1>3, ReachKeeps, ApartFewer, Pairs

LEMMA ReachSends ==
  ASSUME PlaceInv, ReachInv, InTurn', NEW j \in jobs, SendRotate(j)
  PROVE  ReachInv'
<1>1. /\ UNCHANGED <<srv, mem, applying, conn, link, token, toServer>>
      /\ j.to = NoConn
  BY DEF SendRotate, device
<1>2. \A c \in Conn : \A p : Awaited(c, p) => \E k \in jobs \ {j} : k.pair = p /\ k.on = c /\ k.to = c
  BY <1>1, Pairs DEF Awaited
<1>3. CASE primary = NoConn
  <2>1. jobs' = jobs \ {j} /\ toAgent' = toAgent
    BY <1>3 DEF SendRotate
  <2>2. \A c \in Conn : \A p : Awaited(c, p) => Awaited(c, p)'
    BY <1>2, <2>1 DEF Awaited
  <2>3. QED
    BY <1>1, <2>1, <2>2, ReachKeeps, ApartFewer, Pairs
<1>4. CASE primary # NoConn
  <2>1. PICK c \in Conn : c = primary
    BY <1>4 DEF PlaceInv, TypeOK
  <2>2. srv[c].state \in {"open", "ghost"} /\ j.on = c
    BY <1>4, <2>1 DEF PlaceInv, TypeOK, SendRotate, InTurn
  <2>3. PICK p \in Pair, s \in Pair : p = j.pair /\ s = srv[c].secret
    <3>1. j \in Job /\ srv[c] \in Entry
      BY DEF PlaceInv, TypeOK
    <3>2. QED
      BY <3>1 DEF Job, Entry
  <2>4. toAgent' = Push(toAgent, c, Message("rotate", p, s))
    BY <1>4, <2>1, <2>3 DEF SendRotate
  <2>5. PICK m : m.pair = p /\ m.on = c /\ m.to = c /\ jobs' = (jobs \ {j}) \cup {m}
    <3>1. PICK m : m = [j EXCEPT !.to = c]
      OBVIOUS
    <3>2. m.pair = p /\ m.to = c /\ m.on = c
      BY <3>1, <2>2, <2>3 DEF PlaceInv, TypeOK, Job
    <3>3. QED
      BY <1>4, <2>1, <3>1, <3>2 DEF SendRotate
  <2>6. JobsApart'
    BY <1>1, <2>2, <2>5, Pairs DEF ReachInv, JobsApart
  <2>7. \A d \in Conn : \A q : Awaited(d, q) => Awaited(d, q)'
    BY <1>2, <2>5 DEF Awaited
  <2>8. Awaited(c, p)' /\ \A q : ~Awaited(c, q)
    <3>1. \A q : ~Awaited(c, q)
      BY <1>1, <2>2, Pairs DEF Awaited, ReachInv, JobsApart
    <3>2. QED
      BY <2>5, <3>1 DEF Awaited
  <2>9. ASSUME NEW d \in Conn, conn' = d, link'[d] PROVE Reaches(d)'
    <3>1. Reaches(d)
      BY <1>1, <2>9 DEF ReachInv
    <3>2. CASE d # c
      <4>1. toAgent'[d] = toAgent[d]
        BY <2>4, <3>2, PushPlace
      <4>2. QED
        BY <1>1, <2>7, <3>1, <4>1 DEF Reaches, Serves, Compares
    <3>3. CASE d = c
      <4>1. srv[c].state = "open" /\ Serves(c)
        BY <1>1, <2>2, <2>9, <3>1, <3>3 DEF PlaceInv, SlotInv, Reaches
      <4>2. /\ Of(toAgent[c], "rotate") = {} /\ Of(toServer[c], "ok") = {} /\ applying = {}
            /\ mem.cur = srv[c].secret /\ Last(toAgent[c], "rotate") /\ Last(toServer[c], "ok")
        BY <2>8, <4>1 DEF Serves
      <4>3. "rotate" \in Kind /\ Message("rotate", p, s).pair = p
        BY Frames DEF Kind
      <4>4. \A e \in Conn, l \in Kind : Of(Push(toAgent, c, Message("rotate", p, s))[e], l) =
               Of(toAgent[e], l) \cup (IF e = c /\ link[c] /\ l = "rotate" THEN {Message("rotate", p, s)} ELSE {})
        BY <4>3, PushOf DEF PlaceInv
      <4>5. \A f \in Of(toAgent'[c], "rotate") : f.pair = p
        BY <2>4, <4>2, <4>3, <4>4
      <4>6. Last(toAgent'[c], "rotate")
        BY <2>4, <4>2, <4>3, PushOf DEF PlaceInv
      <4>7. Serves(c)'
        BY <1>1, <2>8, <4>2, <4>5, <4>6 DEF Serves
      <4>8. QED
        BY <1>1, <3>3, <4>1, <4>7 DEF Reaches
    <3>4. QED
      BY <3>2, <3>3
  <2>10. QED
    BY <2>6, <2>9 DEF ReachInv
<1>5. QED
  BY <1>3, <1>4

LEMMA ReachRotates ==
  ASSUME PlaceInv, ReachInv, SweeperRotates \/ TimerRotates
  PROVE  ReachInv'
<1>1. /\ UNCHANGED <<mem, applying, conn, link, token, toAgent, toServer>>
      /\ \A d \in Conn : srv'[d].state = srv[d].state /\ srv'[d].secret = srv[d].secret
  BY RotatesType DEF SweeperRotates, TimerRotates, device, wires, PlaceInv
<1>2. jobs \subseteq jobs' /\ JobsApart'
  <2>1. CASE UNCHANGED jobs
    BY <2>1, ApartFewer
  <2>2. CASE CanRotate /\ Rotate
    <3>1. PICK n : n.on = primary /\ n.to = NoConn /\ jobs' = jobs \cup {n}
      BY <2>2 DEF Rotate
    <3>2. QED
      BY <2>2, <3>1 DEF CanRotate, ReachInv, JobsApart
  <2>3. QED
    BY <2>1, <2>2 DEF SweeperRotates, TimerRotates
<1>3. \A c \in Conn : \A p : Awaited(c, p) => Awaited(c, p)'
  BY <1>2 DEF Awaited
<1>4. QED
  BY <1>1, <1>2, <1>3, ReachKeeps, Pairs


LEMMA ReachConnects ==
  ASSUME PlaceInv, ReachInv, NEW c \in Conn, Connect(c)
  PROVE  ReachInv'
<1>1. /\ conn' = c /\ token'[c] = mem.cur /\ applying = {} /\ srv'[c].state = "comparing"
      /\ UNCHANGED <<mem, applying, jobs, toAgent, toServer>>
  BY ConnectType DEF Connect, PlaceInv, TypeOK
<1>2. srv[c].state = "none" /\ toServer[c] = <<>>
  BY DEF Connect, Free, PlaceInv, SlotInv
<1>3. Of(toServer[c], "ok") = {}
  BY <1>2, EmptyQueue
<1>4. Reaches(c)'
  BY <1>1, <1>3 DEF Reaches, Compares
<1>5. QED
  BY <1>1, <1>4, ApartFewer DEF ReachInv

LEMMA ReachHello ==
  ASSUME PlaceInv, ReachInv, NEW c \in Conn, ReceiveHello(c)
  PROVE  ReachInv'
<1>1. /\ UNCHANGED <<srv, jobs, applying, conn, link, token, toServer>>
      /\ conn = c /\ toAgent[c] # <<>> /\ toAgent' = [toAgent EXCEPT ![c] = Tail(@)]
  BY DEF ReceiveHello, Received, server
<1>2. mem'.cur = mem.cur
  BY DEF ReceiveHello, Commit, PlaceInv, TypeOK, Kept
<1>3. "rotate" \in Kind
  BY DEF Kind
<1>4. /\ Of(toAgent'[c], "rotate") \subseteq Of(toAgent[c], "rotate")
      /\ Last(toAgent[c], "rotate") => Last(toAgent'[c], "rotate")
  BY <1>1, <1>3, TakeOfAgent DEF PlaceInv
<1>5. ASSUME link[c] PROVE Reaches(c)'
  <2>1. Reaches(c) /\ srv[c].state # "comparing"
    BY <1>1, <1>5 DEF ReachInv, PlaceInv, SlotInv
  <2>2. ASSUME srv[c].state = "open" PROVE Serves(c)'
    <3>1. Serves(c)
      BY <2>1, <2>2 DEF Reaches
    <3>2. QED
      BY <1>1, <1>2, <1>4, <3>1 DEF Serves, Awaited
  <2>3. QED
    BY <1>1, <2>1, <2>2 DEF Reaches
<1>6. QED
  BY <1>1, <1>5, ApartFewer DEF ReachInv

\* The device takes the only request there is.
LEMMA ReachRequest ==
  ASSUME PlaceInv, ReachInv, NEW c \in Conn, ReceiveRotate(c)
  PROVE  ReachInv'
<1> DEFINE f == Head(toAgent[c])
<1>1. /\ UNCHANGED <<srv, jobs, mem, conn, link, token, toServer>>
      /\ conn = c /\ toAgent[c] # <<>> /\ f.kind = "rotate"
      /\ toAgent' = [toAgent EXCEPT ![c] = Tail(@)]
  BY DEF ReceiveRotate, Received, server
<1>2. "rotate" \in Kind
  BY DEF Kind
<1>3. /\ f \in Of(toAgent[c], "rotate")
      /\ Last(toAgent[c], "rotate") => Of(toAgent'[c], "rotate") = {}
  BY <1>1, <1>2, TakeOfAgent DEF PlaceInv
<1>4. \/ applying' = applying
      \/ applying' = applying \cup {[pair |-> f.pair, prev |-> mem.cur]}
  BY DEF ReceiveRotate, Persist
<1>5. ASSUME link[c] PROVE Reaches(c)'
  <2>1. Reaches(c) /\ srv[c].state # "comparing"
    BY <1>1, <1>5 DEF ReachInv, PlaceInv, SlotInv
  <2>2. ASSUME srv[c].state = "open" PROVE Serves(c)'
    <3>1. Serves(c)
      BY <2>1, <2>2 DEF Reaches
    <3>2. /\ applying = {} /\ Of(toServer[c], "ok") = {} /\ Awaited(c, f.pair)
          /\ Last(toServer[c], "ok") /\ mem.cur = srv[c].secret
          /\ Of(toAgent'[c], "rotate") = {} /\ Last(toAgent'[c], "rotate")
      BY <1>3, <3>1, NoneLast DEF Serves
    <3>3. PICK a : a = [pair |-> f.pair, prev |-> mem.cur]
      OBVIOUS
    <3>4. a.pair = f.pair /\ (applying' = {} \/ applying' = {a})
      BY <1>4, <3>2, <3>3
    <3>5. Awaited(c, a.pair)'
      BY <1>1, <3>2, <3>4 DEF Awaited
    <3>6. QED
      BY <1>1, <3>2, <3>4, <3>5 DEF Serves
  <2>3. QED
    BY <1>1, <2>1, <2>2 DEF Reaches
<1>6. QED
  BY <1>1, <1>5, ApartFewer DEF ReachInv

\* The answer goes out, signed with the secret the server still uses.
LEMMA ReachAdopts ==
  ASSUME PlaceInv, ReachInv, NEW a \in applying, Adopt(a)
  PROVE  ReachInv'
<1>1. /\ UNCHANGED <<srv, jobs, conn, link, token, toAgent>>
      /\ mem'.cur = a.pair /\ applying' = applying \ {a}
  BY DEF Adopt, server
<1>2. ASSUME NEW c \in Conn, conn = c, link[c] PROVE Reaches(c)'
  <2>1. Reaches(c)
    BY <1>2 DEF ReachInv
  <2>2. srv[c].state # "comparing"
    BY <2>1 DEF Reaches, Compares
  <2>3. ASSUME srv[c].state = "open" PROVE Serves(c)'
    <3>1. Serves(c)
      BY <2>1, <2>3 DEF Reaches
    <3>2. /\ applying' = {} /\ Of(toServer[c], "ok") = {} /\ Awaited(c, a.pair)
          /\ Of(toAgent[c], "rotate") = {} /\ Last(toServer[c], "ok") /\ mem.cur = srv[c].secret
          /\ Last(toAgent[c], "rotate")
      BY <1>1, <3>1 DEF Serves
    <3>3. PICK p \in Pair, s \in Pair : p = a.pair /\ s = mem.cur
      BY DEF PlaceInv, TypeOK, Kept
    <3>4. toServer' = Push(toServer, c, Message("ok", p, s))
      BY <1>2, <3>3, Pairs DEF Adopt
    <3>5. "ok" \in Kind /\ Message("ok", p, s).pair = p /\ Message("ok", p, s).sig = s
      BY Frames DEF Kind
    <3>6. \A d \in Conn, l \in Kind :
             /\ Of(Push(toServer, c, Message("ok", p, s))[d], l) =
                   Of(toServer[d], l) \cup (IF d = c /\ link[c] /\ l = "ok" THEN {Message("ok", p, s)} ELSE {})
             /\ Last(toServer[d], l) /\ Of(toServer[d], l) = {} =>
                   Last(Push(toServer, c, Message("ok", p, s))[d], l)
      BY <3>5, PushOf DEF PlaceInv
    <3>7. Of(toServer'[c], "ok") = {Message("ok", p, s)} /\ Last(toServer'[c], "ok")
      BY <1>2, <3>2, <3>4, <3>5, <3>6
    <3>8. \A f \in Of(toServer'[c], "ok") : f.pair = a.pair /\ f.sig = srv[c].secret
      BY <3>2, <3>3, <3>5, <3>7
    <3>9. Awaited(c, a.pair)'
      BY <1>1, <3>2 DEF Awaited
    <3>10. QED
      BY <1>1, <3>2, <3>7, <3>8, <3>9 DEF Serves
  <2>4. QED
    BY <1>1, <2>2, <2>3 DEF Reaches
<1>3. QED
  BY <1>1, <1>2, ApartFewer DEF ReachInv

\* The device is without a socket, or what it uses and its socket stay as they are.
LEMMA ReachStays ==
  ASSUME ReachInv, jobs' = jobs, NoConn \notin Conn,
         \/ conn' = NoConn
         \/ /\ conn' = conn /\ mem' = mem /\ applying' = applying /\ token' = token
            /\ \A c \in Conn :
                  /\ link'[c] => /\ link[c] /\ toServer'[c] = toServer[c]
                                 /\ toAgent'[c] = toAgent[c] \/ srv'[c].state = "closing"
                  /\ srv'[c].secret = srv[c].secret /\ srv'[c].state \in {srv[c].state, "closing"}
  PROVE  ReachInv'
<1>1. ASSUME NEW c \in Conn, conn' = c, link'[c] PROVE Reaches(c)'
  <2>1. Reaches(c) /\ conn' = conn
    BY <1>1 DEF ReachInv
  <2>2. CASE srv'[c].state = "closing"
    BY <2>2 DEF Reaches
  <2>3. CASE srv'[c].state # "closing"
    BY <1>1, <2>1, <2>3 DEF Reaches, Serves, Compares, Awaited
  <2>4. QED
    BY <2>2, <2>3
<1>2. QED
  BY <1>1, ApartFewer DEF ReachInv

LEMMA ReachOthers ==
  ASSUME PlaceInv, ReachInv,
         \/ \E c \in Conn : ReceiveRefused(c) \/ Drop(c) \/ ServerGraceEnds(c)
         \/ SeeDrop \/ WakeUp \/ Restart \/ ManualRotate \/ CliWrites \/ AgentGraceEnds
         \/ UNCHANGED vars
  PROVE  ReachInv'
<1>1. CASE \/ (\E c \in Conn : ReceiveRefused(c)) \/ SeeDrop \/ WakeUp \/ Restart
  <2>1. conn' = NoConn /\ jobs' = jobs
    BY <1>1 DEF ReceiveRefused, SeeDrop, WakeUp, Restart, server, PlaceInv, TypeOK
  <2>2. QED
    BY <2>1, ReachStays, Pairs
<1>2. ASSUME NEW c \in Conn, Drop(c) PROVE ReachInv'
  BY <1>2, Loses, ReachStays, Pairs DEF Drop, server, device, PlaceInv
<1>3. ASSUME NEW c \in Conn, ServerGraceEnds(c) PROVE ReachInv'
  BY <1>3, ExpiresType, ReachStays, Pairs DEF ServerGraceEnds, device, wires, PlaceInv
<1>4. CASE ManualRotate
  <2>1. \A c \in Conn : toAgent'[c] = toAgent[c] \/ srv'[c].state = "closing"
    BY <1>4, ManualRotateType DEF ManualRotate, PlaceInv
  <2>2. QED
    BY <1>4, <2>1, ManualRotateType, ReachStays, Pairs DEF ManualRotate, PlaceInv
<1>5. CASE CliWrites \/ AgentGraceEnds \/ UNCHANGED vars
  BY <1>5, ReachStays, Pairs DEF CliWrites, AgentGraceEnds, vars, server, device, wires
<1>6. QED
  BY <1>1, <1>2, <1>3, <1>4, <1>5

\* What has happened does not go away.
LEMMA MishapsStay ==
  ASSUME [Next]_vars, PlaceInv
  PROVE  mishaps \subseteq mishaps'
<1>1. CASE ServerStep
  <2>1. ASSUME NEW c \in Conn, CloseUnheard(c) \/ Accept(c) \/ Refuse(c) \/ ServerCloses(c)
        PROVE  mishaps \subseteq mishaps'
    BY <2>1 DEF CloseUnheard, Accept, Refuse, ServerCloses
  <2>2. ASSUME NEW c \in Conn, ServerReceives(c) PROVE mishaps \subseteq mishaps'
    BY <2>2, Answers DEF Answered, PlaceInv
  <2>3. ASSUME NEW j \in jobs, SendRotate(j) \/ RotateTimesOut(j) PROVE mishaps \subseteq mishaps'
    BY <2>3 DEF SendRotate, RotateTimesOut
  <2>4. QED
    BY <1>1, <2>1, <2>2, <2>3 DEF ServerStep, SweeperRotates, TimerRotates
<1>2. CASE DeviceStep
  <2>1. ASSUME NEW c \in Conn, ReceiveRotate(c) PROVE mishaps \subseteq mishaps'
    BY <2>1 DEF ReceiveRotate
  <2>2. QED
    BY <1>2, <2>1 DEF DeviceStep, Connect, ReceiveHello, ReceiveRefused, Adopt, SeeDrop, WakeUp
<1>3. CASE ~(ServerStep \/ DeviceStep)
  BY <1>3 DEF Next, CliWrites, AgentGraceEnds, ServerGraceEnds, Mishap, Drop, Restart,
              ManualRotate, vars
<1>4. QED
  BY <1>1, <1>2, <1>3

LEMMA ReachStep ==
  ASSUME PlaceInv, InTurn => ReachInv, [Next]_vars
  PROVE  (InTurn => ReachInv)'
<1>1. SUFFICES ASSUME InTurn' PROVE ReachInv'
  OBVIOUS
<1>2. ReachInv
  BY <1>1, MishapsStay DEF InTurn
<1>3. CASE ServerStep
  BY <1>1, <1>2, <1>3, ReachCompared, ReachCloses, ReachAnswers, ReachSends, ReachTimesOut,
     ReachRotates DEF ServerStep
<1>4. CASE DeviceStep
  BY <1>2, <1>4, ReachConnects, ReachHello, ReachRequest, ReachOthers, ReachAdopts DEF DeviceStep
<1>5. CASE ~(ServerStep \/ DeviceStep)
  BY <1>2, <1>5, ReachOthers DEF Next, Mishap
<1>6. QED
  BY <1>3, <1>4, <1>5

\* The server's secret and the device's are one while nothing is under way.
LEMMA ReachHolds == PlaceInv /\ (InTurn => ReachInv) => ConnectedIsReachable
<1> SUFFICES ASSUME PlaceInv, InTurn => ReachInv, NEW c \in Conn, Connected(c),
                    \A p \in Pair : ~Underway(p), InTurn
             PROVE  srv[c].secret = mem.cur
  BY DEF ConnectedIsReachable, InTurn
<1>1. srv[c].state = "open"
  BY Pairs DEF Connected, PlaceInv, TypeOK, SlotInv
<1>2. Serves(c)
  BY <1>1 DEF Connected, ReachInv, Reaches
<1>3. Of(toServer[c], "ok") = {}
  <2>1. ASSUME NEW f \in Of(toServer[c], "ok") PROVE FALSE
    <3>1. f.pair \in Pair /\ f.kind = "ok" /\ \E i \in DOMAIN toServer[c] : toServer[c][i] = f
      BY <2>1, OfType DEF PlaceInv, Of
    <3>2. Underway(f.pair)
      BY <3>1 DEF Underway
    <3>3. QED
      BY <3>1, <3>2
  <2>2. QED
    BY <2>1
<1>4. QED
  BY <1>2, <1>3 DEF Serves

\* A connected device is reachable, however many rotations, restarts and lost
\* connections there were, unless an answer came late or a request went to
\* another entry than the one that is updated.
THEOREM ConnectedIsReachableHolds == Spec => []ConnectedIsReachable
<1> DEFINE I == PlaceInv /\ (InTurn => ReachInv)
<1>1. Init => I
  BY PlaceInit, ReachInit
<1>2. I /\ [Next]_vars => I'
  BY PlaceStep, ReachStep
<1>3. I => ConnectedIsReachable
  BY ReachHolds
<1>4. QED
  BY <1>1, <1>2, <1>3, PTL DEF Spec

=============================================================================
