------------------------- MODULE UploadSessionProofs -------------------------
(***************************************************************************)
(* Proofs about UploadSession, for any file and part sizes, any number of   *)
(* requests, failures, crashes and sweeps: only what is published is        *)
(* counted; and what is published is whole and what was acknowledged stays, *)
(* until a call nobody waits for changes a file it was not meant for.       *)
(***************************************************************************)
EXTENDS UploadSession, TLAPS

-----------------------------------------------------------------------------
(* Files *)

\* The first n chunks of the source.
Prefix(n) == [i \in 1..n |-> i]

LEMMA PrefixFacts ==
  ASSUME NEW n \in Nat
  PROVE  /\ Prefix(n) \in Seq(Nat) /\ Len(Prefix(n)) = n /\ Prefix(n) # None
         /\ Append(Prefix(n), n + 1) = Prefix(n + 1)
         /\ n <= Size => Prefix(n) \in Seq(1..Size)
<1>1. Prefix(n) \in Seq(Nat) /\ Len(Prefix(n)) = n
  BY DEF Prefix
<1>2. Append(Prefix(n), n + 1) = Prefix(n + 1)
  <2>1. Append(Prefix(n), n + 1) = [i \in 1..(n + 1) |-> IF i = n + 1 THEN n + 1 ELSE Prefix(n)[i]]
    BY <1>1
  <2>2. \A i \in 1..(n + 1) : (IF i = n + 1 THEN n + 1 ELSE Prefix(n)[i]) = i
    BY DEF Prefix
  <2> QED
    BY <2>1, <2>2 DEF Prefix
<1>3. n <= Size => Prefix(n) \in Seq(1..Size)
  BY UploadAssumption DEF Prefix
<1> QED
  BY <1>1, <1>2, <1>3, UploadAssumption

LEMMA FirstChunk == <<1>> = Prefix(1)
  BY DEF Prefix

LEMMA WholeIsPrefix == Whole = Prefix(Size)
  BY DEF Whole, Prefix

\* The temp file holds a prefix of the source, the target the whole of it.
TempIsPrefix == temp = None \/ \E n \in 1..Size : temp = Prefix(n)
TargetIsWhole == target \in {None, Whole}
FileInv == TempIsPrefix /\ TargetIsWhole

LEMMA TempFacts ==
  ASSUME TempIsPrefix
  PROVE  /\ Length(temp) \in 0..Size /\ (Length(temp) = 0 <=> temp = None)
         /\ temp # None => temp = Prefix(Length(temp)) /\ temp \in Seq(1..Size)
         /\ Length(temp) = Size => temp = Whole
<1>1. CASE temp = None
  BY <1>1, UploadAssumption DEF Length
<1>2. ASSUME NEW n \in 1..Size, temp = Prefix(n)
      PROVE  /\ temp # None /\ Length(temp) = n /\ temp \in Seq(1..Size)
  BY <1>2, PrefixFacts, UploadAssumption DEF Length
<1> QED
  BY <1>1, <1>2, WholeIsPrefix, UploadAssumption DEF TempIsPrefix

LEMMA TargetFacts ==
  ASSUME TargetIsWhole
  PROVE  Length(target) \in Nat /\ (Length(target) = Size => target # None)
BY PrefixFacts, WholeIsPrefix, UploadAssumption DEF TargetIsWhole, Length

\* Write puts the next chunk after a prefix.
LEMMA WriteFacts ==
  ASSUME TempIsPrefix, Length(temp) < Size
  PROVE  Write(Length(temp) + 1) = Prefix(Length(temp) + 1)
<1>1. CASE Length(temp) = 0
  BY <1>1, FirstChunk DEF Write
<1>2. CASE Length(temp) # 0
  <2>1. temp # None /\ temp = Prefix(Length(temp)) /\ Length(temp) \in Nat
    BY <1>2, TempFacts
  <2> DEFINE n == Length(temp)
  <2>2. Write(n + 1) = Append(Prefix(n), n + 1)
    BY <1>2, <2>1 DEF Write
  <2> HIDE DEF n
  <2> QED
    BY <2>1, <2>2, PrefixFacts DEF n
<1> QED
  BY <1>1, <1>2

-----------------------------------------------------------------------------
(* The inductive invariant *)

\* TypeOK, with the domains of the handlers' locals.
Typed ==
    /\ TypeOK
    /\ snap \in [Handler -> Nat] /\ offset \in [Handler -> Nat]
    /\ part \in [Handler -> 0..PartChunks] /\ reply \in [Handler -> Reply \cup {None}]

\* A handler that reads or changes files for a PATCH or DELETE holds the lock, a
\* GET only looks, an abort has taken back what was acknowledged, and a part that
\* is being appended fits the file.
HandlerInv ==
    \A h \in Handler :
        /\ pc[h] \in Op /\ Locks(h) => lock = h
        /\ kind[h] = "get" => pc[h] \in {"gated", "statTemp", "statTarget"}
        /\ kind[h] = "delete" => pc[h] \in {"gated", "delete"}
        /\ pc[h] = "delete" => kind[h] = "delete" /\ acked = 0
        /\ pc[h] = "append" => part[h] > 0 /\ offset[h] + part[h] <= Size

\* A call some handler waits for is the one its state names, and finds the temp
\* file as the handler left it.
CallInv ==
    \A c \in calls : c.by # None =>
        /\ pc[c.by] = c.op /\ reply[c.by] = None
        /\ c.op = "append" => c.at = offset[c.by] + 1 /\ Length(temp) = offset[c.by]
        /\ c.op = "rename" => temp = Whole
        /\ \A d \in calls : d.by = c.by => d = c

\* What a handler was told is still so when it goes on.
ReplyInv ==
    \A h \in Handler : reply[h] # None =>
        /\ pc[h] = "append" => Length(temp) = offset[h] + 1
        /\ pc[h] = "rename" => target = Whole
        /\ pc[h] = "statTemp" /\ kind[h] = "patch" =>
              reply[h].size = Length(temp) /\ (reply[h].ok <=> temp # None)
        /\ pc[h] = "statTarget" /\ reply[h].size = Size => target # None

AckedStay == received # None /\ target = None => acked <= Length(temp)
CountInv == AckedStay /\ CountedIsPublished

Inv == Typed /\ FileInv /\ HandlerInv /\ CallInv /\ ReplyInv /\ CountInv

LEMMA InitInv == Init => Inv
<1> SUFFICES ASSUME Init PROVE Inv
  OBVIOUS
<1> USE UploadAssumption
<1>1. Typed
  <2>1. crossed \in BOOLEAN
    BY DEF Init
  <2> QED
    BY <2>1 DEF Init, Typed, TypeOK, Kind
<1>2. FileInv /\ HandlerInv /\ CallInv /\ ReplyInv /\ CountInv
  BY DEF Init, FileInv, TempIsPrefix, TargetIsWhole, HandlerInv, CallInv, ReplyInv, CountInv,
         AckedStay, CountedIsPublished, Length, Op, Locks
<1> QED
  BY <1>1, <1>2 DEF Inv

-----------------------------------------------------------------------------
(* Steps of the handlers *)

\* Handler h ends, whatever it did: the others' facts do not mention it.
LEMMA FinishKeeps ==
  ASSUME Inv, NEW h \in Handler, Finish(h),
         UNCHANGED <<files, crossed, strays>>,
         \A c \in calls' : c \in Call /\ (c.by = None \/ (c \in calls /\ c.by # h)),
         received' \in Nat \cup {None}, received = None => received' = None,
         usage' \in Nat, usage' > 0 => target # None,
         acked' \in 0..Size, fails' \in 0..MaxFail,
         acked' = acked \/ ((\A g \in Handler : pc[g] # "delete") /\ acked' <= Length(temp))
  PROVE  Inv'
<1> USE UploadAssumption
<1>1. Typed'
  <2>1. /\ snap' \in [Handler -> Nat] /\ offset' \in [Handler -> Nat]
        /\ part' \in [Handler -> 0..PartChunks] /\ reply' \in [Handler -> Reply \cup {None}]
    BY SMTT(30) DEF Inv, Typed, TypeOK, Finish
  <2>2. /\ lock' \in Handler \cup {None} /\ kind' \in [Handler -> Kind]
        /\ pc' \in [Handler -> {"idle", "gated"} \cup Op]
    BY SMTT(30) DEF Inv, Typed, TypeOK, Finish, Kind
  <2>3. \A g \in Handler : reply'[g] # None => reply'[g] \in Reply /\ pc'[g] \in Op
    BY SMTT(30) DEF Inv, Typed, TypeOK, Finish
  <2>4. lock' # None => pc'[lock'] \in Op /\ kind'[lock'] # "get"
    BY SMTT(30) DEF Inv, Typed, TypeOK, Finish
  <2> QED
    BY <2>1, <2>2, <2>3, <2>4, SMTT(30) DEF Inv, Typed, TypeOK, files
<1>2. FileInv'
  BY DEF Inv, FileInv, TempIsPrefix, TargetIsWhole, files
<1>3. HandlerInv'
  BY DEF Inv, Typed, TypeOK, HandlerInv, Finish, Locks, Op
<1>4. CallInv'
  BY DEF Inv, Typed, TypeOK, CallInv, Finish, files, Length, Call
<1>5. ReplyInv'
  BY DEF Inv, Typed, TypeOK, ReplyInv, Finish, files, Length
<1>6. CountInv'
  BY DEF Inv, CountInv, AckedStay, CountedIsPublished, files, Length
<1> QED
  BY <1>1, <1>2, <1>3, <1>4, <1>5, <1>6 DEF Inv

\* What h asks for fits its request, its lock and the temp file.
Asks(h, op, n) ==
    /\ op \in Op /\ n \in 0..Size /\ Ask(h, op, n)
    /\ UNCHANGED <<usage, kind, snap, files, crossed, bounds>>
    /\ pc[h] # "idle" /\ \A c \in calls : c.by # h
    /\ received' \in Nat \cup {None} /\ (received = None => received' = None)
    /\ lock' = (IF Locks(h) THEN h ELSE lock) /\ (Locks(h) => lock \in {None, h})
    /\ offset' \in [Handler -> Nat] /\ part' \in [Handler -> 0..PartChunks]
    /\ \A g \in Handler \ {h} : offset'[g] = offset[g] /\ part'[g] = part[g]
    /\ acked' = IF op = "delete" THEN 0 ELSE acked
    /\ kind[h] = "get" => op \in {"statTemp", "statTarget"}
    /\ kind[h] = "delete" <=> op = "delete"
    /\ op = "append" => /\ part'[h] > 0 /\ offset'[h] + part'[h] <= Size
                        /\ n = offset'[h] + 1 /\ Length(temp) = offset'[h]
    /\ op = "rename" => temp = Whole

\* Handler h asks the device for the next thing, and is entitled to.
LEMMA AskKeeps ==
  ASSUME Inv, NEW h \in Handler, NEW op, NEW n, Asks(h, op, n)
  PROVE  Inv'
<1> USE DEF Asks
<1> USE UploadAssumption
<1> DEFINE new == [by |-> h, op |-> op, at |-> n]
<1>a. /\ new \in Call /\ new.by = h /\ new.op = op /\ new.at = n /\ h # None
      /\ calls' = calls \cup {new}
  BY DEF Ask, Call
<1> HIDE DEF new
<1>b. /\ pc' \in [Handler -> {"idle", "gated"} \cup Op] /\ pc'[h] = op
      /\ \A g \in Handler \ {h} : pc'[g] = pc[g]
      /\ reply' \in [Handler -> Reply \cup {None}] /\ reply'[h] = None
      /\ \A g \in Handler \ {h} : reply'[g] = reply[g]
  BY DEF Ask, Inv, Typed, TypeOK
<1>1. Typed'
  <2>1. (lock # None => pc[lock] \in Op /\ kind[lock] # "get")'
    BY <1>b DEF Inv, Typed, TypeOK, Locks
  <2>2. (\A g \in Handler : reply[g] # None => reply[g] \in Reply /\ pc[g] \in Op)'
    BY <1>b DEF Inv, Typed, TypeOK
  <2> QED
    BY <1>a, <1>b, <2>1, <2>2, SMTT(30) DEF Inv, Typed, TypeOK, files, bounds
<1>2. FileInv'
  BY DEF Inv, FileInv, TempIsPrefix, TargetIsWhole, files
<1>3. HandlerInv'
  BY SMTT(30) DEF Inv, Typed, TypeOK, HandlerInv, Ask, Locks, Op, Kind
<1>4. CallInv'
  <2>a. \A c \in calls : c.by # None => c.by \in Handler \ {h}
    BY DEF Inv, Typed, TypeOK, Call
  <2> SUFFICES ASSUME NEW c \in calls', c.by # None
               PROVE  /\ pc'[c.by] = c.op /\ reply'[c.by] = None
                      /\ c.op = "append" => c.at = offset'[c.by] + 1 /\ Length(temp) = offset'[c.by]
                      /\ c.op = "rename" => temp = Whole
                      /\ \A d \in calls' : d.by = c.by => d = c
    BY DEF CallInv, files, Length
  <2>1. CASE c = new
    BY <1>a, <1>b, <2>a, <2>1
  <2>2. CASE c \in calls
    BY <1>a, <1>b, <2>a, <2>2, ZenonT(40) DEF Inv, CallInv
  <2> QED
    BY <1>a, <2>1, <2>2
<1>5. ReplyInv'
  BY DEF Inv, Typed, TypeOK, ReplyInv, Ask, files, Length
<1>6. CountInv'
  <2>1. acked' = acked \/ acked' = 0
    OBVIOUS
  <2>2. Length(temp) \in Nat /\ UNCHANGED files
    BY TempFacts DEF Inv, FileInv
  <2> QED
    BY <2>1, <2>2 DEF Inv, CountInv, AckedStay, CountedIsPublished, files, Length
<1> QED
  BY <1>1, <1>2, <1>3, <1>4, <1>5, <1>6 DEF Inv

\* Proceed and AnswersNow, from a state in which the temp has n chunks.
LEMMA ResolvedKeeps ==
  ASSUME Inv, NEW h \in Handler, NEW n \in Nat, Answered(h, "statTemp"),
         kind[h] = "patch" => n = Length(temp), Proceed(h, n) \/ AnswersNow(h, n),
         UNCHANGED <<usage, files, crossed, acked, bounds>>,
         received' \in Nat \cup {None}, received = None => received' = None
  PROVE  Inv'
<1> USE UploadAssumption
<1>1. /\ pc[h] = "statTemp" /\ \A c \in calls : c.by # h
      /\ kind[h] \in Kind /\ part[h] \in 0..PartChunks /\ offset[h] \in Nat
  BY DEF Answered, Inv, CallInv, Typed, TypeOK
<1>2. CASE AnswersNow(h, n)
  <2>1. Finish(h) /\ UNCHANGED <<calls, crossed, strays, usage, fails, acked>>
    BY <1>2 DEF AnswersNow, bounds
  <2> QED
    BY <1>1, <2>1, FinishKeeps DEF Inv, Typed, TypeOK, CountInv, CountedIsPublished
<1>3. CASE Proceed(h, n)
  <2>1. /\ kind[h] = "patch" /\ offset[h] = n /\ n = Length(temp) /\ n + part[h] <= Size
        /\ UNCHANGED <<lock, kind, snap, offset, part>> /\ lock = h /\ Locks(h)
    BY <1>1, <1>3 DEF Proceed, Inv, HandlerInv, Op, Locks
  <2>2. CASE part[h] > 0
    <3>1. Ask(h, "append", n + 1) /\ n + 1 \in 0..Size
      BY <1>1, <1>3, <2>1, <2>2 DEF Proceed
    <3> QED
      <4>1. Asks(h, "append", n + 1)
        BY <1>1, <2>1, <2>2, <3>1 DEF Asks, Op, Inv, Typed
      <4> QED
        BY <4>1, AskKeeps
  <2>3. CASE part[h] = 0
    <3>1. Ask(h, "rename", 0) /\ temp = Whole
      BY <1>1, <1>3, <2>1, <2>3, TempFacts DEF Proceed, Inv, FileInv
    <3>2. "rename" \in Op /\ 0 \in 0..Size /\ offset \in [Handler -> Nat]
          /\ part \in [Handler -> 0..PartChunks]
      BY DEF Op, Inv, Typed
    <3> QED
      <4>1. Asks(h, "rename", 0)
        BY <1>1, <2>1, <3>1, <3>2 DEF Asks
      <4> QED
        BY <4>1, AskKeeps
  <2> QED
    BY <1>1, <2>2, <2>3
<1> QED
  BY <1>2, <1>3
\* A handler that waits for no answer has no call under way.
LEMMA NoCall ==
  ASSUME Inv, NEW h \in Handler, pc[h] \notin Op \/ reply[h] # None
  PROVE  \A c \in calls : c.by # h
BY UploadAssumption DEF Inv, Typed, TypeOK, CallInv, Call

LEMMA ArriveKeeps ==
  ASSUME Inv, NEW h \in Handler, NEW k \in Kind, NEW o \in Nat, NEW n \in 0..PartChunks,
         Arrive(h, k, o, n), strays' \in 0..MaxStray, UNCHANGED fails
  PROVE  Inv'
<1> USE UploadAssumption
<1>1. Typed'
  BY DEF Inv, Typed, TypeOK, Arrive, row, files, Op
<1>2. FileInv' /\ CountInv'
  BY DEF Inv, FileInv, TempIsPrefix, TargetIsWhole, CountInv, AckedStay,
         CountedIsPublished, Arrive, row, files, Length
<1>3. HandlerInv'
  BY DEF Inv, Typed, TypeOK, HandlerInv, Arrive, Locks, Op, Kind
<1>4. CallInv'
  <2>1. /\ \A c \in calls : c.by # None => c.by \in Handler \ {h}
        /\ UNCHANGED <<calls, reply, temp, received>>
        /\ \A g \in Handler \ {h} : pc'[g] = pc[g] /\ offset'[g] = offset[g]
    BY NoCall DEF Inv, Typed, TypeOK, CallInv, Arrive, row, files, Call, Op
  <2> QED
    BY <2>1 DEF Inv, CallInv, Length
<1>5. ReplyInv'
  BY DEF Inv, Typed, TypeOK, ReplyInv, Arrive, files, Length, Op
<1> QED
  BY <1>1, <1>2, <1>3, <1>4, <1>5 DEF Inv

LEMMA HandlerStepKeeps ==
  ASSUME Inv, NEW h \in Handler, HandlerStep(h)
  PROVE  Inv'
<1> USE UploadAssumption
<1>a. /\ received \in Nat \cup {None} /\ usage \in Nat /\ acked \in 0..Size
      /\ fails \in 0..MaxFail /\ strays \in 0..MaxStray
      /\ usage > 0 => target # None
      /\ kind[h] \in Kind /\ lock \in Handler \cup {None}
      /\ snap[h] \in Nat /\ offset[h] \in Nat /\ part[h] \in 0..PartChunks
      /\ offset \in [Handler -> Nat] /\ part \in [Handler -> 0..PartChunks]
      /\ \A c \in calls : c \in Call
  BY DEF Inv, Typed, TypeOK, CountInv, CountedIsPublished
<1>b. ASSUME Finish(h), UNCHANGED <<files, crossed, calls, bounds, acked>>, pc[h] \notin Op \/ reply[h] # None,
             received' \in {received, None}, UNCHANGED usage \/ (Complete /\ target # None)
      PROVE  Inv'
  <2>1. \A c \in calls' : c \in Call /\ (c.by = None \/ (c \in calls /\ c.by # h))
    BY <1>a, <1>b, NoCall
  <2> QED
    BY <1>a, <1>b, <2>1, FinishKeeps, SMTT(30) DEF bounds, Complete
<1>1. CASE TurnAway(h)
  BY <1>1, <1>b DEF TurnAway, row, Op
<1>2. CASE Start(h)
  <2>1. pc[h] = "gated" /\ \A c \in calls : c.by # h
    BY <1>2, NoCall DEF Start, Op
  <2>2. CASE kind[h] = "delete"
    <3>1. /\ Ask(h, "delete", 0) /\ lock = None /\ lock' = h /\ acked' = 0 /\ Locks(h)
          /\ "delete" \in Op /\ 0 \in 0..Size
          /\ UNCHANGED <<received, usage, kind, snap, offset, part, files, crossed, bounds>>
      BY <1>2, <2>2 DEF Start, Locks, row, Op
    <3> QED
      <4>1. Asks(h, "delete", 0)
        BY <1>a, <2>1, <2>2, <3>1 DEF Asks
      <4> QED
        BY <4>1, AskKeeps
  <2>3. CASE kind[h] # "delete"
    <3>1. /\ Ask(h, "statTemp", 0) /\ lock' = (IF Locks(h) THEN h ELSE lock)
          /\ (Locks(h) => lock = None) /\ acked' = acked
          /\ "statTemp" \in Op /\ 0 \in 0..Size
          /\ UNCHANGED <<received, usage, kind, snap, offset, part, files, crossed, bounds>>
      BY <1>2, <2>3 DEF Start, Locks, row, Op
    <3> QED
      <4>1. Asks(h, "statTemp", 0)
        BY <1>a, <2>1, <2>3, <3>1 DEF Asks, Locks, Kind
      <4> QED
        BY <4>1, AskKeeps
  <2> QED
    BY <2>2, <2>3
<1>3. CASE TempFound(h)
  <2>1. reply[h] \in Reply /\ (kind[h] = "patch" => reply[h].size = Length(temp))
    BY <1>3 DEF TempFound, Answered, Inv, Typed, TypeOK, ReplyInv
  <2>2. reply[h].size \in Nat
    BY <2>1 DEF Reply
  <2> QED
    BY <1>3, <1>a, <2>1, <2>2, ResolvedKeeps DEF TempFound, SetReceived
<1>4. CASE NothingWritten(h)
  <2>1. kind[h] = "patch" => Length(temp) = 0
    BY <1>4 DEF NothingWritten, Answered, Inv, ReplyInv, Length
  <2> QED
    BY <1>4, <1>a, <2>1, ResolvedKeeps DEF NothingWritten, row
<1>5. CASE TempRenamed(h)
  <2>1. pc[h] = "statTemp" /\ \A c \in calls : c.by # h
    BY <1>5, NoCall DEF TempRenamed, Answered
  <2>2. kind[h] # "delete" /\ (Locks(h) => lock = h)
    BY <2>1 DEF Inv, HandlerInv, Op
  <2>3. Asks(h, "statTarget", 0)
    BY <1>5, <1>a, <2>1, <2>2 DEF TempRenamed, row, Op, Asks
  <2> QED
    BY <2>3, AskKeeps
<1>6. CASE Lost(h)
  BY <1>6, <1>b DEF Lost, Answered
<1>7. CASE Published(h)
  <2>1. target # None
    BY <1>7 DEF Published, Answered, Inv, ReplyInv
  <2> QED
    BY <1>7, <1>b, <2>1 DEF Published, Answered, Complete, row
<1>8. CASE Appended(h)
  <2>1. /\ pc[h] = "append" /\ part[h] > 0 /\ offset[h] + part[h] <= Size
        /\ Length(temp) = offset[h] + 1 /\ kind[h] = "patch" /\ Locks(h) /\ lock = h
        /\ \A c \in calls : c.by # h
    BY <1>8, <1>a, NoCall DEF Appended, Answered, Inv, HandlerInv, ReplyInv, Op, Kind, Locks
  <2>2. /\ offset' = [offset EXCEPT ![h] = offset[h] + 1] /\ part' = [part EXCEPT ![h] = part[h] - 1]
        /\ UNCHANGED <<usage, kind, snap, files, crossed, bounds, lock, acked>>
    BY <1>8 DEF Appended
  <2>3. /\ offset' \in [Handler -> Nat] /\ part' \in [Handler -> 0..PartChunks]
        /\ offset'[h] = offset[h] + 1 /\ part'[h] = part[h] - 1
        /\ \A g \in Handler \ {h} : offset'[g] = offset[g] /\ part'[g] = part[g]
    BY <1>a, <2>1, <2>2
  <2>4. CASE part[h] > 1 /\ Ask(h, "append", offset[h] + 2) /\ UNCHANGED received
    <3>1. PICK n \in Nat : n = offset[h] + 2
      BY <1>a
    <3>2. n \in 0..Size /\ "append" \in Op
      BY <1>a, <2>1, <2>4, <3>1 DEF Op
    <3>3. Ask(h, "append", n)
      BY <2>4, <3>1 DEF Ask
    <3>4. Asks(h, "append", n)
      BY <1>a, <2>1, <2>2, <2>3, <2>4, <3>1, <3>2, <3>3, SMTT(30) DEF Asks
    <3> QED
      BY <3>4, AskKeeps
  <2>5. CASE offset[h] + 1 = Size /\ SetReceived(offset[h] + 1) /\ Ask(h, "rename", 0)
    <3>1. temp = Whole /\ 0 \in 0..Size /\ "rename" \in Op
      BY <2>1, <2>5, TempFacts DEF Inv, FileInv, Op
    <3>2. received' \in Nat \cup {None} /\ (received = None => received' = None)
      BY <1>a, <2>5 DEF SetReceived
    <3>3. Asks(h, "rename", 0)
      BY <1>a, <2>1, <2>2, <2>3, <2>5, <3>1, <3>2 DEF Asks
    <3> QED
      BY <3>3, AskKeeps
  <2> QED
    BY <1>8, <1>a, <2>4, <2>5 DEF Appended
<1>9. CASE PartDone(h)
  <2>1. /\ pc[h] = "append" /\ Length(temp) = offset[h] + 1 /\ lock = h
        /\ \A c \in calls : c.by # h
    BY <1>9, <1>a, NoCall DEF PartDone, Answered, Inv, HandlerInv, ReplyInv, Op, Kind, Locks
  <2>2. \A g \in Handler : pc[g] # "delete"
    BY <2>1 DEF Inv, HandlerInv, Op, Locks
  <2>3. acked' \in 0..Size /\ (acked' = acked \/ acked' <= Length(temp))
    BY <1>9, <1>a, <2>1 DEF PartDone
  <2>4. received' \in Nat \cup {None} /\ (received = None => received' = None)
    BY <1>9, <1>a DEF PartDone, SetReceived
  <2>5. /\ \A c \in calls' : c \in Call /\ (c.by = None \/ (c \in calls /\ c.by # h))
        /\ Finish(h) /\ UNCHANGED <<files, crossed, strays>> /\ usage' = usage /\ fails' = fails
    BY <1>9, <1>a, <2>1 DEF PartDone, bounds
  <2> QED
    BY <1>a, <2>2, <2>3, <2>4, <2>5, FinishKeeps
<1>10. CASE Renamed(h)
  <2>1. target # None
    BY <1>10, PrefixFacts, WholeIsPrefix DEF Renamed, Answered, Inv, ReplyInv
  <2> QED
    BY <1>10, <1>b, <2>1 DEF Renamed, Answered, Complete, row
<1>11. CASE Aborted(h)
  BY <1>11, <1>b DEF Aborted, Answered
<1> QED
  BY <1>1, <1>2, <1>3, <1>4, <1>5, <1>6, <1>7, <1>8, <1>9, <1>10, <1>11 DEF HandlerStep
-----------------------------------------------------------------------------
(* Failures, the sweep and the device *)

\* What is left of calls nobody waits for.
LEMMA OrphanFacts ==
  ASSUME NEW S \in SUBSET Call, \A c \in S : c.op = "append" => c.at > 0
  PROVE  \A c \in Orphans(S) : c \in Call /\ c.by = None /\ (c.op = "append" => c.at > 0)
BY DEF Orphans, Call

LEMMA CallFailsKeeps ==
  ASSUME Inv, NEW h \in Handler, CallFails(h)
  PROVE  Inv'
<1>1. \A c \in calls' : c \in Call /\ (c.by = None \/ (c \in calls /\ c.by # h))
  <2>1. \A c \in Orphans(CallsOf(h)) : c \in Call /\ c.by = None
    BY DEF Inv, Typed, TypeOK, Orphans, CallsOf, Call
  <2> QED
    BY <2>1 DEF Inv, Typed, TypeOK, CallFails, CallsOf
<1>2. /\ received' \in Nat \cup {None} /\ (received = None => received' = None)
      /\ fails' \in 0..MaxFail /\ usage \in Nat /\ acked \in 0..Size
      /\ usage > 0 => target # None
  BY UploadAssumption DEF CallFails, Inv, Typed, TypeOK, CountInv, CountedIsPublished
<1>3. Finish(h) /\ UNCHANGED <<files, crossed, strays>> /\ usage' = usage /\ acked' = acked
  BY DEF CallFails
<1> QED
  BY <1>1, <1>2, <1>3, FinishKeeps

LEMMA CrashKeeps ==
  ASSUME Inv, Crash
  PROVE  Inv'
<1> USE UploadAssumption
<1>1. \A c \in calls' : c \in Call /\ c.by = None
  <2>1. calls \subseteq Call /\ calls' = Orphans(calls)
    BY DEF Inv, Typed, TypeOK, Crash
  <2> QED
    BY <2>1 DEF Orphans, Call
<1>2. Typed'
  BY <1>1 DEF Inv, Typed, TypeOK, Crash, row, files, Kind
<1>3. FileInv' /\ CountInv'
  BY DEF Inv, FileInv, TempIsPrefix, TargetIsWhole, CountInv, AckedStay,
         CountedIsPublished, Crash, row, files, Length
<1>4. HandlerInv' /\ ReplyInv'
  BY DEF Crash, HandlerInv, ReplyInv, Op
<1> QED
  BY <1>1, <1>2, <1>3, <1>4 DEF Inv, CallInv

LEMMA SweepKeeps ==
  ASSUME Inv, Sweep
  PROVE  Inv'
<1> USE UploadAssumption
<1> DEFINE c == [by |-> None, op |-> "delete", at |-> 0]
<1>1. /\ c \in Call /\ c.by = None /\ calls' = calls \cup {c}
  BY DEF Sweep, Call, Op
<1> HIDE DEF c
<1>3. Typed'
  BY <1>1 DEF Inv, Typed, TypeOK, Sweep, locals, files
<1>4. FileInv' /\ CountInv'
  BY DEF Inv, FileInv, TempIsPrefix, TargetIsWhole, CountInv, AckedStay,
         CountedIsPublished, Sweep, files, Length
<1>5. HandlerInv' /\ ReplyInv'
  BY DEF Inv, Sweep, HandlerInv, ReplyInv, locals, files, Locks, Length
<1>6. CallInv'
  BY <1>1 DEF Inv, CallInv, Sweep, locals, files, Length
<1> QED
  BY <1>3, <1>4, <1>5, <1>6 DEF Inv

\* A call carried out keeps the invariant, unless nobody waits for it and it
\* meets a request at work or a file it was not meant for.
LEMMA DeviceKeeps ==
  ASSUME Inv, NEW c \in calls, Device(c), ~Crosses(c)
  PROVE  Inv'
<1> USE UploadAssumption
<1>a. /\ c \in Call /\ c.by \in Handler \cup {None} /\ c.op \in Op
      /\ UNCHANGED <<received, usage, lock, pc, kind, snap, offset, part, acked, strays, fails>>
      /\ calls' = calls \ {c} /\ crossed' \in BOOLEAN
      /\ reply \in [Handler -> Reply \cup {None}]
      /\ Length(temp) \in 0..Size /\ Length(target) \in Nat
      /\ Length(target) = Size => target # None
  BY TempFacts, TargetFacts DEF Inv, FileInv, Typed, TypeOK, Device, row, locals, bounds, Call
\* What the call does to the files, and what it was allowed to do.
<1>b. \/ UNCHANGED files /\ c.op \in {"statTemp", "statTarget"}
      \/ /\ c.op = "append" /\ (c.by \in Handler => Length(temp) = offset[c.by])
         /\ Length(temp) < Size /\ temp' = Prefix(Length(temp) + 1) /\ target' = target
      \/ /\ c.op = "delete" /\ temp' = None /\ target' = target
         /\ received = None \/ acked = 0
      \/ /\ c.op = "rename" /\ temp' = None /\ target' = Whole
  <2>1. CASE c.op \in {"statTemp", "statTarget"}
    BY <2>1 DEF Device, files
  <2>2. CASE c.op = "append"
    <3>1. /\ c.by \in Handler => Length(temp) = offset[c.by]
          /\ c.at = Length(temp) + 1 /\ Length(temp) < Size
      <4>1. CASE c.by = None
        BY <1>a, <2>2, <4>1 DEF Crosses, Harmless, Change, Call
      <4>2. CASE c.by \in Handler
        BY <1>a, <2>2, <4>2 DEF Inv, CallInv, HandlerInv, Typed, TypeOK
      <4> QED
        BY <1>a, <4>1, <4>2
    <3>2. temp' = Write(Length(temp) + 1) /\ target' = target
      BY <2>2, <3>1 DEF Device
    <3> QED
      BY <2>2, <3>1, <3>2, WriteFacts DEF Inv, FileInv
  <2>3. CASE c.op = "delete"
    BY <1>a, <2>3 DEF Device, Inv, CallInv, HandlerInv, Crosses, Harmless, Change
  <2>4. CASE c.op = "rename"
    <3>1. temp = Whole /\ Whole # None
      BY <1>a, <2>4, PrefixFacts, WholeIsPrefix DEF Inv, CallInv, Crosses, Harmless, Change
    <3> QED
      BY <2>4, <3>1 DEF Device
  <2> QED
    BY <1>a, <2>1, <2>2, <2>3, <2>4 DEF Op
\* The answer.
<1>c. /\ c.by = None => reply' = reply
      /\ c.by \in Handler =>
           /\ reply' \in [Handler -> Reply \cup {None}]
           /\ \A g \in Handler \ {c.by} : reply'[g] = reply[g]
           /\ c.op = "statTemp" => reply'[c.by] = [ok |-> temp # None, size |-> Length(temp)]
           /\ c.op = "statTarget" => reply'[c.by] = [ok |-> target # None, size |-> Length(target)]
  <2>1. CASE c.by = None
    BY <2>1 DEF Device
  <2>2. CASE c.by \in Handler
    <3> DEFINE v == CASE c.op \in {"statTemp", "rename"} -> [ok |-> temp # None, size |-> Length(temp)]
                      [] c.op = "statTarget" -> [ok |-> target # None, size |-> Length(target)]
                      [] OTHER -> [ok |-> TRUE, size |-> 0]
    <3>1. /\ v \in Reply
          /\ c.op = "statTemp" => v = [ok |-> temp # None, size |-> Length(temp)]
          /\ c.op = "statTarget" => v = [ok |-> target # None, size |-> Length(target)]
      BY <1>a DEF Reply
    <3>2. reply' = [reply EXCEPT ![c.by] = v]
      BY <2>2 DEF Device
    <3> HIDE DEF v
    <3> QED
      BY <1>a, <2>2, <3>1, <3>2
  <2> QED
    BY <1>a, <2>1, <2>2
\* Whose facts mention the files: the lock holder's.
<1>d. /\ c.by \in Handler => pc[c.by] = c.op /\ reply[c.by] = None
      /\ c.op \in Change =>
           \A g \in Handler \ {c.by} : pc[g] \in {"idle", "gated"} \/ kind[g] = "get"
      /\ \A d \in calls' : d \in calls /\ (d.by # None => d.by # c.by)
  <2>1. c.op \in Change => lock = c.by
    <3>1. CASE c.by = None
      BY <3>1 DEF Crosses, Harmless
    <3>2. CASE c.by \in Handler
      BY <3>2, ZenonT(40) DEF Inv, CallInv, HandlerInv, Op, Locks, Kind, Typed, TypeOK, Change
    <3> QED
      BY <1>a, <3>1, <3>2
  <2> QED
    BY <1>a, <2>1 DEF Inv, CallInv, HandlerInv, Op, Locks, Kind, Typed, TypeOK
\* The temp's length, and the lock holder's view of it.
<1>e. \/ /\ c.op \in {"statTemp", "statTarget"} /\ temp' = temp /\ target' = target
         /\ Length(temp') = Length(temp)
      \/ /\ c.op = "append" /\ temp' # None /\ target' = target
         /\ Length(temp') = Length(temp) + 1 /\ (c.by \in Handler => Length(temp) = offset[c.by])
      \/ /\ c.op = "delete" /\ target' = target /\ Length(temp') = 0
         /\ received = None \/ acked = 0
      \/ /\ c.op = "rename" /\ target' = Whole /\ Whole # None
  <2>1. CASE c.op = "append" /\ temp' = Prefix(Length(temp) + 1)
    <3>1. PICK n \in Nat : n = Length(temp) + 1
      BY <1>a
    <3>2. Prefix(n) # None /\ Len(Prefix(n)) = n
      BY <3>1, PrefixFacts
    <3> QED
      BY <1>a, <1>b, <2>1, <3>1, <3>2 DEF Length
  <2>2. Whole # None
    BY PrefixFacts, WholeIsPrefix
  <2> QED
    BY <1>a, <1>b, <2>1, <2>2 DEF Length, files
<1>1. TempIsPrefix' /\ TargetIsWhole'
  BY <1>a, <1>b DEF Inv, FileInv, TempIsPrefix, TargetIsWhole, files
<1>2. Typed'
  <2>1. (temp = None \/ temp \in Seq(1..Size))'
    <3>1. CASE temp' = temp \/ temp' = None
      BY <3>1 DEF Inv, Typed, TypeOK
    <3>2. CASE temp' = Prefix(Length(temp) + 1) /\ Length(temp) < Size
      <4>1. PICK n \in Nat : n = Length(temp) + 1
        BY <1>a
      <4> QED
        BY <1>a, <3>2, <4>1, PrefixFacts
    <3> QED
      BY <1>b, <3>1, <3>2 DEF files
  <2>2. (\A g \in Handler : reply[g] # None => reply[g] \in Reply /\ pc[g] \in Op)'
    BY <1>a, <1>c, <1>d DEF Inv, Typed, TypeOK
  <2>3. reply' \in [Handler -> Reply \cup {None}] /\ calls' \subseteq Call
    BY <1>a, <1>c DEF Inv, Typed, TypeOK
  <2> QED
    BY <1>a, <2>1, <2>2, <2>3 DEF Inv, Typed, TypeOK
<1>3. HandlerInv'
  BY <1>a DEF Inv, HandlerInv, Locks
<1>4. CallInv'
  <2> SUFFICES ASSUME NEW d \in calls', d.by # None
               PROVE  /\ pc'[d.by] = d.op /\ reply'[d.by] = None
                      /\ d.op = "append" => d.at = offset'[d.by] + 1 /\ Length(temp') = offset'[d.by]
                      /\ d.op = "rename" => temp' = Whole
    BY <1>a, <1>d DEF Inv, CallInv, Length
  <2>1. /\ d.by \in Handler \ {c.by} /\ pc[d.by] = d.op /\ reply[d.by] = None
        /\ d.op = "append" => d.at = offset[d.by] + 1 /\ Length(temp) = offset[d.by]
        /\ d.op = "rename" => temp = Whole
    <3>1. d \in calls /\ d \in Call /\ d.by \in Handler \ {c.by}
      BY <1>d DEF Inv, Typed, TypeOK, Call
    <3>2. /\ pc[d.by] = d.op /\ reply[d.by] = None
          /\ d.op = "append" => d.at = offset[d.by] + 1 /\ Length(temp) = offset[d.by]
          /\ d.op = "rename" => temp = Whole
      BY <3>1 DEF Inv, CallInv
    <3> QED
      BY <3>1, <3>2
  <2>2. d.op \in {"append", "rename"} => c.op \in {"statTemp", "statTarget"}
    BY <1>a, <1>d, <2>1 DEF Inv, HandlerInv, Op, Change
  <2> QED
    BY <1>a, <1>c, <1>e, <2>1, <2>2
<1>5. ReplyInv'
  <2> SUFFICES ASSUME NEW g \in Handler, reply'[g] # None
               PROVE  /\ pc[g] = "append" => Length(temp') = offset[g] + 1
                      /\ pc[g] = "rename" => target' = Whole
                      /\ pc[g] = "statTemp" /\ kind[g] = "patch" =>
                            reply'[g].size = Length(temp') /\ (reply'[g].ok <=> temp' # None)
                      /\ pc[g] = "statTarget" /\ reply'[g].size = Size => target' # None
    BY <1>a DEF ReplyInv, Length
  <2>1. CASE g = c.by
    <3>1. c.by \in Handler /\ pc[g] = c.op
      BY <1>d, <2>1
    <3>2. CASE c.op = "append"
      <4>1. Length(temp') = offset[g] + 1
        BY <1>a, <1>e, <2>1, <3>2
      <4> QED
        BY <3>1, <3>2, <4>1
    <3>3. CASE c.op = "rename"
      BY <1>e, <3>1, <3>3
    <3>4. CASE c.op = "statTemp"
      <4>1. reply'[g] = [ok |-> temp # None, size |-> Length(temp)]
        BY <1>c, <2>1, <3>1, <3>4
      <4>2. reply'[g].size = Length(temp) /\ (reply'[g].ok <=> temp # None)
        <5>1. CASE temp = None
          <6>1. reply'[g] = [ok |-> FALSE, size |-> Length(temp)]
            BY <4>1, <5>1
          <6> QED
            BY <5>1, <6>1
        <5>2. CASE temp # None
          <6>1. reply'[g] = [ok |-> TRUE, size |-> Length(temp)]
            BY <4>1, <5>2
          <6> QED
            BY <5>2, <6>1
        <5> QED
          BY <5>1, <5>2
      <4>3. temp' = temp /\ Length(temp') = Length(temp)
        BY <1>e, <3>4
      <4> QED
        BY <3>1, <3>4, <4>2, <4>3
    <3>5. CASE c.op = "statTarget"
      BY <1>a, <1>c, <1>e, <2>1, <3>1, <3>5
    <3> QED
      BY <1>a, <3>1, <3>2, <3>3, <3>4, <3>5 DEF Op
  <2>2. CASE g # c.by
    <3>1. reply'[g] = reply[g]
      BY <1>a, <1>c, <2>2
    <3>3. CASE c.op \in Change
      BY <1>d, <1>e, <2>2, <3>1, <3>3 DEF Inv, ReplyInv, HandlerInv, Change
    <3>4. CASE c.op \in {"statTemp", "statTarget"}
      BY <1>e, <3>1, <3>4 DEF Inv, ReplyInv
    <3> QED
      BY <1>a, <3>3, <3>4 DEF Op, Change
  <2> QED
    BY <2>1, <2>2
<1>6. CountInv'
  <2>1. received # None /\ target' = None => acked <= Length(temp')
    BY <1>a, <1>e DEF Inv, Typed, TypeOK, CountInv, AckedStay
  <2>2. usage > 0 => target' # None
    BY <1>a, <1>e DEF Inv, CountInv, CountedIsPublished
  <2> QED
    BY <1>a, <2>1, <2>2 DEF CountInv, AckedStay, CountedIsPublished, Length
<1> QED
  BY <1>1, <1>2, <1>3, <1>4, <1>5, <1>6 DEF Inv, FileInv

-----------------------------------------------------------------------------
(* Whatever the device and the sweep do                                     *)

\* A part under way fits the file.
PartInv == \A h \in Handler : pc[h] = "append" => part[h] > 0 /\ offset[h] + part[h] <= Size

\* A handler waits for one call at most, the one its state names.
CallForm ==
    \A c \in calls :
        /\ c.op = "append" => c.at > 0
        /\ c.by # None => /\ pc[c.by] = c.op /\ reply[c.by] = None
                          /\ \A d \in calls : d.by = c.by => d = c

\* The target is there for whoever was told that it is, and stays.
Found ==
    \A h \in Handler : reply[h] # None =>
        /\ pc[h] = "statTarget" /\ reply[h].size = Size => target # None
        /\ pc[h] = "rename" /\ reply[h].ok => target # None

\* What holds though the device carries out calls the server has given up and the
\* sweep takes sessions that are in use.
Form ==
    /\ Typed /\ (target = None \/ target \in Seq(1..Size))
    /\ PartInv /\ CallForm /\ Found /\ CountedIsPublished

LEMMA InitForm == Init => Form
<1> USE UploadAssumption
<1>1. Init => Typed
  BY InitInv DEF Inv
<1> QED
  BY <1>1 DEF Init, Form, PartInv, CallForm, Found, CountedIsPublished

\* A handler that waits for no answer has no call under way.
LEMMA FormNoCall ==
  ASSUME Form, NEW h \in Handler, pc[h] \notin Op \/ reply[h] # None
  PROVE  \A c \in calls : c.by # h
BY UploadAssumption DEF Form, Typed, TypeOK, CallForm, Call

\* Handler h ends; what is left under way is another's or nobody's.
LEMMA FinishKeepsForm ==
  ASSUME Form, NEW h \in Handler, Finish(h), UNCHANGED <<files, crossed, strays>>,
         calls' \subseteq Call,
         \A c \in calls' : /\ c.op = "append" => c.at > 0
                           /\ c.by = None \/ (c \in calls /\ c.by # h),
         received' \in Nat \cup {None}, usage' \in Nat, usage' > 0 => target # None,
         acked' \in 0..Size, fails' \in 0..MaxFail
  PROVE  Form'
<1> USE UploadAssumption
<1>1. Typed'
  <2>1. /\ snap' \in [Handler -> Nat] /\ offset' \in [Handler -> Nat]
        /\ part' \in [Handler -> 0..PartChunks] /\ reply' \in [Handler -> Reply \cup {None}]
    BY SMTT(30) DEF Form, Typed, TypeOK, Finish
  <2>2. /\ lock' \in Handler \cup {None} /\ kind' \in [Handler -> Kind]
        /\ pc' \in [Handler -> {"idle", "gated"} \cup Op]
    BY SMTT(30) DEF Form, Typed, TypeOK, Finish, Kind
  <2>3. \A g \in Handler : reply'[g] # None => reply'[g] \in Reply /\ pc'[g] \in Op
    BY SMTT(30) DEF Form, Typed, TypeOK, Finish
  <2>4. lock' # None => pc'[lock'] \in Op /\ kind'[lock'] # "get"
    BY SMTT(30) DEF Form, Typed, TypeOK, Finish
  <2> QED
    BY <2>1, <2>2, <2>3, <2>4, SMTT(30) DEF Form, Typed, TypeOK, files
<1>2. PartInv' /\ Found' /\ CountedIsPublished'
  BY DEF Form, Typed, TypeOK, PartInv, Found, CountedIsPublished, Finish, files
<1>3. CallForm'
  <2>1. \A g \in Handler \ {h} : pc'[g] = pc[g] /\ reply'[g] = reply[g]
    BY DEF Finish, Form, Typed, TypeOK
  <2>2. \A c \in calls' : c.by # None => c.by \in Handler \ {h} /\ c \in calls
    BY DEF Call
  <2> QED
    BY <2>1, <2>2 DEF Form, CallForm
<1> QED
  BY <1>1, <1>2, <1>3 DEF Form, files

\* Handler h asks for something with a request that fits.
FormAsks(h, op, n) ==
    /\ op \in Op /\ n \in 0..Size /\ Ask(h, op, n)
    /\ UNCHANGED <<usage, kind, snap, files, crossed, bounds>>
    /\ \A c \in calls : c.by # h
    /\ received' \in Nat \cup {None} /\ acked' \in 0..Size
    /\ \/ lock' = lock
       \/ lock' = h /\ kind[h] # "get"
    /\ offset' \in [Handler -> Nat] /\ part' \in [Handler -> 0..PartChunks]
    /\ \A g \in Handler \ {h} : offset'[g] = offset[g] /\ part'[g] = part[g]
    /\ op = "append" => n > 0 /\ part'[h] > 0 /\ offset'[h] + part'[h] <= Size

LEMMA AskKeepsForm ==
  ASSUME Form, NEW h \in Handler, NEW op, NEW n, FormAsks(h, op, n)
  PROVE  Form'
<1> USE UploadAssumption
<1> DEFINE new == [by |-> h, op |-> op, at |-> n]
<1>a. /\ new \in Call /\ new.by = h /\ new.op = op /\ new.at = n /\ h # None
      /\ calls' = calls \cup {new}
  BY DEF Ask, Call, FormAsks
<1> HIDE DEF new
<1>b. /\ pc' \in [Handler -> {"idle", "gated"} \cup Op] /\ pc'[h] = op
      /\ \A g \in Handler \ {h} : pc'[g] = pc[g]
      /\ reply' \in [Handler -> Reply \cup {None}] /\ reply'[h] = None
      /\ \A g \in Handler \ {h} : reply'[g] = reply[g]
  BY DEF Ask, Form, Typed, TypeOK, FormAsks
<1>1. Typed'
  <2>1. (lock # None => pc[lock] \in Op /\ kind[lock] # "get")' /\ lock' \in Handler \cup {None}
    BY <1>b DEF Form, Typed, TypeOK, FormAsks
  <2>2. (\A g \in Handler : reply[g] # None => reply[g] \in Reply /\ pc[g] \in Op)'
    BY <1>b DEF Form, Typed, TypeOK
  <2> QED
    BY <1>a, <1>b, <2>1, <2>2 DEF Form, Typed, TypeOK, files, bounds, FormAsks
<1>2. PartInv'
  <2> SUFFICES ASSUME NEW g \in Handler, pc'[g] = "append"
               PROVE  part'[g] > 0 /\ offset'[g] + part'[g] <= Size
    BY DEF PartInv
  <2>1. CASE g = h
    BY <2>1, <1>b DEF FormAsks
  <2>2. CASE g # h
    BY <2>2, <1>b DEF FormAsks, Form, PartInv
  <2> QED
    BY <2>1, <2>2
<1>3. Found' /\ CountedIsPublished' /\ (target = None \/ target \in Seq(1..Size))'
  BY <1>b DEF Form, Found, CountedIsPublished, FormAsks, files
<1>4. CallForm'
  <2>1. \A c \in calls : c.by # None => c.by \in Handler \ {h}
    BY DEF FormAsks, Form, Typed, TypeOK, Call
  <2> SUFFICES ASSUME NEW c \in calls'
               PROVE  /\ c.op = "append" => c.at > 0
                      /\ c.by # None => /\ pc'[c.by] = c.op /\ reply'[c.by] = None
                                        /\ \A d \in calls' : d.by = c.by => d = c
    BY DEF CallForm
  <2>2. CASE c = new
    BY <1>a, <1>b, <2>2 DEF FormAsks
  <2>3. CASE c \in calls
    BY <1>a, <1>b, <2>1, <2>3 DEF Form, CallForm
  <2> QED
    BY <1>a, <2>2, <2>3
<1> QED
  BY <1>1, <1>2, <1>3, <1>4 DEF Form

LEMMA ArriveKeepsForm ==
  ASSUME Form, NEW h \in Handler, NEW k \in Kind, NEW o \in Nat, NEW n \in 0..PartChunks,
         Arrive(h, k, o, n), strays' \in 0..MaxStray, UNCHANGED fails
  PROVE  Form'
<1> USE UploadAssumption
<1>1. Typed'
  BY DEF Form, Typed, TypeOK, Arrive, row, files, Op
<1>2. PartInv' /\ Found' /\ CountedIsPublished' /\ (target = None \/ target \in Seq(1..Size))'
  BY DEF Form, Typed, TypeOK, PartInv, Found, CountedIsPublished, Arrive, row, files
<1>3. CallForm'
  <2>1. /\ \A c \in calls : c.by # h
        /\ UNCHANGED <<calls, reply>> /\ \A g \in Handler \ {h} : pc'[g] = pc[g]
    BY FormNoCall DEF Form, Typed, TypeOK, Arrive, Op
  <2>2. \A c \in calls : c.by # None => c.by \in Handler \ {h}
    BY <2>1 DEF Form, Typed, TypeOK, Call
  <2> QED
    BY <2>1, <2>2 DEF Form, CallForm
<1> QED
  BY <1>1, <1>2, <1>3 DEF Form

LEMMA ResolvedKeepsForm ==
  ASSUME Form, NEW h \in Handler, NEW n \in Nat, Answered(h, "statTemp"),
         Proceed(h, n) \/ AnswersNow(h, n), UNCHANGED <<usage, files, crossed, acked, bounds>>,
         received' \in Nat \cup {None}
  PROVE  Form'
<1> USE UploadAssumption
<1>1. /\ pc[h] = "statTemp" /\ \A c \in calls : c.by # h
      /\ part[h] \in 0..PartChunks /\ calls \subseteq Call
      /\ offset \in [Handler -> Nat] /\ part \in [Handler -> 0..PartChunks]
      /\ acked \in 0..Size /\ fails \in 0..MaxFail /\ usage \in Nat
      /\ (usage > 0 => target # None) /\ \A c \in calls : c.op = "append" => c.at > 0
  BY FormNoCall DEF Answered, Form, Typed, TypeOK, CountedIsPublished, CallForm
<1>2. CASE AnswersNow(h, n)
  BY <1>1, <1>2, FinishKeepsForm DEF AnswersNow, bounds
<1>3. CASE Proceed(h, n)
  <2>1. /\ offset[h] = n /\ n + part[h] <= Size
        /\ UNCHANGED <<lock, kind, snap, offset, part>>
    BY <1>3 DEF Proceed
  <2>2. CASE part[h] > 0
    <3>1. Ask(h, "append", n + 1) /\ n + 1 \in 0..Size /\ n + 1 > 0
      BY <1>1, <1>3, <2>1, <2>2 DEF Proceed
    <3>2. offset' \in [Handler -> Nat] /\ part' \in [Handler -> 0..PartChunks] /\ acked' \in 0..Size
      BY <1>1, <2>1
    <3>3. FormAsks(h, "append", n + 1)
      BY <1>1, <2>1, <2>2, <3>1, <3>2 DEF FormAsks, Op
    <3> QED
      BY <3>3, AskKeepsForm
  <2>3. CASE part[h] = 0
    <3>1. Ask(h, "rename", 0) /\ 0 \in 0..Size
      BY <1>1, <1>3, <2>1, <2>3 DEF Proceed
    <3>2. offset' \in [Handler -> Nat] /\ part' \in [Handler -> 0..PartChunks] /\ acked' \in 0..Size
      BY <1>1, <2>1
    <3>3. FormAsks(h, "rename", 0)
      BY <1>1, <2>1, <3>1, <3>2 DEF FormAsks, Op
    <3> QED
      BY <3>3, AskKeepsForm
  <2> QED
    BY <1>1, <2>2, <2>3
<1> QED
  BY <1>2, <1>3

LEMMA HandlerStepKeepsForm ==
  ASSUME Form, NEW h \in Handler, HandlerStep(h)
  PROVE  Form'
<1> USE UploadAssumption
<1>a. /\ received \in Nat \cup {None} /\ usage \in Nat /\ acked \in 0..Size
      /\ fails \in 0..MaxFail /\ strays \in 0..MaxStray
      /\ usage > 0 => target # None
      /\ kind[h] \in Kind /\ lock \in Handler \cup {None}
      /\ snap[h] \in Nat /\ offset[h] \in Nat /\ part[h] \in 0..PartChunks
      /\ offset \in [Handler -> Nat] /\ part \in [Handler -> 0..PartChunks]
      /\ calls \subseteq Call /\ \A c \in calls : c.op = "append" => c.at > 0
  BY DEF Form, Typed, TypeOK, CountedIsPublished, CallForm
<1>b. ASSUME Finish(h), UNCHANGED <<files, crossed, calls, bounds>>, pc[h] \notin Op \/ reply[h] # None,
             received' \in Nat \cup {None}, UNCHANGED usage \/ (usage' = usage + 1 /\ target # None),
             acked' \in 0..Size
      PROVE  Form'
  <2>1. \A c \in calls : c.by # h
    BY <1>b, FormNoCall
  <2>2. usage' \in Nat /\ (usage' > 0 => target # None) /\ fails' \in 0..MaxFail /\ UNCHANGED <<files, crossed, strays>>
    BY <1>a, <1>b DEF bounds
  <2>3. calls' \subseteq Call /\ \A c \in calls' : (c.op = "append" => c.at > 0) /\ (c.by = None \/ (c \in calls /\ c.by # h))
    BY <1>a, <1>b, <2>1
  <2> QED
    BY <1>b, <2>2, <2>3, FinishKeepsForm
<1>1. CASE TurnAway(h)
  BY <1>1, <1>a, <1>b DEF TurnAway, row, Op
<1>2. CASE Start(h)
  <2>1. pc[h] = "gated" /\ \A c \in calls : c.by # h
    BY <1>2, FormNoCall DEF Start, Op
  <2> DEFINE op == IF kind[h] = "delete" THEN "delete" ELSE "statTemp"
  <2>2. /\ Ask(h, op, 0) /\ op \in Op /\ op # "append" /\ 0 \in 0..Size /\ acked' \in 0..Size
        /\ UNCHANGED <<usage, kind, snap, offset, part, files, crossed, bounds>>
        /\ UNCHANGED received
    BY <1>2, <1>a DEF Start, row, Op
  <2>3. \/ lock' = lock
        \/ lock' = h /\ kind[h] # "get"
    BY <1>2 DEF Start, Locks
  <2> HIDE DEF op
  <2>4. FormAsks(h, op, 0)
    BY <1>a, <2>1, <2>2, <2>3 DEF FormAsks
  <2> QED
    BY <2>4, AskKeepsForm
<1>3. CASE TempFound(h)
  <2>1. reply[h].size \in Nat
    BY <1>3 DEF TempFound, Answered, Form, Typed, TypeOK, Reply
  <2> QED
    BY <1>3, <1>a, <2>1, ResolvedKeepsForm DEF TempFound, SetReceived
<1>4. CASE NothingWritten(h)
  BY <1>4, <1>a, ResolvedKeepsForm DEF NothingWritten, row
<1>5. CASE TempRenamed(h)
  <2>1. \A c \in calls : c.by # h
    BY <1>5, FormNoCall DEF TempRenamed, Answered
  <2>2. /\ Ask(h, "statTarget", 0) /\ "statTarget" \in Op /\ 0 \in 0..Size
        /\ UNCHANGED <<received, usage, lock, kind, snap, offset, part, files, crossed, acked, bounds>>
    BY <1>5 DEF TempRenamed, row, Op
  <2>3. FormAsks(h, "statTarget", 0)
    BY <1>a, <2>1, <2>2 DEF FormAsks
  <2> QED
    BY <2>3, AskKeepsForm
<1>6. CASE Lost(h)
  BY <1>6, <1>a, <1>b DEF Lost, Answered
<1>7. CASE Published(h)
  <2>1. target # None
    BY <1>7 DEF Published, Answered, Form, Found
  <2> QED
    BY <1>7, <1>a, <1>b, <2>1 DEF Published, Answered, Complete, row
<1>8. CASE Appended(h)
  <2>1. /\ pc[h] = "append" /\ part[h] > 0 /\ offset[h] + part[h] <= Size
        /\ \A c \in calls : c.by # h
    BY <1>8, FormNoCall DEF Appended, Answered, Form, PartInv
  <2>2. /\ offset' = [offset EXCEPT ![h] = offset[h] + 1] /\ part' = [part EXCEPT ![h] = part[h] - 1]
        /\ UNCHANGED <<usage, kind, snap, files, crossed, bounds, lock, acked>>
    BY <1>8 DEF Appended
  <2>3. /\ offset' \in [Handler -> Nat] /\ part' \in [Handler -> 0..PartChunks]
        /\ offset'[h] = offset[h] + 1 /\ part'[h] = part[h] - 1
        /\ \A g \in Handler \ {h} : offset'[g] = offset[g] /\ part'[g] = part[g]
    BY <1>a, <2>1, <2>2, SMTT(30)
  <2>a. acked' \in 0..Size
    BY <1>a, <2>2
  <2>4. CASE part[h] > 1 /\ Ask(h, "append", offset[h] + 2) /\ UNCHANGED received
    <3>1. PICK n \in Nat : n = offset[h] + 2
      BY <1>a
    <3>2. n \in 0..Size /\ n > 0 /\ "append" \in Op
      BY <1>a, <2>1, <2>4, <3>1 DEF Op
    <3>3. Ask(h, "append", n)
      BY <2>4, <3>1 DEF Ask
    <3>4. part'[h] > 0 /\ offset'[h] + part'[h] <= Size
      <4>1. part[h] - 1 > 0 /\ (offset[h] + 1) + (part[h] - 1) <= Size
        BY <1>a, <2>1, <2>4
      <4>2. offset'[h] = offset[h] + 1 /\ part'[h] = part[h] - 1
        BY <2>3
      <4> QED
        BY <4>1, <4>2, Zenon
    <3>5. FormAsks(h, "append", n)
      BY <1>a, <2>1, <2>2, <2>3, <2>a, <2>4, <3>2, <3>3, <3>4 DEF FormAsks
    <3> QED
      BY <3>5, AskKeepsForm
  <2>5. CASE offset[h] + 1 = Size /\ SetReceived(offset[h] + 1) /\ Ask(h, "rename", 0)
    <3>1. 0 \in 0..Size /\ "rename" \in Op /\ received' \in Nat \cup {None}
      BY <1>a, <2>5 DEF Op, SetReceived
    <3>2. FormAsks(h, "rename", 0)
      BY <1>a, <2>1, <2>2, <2>3, <2>a, <2>5, <3>1 DEF FormAsks
    <3> QED
      BY <3>2, AskKeepsForm
  <2> QED
    BY <1>8, <1>a, <2>4, <2>5 DEF Appended
<1>9. CASE PartDone(h)
  <2>1. acked' \in 0..Size /\ received' \in Nat \cup {None}
    BY <1>9, <1>a DEF PartDone, SetReceived
  <2> QED
    BY <1>9, <2>1, <1>a, <1>b DEF PartDone, Answered
<1>10. CASE Renamed(h)
  <2>1. reply[h].ok => target # None
    BY <1>10 DEF Renamed, Answered, Form, Found
  <2> QED
    BY <1>10, <1>a, <1>b, <2>1 DEF Renamed, Answered, Complete, row
<1>11. CASE Aborted(h)
  BY <1>11, <1>a, <1>b DEF Aborted, Answered
<1> QED
  BY <1>1, <1>2, <1>3, <1>4, <1>5, <1>6, <1>7, <1>8, <1>9, <1>10, <1>11 DEF HandlerStep

LEMMA WriteForm ==
  ASSUME temp = None \/ temp \in Seq(1..Size), NEW at \in 1..Size
  PROVE  Write(at) \in Seq(1..Size)
<1>1. PICK S : S = 1..Size
  OBVIOUS
<1>2. at \in S /\ (temp = None \/ temp \in Seq(S)) /\ (at = 1 => 1 \in S)
  BY <1>1
<1>3. Write(at) \in Seq(S)
  BY <1>2 DEF Write
<1> QED
  BY <1>1, <1>3

LEMMA CallFailsKeepsForm ==
  ASSUME Form, NEW h \in Handler, CallFails(h)
  PROVE  Form'
<1> USE UploadAssumption
<1>1. /\ received \in Nat \cup {None} /\ usage \in Nat /\ acked \in 0..Size
      /\ fails \in 0..MaxFail
      /\ usage > 0 => target # None
      /\ calls \subseteq Call /\ \A c \in calls : c.op = "append" => c.at > 0
  BY DEF Form, Typed, TypeOK, CountedIsPublished, CallForm
<1>2. \A c \in Orphans(CallsOf(h)) : c \in Call /\ c.by = None /\ (c.op = "append" => c.at > 0)
  BY <1>1, OrphanFacts DEF CallsOf
<1>3. calls' \subseteq Call /\ \A c \in calls' : (c.op = "append" => c.at > 0) /\ (c.by = None \/ (c \in calls /\ c.by # h))
  BY <1>1, <1>2 DEF CallFails, CallsOf
<1>4. /\ Finish(h) /\ UNCHANGED <<files, crossed, strays>> /\ usage' = usage /\ acked' = acked
      /\ received' \in Nat \cup {None} /\ fails' \in 0..MaxFail
  BY <1>1 DEF CallFails
<1> QED
  BY <1>1, <1>3, <1>4, FinishKeepsForm

LEMMA CrashKeepsForm ==
  ASSUME Form, Crash
  PROVE  Form'
<1> USE UploadAssumption
<1>1. calls \subseteq Call /\ \A c \in calls : c.op = "append" => c.at > 0
  BY DEF Form, Typed, TypeOK, CallForm
<1>2. \A c \in calls' : c \in Call /\ c.by = None /\ (c.op = "append" => c.at > 0)
  BY <1>1, OrphanFacts DEF Crash
<1>3. Typed'
  BY <1>2 DEF Form, Typed, TypeOK, Crash, row, files, Kind
<1>4. CallForm'
  BY <1>2 DEF CallForm
<1>5. PartInv' /\ Found' /\ CountedIsPublished' /\ (target = None \/ target \in Seq(1..Size))'
  BY DEF Form, PartInv, Found, CountedIsPublished, Crash, row, files
<1> QED
  BY <1>3, <1>4, <1>5 DEF Form

LEMMA SweepKeepsForm ==
  ASSUME Form, Sweep
  PROVE  Form'
<1> USE UploadAssumption
<1> DEFINE new == [by |-> None, op |-> "delete", at |-> 0]
<1>1. new \in Call /\ new.by = None /\ new.op = "delete" /\ calls' = calls \cup {new}
  BY DEF Sweep, Call, Op
<1> HIDE DEF new
<1>2. /\ UNCHANGED <<usage, lock, pc, kind, snap, offset, part, reply, temp, target, acked, crossed, fails>>
      /\ received' = None
  BY DEF Sweep, locals, files
<1>3. strays' \in 0..MaxStray
  BY DEF Sweep, Form, Typed, TypeOK
<1>4. Typed'
  BY <1>1, <1>2, <1>3 DEF Form, Typed, TypeOK
<1>5. CallForm'
  BY <1>1, <1>2 DEF Form, CallForm
<1>6. PartInv' /\ Found' /\ CountedIsPublished' /\ (target = None \/ target \in Seq(1..Size))'
  BY <1>2 DEF Form, PartInv, Found, CountedIsPublished
<1> QED
  BY <1>4, <1>5, <1>6 DEF Form

LEMMA DeviceKeepsForm ==
  ASSUME Form, NEW c \in calls, Device(c)
  PROVE  Form'
<1> USE UploadAssumption
<1>a. /\ c \in Call /\ c.by \in Handler \cup {None} /\ c.op \in Op
      /\ UNCHANGED <<received, usage, lock, pc, kind, snap, offset, part, acked, strays, fails>>
      /\ calls' = calls \ {c} /\ crossed' \in BOOLEAN
      /\ reply \in [Handler -> Reply \cup {None}]
      /\ c.op = "append" => c.at \in 1..Size
      /\ c.by # None => pc[c.by] = c.op /\ reply[c.by] = None
      /\ \A d \in calls' : d.by # c.by \/ d.by = None
  BY DEF Form, CallForm, Typed, TypeOK, Device, row, locals, bounds, Call
<1>b. Length(temp) \in Nat /\ Length(target) \in Nat /\ (Length(target) = Size => target # None)
  BY DEF Form, Typed, TypeOK, Length
<1>c. /\ temp' = None \/ temp' \in Seq(1..Size)
      /\ target' = target \/ (target' = temp /\ temp # None)
      /\ c.op = "rename" /\ temp # None => target' = temp
  <2>1. temp = None \/ temp \in Seq(1..Size)
    BY DEF Form, Typed, TypeOK
  <2>2. CASE c.op = "append"
    BY <1>a, <2>1, <2>2, WriteForm DEF Device
  <2>3. CASE c.op = "delete"
    BY <2>3 DEF Device
  <2>4. CASE c.op = "rename"
    BY <2>1, <2>4 DEF Device, files
  <2>5. CASE c.op \in {"statTemp", "statTarget"}
    BY <2>1, <2>5 DEF Device, files
  <2> QED
    BY <1>a, <2>2, <2>3, <2>4, <2>5 DEF Op
<1>d. /\ target' = None \/ target' \in Seq(1..Size)
      /\ target # None => target' # None
  BY <1>c DEF Form, Typed, TypeOK
\* The answer.
<1>e. /\ c.by = None => reply' = reply
      /\ c.by \in Handler =>
           /\ reply' \in [Handler -> Reply \cup {None}]
           /\ \A g \in Handler \ {c.by} : reply'[g] = reply[g]
           /\ c.op = "rename" => reply'[c.by].ok = (temp # None)
           /\ c.op = "statTarget" => reply'[c.by].size = Length(target)
  <2>1. CASE c.by = None
    BY <2>1 DEF Device
  <2>2. CASE c.by \in Handler
    <3> DEFINE v == CASE c.op \in {"statTemp", "rename"} -> [ok |-> temp # None, size |-> Length(temp)]
                      [] c.op = "statTarget" -> [ok |-> target # None, size |-> Length(target)]
                      [] OTHER -> [ok |-> TRUE, size |-> 0]
    <3>1. /\ v \in Reply
          /\ c.op = "rename" => v.ok = (temp # None)
          /\ c.op = "statTarget" => v.size = Length(target)
      BY <1>a, <1>b DEF Reply
    <3>2. reply' = [reply EXCEPT ![c.by] = v]
      BY <2>2 DEF Device
    <3> HIDE DEF v
    <3> QED
      BY <1>a, <2>2, <3>1, <3>2
  <2> QED
    BY <1>a, <2>1, <2>2
<1>1. Typed'
  <2>1. (\A g \in Handler : reply[g] # None => reply[g] \in Reply /\ pc[g] \in Op)'
    BY <1>a, <1>e DEF Form, Typed, TypeOK
  <2>2. reply' \in [Handler -> Reply \cup {None}] /\ calls' \subseteq Call
    BY <1>a, <1>e DEF Form, Typed, TypeOK
  <2> QED
    BY <1>a, <1>c, <2>1, <2>2 DEF Form, Typed, TypeOK
<1>2. PartInv'
  BY <1>a DEF Form, PartInv
<1>3. CallForm'
  <2> SUFFICES ASSUME NEW d \in calls'
               PROVE  /\ d.op = "append" => d.at > 0
                      /\ d.by # None => /\ pc'[d.by] = d.op /\ reply'[d.by] = None
                                        /\ \A e \in calls' : e.by = d.by => e = d
    BY DEF CallForm
  <2>1. d \in calls /\ d.by \in Handler \cup {None}
    BY <1>a DEF Form, Typed, TypeOK, Call
  <2> QED
    BY <1>a, <1>e, <2>1 DEF Form, CallForm
<1>4. Found'
  <2> SUFFICES ASSUME NEW g \in Handler, reply'[g] # None
               PROVE  /\ pc[g] = "statTarget" /\ reply'[g].size = Size => target' # None
                      /\ pc[g] = "rename" /\ reply'[g].ok => target' # None
    BY <1>a DEF Found
  <2>1. CASE g = c.by
    <3>1. pc[g] = c.op /\ c.by \in Handler
      BY <1>a, <2>1
    <3>2. CASE c.op = "statTarget"
      BY <1>b, <1>d, <1>e, <2>1, <3>1, <3>2
    <3>3. CASE c.op = "rename"
      BY <1>c, <1>e, <2>1, <3>1, <3>3
    <3> QED
      BY <3>1, <3>2, <3>3
  <2>2. CASE g # c.by
    BY <1>a, <1>d, <1>e, <2>2 DEF Form, Found
  <2> QED
    BY <2>1, <2>2
<1>5. CountedIsPublished'
  BY <1>a, <1>d DEF Form, CountedIsPublished
<1> QED
  BY <1>1, <1>2, <1>3, <1>4, <1>5, <1>d DEF Form

LEMMA NextForm ==
  ASSUME Form, [Next]_vars
  PROVE  Form'
<1> USE UploadAssumption
<1>1. CASE UNCHANGED vars
  BY <1>1 DEF vars, row, locals, files, bounds, Form, Typed, TypeOK, PartInv, CallForm, Found,
      CountedIsPublished
<1>2. CASE ClientSends
  <2>1. PICK o \in Nat, n \in 0..PartChunks : Arrive(Client, "patch", o, n)
    <3> DEFINE o == IF temp # None THEN Len(temp) ELSE IF received = Size THEN Size ELSE 0
               n == IF Size - o < PartChunks THEN Size - o ELSE PartChunks
    <3>1. o \in Nat /\ o <= Size /\ Arrive(Client, "patch", o, n)
      BY <1>2 DEF ClientSends, Form, Typed, TypeOK
    <3>2. n \in 0..PartChunks
      BY <3>1
    <3> QED
      BY <3>1, <3>2 DEF Arrive
  <2> QED
    BY <1>2, <2>1, ArriveKeepsForm DEF ClientSends, bounds, Kind, Form, Typed, TypeOK
<1>3. ASSUME NEW h \in Handler, NEW k \in Kind, NEW o \in 0..Size, NEW n \in 0..PartChunks,
             StrayArrives(h, k, o, n)
      PROVE  Form'
  <2>1. Arrive(h, k, o, n) /\ o \in Nat /\ strays' \in 0..MaxStray /\ UNCHANGED fails
    BY <1>3 DEF StrayArrives, Form, Typed, TypeOK
  <2> QED
    BY <2>1, ArriveKeepsForm
<1> QED
  BY <1>1, <1>2, <1>3, HandlerStepKeepsForm, CallFailsKeepsForm, DeviceKeepsForm,
     CrashKeepsForm, SweepKeepsForm DEF Next

\* Every reachable state has the types of TypeOK, calls that outlive their requests
\* and sweeps of sessions in use included.
THEOREM TypeCorrect == Spec => []TypeOK
<1>1. Form => TypeOK
  BY DEF Form, Typed
<1> QED
  BY InitForm, NextForm, <1>1, PTL DEF Spec

\* Only a published file is counted (finishPublished, and the rename's answer),
\* whatever late calls and sweeps do to the temp.
THEOREM CountedIsPublishedHolds == Spec => []CountedIsPublished
<1>1. Form => CountedIsPublished
  BY DEF Form
<1> QED
  BY InitForm, NextForm, <1>1, PTL DEF Spec

-----------------------------------------------------------------------------
(* The invariant of the first part, until a call crosses                    *)

LEMMA NextInv ==
  ASSUME Inv, [Next]_vars, ~crossed'
  PROVE  Inv'
<1> USE UploadAssumption
<1>1. CASE UNCHANGED vars
  BY <1>1 DEF vars, row, locals, files, bounds, Inv, Typed, TypeOK, FileInv, TempIsPrefix,
      TargetIsWhole, HandlerInv, CallInv, ReplyInv, CountInv, AckedStay,
      CountedIsPublished, Locks, Length
<1>2. CASE ClientSends
  <2>1. PICK o \in Nat, n \in 0..PartChunks : Arrive(Client, "patch", o, n)
    <3> DEFINE o == IF temp # None THEN Len(temp) ELSE IF received = Size THEN Size ELSE 0
               n == IF Size - o < PartChunks THEN Size - o ELSE PartChunks
    <3>1. o \in Nat /\ o <= Size /\ Arrive(Client, "patch", o, n)
      BY <1>2, TempFacts DEF ClientSends, Inv, FileInv, Length
    <3>2. n \in 0..PartChunks
      BY <3>1
    <3> QED
      BY <3>1, <3>2 DEF Arrive
  <2> QED
    BY <1>2, <2>1, ArriveKeeps DEF ClientSends, bounds, Kind, Inv, Typed, TypeOK
<1>3. ASSUME NEW h \in Handler, NEW k \in Kind, NEW o \in 0..Size, NEW n \in 0..PartChunks,
             StrayArrives(h, k, o, n)
      PROVE  Inv'
  <2>1. Arrive(h, k, o, n) /\ o \in Nat /\ strays' \in 0..MaxStray /\ UNCHANGED fails
    BY <1>3 DEF StrayArrives, Inv, Typed, TypeOK
  <2> QED
    BY <2>1, ArriveKeeps
<1>4. ASSUME NEW c \in calls, Device(c)
      PROVE  Inv'
  BY <1>4, DeviceKeeps DEF Device
<1> QED
  BY <1>1, <1>2, <1>3, <1>4, HandlerStepKeeps, CallFailsKeeps, CrashKeeps, SweepKeeps DEF Next

\* The history only grows.
LEMMA CrossedStays ==
  ASSUME TypeOK, [Next]_vars, crossed
  PROVE  crossed'
<1>1. CASE UNCHANGED vars
  BY <1>1 DEF vars
<1>2. ASSUME NEW h \in Handler, HandlerStep(h)
      PROVE  UNCHANGED crossed
  BY <1>2 DEF HandlerStep, TurnAway, Start, TempFound, NothingWritten, TempRenamed, Lost, Published,
              Appended, PartDone, Renamed, Aborted
<1>3. ASSUME NEW h \in Handler, CallFails(h)
      PROVE  UNCHANGED crossed
  BY <1>3 DEF CallFails
<1>4. ASSUME NEW h \in Handler, NEW k \in Kind, NEW o \in 0..Size, NEW n \in 0..PartChunks,
             StrayArrives(h, k, o, n)
      PROVE  UNCHANGED crossed
  BY <1>4 DEF StrayArrives, Arrive
<1>5. ASSUME NEW c \in calls, Device(c)
      PROVE  crossed'
  BY <1>5 DEF Device
<1>6. CASE ClientSends \/ Crash \/ Sweep
  BY <1>6 DEF ClientSends, Arrive, Crash, Sweep
<1> QED
  BY <1>1, <1>2, <1>3, <1>4, <1>5, <1>6 DEF Next

\* The invariant holds until a call that nobody waits for hits a request at work or
\* a file it was not meant for.
Sound == crossed \/ Inv

\* Handlers, the calls they wait for, their answers and the files fit together, with
\* requests racing, calls failing, late calls, sweeps and the server stopping between
\* any two steps, as long as no call has crossed.
THEOREM Invariance == Spec => []Sound
<1>1. Init => Sound
  BY InitInv DEF Sound
<1>2. TypeOK /\ Sound /\ [Next]_vars => Sound'
  BY NextInv, CrossedStays DEF Sound
<1> QED
  BY TypeCorrect, <1>1, <1>2, PTL DEF Spec

\* The target never holds a partial or a mixed file, for any file and part size, as
\* long as no late call and no sweep meets a request at work.
THEOREM PublishedIsWholeHolds == Spec => []PublishedIsWhole
<1>1. Sound => PublishedIsWhole
  BY DEF Sound, Inv, FileInv, TargetIsWhole, PublishedIsWhole
<1> QED
  BY Invariance, <1>1, PTL

\* What a part's answer acknowledged stays in the temp file while the session can
\* be resumed, as long as no late call and no sweep meets a request at work.
THEOREM AckedBytesStayHolds == Spec => []AckedBytesStay
<1>1. Sound => AckedBytesStay
  BY DEF Sound, Inv, CountInv, AckedStay, AckedBytesStay
<1> QED
  BY Invariance, <1>1, PTL

=============================================================================
