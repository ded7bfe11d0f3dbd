-------------------------- MODULE WillowSyncProofs --------------------------
(***************************************************************************)
(* Proofs that no device loses an edit it has stored, whatever is saved,   *)
(* compacted and exchanged, for any devices, thresholds and bounds.        *)
(***************************************************************************)
EXTENDS WillowSync, FiniteSetTheorems, SequenceTheorems, TLAPS

-----------------------------------------------------------------------------
(* Picking rows by their positions *)

\* Counting those up to a position numbers the positions of a finite set.
LEMMA NthFacts ==
  ASSUME NEW I \in SUBSET Nat, IsFiniteSet(I)
  PROVE  /\ Cardinality(I) \in Nat
         /\ \A n \in 1..Cardinality(I) :
               Nth(I, n) \in I /\ Cardinality({j \in I : j <= Nth(I, n)}) = n
         /\ \A i \in I : \E n \in 1..Cardinality(I) : Nth(I, n) = i
<1> DEFINE N == Cardinality(I)
           upto(i) == {j \in I : j <= i}
           rank == [i \in I |-> Cardinality(upto(i))]
<1>1. N \in Nat
  BY FS_CardinalityType
<1>2. ASSUME NEW i \in I PROVE IsFiniteSet(upto(i)) /\ rank[i] \in 1..N
  <2>1. upto(i) \in SUBSET I
    OBVIOUS
  <2>2. IsFiniteSet(upto(i)) /\ Cardinality(upto(i)) <= N
    BY <2>1, FS_Subset
  <2>3. Cardinality(upto(i)) \in Nat
    BY <2>2, FS_CardinalityType
  <2>4. i \in upto(i)
    OBVIOUS
  <2>5. Cardinality(upto(i)) # 0
    BY <2>2, <2>4, FS_EmptySet
  <2> QED
    BY <1>1, <2>2, <2>3, <2>5
<1>3. ASSUME NEW i \in I, NEW k \in I, i < k PROVE rank[i] # rank[k]
  <2>1. i \in Nat /\ k \in Nat /\ \A j \in I : j \in Nat
    OBVIOUS
  <2>2. \A j \in I : j <= i => j <= k
    BY <1>3, <2>1
  <2>3. upto(i) \in SUBSET upto(k)
    BY <2>2
  <2>4. k <= k /\ ~(k <= i)
    BY <1>3, <2>1
  <2>5. k \in upto(k) /\ k \notin upto(i)
    BY <2>4
  <2>6. Cardinality(upto(k)) = Cardinality(upto(i)) => upto(k) = upto(i)
    BY <1>2, <2>3, FS_Subset
  <2> QED
    BY <2>5, <2>6
<1>4. \A i, k \in I : rank[i] = rank[k] => i = k
  BY <1>3
<1>5. rank \in [I -> 1..N]
  BY <1>2
<1>6. rank \in Injection(I, 1..N)
  BY <1>4, <1>5 DEF Injection, IsInjective
<1>7. IsFiniteSet(1..N) /\ Cardinality(1..N) = N
  BY <1>1, FS_Interval
<1>8. rank \in Surjection(I, 1..N)
  <2> HIDE DEF rank
  <2> QED
    BY <1>6, <1>7, FS_Injection
<1>9. \A n \in 1..N : \E i \in I : Cardinality({j \in I : j <= i}) = n
  <2>1. \A n \in 1..N : \E i \in I : rank[i] = n
    BY <1>8 DEF Surjection
  <2> QED
    BY <2>1
<1>10. \A n \in 1..N : Nth(I, n) \in I /\ Cardinality({j \in I : j <= Nth(I, n)}) = n
  BY <1>9 DEF Nth
<1>11. ASSUME NEW i \in I PROVE \E n \in 1..N : Nth(I, n) = i
  <2>1. rank[i] \in 1..N
    BY <1>2
  <2>2. Nth(I, rank[i]) \in I /\ rank[Nth(I, rank[i])] = rank[i]
    BY <1>10, <2>1
  <2> QED
    BY <1>4, <2>1, <2>2
<1> QED
  BY <1>1, <1>10, <1>11

\* So the last of them is the largest.
LEMMA LargestExists ==
  ASSUME NEW I \in SUBSET Nat, IsFiniteSet(I), I # {}
  PROVE  \E i \in I : \A j \in I : j <= i
<1> DEFINE N == Cardinality(I)
           k == Nth(I, N)
<1>1. N \in Nat /\ N # 0
  BY FS_CardinalityType, FS_EmptySet
<1>2. k \in I /\ Cardinality({j \in I : j <= k}) = N
  BY <1>1, NthFacts
<1>3. {j \in I : j <= k} \in SUBSET I
  OBVIOUS
<1>4. {j \in I : j <= k} = I
  BY <1>2, <1>3, FS_Subset
<1> QED
  BY <1>2, <1>4

\* Picking takes the entries at these positions, and no others.
LEMMA PickedFacts ==
  ASSUME NEW S, NEW es \in Seq(S), NEW I \in SUBSET (1..Len(es))
  PROVE  /\ Picked(es, I) \in Seq(S)
         /\ Digests(Picked(es, I)) = {es[i].payload : i \in I}
<1>1. Len(es) \in Nat /\ IsFiniteSet(1..Len(es)) /\ I \in SUBSET Nat
  BY FS_Interval
<1>2. IsFiniteSet(I)
  BY <1>1, FS_Subset
<1> DEFINE N == Cardinality(I)
<1>3. /\ N \in Nat /\ \A n \in 1..N : Nth(I, n) \in I
      /\ \A i \in I : \E n \in 1..N : Nth(I, n) = i
  BY <1>1, <1>2, NthFacts
<1>4. \A n \in 1..N : es[Nth(I, n)] \in S
  <2>1. \A i \in 1..Len(es) : es[i] \in S
    OBVIOUS
  <2> QED
    BY <1>3, <2>1
<1>5. Picked(es, I) \in [1..N -> S]
  BY <1>4 DEF Picked
<1>6. Picked(es, I) \in Seq(S) /\ Len(Picked(es, I)) = N
  BY <1>3, <1>5
<1>7. \A n \in 1..N : Picked(es, I)[n] = es[Nth(I, n)]
  BY DEF Picked
<1>8. Digests(Picked(es, I)) = {Picked(es, I)[n].payload : n \in 1..N}
  BY <1>6 DEF Digests
<1>9. {Picked(es, I)[n].payload : n \in 1..N} = {es[i].payload : i \in I}
  <2>1. \A n \in 1..N : Nth(I, n) \in I /\ Picked(es, I)[n].payload = es[Nth(I, n)].payload
    BY <1>3, <1>7
  <2>2. \A i \in I : \E n \in 1..N : Picked(es, I)[n].payload = es[i].payload
    BY <1>3, <1>7
  <2> DEFINE q == Picked(es, I)
             A == {q[n].payload : n \in 1..N}
             B == {es[i].payload : i \in I}
  <2>3. A \subseteq B
    <3> SUFFICES ASSUME NEW x \in A PROVE x \in B
      OBVIOUS
    <3>1. PICK n \in 1..N : x = q[n].payload
      OBVIOUS
    <3> QED
      BY <2>1, <3>1
  <2>4. B \subseteq A
    <3> SUFFICES ASSUME NEW x \in B PROVE x \in A
      OBVIOUS
    <3>1. PICK i \in I : x = es[i].payload
      OBVIOUS
    <3> HIDE DEF q, N
    <3> QED
      BY <2>2, <3>1 DEF q
  <2> QED
    BY <2>3, <2>4
<1> QED
  BY <1>6, <1>8, <1>9

-----------------------------------------------------------------------------
(* The rows of a device *)

LEMMA DigestTypes ==
  ASSUME NEW es \in Seq(Entry)
  PROVE  Digests(es) \subseteq Payload /\ Replay(es) \in Payload
<1>1. \A i \in 1..Len(es) : es[i].payload \in Payload
  <2>1. \A i \in 1..Len(es) : es[i] \in Entry
    OBVIOUS
  <2> QED
    BY <2>1 DEF Entry
<1> QED
  BY <1>1 DEF Digests, Replay, Payload

\* An update is appended with its content.
LEMMA AppendFacts ==
  ASSUME NEW es \in Seq(Entry), NEW p \in Payload, NEW e \in Entry, e.payload = p
  PROVE  /\ Append(es, e) \in Seq(Entry)
         /\ Digests(Append(es, e)) = Digests(es) \cup {p}
<1>1. /\ Append(es, e) \in Seq(Entry) /\ Len(Append(es, e)) = Len(es) + 1
      /\ \A i \in 1..Len(es) : Append(es, e)[i] = es[i]
      /\ Append(es, e)[Len(es) + 1] = e
  BY AppendProperties
<1>2. Len(es) \in Nat
  OBVIOUS
<1>3. Digests(Append(es, e)) = {Append(es, e)[i].payload : i \in 1..(Len(es) + 1)}
  BY <1>1 DEF Digests
<1> HIDE DEF Digests
<1>4. Digests(Append(es, e)) = {Append(es, e)[i].payload : i \in 1..Len(es)} \cup {p}
  BY <1>1, <1>2, <1>3
<1>5. {Append(es, e)[i].payload : i \in 1..Len(es)} = {es[i].payload : i \in 1..Len(es)}
  BY <1>1
<1> QED
  BY <1>1, <1>4, <1>5 DEF Digests

\* A compaction keeps the content, in a single row.
LEMMA CompactedFacts ==
  ASSUME NEW es \in Seq(Entry)
  PROVE  /\ Compacted(es) \in Seq(Entry) /\ Len(Compacted(es)) = 1
         /\ Compacted(es)[1].payload = Replay(es)
         /\ Replay(Compacted(es)) = Replay(es)
         /\ Replay(Listed(Compacted(es))) = Replay(es)
<1> DEFINE e == [kind |-> "snapshot", payload |-> Replay(es)]
<1>1. e \in Entry
  BY DigestTypes DEF Entry
<1>2. Compacted(es) \in Seq(Entry) /\ Len(Compacted(es)) = 1 /\ Compacted(es)[1] = e
  BY <1>1 DEF Compacted
<1>3. Digests(Compacted(es)) = {Compacted(es)[i].payload : i \in {1}}
  BY <1>2 DEF Digests
<1>4. Digests(Compacted(es)) = {Replay(es)}
  BY <1>2, <1>3
<1>5. Snapshots(Compacted(es)) \cup {1} = {1}
  BY <1>2 DEF Snapshots
<1>6. Listed(Compacted(es)) = SubSeq(Compacted(es), 1, Len(Compacted(es)))
  <2>1. \A j \in Snapshots(Compacted(es)) : j <= 1
    BY <1>5
  <2> QED
    BY <1>2, <1>5, <2>1 DEF Listed
<1>7. Listed(Compacted(es)) = Compacted(es)
  BY <1>2, <1>6, SubSeqFull
<1>8. Replay(Compacted(es)) = UNION {Replay(es)}
  BY <1>4 DEF Replay
<1>9. Compacted(es)[1].payload = Replay(es)
  BY <1>2
<1>10. UNION {Replay(es)} = Replay(es)
  OBVIOUS
<1> QED
  BY <1>2, <1>7, <1>8, <1>9, <1>10

\* A save adds what is saved to what is there.
LEMMA WrittenFacts ==
  ASSUME NEW es \in Seq(Entry), NEW p \in Payload, NEW old \in BOOLEAN
  PROVE  /\ Written(es, p, old) \in Seq(Entry)
         /\ Replay(Written(es, p, old)) = Replay(es) \cup p
<1> DEFINE all == Append(es, [kind |-> "update", payload |-> p])
<1>1. [kind |-> "update", payload |-> p] \in Entry
  BY DEF Entry
<1>2. all \in Seq(Entry) /\ Digests(all) = Digests(es) \cup {p}
  BY <1>1, AppendFacts
<1>3. Replay(all) = Replay(es) \cup p
  BY <1>2 DEF Replay
<1>4. Written(es, p, old) = Compacted(all) \/ Written(es, p, old) = all
  BY DEF Written
<1> HIDE DEF all
<1> QED
  BY <1>2, <1>3, <1>4, CompactedFacts

\* A give merges: what was there, and what is given.
LEMMA GivenFacts ==
  ASSUME NEW es \in Seq(Entry), NEW given \in Seq(Entry)
  PROVE  /\ Given(es, given) \in Seq(Entry)
         /\ Digests(Given(es, given)) = Digests(es) \cup Digests(given)
<1> DEFINE I == {i \in 1..Len(given) : given[i].payload \notin Digests(es)}
           new == Picked(given, I)
<1>1. new \in Seq(Entry) /\ Digests(new) = {given[i].payload : i \in I}
  BY PickedFacts
<1>2. Given(es, given) = es \o new
  BY DEF Given
<1>3. Digests(new) = Digests(given) \ Digests(es)
  BY <1>1 DEF Digests
<1> HIDE DEF new
<1>4. /\ es \o new \in Seq(Entry) /\ Len(es \o new) = Len(es) + Len(new)
      /\ \A i \in 1..(Len(es) + Len(new)) :
            (es \o new)[i] = IF i <= Len(es) THEN es[i] ELSE new[i - Len(es)]
  BY <1>1, ConcatProperties
<1>5. Len(es) \in Nat /\ Len(new) \in Nat
  BY <1>1
<1>6. Digests(es \o new) \subseteq Digests(es) \cup Digests(new)
  <2>1. ASSUME NEW i \in 1..(Len(es) + Len(new))
        PROVE  (es \o new)[i].payload \in Digests(es) \cup Digests(new)
    <3>1. CASE i <= Len(es)
      BY <1>4, <1>5, <3>1, SMTT(30) DEF Digests
    <3>2. CASE ~(i <= Len(es))
      <4>1. i - Len(es) \in 1..Len(new) /\ (es \o new)[i] = new[i - Len(es)]
        BY <1>4, <1>5, <3>2
      <4> QED
        BY <4>1 DEF Digests
    <3> QED
      BY <3>1, <3>2
  <2> QED
    BY <1>4, <2>1 DEF Digests
<1>7. Digests(es) \subseteq Digests(es \o new)
  <2>1. \A i \in 1..Len(es) : i \in 1..Len(es \o new) /\ (es \o new)[i] = es[i]
    BY <1>4, <1>5
  <2> QED
    BY <2>1 DEF Digests
<1>8. Digests(new) \subseteq Digests(es \o new)
  <2>1. ASSUME NEW i \in 1..Len(new)
        PROVE  i + Len(es) \in 1..Len(es \o new) /\ (es \o new)[i + Len(es)] = new[i]
    BY <1>4, <1>5
  <2> QED
    BY <2>1 DEF Digests
<1> QED
  BY <1>2, <1>3, <1>4, <1>6, <1>7, <1>8

\* A want is answered with all of it that is there, and nothing else.
LEMMA WantedFacts ==
  ASSUME NEW es \in Seq(Entry), NEW digests
  PROVE  /\ Wanted(es, digests) \in Seq(Entry)
         /\ Digests(Wanted(es, digests)) = Digests(es) \cap digests
<1> DEFINE I == {i \in 1..Len(es) : es[i].payload \in digests}
<1>1. Wanted(es, digests) \in Seq(Entry) /\ Digests(Wanted(es, digests)) = {es[i].payload : i \in I}
  BY PickedFacts DEF Wanted
<1> QED
  BY <1>1 DEF Digests

\* What a read replays is some of what is there.
LEMMA ListedFacts ==
  ASSUME NEW es \in Seq(Entry)
  PROVE  \E m \in Nat \ {0} :
            /\ m \in Snapshots(es) \cup {1} /\ \A j \in Snapshots(es) : j <= m
            /\ m = CHOOSE i \in Snapshots(es) \cup {1} : \A j \in Snapshots(es) : j <= i
            /\ Listed(es) = SubSeq(es, m, Len(es))
            /\ Listed(es) \in Seq(Entry)
            /\ Digests(Listed(es)) = {es[i].payload : i \in m..Len(es)}
<1> DEFINE I == Snapshots(es)
           T == I \cup {1}
           m == CHOOSE i \in T : \A j \in I : j <= i
<1>1. Len(es) \in Nat /\ I \subseteq 1..Len(es)
  BY DEF Snapshots
<1>2. \E i \in T : \A j \in I : j <= i
  <2>1. IsFiniteSet(1..Len(es))
    BY <1>1, FS_Interval
  <2>2. I \in SUBSET Nat /\ IsFiniteSet(I)
    BY <1>1, <2>1, FS_Subset
  <2> HIDE DEF I
  <2>3. I # {} => \E i \in I : \A j \in I : j <= i
    BY <2>2, LargestExists
  <2>4. CASE I = {}
    BY <2>4
  <2> QED
    BY <2>3, <2>4
<1>3. m \in T /\ \A j \in I : j <= m
  BY <1>2
<1>4. m \in Nat \ {0}
  BY <1>1, <1>3
<1>5. Listed(es) = SubSeq(es, m, Len(es))
  BY DEF Listed
<1> HIDE DEF m
<1>6. \A i \in m..Len(es) : es[i] \in Entry
  <2>1. \A i \in m..Len(es) : i \in 1..Len(es)
    BY <1>1, <1>4
  <2> QED
    BY <2>1
<1>7. /\ Listed(es) \in Seq(Entry)
      /\ Len(Listed(es)) = IF m <= Len(es) THEN Len(es) - m + 1 ELSE 0
      /\ \A i \in 1..(Len(es) - m + 1) : Listed(es)[i] = es[m + i - 1]
  BY <1>1, <1>4, <1>5, <1>6, SubSeqProperties
<1>8. Digests(Listed(es)) \subseteq {es[i].payload : i \in m..Len(es)}
  <2>1. ASSUME NEW i \in 1..Len(Listed(es))
        PROVE  m + i - 1 \in m..Len(es) /\ Listed(es)[i] = es[m + i - 1]
    BY <1>1, <1>4, <1>7
  <2> QED
    BY <2>1 DEF Digests
<1>9. {es[i].payload : i \in m..Len(es)} \subseteq Digests(Listed(es))
  <2>1. ASSUME NEW i \in m..Len(es)
        PROVE  i - m + 1 \in 1..Len(Listed(es)) /\ Listed(es)[i - m + 1] = es[i]
    BY <1>1, <1>4, <1>7
  <2> QED
    BY <2>1 DEF Digests
<1> QED
  BY <1>3, <1>4, <1>5, <1>7, <1>8, <1>9 DEF m

-----------------------------------------------------------------------------
(* Types *)

LEMMA TypeInit == Init => TypeOK
<1> SUFFICES ASSUME Init PROVE TypeOK
  OBVIOUS
<1>1. rows \in [Device -> Seq(Entry)] /\ saved \in [Device -> Payload]
  BY DEF Init, Payload
<1> QED
  BY <1>1, SyncAssumption DEF Init, TypeOK, Payload

\* A frame that is passed on stays a frame, to somebody who is connected.
LEMMA ToOthersFacts ==
  \A d \in Device, f \in Frame :
     up \subseteq Device => \A g \in ToOthers(d, {f}) :
        /\ g \in Frame /\ g.to \in up \ {d} /\ g.type = f.type
        /\ f.type = "sync-give" => g.entries = f.entries
<1> SUFFICES ASSUME NEW d \in Device, NEW f \in Frame, up \subseteq Device,
                    NEW g \in ToOthers(d, {f})
             PROVE  /\ g \in Frame /\ g.to \in up \ {d} /\ g.type = f.type
                    /\ f.type = "sync-give" => g.entries = f.entries
  OBVIOUS
<1>1. PICK p \in up \ {d} : g = [f EXCEPT !.to = p]
  BY DEF ToOthers
<1>2. p \in Device
  BY <1>1
<1>3. CASE f \in [to : Device, type : {"sync-summary", "sync-want"}, digests : SUBSET Payload]
  <2>1. g = [to |-> p, type |-> f.type, digests |-> f.digests]
    BY <1>1, <1>3
  <2> QED
    BY <1>1, <1>2, <1>3, <2>1 DEF Frame
<1>4. CASE f \in [to : Device, type : {"sync-give"}, entries : Seq(Entry)]
  <2>1. g = [to |-> p, type |-> f.type, entries |-> f.entries]
    BY <1>1, <1>4
  <2> QED
    BY <1>1, <1>2, <1>4, <2>1 DEF Frame
<1> QED
  BY <1>3, <1>4 DEF Frame

LEMMA TypeStep == TypeOK /\ [Next]_vars => TypeOK'
<1> SUFFICES ASSUME TypeOK, [Next]_vars PROVE TypeOK'
  OBVIOUS
<1>0. SyncAssumption
  BY SyncAssumption
<1>1. ASSUME NEW d \in Device, Open(d) PROVE TypeOK'
  <2>1. rows[d] \in Seq(Entry)
    BY DEF TypeOK
  <2>2. Replay(Listed(rows[d])) \in Payload
    BY <2>1, ListedFacts, DigestTypes
  <2> QED
    BY <1>1, <2>2 DEF Open, TypeOK
<1>2. ASSUME Type PROVE TypeOK'
  <2>1. edits' \in 0..MaxEdit /\ edits + 1 \in Edit
    BY <1>0, <1>2 DEF Type, TypeOK, Edit, SyncAssumption
  <2>2. doc' \in Payload
    BY <1>2, <2>1 DEF Type, TypeOK, Payload
  <2> QED
    BY <1>2, <2>1, <2>2 DEF Type, TypeOK
<1>3. ASSUME NEW d \in Device, NEW old \in BOOLEAN, Save(d, old) PROVE TypeOK'
  <2>1. rows[d] \in Seq(Entry) /\ doc \in Payload /\ saved[d] \in Payload
    BY DEF TypeOK
  <2>2. PICK w : w = Written(rows[d], doc, old)
    OBVIOUS
  <2>3. w \in Seq(Entry)
    BY <2>1, <2>2, WrittenFacts
  <2>4. rows' = [rows EXCEPT ![d] = w]
    BY <1>3, <2>2 DEF Save
  <2>5. rows' \in [Device -> Seq(Entry)]
    BY <2>3, <2>4 DEF TypeOK
  <2>6. saved[d] \cup doc \in Payload
    BY <2>1 DEF Payload
  <2>7. saved' \in [Device -> Payload]
    BY <1>3, <2>6 DEF Save, TypeOK
  <2>8. saves' \in 0..MaxSave
    BY <1>0, <1>3 DEF Save, TypeOK, SyncAssumption
  <2> QED
    BY <1>3, <2>5, <2>7, <2>8 DEF Save, TypeOK
<1>4. ASSUME NEW fs, fs \subseteq Frame, \A f \in fs : f.to \in up,
             frames' \subseteq frames \cup fs,
             UNCHANGED <<rows, doc, up, edits, saved, saves, drops>>
      PROVE  TypeOK'
  BY <1>4 DEF TypeOK
<1>5. ASSUME NEW d \in Device, Summarise(d) PROVE TypeOK'
  <2>1. rows[d] \in Seq(Entry)
    BY DEF TypeOK
  <2>2. \A i \in 1..Len(rows[d]) : rows[d][i].payload \in Payload
    <3>1. \A i \in 1..Len(rows[d]) : rows[d][i] \in Entry
      BY <2>1
    <3> QED
      BY <3>1 DEF Entry
  <2>3. Summary(rows[d]) \subseteq Payload
    BY <2>2 DEF Summary
  <2>4. PICK f : f = [to |-> d, type |-> "sync-summary", digests |-> Summary(rows[d])]
    OBVIOUS
  <2>5. f \in Frame
    BY <2>3, <2>4 DEF Frame
  <2>6. PICK fs : fs = ToOthers(d, {f})
    OBVIOUS
  <2>7. up \subseteq Device
    BY DEF TypeOK
  <2>8. fs \subseteq Frame /\ \A g \in fs : g.to \in up
    BY <2>5, <2>6, <2>7, ToOthersFacts
  <2>9. frames' = frames \cup fs
    BY <1>5, <2>4, <2>6 DEF Summarise
  <2> QED
    BY <1>4, <1>5, <2>8, <2>9 DEF Summarise
<1>6. ASSUME NEW f \in frames, HandleSummary(f) PROVE TypeOK'
  <2>1. f.to \in Device /\ f.digests \subseteq Payload /\ up \subseteq Device
    BY <1>6 DEF HandleSummary, TypeOK, Frame
  <2>2. PICK miss : miss = f.digests \ Digests(rows[f.to])
    OBVIOUS
  <2>3. PICK g : g = [to |-> f.to, type |-> "sync-want", digests |-> miss]
    OBVIOUS
  <2>4. g \in Frame
    BY <2>1, <2>2, <2>3 DEF Frame
  <2>5. PICK fs : fs = ToOthers(f.to, {g})
    OBVIOUS
  <2>6. fs \subseteq Frame /\ \A h \in fs : h.to \in up
    BY <2>1, <2>4, <2>5, ToOthersFacts
  <2>7. frames' \subseteq frames \cup fs
    BY <1>6, <2>2, <2>3, <2>5 DEF HandleSummary
  <2> QED
    BY <1>4, <1>6, <2>6, <2>7 DEF HandleSummary
<1>7. ASSUME NEW f \in frames, HandleWant(f) PROVE TypeOK'
  <2>1. f.to \in Device /\ up \subseteq Device /\ rows[f.to] \in Seq(Entry)
    BY <1>7 DEF HandleWant, TypeOK, Frame
  <2>2. PICK have : have = Wanted(rows[f.to], f.digests)
    OBVIOUS
  <2>3. have \in Seq(Entry)
    BY <2>1, <2>2, WantedFacts
  <2>4. PICK g : g = [to |-> f.to, type |-> "sync-give", entries |-> have]
    OBVIOUS
  <2>5. g \in Frame
    BY <2>1, <2>3, <2>4 DEF Frame
  <2>6. PICK fs : fs = ToOthers(f.to, {g})
    OBVIOUS
  <2>7. fs \subseteq Frame /\ \A h \in fs : h.to \in up
    BY <2>1, <2>5, <2>6, ToOthersFacts
  <2>8. frames' \subseteq frames \cup fs
    BY <1>7, <2>2, <2>4, <2>6 DEF HandleWant
  <2> QED
    BY <1>4, <1>7, <2>7, <2>8 DEF HandleWant
<1>8. ASSUME NEW f \in frames, HandleGive(f) PROVE TypeOK'
  <2>1. f.to \in Device /\ f.entries \in Seq(Entry) /\ rows[f.to] \in Seq(Entry)
    BY <1>8 DEF HandleGive, TypeOK, Frame
  <2>2. PICK w : w = Given(rows[f.to], f.entries)
    OBVIOUS
  <2>3. w \in Seq(Entry)
    BY <2>1, <2>2, GivenFacts
  <2>4. rows' = [rows EXCEPT ![f.to] = w]
    BY <1>8, <2>2 DEF HandleGive
  <2>5. rows' \in [Device -> Seq(Entry)]
    BY <2>3, <2>4 DEF TypeOK
  <2> QED
    BY <1>8, <2>5 DEF HandleGive, TypeOK
<1>9. ASSUME NEW d \in Device, Disconnect(d) PROVE TypeOK'
  BY <1>0, <1>9 DEF Disconnect, TypeOK, SyncAssumption
<1>10. ASSUME NEW d \in Device, Connect(d) PROVE TypeOK'
  BY <1>10 DEF Connect, TypeOK
<1>11. ASSUME UNCHANGED vars PROVE TypeOK'
  BY <1>11 DEF vars, TypeOK
<1> QED
  BY <1>1, <1>2, <1>3, <1>5, <1>6, <1>7, <1>8, <1>9, <1>10, <1>11 DEF Next

\* Every variable keeps its type: what is stored and exchanged stays rows and
\* frames, for any number of devices, edits, saves and lost connections.
THEOREM TypeCorrect == Spec => []TypeOK
  BY TypeInit, TypeStep, PTL DEF Spec

-----------------------------------------------------------------------------
(* What is stored stays *)

\* What a step does to the rows of a device.
Wrote(d, old) == saves' = saves + 1 /\ rows' = [rows EXCEPT ![d] = Written(@, doc, old)]
                 /\ saved' = [saved EXCEPT ![d] = @ \cup doc]
Received(d, es) == saves' = saves /\ rows' = [rows EXCEPT ![d] = Given(@, es)] /\ saved' = saved
Kept == UNCHANGED <<rows, saved, saves>>

RowEffect ==
    \/ Kept
    \/ \E d \in Device, old \in BOOLEAN : Wrote(d, old)
    \/ \E f \in frames : f.type = "sync-give" /\ Received(f.to, f.entries)

LEMMA StepRowEffect == [Next]_vars => RowEffect
<1> SUFFICES ASSUME [Next]_vars PROVE RowEffect
  OBVIOUS
<1> USE DEF RowEffect, Kept
<1>1. ASSUME NEW d \in Device, Open(d) PROVE RowEffect
  BY <1>1 DEF Open
<1>2. ASSUME Type PROVE RowEffect
  BY <1>2 DEF Type
<1>3. ASSUME NEW d \in Device, NEW old \in BOOLEAN, Save(d, old) PROVE RowEffect
  BY <1>3 DEF Save, Wrote
<1>4. ASSUME NEW d \in Device, Summarise(d) PROVE RowEffect
  BY <1>4 DEF Summarise
<1>5. ASSUME NEW f \in frames, HandleSummary(f) PROVE RowEffect
  BY <1>5 DEF HandleSummary
<1>6. ASSUME NEW f \in frames, HandleWant(f) PROVE RowEffect
  BY <1>6 DEF HandleWant
<1>7. ASSUME NEW f \in frames, HandleGive(f) PROVE RowEffect
  BY <1>7 DEF HandleGive, Received
<1>8. ASSUME NEW d \in Device, Disconnect(d) PROVE RowEffect
  BY <1>8 DEF Disconnect
<1>9. ASSUME NEW d \in Device, Connect(d) PROVE RowEffect
  BY <1>9 DEF Connect
<1> QED
  BY <1>1, <1>2, <1>3, <1>4, <1>5, <1>6, <1>7, <1>8, <1>9 DEF Next, vars

\* A save puts the document into the rows of one device.
LEMMA WroteFacts ==
  \A d \in Device, old \in BOOLEAN :
     TypeOK /\ Wrote(d, old) =>
        /\ rows'[d] = Written(rows[d], doc, old)
        /\ Replay(rows'[d]) = Replay(rows[d]) \cup doc
        /\ saved'[d] = saved[d] \cup doc
        /\ \A p \in Device \ {d} : rows'[p] = rows[p] /\ saved'[p] = saved[p]
<1> SUFFICES ASSUME NEW d \in Device, NEW old \in BOOLEAN, TypeOK, Wrote(d, old)
             PROVE  /\ rows'[d] = Written(rows[d], doc, old)
                    /\ Replay(rows'[d]) = Replay(rows[d]) \cup doc
                    /\ saved'[d] = saved[d] \cup doc
                    /\ \A p \in Device \ {d} : rows'[p] = rows[p] /\ saved'[p] = saved[p]
  OBVIOUS
<1>1. /\ rows'[d] = Written(rows[d], doc, old) /\ saved'[d] = saved[d] \cup doc
      /\ \A p \in Device \ {d} : rows'[p] = rows[p] /\ saved'[p] = saved[p]
  BY DEF Wrote, TypeOK
<1>2. rows[d] \in Seq(Entry) /\ doc \in Payload
  BY DEF TypeOK
<1>3. Replay(Written(rows[d], doc, old)) = Replay(rows[d]) \cup doc
  BY <1>2, WrittenFacts
<1> QED
  BY <1>1, <1>3

\* A give adds what it brings.
LEMMA ReceivedFacts ==
  \A f \in frames :
     TypeOK /\ f.type = "sync-give" /\ Received(f.to, f.entries) =>
        /\ Replay(rows'[f.to]) = Replay(rows[f.to]) \cup Replay(f.entries)
        /\ \A p \in Device \ {f.to} : rows'[p] = rows[p]
<1> SUFFICES ASSUME NEW f \in frames, TypeOK, f.type = "sync-give", Received(f.to, f.entries)
             PROVE  /\ Replay(rows'[f.to]) = Replay(rows[f.to]) \cup Replay(f.entries)
                    /\ \A p \in Device \ {f.to} : rows'[p] = rows[p]
  OBVIOUS
<1>1. f.to \in Device /\ f.entries \in Seq(Entry) /\ rows[f.to] \in Seq(Entry)
  BY DEF TypeOK, Frame
<1>2. /\ rows'[f.to] = Given(rows[f.to], f.entries)
      /\ \A p \in Device \ {f.to} : rows'[p] = rows[p]
  BY <1>1 DEF Received, TypeOK
<1>3. Digests(Given(rows[f.to], f.entries)) = Digests(rows[f.to]) \cup Digests(f.entries)
  BY <1>1, GivenFacts
<1>4. Replay(Given(rows[f.to], f.entries)) = Replay(rows[f.to]) \cup Replay(f.entries)
  BY <1>3 DEF Replay
<1> QED
  BY <1>2, <1>4

\* No step takes an edit out of the rows of any device.
RowsOnlyGrow == [][\A d \in Device : Replay(rows[d]) \subseteq Replay(rows'[d])]_vars

LEMMA RowsGrow ==
  TypeOK /\ [Next]_vars => \A d \in Device : Replay(rows[d]) \subseteq Replay(rows'[d])
<1> SUFFICES ASSUME TypeOK, [Next]_vars, NEW d \in Device
             PROVE  Replay(rows[d]) \subseteq Replay(rows'[d])
  OBVIOUS
<1>1. CASE Kept
  BY <1>1 DEF Kept
<1>2. ASSUME NEW p \in Device, NEW old \in BOOLEAN, Wrote(p, old)
      PROVE  Replay(rows[d]) \subseteq Replay(rows'[d])
  BY <1>2, WroteFacts
<1>3. ASSUME NEW f \in frames, f.type = "sync-give", Received(f.to, f.entries)
      PROVE  Replay(rows[d]) \subseteq Replay(rows'[d])
  BY <1>3, ReceivedFacts
<1> QED
  BY <1>1, <1>2, <1>3, StepRowEffect DEF RowEffect

\* No device ever loses an edit it holds - a save, a compaction above a peer's
\* snapshot and a give all keep it.
THEOREM RowsOnlyGrowHolds == Spec => RowsOnlyGrow
  BY TypeCorrect, RowsGrow, PTL DEF Spec, RowsOnlyGrow

LEMMA SavedStep == TypeOK /\ SavedStays /\ [Next]_vars => SavedStays'
<1> SUFFICES ASSUME TypeOK, SavedStays, [Next]_vars, NEW d \in Device
             PROVE  saved'[d] \subseteq Replay(rows'[d])
  BY DEF SavedStays
<1>1. saved[d] \subseteq Replay(rows[d]) /\ Replay(rows[d]) \subseteq Replay(rows'[d])
  BY RowsGrow DEF SavedStays
<1>2. CASE saved' = saved
  BY <1>1, <1>2
<1>3. ASSUME NEW p \in Device, NEW old \in BOOLEAN, Wrote(p, old)
      PROVE  saved'[d] \subseteq Replay(rows'[d])
  BY <1>1, <1>3, WroteFacts
<1> QED
  BY <1>2, <1>3, StepRowEffect DEF RowEffect, Kept, Received

\* An edit a device has answered the save of stays in its rows, with any number
\* of devices, edits and compactions.
THEOREM SavedStaysHolds == Spec => []SavedStays
<1>1. Init => SavedStays
  BY DEF Init, SavedStays
<1> QED
  BY <1>1, SavedStep, TypeCorrect, PTL DEF Spec

-----------------------------------------------------------------------------
(* What is saved can be read *)

\* The row of a save goes to the end of what is listed.
LEMMA AppendListed ==
  ASSUME NEW es \in Seq(Entry), NEW p \in Payload, NEW e \in Entry,
         e.payload = p, e.kind = "update"
  PROVE  Replay(Listed(es)) \cup p \subseteq Replay(Listed(Append(es, e)))
<1> DEFINE all == Append(es, e)
<1>1. /\ all \in Seq(Entry) /\ Len(all) = Len(es) + 1
      /\ \A i \in 1..Len(es) : all[i] = es[i]
      /\ all[Len(es) + 1] = e
  BY AppendProperties
<1>2. Len(es) \in Nat
  OBVIOUS
<1> HIDE DEF all
<1>3. Snapshots(all) = Snapshots(es)
  <2>1. Snapshots(all) \subseteq Snapshots(es)
    BY <1>1, <1>2 DEF Snapshots
  <2>2. Snapshots(es) \subseteq Snapshots(all)
    BY <1>1, <1>2 DEF Snapshots
  <2> QED
    BY <2>1, <2>2
<1>4. PICK m \in Nat \ {0} :
         /\ m \in Snapshots(es) \cup {1}
         /\ m = CHOOSE i \in Snapshots(es) \cup {1} : \A j \in Snapshots(es) : j <= i
         /\ Digests(Listed(es)) = {es[i].payload : i \in m..Len(es)}
  BY ListedFacts
<1>5. PICK k \in Nat \ {0} :
         /\ k = CHOOSE i \in Snapshots(all) \cup {1} : \A j \in Snapshots(all) : j <= i
         /\ Digests(Listed(all)) = {all[i].payload : i \in k..Len(all)}
  BY <1>1, ListedFacts
<1>6. k = m
  BY <1>3, <1>4, <1>5
<1>7. m <= Len(es) + 1
  BY <1>2, <1>4 DEF Snapshots
<1>8. p \in Digests(Listed(all))
  <2>1. Len(es) + 1 \in k..Len(all) /\ all[Len(es) + 1].payload = p
    BY <1>1, <1>2, <1>6, <1>7
  <2> QED
    BY <1>5, <2>1
<1>9. Digests(Listed(es)) \subseteq Digests(Listed(all))
  <2>1. ASSUME NEW i \in m..Len(es)
        PROVE  i \in k..Len(all) /\ all[i].payload = es[i].payload
    BY <1>1, <1>2, <1>6
  <2> QED
    BY <1>4, <1>5, <2>1
<1> QED
  BY <1>8, <1>9 DEF Replay, all

\* A save adds what is saved to what a read returns.
LEMMA WrittenListed ==
  ASSUME NEW es \in Seq(Entry), NEW p \in Payload, NEW old \in BOOLEAN
  PROVE  Replay(Listed(es)) \cup p \subseteq Replay(Listed(Written(es, p, old)))
<1> DEFINE e == [kind |-> "update", payload |-> p]
           all == Append(es, e)
<1>1. e \in Entry /\ e.payload = p /\ e.kind = "update"
  BY DEF Entry
<1> HIDE DEF e
<1>2. all \in Seq(Entry) /\ Digests(all) = Digests(es) \cup {p}
  BY <1>1, AppendFacts
<1>3. Written(es, p, old) = Compacted(all) \/ Written(es, p, old) = all
  BY DEF Written, e
<1>4. Replay(Listed(es)) \cup p \subseteq Replay(Listed(all))
  BY <1>1, AppendListed
<1>5. Replay(Listed(es)) \cup p \subseteq Replay(Listed(Compacted(all)))
  <2>1. Digests(Listed(es)) \subseteq Digests(es)
    <3>1. PICK m \in Nat \ {0} : Digests(Listed(es)) = {es[i].payload : i \in m..Len(es)}
      BY ListedFacts
    <3>2. \A i \in m..Len(es) : i \in 1..Len(es)
      OBVIOUS
    <3> QED
      BY <3>1, <3>2 DEF Digests
  <2>2. Replay(Listed(es)) \cup p \subseteq Replay(all)
    BY <1>2, <2>1 DEF Replay
  <2> HIDE DEF all
  <2> QED
    BY <1>2, <2>2, CompactedFacts
<1> QED
  BY <1>3, <1>4, <1>5

LEMMA SaveReadableStep ==
  TypeOK /\ [Next]_vars =>
     \A d \in Device : rows'[d] # rows[d] /\ saves' # saves =>
        Replay(Listed(rows[d])) \cup doc \subseteq Replay(Listed(rows'[d]))
<1> SUFFICES ASSUME TypeOK, [Next]_vars, NEW d \in Device, rows'[d] # rows[d], saves' # saves
             PROVE  Replay(Listed(rows[d])) \cup doc \subseteq Replay(Listed(rows'[d]))
  OBVIOUS
<1>1. PICK p \in Device, old \in BOOLEAN : Wrote(p, old)
  BY StepRowEffect DEF RowEffect, Kept, Received
<1>2. p = d
  BY <1>1, WroteFacts
<1>3. rows'[d] = Written(rows[d], doc, old)
  BY <1>1, <1>2, WroteFacts
<1>4. rows[d] \in Seq(Entry) /\ doc \in Payload
  BY DEF TypeOK
<1>5. Replay(Listed(rows[d])) \cup doc \subseteq Replay(Listed(Written(rows[d], doc, old)))
  BY <1>4, WrittenListed
<1> QED
  BY <1>3, <1>5

\* A save never makes a read return less, whether the rows are compacted or not
\* and whatever snapshots of others lie above them.
THEOREM SaveIsReadableHolds == Spec => SaveIsReadable
  BY TypeCorrect, SaveReadableStep, PTL DEF Spec, SaveIsReadable
-----------------------------------------------------------------------------
(* The shared document *)

\* Nothing is kept that was not typed, and what a give brings is kept by a device
\* other than the one it goes to.
Origin ==
    /\ doc \subseteq 1..edits
    /\ \A d \in Device : Replay(rows[d]) \subseteq 1..edits
    /\ \A f \in frames : f.type = "sync-give" =>
          \E p \in Device \ {f.to} : Replay(f.entries) \subseteq Replay(rows[p])

LEMMA OriginInit == Init => Origin
<1> SUFFICES ASSUME Init PROVE Origin
  OBVIOUS
<1>1. \A d \in Device : Replay(rows[d]) = {}
  BY DEF Init, Replay, Digests
<1> QED
  BY <1>1 DEF Init, Origin

\* What was typed stays typed.
LEMMA EditsGrow == TypeOK /\ [Next]_vars => 1..edits \subseteq 1..edits'
<1> SUFFICES ASSUME TypeOK, [Next]_vars PROVE 1..edits \subseteq 1..edits'
  OBVIOUS
<1>1. CASE edits' = edits
  BY <1>1
<1>2. CASE Type
  <2>1. edits \in Nat /\ edits' = edits + 1
    BY <1>2, SyncAssumption DEF Type, TypeOK
  <2>2. 1..edits \subseteq 1..(edits + 1)
    BY <2>1
  <2> QED
    BY <2>1, <2>2
<1> QED
  BY <1>1, <1>2 DEF Next, vars, Open, Save, Summarise, HandleSummary, HandleWant, HandleGive,
                    Disconnect, Connect

\* Frames after a step: those of before, and others' answers.
Sent(d, f) == frames' \subseteq frames \cup ToOthers(d, {f})

LEMMA FramesFrom ==
  TypeOK /\ [Next]_vars =>
     \A g \in frames' : g.type = "sync-give" =>
        \/ g \in frames
        \/ \E d \in Device \ {g.to} : Replay(g.entries) \subseteq Replay(rows[d])
<1> SUFFICES ASSUME TypeOK, [Next]_vars, NEW g \in frames', g.type = "sync-give", g \notin frames
             PROVE  \E d \in Device \ {g.to} : Replay(g.entries) \subseteq Replay(rows[d])
  OBVIOUS
<1>0. up \subseteq Device
  BY DEF TypeOK
<1>1. ASSUME NEW d \in Device, NEW f \in Frame, f.type # "sync-give", Sent(d, f) PROVE FALSE
  <2>1. \A h \in ToOthers(d, {f}) : h.type = f.type
    BY <1>0, ToOthersFacts
  <2>2. g \in ToOthers(d, {f})
    BY <1>1 DEF Sent
  <2> QED
    BY <1>1, <2>1, <2>2
<1>2. ASSUME NEW d \in Device, Summarise(d) PROVE FALSE
  <2>1. PICK f : f = [to |-> d, type |-> "sync-summary", digests |-> Summary(rows[d])]
    OBVIOUS
  <2>2. \A i \in 1..Len(rows[d]) : rows[d][i] \in Entry
    BY DEF TypeOK
  <2>3. Summary(rows[d]) \subseteq Payload
    BY <2>2 DEF Summary, Entry
  <2>4. f \in Frame /\ f.type # "sync-give"
    BY <2>1, <2>3 DEF Frame
  <2>5. Sent(d, f)
    BY <1>2, <2>1 DEF Summarise, Sent
  <2> QED
    BY <1>1, <2>4, <2>5
<1>3. ASSUME NEW e \in frames, HandleSummary(e) PROVE FALSE
  <2>1. e.to \in Device /\ e.digests \subseteq Payload
    BY <1>3 DEF HandleSummary, TypeOK, Frame
  <2>2. PICK f : f = [to |-> e.to, type |-> "sync-want", digests |-> e.digests \ Digests(rows[e.to])]
    OBVIOUS
  <2>3. f \in Frame /\ f.type # "sync-give"
    BY <2>1, <2>2 DEF Frame
  <2>4. Sent(e.to, f)
    BY <1>3, <2>2 DEF HandleSummary, Sent
  <2> QED
    BY <1>1, <2>1, <2>3, <2>4
<1>4. ASSUME NEW e \in frames, HandleWant(e)
      PROVE  \E d \in Device \ {g.to} : Replay(g.entries) \subseteq Replay(rows[d])
  <2>1. e.to \in Device /\ rows[e.to] \in Seq(Entry)
    BY <1>4 DEF HandleWant, TypeOK, Frame
  <2>2. PICK have : have = Wanted(rows[e.to], e.digests)
    OBVIOUS
  <2>3. have \in Seq(Entry) /\ Digests(have) \subseteq Digests(rows[e.to])
    BY <2>1, <2>2, WantedFacts
  <2>4. PICK f : f = [to |-> e.to, type |-> "sync-give", entries |-> have]
    OBVIOUS
  <2>5. f \in Frame /\ f.type = "sync-give" /\ f.entries = have
    BY <2>1, <2>3, <2>4 DEF Frame
  <2>6. g \in ToOthers(e.to, {f})
    BY <1>4, <2>2, <2>4 DEF HandleWant
  <2>7. g.to # e.to /\ g.entries = have
    BY <1>0, <2>1, <2>5, <2>6, ToOthersFacts
  <2>8. Replay(g.entries) \subseteq Replay(rows[e.to])
    BY <2>3, <2>7 DEF Replay
  <2> QED
    BY <2>1, <2>7, <2>8
<1> QED
  BY <1>2, <1>3, <1>4 DEF Next, vars, Open, Type, Save, HandleGive, Disconnect, Connect

LEMMA OriginStep == TypeOK /\ Origin /\ [Next]_vars => Origin'
<1> SUFFICES ASSUME TypeOK, Origin, [Next]_vars PROVE Origin'
  OBVIOUS
<1>1. 1..edits \subseteq 1..edits' /\ \A d \in Device : Replay(rows[d]) \subseteq Replay(rows'[d])
  BY EditsGrow, RowsGrow
<1>2. doc' \subseteq 1..edits'
  <2>1. CASE doc' = doc
    BY <1>1, <2>1 DEF Origin
  <2>2. ASSUME NEW d \in Device, Open(d) PROVE doc' \subseteq 1..edits'
    <3>1. PICK m \in Nat \ {0} : Digests(Listed(rows[d])) = {rows[d][i].payload : i \in m..Len(rows[d])}
      BY ListedFacts DEF TypeOK
    <3>2. \A i \in m..Len(rows[d]) : i \in 1..Len(rows[d])
      BY DEF TypeOK
    <3>3. Digests(Listed(rows[d])) \subseteq Digests(rows[d])
      BY <3>1, <3>2 DEF Digests
    <3> QED
      BY <1>1, <2>2, <3>3 DEF Open, Origin, Replay
  <2>3. CASE Type
    <3>1. edits \in Nat /\ edits' = edits + 1 /\ doc' = doc \cup {edits + 1}
      BY <2>3, SyncAssumption DEF Type, TypeOK
    <3>2. edits + 1 \in 1..(edits + 1)
      BY <3>1
    <3>3. edits + 1 \in 1..edits'
      BY <3>1, <3>2
    <3> QED
      BY <1>1, <3>1, <3>3 DEF Origin
  <2> QED
    BY <2>1, <2>2, <2>3 DEF Next, vars, Save, Summarise, HandleSummary, HandleWant, HandleGive,
                            Disconnect, Connect
<1>3. ASSUME NEW d \in Device PROVE Replay(rows'[d]) \subseteq 1..edits'
  <2>1. CASE Kept
    BY <1>1, <2>1 DEF Kept, Origin
  <2>2. ASSUME NEW p \in Device, NEW old \in BOOLEAN, Wrote(p, old)
        PROVE  Replay(rows'[d]) \subseteq 1..edits'
    BY <1>1, <2>2, WroteFacts DEF Origin
  <2>3. ASSUME NEW f \in frames, f.type = "sync-give", Received(f.to, f.entries)
        PROVE  Replay(rows'[d]) \subseteq 1..edits'
    <3>1. Replay(f.entries) \subseteq 1..edits
      BY <2>3 DEF Origin
    <3> QED
      BY <1>1, <2>3, <3>1, ReceivedFacts DEF Origin
  <2> QED
    BY <2>1, <2>2, <2>3, StepRowEffect DEF RowEffect
<1>4. ASSUME NEW g \in frames', g.type = "sync-give"
      PROVE  \E p \in Device \ {g.to} : Replay(g.entries) \subseteq Replay(rows'[p])
  <2>1. PICK p \in Device \ {g.to} : Replay(g.entries) \subseteq Replay(rows[p])
    BY <1>4, FramesFrom DEF Origin
  <2> QED
    BY <1>1, <2>1
<1> QED
  BY <1>2, <1>3, <1>4 DEF Origin

LEMMA SharedInit == Init => Shared!Init
<1> SUFFICES ASSUME Init PROVE Shared!Init
  OBVIOUS
<1>1. \A d \in Device : Replay(rows[d]) = {}
  BY DEF Init, Replay, Digests
<1>2. 1..edits = {}
  BY DEF Init
<1> QED
  BY <1>1, <1>2 DEF Init, Shared!Init

LEMMA SharedStep == TypeOK /\ Origin /\ [Next]_vars => [Shared!Next]_(Shared!vars)
<1> SUFFICES ASSUME TypeOK, Origin, [Next]_vars PROVE [Shared!Next]_(Shared!vars)
  OBVIOUS
<1> DEFINE kept == [d \in Device |-> Replay(rows[d])]
<1>0. edits' = edits \/ Type
  BY DEF Next, vars, Open, Save, Summarise, HandleSummary, HandleWant, HandleGive,
         Disconnect, Connect
<1>1. CASE Type
  <2>1. edits \in Nat /\ edits < MaxEdit /\ edits' = edits + 1 /\ UNCHANGED <<rows, saved>>
    BY <1>1, SyncAssumption DEF Type, TypeOK
  <2>2. 1..(edits + 1) = 1..edits \cup {edits + 1} /\ edits + 1 \in Edit
    BY <2>1, SyncAssumption DEF Edit
  <2>3. Shared!Type(edits + 1)
    BY <2>1, <2>2 DEF Shared!Type
  <2> QED
    BY <2>2, <2>3 DEF Shared!Next
<1>2. CASE edits' = edits /\ Kept
  BY <1>2 DEF Kept, Shared!vars
<1>3. ASSUME NEW d \in Device, NEW old \in BOOLEAN, Wrote(d, old), edits' = edits
      PROVE  [Shared!Next]_(Shared!vars)
  <2>1. /\ Replay(rows'[d]) = Replay(rows[d]) \cup doc
        /\ \A p \in Device \ {d} : rows'[p] = rows[p]
    BY <1>3, WroteFacts
  <2>2. kept' = [kept EXCEPT ![d] = @ \cup doc]
    BY <2>1
  <2>3. saved' = [saved EXCEPT ![d] = @ \cup doc]
    BY <1>3 DEF Wrote
  <2>4. Shared!Save(d, doc) /\ doc \in SUBSET (1..edits)
    BY <1>3, <2>2, <2>3 DEF Shared!Save, Origin
  <2> QED
    BY <2>4 DEF Shared!Next
<1>4. ASSUME NEW f \in frames, f.type = "sync-give", Received(f.to, f.entries), edits' = edits
      PROVE  [Shared!Next]_(Shared!vars)
  <2>1. PICK p \in Device \ {f.to} : Replay(f.entries) \subseteq Replay(rows[p])
    BY <1>4 DEF Origin
  <2>2. f.to \in Device /\ Replay(f.entries) \in SUBSET (1..edits)
    BY <1>4, <2>1 DEF Origin, TypeOK, Frame
  <2>3. /\ Replay(rows'[f.to]) = Replay(rows[f.to]) \cup Replay(f.entries)
        /\ \A q \in Device \ {f.to} : rows'[q] = rows[q]
    BY <1>4, ReceivedFacts
  <2>4. kept' = [kept EXCEPT ![f.to] = @ \cup Replay(f.entries)]
    BY <2>2, <2>3
  <2>5. Shared!Learn(f.to, p, Replay(f.entries))
    BY <1>4, <2>1, <2>4 DEF Shared!Learn, Received
  <2> QED
    BY <2>1, <2>2, <2>5 DEF Shared!Next
<1> QED
  BY <1>0, <1>1, <1>2, <1>3, <1>4, StepRowEffect DEF RowEffect

\* Nothing is kept that was not typed, and no give brings what its sender lost.
THEOREM OriginHolds == Spec => []Origin
  BY OriginInit, OriginStep, TypeCorrect, PTL DEF Spec

\* The store and the exchange implement the shared document: a device keeps what
\* is saved on it and what it learns from another, for good, and nothing else -
\* appends, compactions, gives, lost frames and connections included.
THEOREM SharesDocumentHolds == Spec => SharesDocument
  BY SharedInit, SharedStep, TypeCorrect, OriginHolds, PTL DEF Spec, SharesDocument, Shared!Spec

=============================================================================
