--------------------------- MODULE AfanBridgeProofs ---------------------------
(***************************************************************************)
(* Proofs about AfanBridge, for any hosts, requests and keys, and any       *)
(* number of crashes, reconnects, cancellations and expiries.  What only    *)
(* one host may do holds as long as no two hosts have the same name.        *)
(***************************************************************************)
EXTENDS AfanBridge, FiniteSetTheorems, TLAPS

RunType    == [at : Step, resume : BOOLEAN, status : Final \cup {"running"}]
ResultType == [status : Final \cup {"none", "running"}, device : Host \cup {None}]

-----------------------------------------------------------------------------
(* What one step does to the runs, the results and the callers *)

\* The run of h on r becomes v, and no other changes.
Put(h, r, v) ==
    /\ v \in RunType /\ run' \in [Host -> [Request -> RunType]]
    /\ run'[h][r] = v
    /\ \A g \in Host, q \in Request : g # h \/ q # r => run'[g][q] = run[g][q]
    /\ \A g \in Host : g # h => run'[g] = run[g]

\* The request's runs are all in the type.
RunOK == run \in [Host -> [Request -> RunType]]

LEMMA PutIntro ==
  ASSUME RunOK, NEW h \in Host, NEW r \in Request, NEW v \in RunType,
         run' = [run EXCEPT ![h] = [run[h] EXCEPT ![r] = v]]
  PROVE  Put(h, r, v)
BY DEF RunOK, Put

LEMMA GoesPut ==
  ASSUME RunOK, NEW h \in Host, NEW r \in Request, NEW s \in Step, Goes(h, r, s)
  PROVE  Put(h, r, [at |-> s, resume |-> run[h][r].resume, status |-> run[h][r].status])
<1> DEFINE v == [at |-> s, resume |-> run[h][r].resume, status |-> run[h][r].status]
<1>1. [run[h][r] EXCEPT !.at = s] = v /\ v \in RunType
  BY DEF RunOK, RunType
<1>2. run' = [run EXCEPT ![h] = [run[h] EXCEPT ![r] = [run[h][r] EXCEPT !.at = s]]]
  BY DEF Goes
<1> HIDE DEF v
<1>3. Put(h, r, v)
  BY <1>1, <1>2, PutIntro
<1> QED
  BY <1>3 DEF v

LEMMA EndsPut ==
  ASSUME RunOK, NEW h \in Host, NEW r \in Request, NEW s \in Step,
         NEW st \in Final \cup {"running"}, Ends(h, r, s, st)
  PROVE  Put(h, r, [at |-> s, resume |-> run[h][r].resume, status |-> st])
<1> DEFINE v == [at |-> s, resume |-> run[h][r].resume, status |-> st]
<1>1. v \in RunType
  BY DEF RunOK, RunType
<1>2. run' = [run EXCEPT ![h] = [run[h] EXCEPT ![r] = v]]
  BY DEF Ends
<1> HIDE DEF v
<1>3. Put(h, r, v)
  BY <1>1, <1>2, PutIntro
<1> QED
  BY <1>3 DEF v

LEMMA StopsPut ==
  ASSUME RunOK, NEW h \in Host, NEW r \in Request, Stops(h, r)
  PROVE  Put(h, r, Idle)
<1>1. Idle \in RunType
  BY DEF Idle, RunType, Step
<1>2. run' = [run EXCEPT ![h] = [run[h] EXCEPT ![r] = Idle]]
  BY DEF Stops
<1> QED
  BY <1>1, <1>2, PutIntro

\* The run is past the claim, or goes on with a result its device left behind.
Holds(v) ==
    \/ v.at \in {"grant", "send", "wait"}
    \/ v.resume /\ v.at \in {"check", "finish", "claim"}

\* The one step of a host on a request, with v for the run's new value: the four
\* ways in which the result, the run and the callers change together.
Effect(h, r, v) ==
    /\ Put(h, r, v)
    /\ \A q \in Request : q # r => result'[q] = result[q] /\ callers'[q] = callers[q]
    /\ callers'[r] = callers[r] \/ (Holds(run[h][r]) /\ callers'[r] = callers[r] \cup {h})
    /\ \/ \* The result is read, or left alone.
          /\ result'[r] = result[r]
          /\ Holds(v) => Holds(run[h][r]) \/ (result[r].status = "running" /\ result[r].device = h)
          /\ v.at # "revoke"
       \/ \* The claim.
          /\ result[r].status = "none" /\ callers' = callers
          /\ result'[r] = [status |-> "running", device |-> h] /\ v.at = "grant"
       \/ \* The answer of a run that ends before the call.
          /\ result[r].status = "none" \/ Holds(run[h][r])
          /\ callers' = callers
          /\ result'[r].status \in Final \cup {"running"}
          /\ result'[r].status = "running" => result'[r].device = h
          /\ v.at = "idle"
       \/ \* The answer.
          /\ Holds(run[h][r]) /\ result'[r].status \in Final
          /\ v.at \in {"idle", "revoke"} /\ ~Holds(v)

-----------------------------------------------------------------------------
(* Every step of a host on a request has that effect *)

Typed ==
    /\ RunOK /\ result \in [Request -> ResultType]
    /\ callers \in [Request -> SUBSET Host] /\ task \in [Key ->
         {"none", "working", "completed", "failed", "canceled"}]

LEMMA DeviceIsHost ==
  ASSUME ~SameName, NEW h \in Host
  PROVE  Device(h) = h
BY DEF Device

LEMMA StepEffect ==
  ASSUME ~SameName, Typed, NEW h \in Host, NEW r \in Request, Start(h, r) \/ Proceed(h, r)
  PROVE  (UNCHANGED run /\ UNCHANGED <<result, callers>>) \/ \E v \in RunType : Effect(h, r, v)
<1> DEFINE at(s) == [at |-> s, resume |-> run[h][r].resume, status |-> run[h][r].status]
           P == \E v \in RunType : Effect(h, r, v)
<1>a. /\ RunOK /\ run[h][r] \in RunType /\ result[r] \in ResultType /\ Device(h) = h
      /\ callers \in [Request -> SUBSET Host] /\ result \in [Request -> ResultType]
  BY DeviceIsHost DEF Typed, RunOK
<1>b. Idle \in RunType /\ ~Holds(Idle) /\ Idle.at = "idle"
  BY DEF Idle, RunType, Holds, Step
<1>c. \A s \in Step : at(s) \in RunType /\ at(s).at = s /\ at(s).resume = run[h][r].resume
  BY <1>a DEF RunType
<1>d. ASSUME NEW st \in Final, Answers(h, r, st), Holds(run[h][r]),
             callers' = callers \/ callers' = [callers EXCEPT ![r] = @ \cup {h}]
      PROVE  P
  <2>1. \E v \in RunType : Put(h, r, v) /\ v.at \in {"idle", "revoke"} /\ ~Holds(v)
    <3>1. CASE r \in WithFiles
      <4>1. Put(h, r, at("revoke"))
        BY <1>a, <1>d, <3>1, GoesPut DEF Answers, Step
      <4>2. ~Holds(at("revoke")) /\ at("revoke").at = "revoke" /\ at("revoke") \in RunType
        BY <1>c DEF Holds, Step
      <4> QED
        BY <4>1, <4>2
    <3>2. CASE r \notin WithFiles
      BY <1>a, <1>b, <1>d, <3>2, StopsPut DEF Answers
    <3> QED
      BY <3>1, <3>2
  <2>2. result'[r].status = st /\ \A q \in Request : q # r => result'[q] = result[q]
    BY <1>a, <1>d DEF Answers, ResultIs
  <2> QED
    BY <1>a, <1>d, <2>1, <2>2 DEF Effect
<1>1. CASE Start(h, r)
  <2> DEFINE w == [at |-> IF r \in canceled \cup expired THEN "finish" ELSE "check",
               resume |-> Resumes(h, r),
               status |-> IF r \in canceled THEN "canceled"
                          ELSE IF r \in expired THEN "expired" ELSE "running"]
  <2>1. w \in RunType /\ w.at # "revoke" /\ (Holds(w) => Resumes(h, r))
    BY DEF RunType, Resumes, Step, Final, Holds
  <2>2. run' = run \/ run' = [run EXCEPT ![h] = [run[h] EXCEPT ![r] = w]]
    BY <1>1 DEF Start
  <2> HIDE DEF w
  <2>3. run' = run \/ Put(h, r, w)
    BY <1>a, <2>1, <2>2, PutIntro
  <2>4. UNCHANGED <<result, callers>>
    BY <1>1 DEF Start
  <2> QED
    BY <1>a, <2>1, <2>3, <2>4 DEF Effect, Resumes
<1>2. CASE Check(h, r)
  <2>1. \E s \in {"finish", "claim"}, st \in Final \cup {"running"} :
           Put(h, r, [at |-> s, resume |-> run[h][r].resume, status |-> st])
    <3>1. PICK s \in {"finish", "claim"} :
            Goes(h, r, s) \/ Ends(h, r, s, "failed") \/ Ends(h, r, s, "completed")
      BY <1>2 DEF Check
    <3> QED
      BY <1>a, <3>1, GoesPut, EndsPut DEF Step, Final, RunType
  <2>2. UNCHANGED <<result, callers>> /\ run[h][r].at = "check"
    BY <1>2 DEF Check, At
  <2> QED
    BY <1>a, <2>1, <2>2 DEF Effect, Put, Holds, RunType
<1>3. CASE Finish(h, r)
  <2>1. Put(h, r, Idle) /\ UNCHANGED callers /\ run[h][r].at = "finish"
    BY <1>3, <1>a, StopsPut DEF Finish, At
  <2>2. CASE run[h][r].resume \/ Placed(h, r)
    <3>1. ResultIs(h, r, run[h][r].status) /\ run[h][r].status \in Final \cup {"running"}
      BY <1>3, <1>a, <2>2 DEF Finish, RunType
    <3>2. /\ result'[r].status \in Final \cup {"running"}
          /\ result'[r].status = "running" => result'[r].device = h
          /\ \A q \in Request : q # r => result'[q] = result[q]
      BY <1>a, <3>1 DEF ResultIs
    <3>3. result[r].status = "none" \/ Holds(run[h][r])
      BY <2>1, <2>2 DEF Placed, Holds
    <3> QED
      BY <1>b, <2>1, <3>2, <3>3 DEF Effect
  <2>3. CASE ~(run[h][r].resume \/ Placed(h, r))
    BY <1>3, <1>b, <2>1, <2>3 DEF Effect, Finish
  <2> QED
    BY <2>2, <2>3
<1>4. CASE Claim(h, r)
  <2>1. UNCHANGED callers /\ run[h][r].at = "claim"
    BY <1>4 DEF Claim, At
  <2>2. CASE run[h][r].resume
    <3>1. Put(h, r, at("grant")) /\ UNCHANGED result
      BY <1>4, <1>a, <2>2, GoesPut DEF Claim, Step
    <3>2. Holds(run[h][r])
      BY <2>1, <2>2 DEF Holds
    <3> QED
      BY <1>c, <2>1, <3>1, <3>2 DEF Effect, Step
  <2>3. CASE ~run[h][r].resume /\ Placed(h, r)
    <3>1. Goes(h, r, "grant") /\ ResultIs(h, r, "running")
      BY <1>4, <2>3 DEF Claim
    <3>2. Put(h, r, at("grant"))
      BY <3>1, <1>a, GoesPut DEF Step
    <3>3. result'[r] = [status |-> "running", device |-> h]
          /\ \A q \in Request : q # r => result'[q] = result[q]
      BY <1>a, <3>1 DEF ResultIs
    <3> QED
      BY <1>c, <2>1, <2>3, <3>2, <3>3 DEF Effect, Step, Placed
  <2>4. CASE ~run[h][r].resume /\ ~Placed(h, r)
    BY <1>4, <1>a, <1>b, <2>1, <2>4, StopsPut DEF Claim, Effect
  <2> QED
    BY <2>2, <2>3, <2>4
<1>5. CASE Grant(h, r)
  <2>1. Holds(run[h][r]) /\ UNCHANGED callers
    BY <1>5 DEF Grant, At, Holds
  <2>2. CASE Goes(h, r, "send") /\ UNCHANGED result
    <3>1. Put(h, r, at("send"))
      BY <1>a, <2>2, GoesPut DEF Step
    <3> QED
      BY <1>c, <2>1, <2>2, <3>1 DEF Effect, Step
  <2>3. CASE ResultIs(h, r, "failed") /\ Stops(h, r)
    <3>1. result'[r].status = "failed" /\ \A q \in Request : q # r => result'[q] = result[q]
      BY <1>a, <2>3 DEF ResultIs
    <3> QED
      BY <1>a, <1>b, <2>1, <2>3, <3>1, StopsPut DEF Effect, Final
  <2> QED
    BY <1>5, <2>2, <2>3 DEF Grant
<1>6. CASE Send(h, r)
  <2>1. Holds(run[h][r]) /\ callers' = [callers EXCEPT ![r] = @ \cup {h}]
    BY <1>6 DEF Send, At, Holds
  <2>2. CASE Goes(h, r, "wait") /\ UNCHANGED result
    <3>1. Put(h, r, at("wait"))
      BY <1>a, <2>2, GoesPut DEF Step
    <3> QED
      BY <1>a, <1>c, <2>1, <2>2, <3>1 DEF Effect, Step
  <2>3. CASE Answers(h, r, "failed")
    BY <1>d, <2>1, <2>3 DEF Final
  <2> QED
    BY <1>6, <2>2, <2>3 DEF Send
<1>7. CASE Ended(h, r)
  <2>1. \E st \in Final : Answers(h, r, st)
    BY <1>7 DEF Ended, Final
  <2> QED
    BY <1>7, <1>d, <2>1 DEF Ended, At, Holds
<1>8. CASE Stop(h, r)
  <2>1. \E st \in Final : Answers(h, r, st)
    BY <1>8 DEF Stop, Final
  <2> QED
    BY <1>8, <1>d, <2>1 DEF Stop, At, Holds
<1>9. CASE Revoke(h, r)
  BY <1>9, <1>a, <1>b, StopsPut DEF Revoke, Effect
<1> QED
  BY <1>1, <1>2, <1>3, <1>4, <1>5, <1>6, <1>7, <1>8, <1>9 DEF Proceed
-----------------------------------------------------------------------------
(* Types *)

\* The request of a run has a file: a host that does not run has no run.
RunsAsked == \A h \in Host, r \in Request : run[h][r].at # "idle" => r \in asked

TypeInv == TypeOK /\ RunsAsked

LEMMA TypeInit == Init => TypeInv
  BY BridgeAssumption DEF Init, TypeInv, TypeOK, RunsAsked, Idle, Final, Step

\* A host's step on a request that has a file, from the types of what it writes.
LEMMA TypeStep ==
  ASSUME TypeInv, NEW h \in up, NEW r \in asked, NEW v \in RunType, Put(h, r, v),
         UNCHANGED <<asked, canceled, expired, up, outages>>,
         todo' \in [Host -> SUBSET asked], \A g \in Host : g # h => todo'[g] = todo[g],
         result' \in [Request -> ResultType],
         \A q \in Request : q # r => result'[q] = result[q],
         task' \in [Key -> {"none", "working", "completed", "failed", "canceled"}],
         grants' \subseteq WithFiles, callers' \in [Request -> SUBSET Host]
  PROVE  TypeInv'
<1>1. h \in Host /\ r \in Request
  BY DEF TypeInv, TypeOK
<1>2. (\A g \in Host \ up : todo[g] = {} /\ run[g] = [q \in Request |-> Idle])'
  BY <1>1 DEF TypeInv, TypeOK, Put
<1>3. (\A q \in Request : result[q].status # "none" => q \in asked)'
  BY DEF TypeInv, TypeOK
<1>4. RunsAsked'
  BY <1>1 DEF TypeInv, RunsAsked, Put
<1> QED
  BY <1>2, <1>3, <1>4 DEF TypeInv, TypeOK, Put, RunType, ResultType

LEMMA AnswersTyped ==
  ASSUME TypeInv, NEW h \in Host, NEW r \in Request, NEW st \in Final, Answers(h, r, st)
  PROVE  /\ \E v \in RunType : Put(h, r, v)
         /\ result' \in [Request -> ResultType]
         /\ \A q \in Request : q # r => result'[q] = result[q]
<1>1. RunOK /\ result \in [Request -> ResultType] /\ None \in Host \cup {None}
  BY DEF TypeInv, TypeOK, RunOK, RunType, ResultType
<1>2. \E v \in RunType : Put(h, r, v)
  BY <1>1, GoesPut, StopsPut, ZenonT(40) DEF Answers, Step, Put
<1>3. [status |-> st, device |-> None] \in ResultType /\ st # "running"
  BY DEF ResultType, Final
<1> QED
  BY <1>1, <1>2, <1>3 DEF Answers, ResultIs

LEMMA TypeNext ==
  ASSUME TypeInv, [Next]_vars
  PROVE  TypeInv'
<1> USE BridgeAssumption
<1>1. CASE UNCHANGED vars
  BY <1>1 DEF TypeInv, TypeOK, RunsAsked, vars
<1>2. ASSUME NEW r \in Request, Ask(r) \/ Cancel(r) \/ Expire(r) \/ GrantExpires(r)
      PROVE  TypeInv'
  <2>1. CASE Ask(r)
    <3>1. todo' \in [Host -> SUBSET asked'] /\ asked \subseteq asked' /\ asked' \subseteq Request
      BY <2>1 DEF TypeInv, TypeOK, Ask, Noticed
    <3>2. \A g \in Host \ up : todo'[g] = {}
      BY <2>1 DEF TypeInv, TypeOK, Ask, Noticed
    <3> QED
      BY <2>1, <3>1, <3>2 DEF TypeInv, TypeOK, RunsAsked, Ask
  <2>2. CASE Cancel(r)
    <3>1. todo' \in [Host -> SUBSET asked] /\ \A g \in Host \ up : todo'[g] = {}
      BY <2>2 DEF TypeInv, TypeOK, Cancel, Noticed
    <3> QED
      BY <2>2, <3>1 DEF TypeInv, TypeOK, RunsAsked, Cancel
  <2>3. CASE Expire(r)
    BY <2>3 DEF TypeInv, TypeOK, RunsAsked, Expire
  <2>4. CASE GrantExpires(r)
    BY <2>4 DEF TypeInv, TypeOK, RunsAsked, GrantExpires, fileVars
  <2> QED
    BY <1>2, <2>1, <2>2, <2>3, <2>4
<1>3. ASSUME NEW h \in Host, Scan(h) \/ Crash(h) \/ Restart(h)
      PROVE  TypeInv'
  <2>1. CASE Scan(h)
    BY <2>1 DEF TypeInv, TypeOK, RunsAsked, Scan, fileVars
  <2>2. CASE Crash(h)
    <3> DEFINE none == [r \in Request |-> Idle]
    <3>1. /\ none \in [Request -> RunType] /\ \A r \in Request : none[r].at = "idle"
      BY DEF Idle, RunType, Step
    <3>2. run' = [run EXCEPT ![h] = none] /\ todo' = [todo EXCEPT ![h] = {}]
      BY <2>2 DEF Crash
    <3> HIDE DEF none
    <3>3. run' \in [Host -> [Request -> RunType]] /\ RunsAsked' /\ outages' \in 0..MaxOutage
      BY <2>2, <3>1, <3>2 DEF TypeInv, TypeOK, RunsAsked, Crash, fileVars, RunType
    <3>4. (\A g \in Host \ up : todo[g] = {} /\ run[g] = none)'
      BY <2>2, <3>2 DEF TypeInv, TypeOK, Crash, none
    <3> QED
      BY <2>2, <3>2, <3>3, <3>4 DEF TypeInv, TypeOK, Crash, fileVars, RunType, none
  <2>3. CASE Restart(h)
    BY <2>3 DEF TypeInv, TypeOK, RunsAsked, Restart, fileVars
  <2> QED
    BY <1>3, <2>1, <2>2, <2>3
<1>4. ASSUME NEW k \in Key, AgentEnds(k)
      PROVE  TypeInv'
  BY <1>4 DEF TypeInv, TypeOK, RunsAsked, AgentEnds, fileVars
<1>5. ASSUME NEW h \in Host, NEW r \in Request, Start(h, r) \/ Proceed(h, r)
      PROVE  TypeInv'
  <2>a. /\ h \in up /\ r \in asked /\ UNCHANGED <<asked, canceled, expired, up, outages>>
        /\ todo' \in [Host -> SUBSET asked] /\ \A g \in Host : g # h => todo'[g] = todo[g]
    <3>1. CASE Start(h, r)
      BY <3>1 DEF Start, TypeInv, TypeOK, fileVars
    <3>2. CASE Proceed(h, r)
      <4>1. /\ h \in up /\ run[h][r].at # "idle"
            /\ UNCHANGED <<asked, canceled, expired, up, outages, todo>>
        BY <3>2 DEF Proceed, At, fileVars, Check, Finish, Claim, Grant, Send, Ended, Stop, Revoke
      <4> QED
        BY <4>1 DEF TypeInv, TypeOK, RunsAsked
    <3> QED
      BY <1>5, <3>1, <3>2
  <2>b. /\ RunOK /\ run[h][r] \in RunType /\ result \in [Request -> ResultType]
        /\ task \in [Key -> {"none", "working", "completed", "failed", "canceled"}]
        /\ grants \subseteq WithFiles /\ callers \in [Request -> SUBSET Host]
        /\ Device(h) \in Host /\ Idle \in RunType
    BY DEF TypeInv, TypeOK, RunOK, RunType, ResultType, Device, Idle, Step
  <2>c. \A st \in Final \cup {"running"} : ResultIs(h, r, st) =>
          /\ result' \in [Request -> ResultType]
          /\ \A q \in Request : q # r => result'[q] = result[q]
    BY <2>b DEF ResultIs, ResultType
  <2>d. ASSUME NEW v \in RunType, Put(h, r, v), UNCHANGED <<task, grants, callers>>,
               UNCHANGED result \/ \E st \in Final \cup {"running"} : ResultIs(h, r, st)
        PROVE  TypeInv'
    <3>1. /\ result' \in [Request -> ResultType]
          /\ \A q \in Request : q # r => result'[q] = result[q]
      BY <2>b, <2>c, <2>d
    <3> QED
      BY <2>a, <2>b, <2>d, <3>1, TypeStep
  <2>e. ASSUME NEW st \in Final, Answers(h, r, st), grants' \subseteq WithFiles,
               task' \in [Key -> {"none", "working", "completed", "failed", "canceled"}],
               callers' \in [Request -> SUBSET Host]
        PROVE  TypeInv'
    BY <2>a, <2>e, AnswersTyped, TypeStep
  <2>1. CASE Start(h, r)
    <3> DEFINE w == [at |-> IF r \in canceled \cup expired THEN "finish" ELSE "check",
                 resume |-> Resumes(h, r),
                 status |-> IF r \in canceled THEN "canceled"
                            ELSE IF r \in expired THEN "expired" ELSE "running"]
    <3>1. w \in RunType
      BY DEF RunType, Resumes, Step, Final
    <3>2. run' = run \/ run' = [run EXCEPT ![h] = [run[h] EXCEPT ![r] = w]]
      BY <2>1 DEF Start
    <3> HIDE DEF w
    <3>3. Put(h, r, w) \/ Put(h, r, run[h][r])
      BY <2>b, <3>1, <3>2, PutIntro DEF Put, RunOK
    <3> QED
      BY <2>1, <2>b, <2>d, <3>1, <3>3 DEF Start
  <2>2. CASE Check(h, r)
    <3>1. PICK s \in {"finish", "claim"} :
            Goes(h, r, s) \/ Ends(h, r, s, "failed") \/ Ends(h, r, s, "completed")
      BY <2>2 DEF Check
    <3>2. \E v \in RunType : Put(h, r, v)
      <4>1. s \in Step
        BY DEF Step
      <4>2. CASE Goes(h, r, s)
        BY <2>b, <4>1, <4>2, GoesPut DEF Put
      <4>3. CASE Ends(h, r, s, "failed")
        BY <2>b, <4>1, <4>3, EndsPut, ZenonT(40) DEF Put, Final
      <4>4. CASE Ends(h, r, s, "completed")
        BY <2>b, <4>1, <4>4, EndsPut, ZenonT(40) DEF Put, Final
      <4> QED
        BY <3>1, <4>2, <4>3, <4>4
    <3> QED
      BY <2>2, <2>d, <3>2 DEF Check
  <2>3. CASE Finish(h, r)
    <3>1. Put(h, r, Idle) /\ run[h][r].status \in Final \cup {"running"}
      BY <2>3, <2>b, StopsPut DEF Finish, RunType
    <3> QED
      BY <2>3, <2>b, <2>d, <3>1 DEF Finish
  <2>4. CASE Claim(h, r)
    <3>1. \E v \in RunType : Put(h, r, v)
      BY <2>4, <2>b, GoesPut, StopsPut, ZenonT(40) DEF Claim, Step, Put
    <3> QED
      BY <2>4, <2>d, <3>1 DEF Claim
  <2>5. CASE Grant(h, r)
    <3>1. CASE Goes(h, r, "send") /\ grants' = grants \cup ({r} \cap WithFiles) /\ UNCHANGED result
      <4>1. \E v \in RunType : Put(h, r, v)
        BY <2>b, <3>1, GoesPut DEF Step, Put
      <4>2. grants' \subseteq WithFiles /\ UNCHANGED <<task, callers>>
        BY <2>5, <2>b, <3>1 DEF Grant
      <4> QED
        BY <2>a, <2>b, <3>1, <4>1, <4>2, TypeStep
    <3>2. CASE r \in WithFiles /\ grants' \in {grants, grants \cup {r}} /\ ResultIs(h, r, "failed") /\ Stops(h, r)
      <4>1. grants' \subseteq WithFiles /\ UNCHANGED <<task, callers>>
        BY <2>5, <2>b, <3>2 DEF Grant
      <4>2. Put(h, r, Idle)
        BY <2>b, <3>2, StopsPut
      <4>3. /\ result' \in [Request -> ResultType]
            /\ \A q \in Request : q # r => result'[q] = result[q]
        BY <2>c, <3>2 DEF Final
      <4> QED
        BY <2>a, <2>b, <4>1, <4>2, <4>3, TypeStep
    <3> QED
      BY <2>5, <3>1, <3>2 DEF Grant
  <2>6. CASE Send(h, r)
    <3>1. /\ task' \in [Key -> {"none", "working", "completed", "failed", "canceled"}]
          /\ UNCHANGED grants /\ callers' \in [Request -> SUBSET Host]
      BY <2>6, <2>b DEF Send
    <3>2. CASE Goes(h, r, "wait") /\ UNCHANGED result
      <4>1. \E v \in RunType : Put(h, r, v)
        BY <2>b, <3>2, GoesPut DEF Step, Put
      <4> QED
        BY <2>a, <2>b, <3>1, <3>2, <4>1, TypeStep
    <3>3. CASE Answers(h, r, "failed")
      BY <2>b, <2>e, <3>1, <3>3 DEF Final
    <3> QED
      BY <2>6, <3>2, <3>3 DEF Send
  <2>7. CASE Ended(h, r)
    BY <2>7, <2>b, <2>e DEF Ended, Final
  <2>8. CASE Stop(h, r)
    <3>1. task' \in [Key -> {"none", "working", "completed", "failed", "canceled"}]
      BY <2>8, <2>b DEF Stop
    <3> QED
      BY <2>8, <2>b, <2>e, <3>1 DEF Stop, Final
  <2>9. CASE Revoke(h, r)
    <3>1. Put(h, r, Idle) /\ grants' \subseteq WithFiles
      BY <2>9, <2>b, StopsPut DEF Revoke
    <3> QED
      BY <2>9, <2>a, <2>b, <3>1, TypeStep DEF Revoke
  <2> QED
    BY <1>5, <2>1, <2>2, <2>3, <2>4, <2>5, <2>6, <2>7, <2>8, <2>9 DEF Proceed
<1> QED
  BY <1>1, <1>2, <1>3, <1>4, <1>5 DEF Next

\* Every reachable state has the types of TypeOK; a run exists only on a running
\* host and for a request that has a file.
THEOREM TypeCorrect == Spec => []TypeOK
<1>1. TypeInv => TypeOK
  BY DEF TypeInv
<1> QED
  BY TypeInit, TypeNext, <1>1, PTL DEF Spec
-----------------------------------------------------------------------------
(* The claim *)

\* A run past its claim is named by a `running` result: by the hosts' distinct
\* names, it is the only one of its request.
HolderInv ==
    \A h \in Host, r \in Request :
        Holds(run[h][r]) => result[r].status = "running" /\ result[r].device = h

\* A run takes its grant back only after it has written the answer.
RevokeInv ==
    \A h \in Host, r \in Request : run[h][r].at = "revoke" => result[r].status \in Final

\* Nobody has called before the claim, and only its device until the answer.
CallerInv ==
    \A r \in Request :
        /\ result[r].status = "none" => callers[r] = {}
        /\ result[r].status = "running" => callers[r] \subseteq {result[r].device}
        /\ \A g, h \in callers[r] : g = h

ClaimInv == HolderInv /\ RevokeInv /\ CallerInv

LEMMA ClaimInit == Init => ClaimInv
  BY DEF Init, ClaimInv, HolderInv, RevokeInv, CallerInv, Idle, Holds, Final

LEMMA EffectKeepsClaim ==
  ASSUME Typed, ClaimInv, NEW h \in Host, NEW r \in Request, NEW v \in RunType, Effect(h, r, v)
  PROVE  ClaimInv'
<1>1. /\ Put(h, r, v) /\ result[r] \in ResultType
      /\ \A q \in Request : q # r => result'[q] = result[q] /\ callers'[q] = callers[q]
      /\ callers \in [Request -> SUBSET Host]
  BY DEF Effect, Typed
<1>2. HolderInv'
  BY <1>1 DEF Effect, Put, ClaimInv, HolderInv, Holds
<1>3. RevokeInv'
  BY <1>1 DEF Effect, Put, ClaimInv, HolderInv, RevokeInv, Holds, Final
<1>4. CallerInv'
  BY <1>1 DEF Effect, ClaimInv, HolderInv, CallerInv, Holds, Final
<1> QED
  BY <1>2, <1>3, <1>4 DEF ClaimInv

\* The steps of a host on a request, and those that leave results and callers be.
LEMMA NextCases ==
  ASSUME ~SameName, TypeInv, [Next]_vars
  PROVE  \/ UNCHANGED <<result, callers>> /\ UNCHANGED run
         \/ UNCHANGED <<result, callers>> /\ \E h \in Host :
               run' = [run EXCEPT ![h] = [r \in Request |-> Idle]]
         \/ \E h \in Host, r \in Request, v \in RunType : Effect(h, r, v)
<1>1. Typed
  BY DEF Typed, TypeInv, TypeOK, RunOK, RunType, ResultType
<1>2. CASE UNCHANGED vars
  BY <1>2 DEF vars
<1>3. ASSUME NEW r \in Request, Ask(r) \/ Cancel(r) \/ Expire(r) \/ GrantExpires(r)
      PROVE  UNCHANGED <<result, callers, run>>
  BY <1>3 DEF Ask, Cancel, Expire, GrantExpires
<1>4. ASSUME NEW h \in Host, Scan(h) \/ Restart(h)
      PROVE  UNCHANGED <<result, callers, run>>
  BY <1>4 DEF Scan, Restart
<1>5. ASSUME NEW h \in Host, Crash(h)
      PROVE  /\ UNCHANGED <<result, callers>>
             /\ run' = [run EXCEPT ![h] = [r \in Request |-> Idle]]
  BY <1>5 DEF Crash
<1>6. ASSUME NEW k \in Key, AgentEnds(k)
      PROVE  UNCHANGED <<result, callers, run>>
  BY <1>6 DEF AgentEnds
<1> QED
  BY <1>1, <1>2, <1>3, <1>4, <1>5, <1>6, StepEffect DEF Next

LEMMA ClaimNext ==
  ASSUME ~SameName, TypeInv, ClaimInv, [Next]_vars
  PROVE  ClaimInv'
<1>1. Typed
  BY DEF Typed, TypeInv, TypeOK, RunOK, RunType, ResultType
<1>2. CASE UNCHANGED <<result, callers>> /\ UNCHANGED run
  BY <1>2 DEF ClaimInv, HolderInv, RevokeInv, CallerInv
<1>3. ASSUME NEW h \in Host, UNCHANGED <<result, callers>>,
             run' = [run EXCEPT ![h] = [r \in Request |-> Idle]]
      PROVE  ClaimInv'
  <2>1. \A g \in Host, r \in Request : run'[g][r] = run[g][r] \/ run'[g][r] = Idle
    BY <1>1, <1>3 DEF Typed, RunOK
  <2>2. ~Holds(Idle) /\ Idle.at = "idle"
    BY DEF Idle, Holds
  <2> QED
    BY <1>3, <2>1, <2>2 DEF ClaimInv, HolderInv, RevokeInv, CallerInv
<1> QED
  BY <1>1, <1>2, <1>3, NextCases, EffectKeepsClaim

\* Two hosts serving the same folder never both send a request to the agent, as
\* long as their names differ (the claim of cli/src/afan-bridge.js).
THEOREM OneCallerCorrect ==
  ASSUME ~SameName
  PROVE  Spec => []OneCaller
<1>1. TypeInv /\ ClaimInv => OneCaller
  <2> SUFFICES ASSUME TypeInv, ClaimInv, NEW r \in Request
               PROVE  Cardinality(callers[r]) <= 1
    BY DEF OneCaller
  <2>1. callers[r] = {} \/ \E h \in Host : callers[r] = {h}
    BY DEF ClaimInv, CallerInv, TypeInv, TypeOK
  <2>2. CASE callers[r] = {}
    BY <2>2, FS_EmptySet
  <2>3. ASSUME NEW h \in Host, callers[r] = {h} PROVE Cardinality(callers[r]) = 1
    BY <2>3, FS_Singleton
  <2> QED
    BY <2>1, <2>2, <2>3
<1> QED
  BY TypeInit, TypeNext, ClaimInit, ClaimNext, <1>1, PTL DEF Spec

\* A result that says how its request ended is never written again, by a host that
\* read the folder before it was written or by one that resumes.
THEOREM FinalStaysCorrect ==
  ASSUME ~SameName
  PROVE  Spec => FinalStays
<1>1. ASSUME TypeInv, ClaimInv, [Next]_vars
      PROVE  \A r \in Request : result[r].status \in Final => result'[r] = result[r]
  <2>1. ASSUME NEW h \in Host, NEW q \in Request, NEW v \in RunType, Effect(h, q, v),
               NEW r \in Request, result[r].status \in Final
        PROVE  result'[r] = result[r]
    BY <1>1, <2>1 DEF Effect, ClaimInv, HolderInv, Final
  <2> QED
    BY <1>1, <2>1, NextCases
<1> QED
  BY TypeInit, TypeNext, ClaimInit, ClaimNext, <1>1, PTL DEF Spec, FinalStays

-----------------------------------------------------------------------------
(* The grant *)

LEMMA GrantNext ==
  ASSUME ~SameName, TypeInv, ClaimInv, CalledWithGrant, [Next]_vars
  PROVE  CalledWithGrant'
<1>1. RunOK
  BY DEF TypeInv, TypeOK, RunOK, RunType
<1>2. CASE UNCHANGED vars
  BY <1>2 DEF vars, CalledWithGrant
<1>3. ASSUME NEW r \in Request, Ask(r) \/ Cancel(r) \/ Expire(r) \/ GrantExpires(r)
      PROVE  CalledWithGrant'
  BY <1>3 DEF CalledWithGrant, Ask, Cancel, Expire, GrantExpires
<1>4. ASSUME NEW h \in Host, Scan(h) \/ Crash(h) \/ Restart(h)
      PROVE  CalledWithGrant'
  BY <1>1, <1>4, BridgeAssumption DEF CalledWithGrant, Scan, Crash, Restart, RunOK, Idle
<1>5. ASSUME NEW k \in Key, AgentEnds(k)
      PROVE  CalledWithGrant'
  BY <1>5 DEF CalledWithGrant, AgentEnds
<1>6. ASSUME NEW h \in Host, NEW r \in Request, Start(h, r) \/ Proceed(h, r)
      PROVE  CalledWithGrant'
  <2>a. Idle.at = "idle"
    BY DEF Idle
  <2>b. ASSUME NEW v \in RunType, Put(h, r, v), grants \subseteq grants',
               v.at \in {"send", "wait"} /\ r \in WithFiles => r \in grants'
        PROVE  CalledWithGrant'
    BY <2>b, BridgeAssumption DEF CalledWithGrant, Put
  <2>c. ASSUME NEW s \in Step, Goes(h, r, s), grants \subseteq grants',
               s \in {"send", "wait"} /\ r \in WithFiles => r \in grants'
        PROVE  CalledWithGrant'
    <3> DEFINE v == [at |-> s, resume |-> run[h][r].resume, status |-> run[h][r].status]
    <3>1. Put(h, r, v)
      BY <1>1, <2>c, GoesPut
    <3>2. v.at = s
      OBVIOUS
    <3> HIDE DEF v
    <3> QED
      BY <2>b, <2>c, <3>1, <3>2 DEF Put
  <2>d. ASSUME Stops(h, r), grants \subseteq grants' PROVE CalledWithGrant'
    BY <1>1, <2>a, <2>b, <2>d, StopsPut DEF Put
  <2>e. ASSUME NEW st, Answers(h, r, st), UNCHANGED grants PROVE CalledWithGrant'
    BY <2>c, <2>d, <2>e DEF Answers, Step
  <2>1. CASE Start(h, r)
    <3> DEFINE w == [at |-> IF r \in canceled \cup expired THEN "finish" ELSE "check",
                 resume |-> Resumes(h, r),
                 status |-> IF r \in canceled THEN "canceled"
                            ELSE IF r \in expired THEN "expired" ELSE "running"]
    <3>1. w \in RunType /\ w.at \notin {"send", "wait"}
      BY DEF RunType, Resumes, Step, Final
    <3>2. run' = run \/ run' = [run EXCEPT ![h] = [run[h] EXCEPT ![r] = w]]
      BY <2>1 DEF Start
    <3> HIDE DEF w
    <3>3. run' = run \/ Put(h, r, w)
      BY <1>1, <3>1, <3>2, PutIntro
    <3> QED
      BY <1>6, <2>1, <2>b, <3>1, <3>3 DEF Start, CalledWithGrant
  <2>2. CASE Check(h, r)
    <3>1. PICK s \in {"finish", "claim"} :
            Goes(h, r, s) \/ Ends(h, r, s, "failed") \/ Ends(h, r, s, "completed")
      BY <2>2 DEF Check
    <3>2. UNCHANGED grants /\ s \in Step /\ s \notin {"send", "wait"}
      BY <2>2 DEF Check, Step
    <3>3. ASSUME NEW st \in Final, Ends(h, r, s, st) PROVE CalledWithGrant'
      <4> DEFINE v == [at |-> s, resume |-> run[h][r].resume, status |-> st]
      <4>1. Put(h, r, v) /\ v.at = s
        BY <1>1, <3>2, <3>3, EndsPut
      <4> HIDE DEF v
      <4> QED
        BY <2>b, <3>2, <4>1 DEF Put
    <3> QED
      BY <2>c, <3>1, <3>2, <3>3 DEF Final
  <2>3. CASE Finish(h, r)
    BY <2>3, <2>d DEF Finish
  <2>4. CASE Claim(h, r)
    BY <2>4, <2>c, <2>d DEF Claim, Step
  <2>5. CASE Grant(h, r)
    <3>1. grants \subseteq grants' /\ (Stops(h, r) \/ (Goes(h, r, "send") /\ grants' = grants \cup ({r} \cap WithFiles)))
      BY <2>5 DEF Grant
    <3> QED
      BY <2>c, <2>d, <3>1 DEF Step
  <2>6. CASE Send(h, r)
    BY <2>6, <2>c, <2>e DEF Send, Step, At, CalledWithGrant
  <2>7. CASE Ended(h, r)
    BY <2>7, <2>e DEF Ended
  <2>8. CASE Stop(h, r)
    BY <2>8, <2>e DEF Stop
  <2>9. CASE Revoke(h, r)
    <3>1. Put(h, r, Idle) /\ \A q \in grants : q # r => q \in grants'
      BY <2>9, <1>1, StopsPut DEF Revoke
    <3>2. \A g \in Host : run[g][r].at \notin {"send", "wait"}
      BY <2>9 DEF Revoke, At, ClaimInv, RevokeInv, HolderInv, Holds, Final
    <3> QED
      BY <2>a, <3>1, <3>2, BridgeAssumption DEF CalledWithGrant, Put
  <2> QED
    BY <1>6, <2>1, <2>2, <2>3, <2>4, <2>5, <2>6, <2>7, <2>8, <2>9 DEF Proceed
<1> QED
  BY <1>2, <1>3, <1>4, <1>5, <1>6 DEF Next

\* While the agent has a request with files, its grant is there: the run that gives
\* one back is not the one that waits, and no other run of the request is left.
THEOREM CalledWithGrantCorrect ==
  ASSUME ~SameName
  PROVE  Spec => []CalledWithGrant
<1>1. Init => CalledWithGrant
  BY BridgeAssumption DEF Init, CalledWithGrant, Idle
<1> QED
  BY TypeInit, TypeNext, ClaimInit, ClaimNext, GrantNext, <1>1, PTL DEF Spec
=============================================================================
