---------------------------- MODULE ResearchProofs ----------------------------
(***************************************************************************)
(* For any set of targets, and any limits on rounds and failures: the      *)
(* records of the tasks agree with those of their attempts, and what is    *)
(* verified was published.                                                 *)
(*                                                                         *)
(* A round is written twice, the attempt and then the task, and the        *)
(* process may die in between.  The invariant says for each such half what *)
(* the first write has left and what recovery will find: an attempt is at  *)
(* most one ahead of its task, and a task that runs without a running      *)
(* attempt has a failure still to be counted.                              *)
(***************************************************************************)
EXTENDS ResearchEngine, FiniteSetTheorems, TLAPS

\* The attempt of a target that was created last.
LastOf(t) == <<t, Len(attempts[t])>>

\* The attempts of a target whose record says failed.
FailedOf(t) == {a \in AttemptsOf(t) : Record(a).status = "failed"}

\* The last attempt is known to have failed and the task does not yet say so.
Uncounted(t) == task[t].status = "running" /\ Record(LastOf(t)).status = "failed"

\* The attempts of a target are its rounds 1, 2, ..., only the last one may be
\* running, and the record of the task is at most the creation of that one
\* behind (_begin writes the attempt, then the task).
RoundInv ==
  \A t \in Targets :
    /\ \A i \in 1..Len(attempts[t]) : attempts[t][i].round = i
    /\ \A i \in 1..Len(attempts[t]) : attempts[t][i].status = "running" =>
         i = Len(attempts[t]) /\ task[t].status \in {"pending", "running"}
    /\ Len(promo[t]) = Len(attempts[t])
    /\ Len(attempts[t]) <= MaxRounds
    /\ \/ task[t].rounds = Len(attempts[t])
       \/ /\ task[t].rounds + 1 = Len(attempts[t])
          /\ Record(LastOf(t)).status = "running" /\ task[t].status = "pending"
    /\ task[t].status = "none" => attempts[t] = <<>>
    /\ task[t].status = "running" => attempts[t] # <<>>

\* A task counts the failed attempts it has, one less between the two writes of
\* _finish (or a crash there and the recovery), and gives up at the limit.
FailureInv ==
  \A t \in Targets :
    /\ task[t].status \in {"pending", "running"} => task[t].failures < MaxFailures
    /\ task[t].status = "none" => task[t].failures = 0
    /\ task[t].status \in {"pending", "running", "blocked"} =>
         Cardinality(FailedOf(t)) = task[t].failures + (IF Uncounted(t) THEN 1 ELSE 0)

\* What is between its two writes: the last attempt of a task that is not over,
\* with the record that the first write gave it.
DoingInv ==
  LET a == researchDoing.attempt
      t == Owner(a)
  IN
  /\ researchDoing.at # "none" =>
       /\ t \in Targets /\ attempts[t] # <<>> /\ a = LastOf(t)
       /\ task[t].status \in {"pending", "running"}
  /\ researchDoing.at = "begin" =>
       /\ researchPhase = "fill"
       /\ task[t].status = "pending" /\ Record(a).status = "running"
  /\ researchDoing.at \in {"recovered", "finish"} => task[t].rounds = Len(attempts[t])
  /\ researchDoing.at = "recovered" =>
       researchPhase = "recover" /\ "running" \in {Record(a).status, task[t].status}
  /\ researchDoing.at = "finish" =>
       /\ Record(a).status = IF researchDoing.verified THEN "verified"
                             ELSE IF researchDoing.interrupted THEN "interrupted" ELSE "failed"
       /\ researchDoing.verified => Accepted(a)
       /\ researchPhase \in {"recover", "wait", "woken", "unwind"}
       /\ researchPhase # "recover" => a \in active
       /\ researchPhase = "recover" => researchDoing.verified \/ researchDoing.interrupted
  /\ researchPhase \in {"down", "open"} => researchDoing = Nothing

\* The loop of run, after recover and before a stop.
Recovered == researchPhase \in {"fill", "wait", "woken"} /\ ~researchStop

\* The coroutines of the process: each one works on the last attempt of a
\* running task, one for each, and none is left over from another process.
ActiveInv ==
  /\ \A a \in active :
       /\ Owner(a) \in Targets /\ a = LastOf(Owner(a)) /\ task[Owner(a)].status = "running"
       /\ Record(a).status = "running" \/ (researchDoing.at = "finish" /\ researchDoing.attempt = a)
  /\ researchPhase \in {"down", "open", "recover"} => active = {} /\ ~researchStop
  /\ researchPhase = "fill" => ~researchStop
  /\ Recovered => \A t \in Targets :
       /\ task[t].status = "running" => LastOf(t) \in active
       /\ attempts[t] # <<>> /\ Record(LastOf(t)).status = "running" =>
            LastOf(t) \in active \/ (researchDoing.at = "begin" /\ researchDoing.attempt = LastOf(t))

\* Once recovery is over, a task is running only by an attempt that is, or
\* whose failure is being written.
RunningInv ==
  researchPhase \in {"fill", "wait", "woken", "unwind"} =>
    \A t \in Targets : task[t].status = "running" =>
      \/ Record(LastOf(t)).status = "running"
      \/ researchDoing.at = "finish" /\ researchDoing.attempt = LastOf(t)

\* The inductive invariant.
ResearchIInv ==
  /\ ResearchTypeOK /\ RoundInv /\ FailureInv /\ DoingInv /\ ActiveInv /\ RunningInv
  /\ VerifiedByEvidence

\* The records of the attempts and of their promotions.
AttemptRecord == [round : 1..MaxRounds, status : {"running", "verified", "failed", "interrupted"}]
PromoStatus == {"none", "submitted", "published", "quarantined"}

-----------------------------------------------------------------------------

\* A target has as many attempts as rounds, and its failed ones can be counted.
LEMMA FailedAreFinite ==
  ASSUME ResearchTypeOK, NEW t \in Targets
  PROVE  /\ IsFiniteSet(AttemptsOf(t)) /\ Cardinality(AttemptsOf(t)) = Len(attempts[t])
         /\ IsFiniteSet(FailedOf(t)) /\ Cardinality(FailedOf(t)) \in Nat
<1> DEFINE n == Len(attempts[t])
           f == [i \in 1..n |-> <<t, i>>]
<1>1. n \in Nat
  BY DEF ResearchTypeOK
<1>2. IsFiniteSet(1..n) /\ Cardinality(1..n) = n
  BY <1>1, FS_Interval
<1>3. f \in Bijection(1..n, AttemptsOf(t))
  <2>1. f \in [1..n -> AttemptsOf(t)] /\ \A b \in AttemptsOf(t) : \E i \in 1..n : f[i] = b
    BY DEF AttemptsOf
  <2>2. \A i, j \in 1..n : f[i] = f[j] => i = j
    OBVIOUS
  <2> QED
    BY <2>1, <2>2 DEF Bijection, Injection, Surjection, IsInjective
<1>4. IsFiniteSet(AttemptsOf(t)) /\ Cardinality(AttemptsOf(t)) = n
  <2>1. ExistsBijection(1..n, AttemptsOf(t))
    BY <1>3 DEF ExistsBijection
  <2> HIDE DEF n
  <2> QED
    BY <1>2, <2>1, FS_Bijection
<1>5. FailedOf(t) \subseteq AttemptsOf(t)
  BY DEF FailedOf
<1>6. IsFiniteSet(FailedOf(t)) /\ Cardinality(FailedOf(t)) \in Nat
  BY <1>4, <1>5, FS_Subset, FS_CardinalityType
<1> QED
  BY <1>4, <1>6

\* What _finish does to the records of the attempts.
LEMMA FinishRecords ==
  ASSUME ResearchTypeOK, NEW a, NEW flag \in BOOLEAN, FinishAttempt(a, flag),
         Owner(a) \in Targets, attempts[Owner(a)] # <<>>, a = LastOf(Owner(a))
  PROVE  /\ attempts' \in [Targets -> Seq(AttemptRecord)]
         /\ \A t \in Targets : Len(attempts'[t]) = Len(attempts[t])
         /\ \A t \in Targets : \A i \in 1..Len(attempts[t]) :
              /\ attempts'[t][i].round = attempts[t][i].round
              /\ <<t, i>> # a => attempts'[t][i].status = attempts[t][i].status
         /\ \A t \in Targets \ {Owner(a)} : attempts'[t] = attempts[t]
         /\ attempts'[Owner(a)] # <<>>
         /\ Record(a)'.status = IF Accepted(a) THEN "verified"
                                ELSE IF flag THEN "interrupted" ELSE "failed"
<1> DEFINE o == Owner(a)
           n == Len(attempts[o])
           s == CASE Accepted(a) -> "verified"
                  [] ~Accepted(a) /\ flag -> "interrupted"
                  [] OTHER -> "failed"
<1>1. attempts \in [Targets -> Seq(AttemptRecord)]
  BY DEF ResearchTypeOK, AttemptRecord
<1>2. /\ o \in Targets /\ n \in Nat \ {0} /\ a = <<o, n>> /\ a[2] = n
      /\ s \in {"verified", "interrupted", "failed"}
      /\ s = IF Accepted(a) THEN "verified" ELSE IF flag THEN "interrupted" ELSE "failed"
  BY <1>1 DEF LastOf, Owner
<1> DEFINE old == attempts[o]
           record == [old[n] EXCEPT !.status = s]
           new == [old EXCEPT ![n] = record]
<1>3. attempts' = [attempts EXCEPT ![o] = new]
  <2>1. attempts' = [attempts EXCEPT ![o][n].status = s]
    BY <1>2, Zenon DEF FinishAttempt
  <2> QED
    BY <2>1, Zenon
<1> HIDE DEF s
<1>4. old \in Seq(AttemptRecord) /\ Len(old) = n
  BY <1>1, <1>2
<1>5. old[n] \in AttemptRecord
  BY <1>2, <1>4
<1>6. record \in AttemptRecord /\ record.status = s /\ record.round = old[n].round
  BY <1>2, <1>5 DEF AttemptRecord
<1> HIDE DEF record
<1>7. new \in Seq(AttemptRecord) /\ Len(new) = n /\ new[n] = record
      /\ \A i \in 1..n : i # n => new[i] = old[i]
  BY <1>2, <1>4, <1>6
<1> HIDE DEF new
<1>8. attempts'[o] = new /\ \A t \in Targets \ {o} : attempts'[t] = attempts[t]
  BY <1>1, <1>2, <1>3
<1>9. attempts' \in [Targets -> Seq(AttemptRecord)]
  BY <1>1, <1>2, <1>3, <1>7
<1> HIDE DEF new
<1> QED
  BY <1>1, <1>2, <1>4, <1>6, <1>7, <1>8, <1>9 DEF Record, Owner

-----------------------------------------------------------------------------
TaskRecord == [status : {"none", "pending", "running", "verified", "blocked"},
               deps : SUBSET Targets, rounds : 0..MaxRounds,
               failures : 0..MaxFailures, paused : BOOLEAN]

\* The types of the three records of a target, read off ResearchTypeOK.
LEMMA Typed ==
  ASSUME ResearchTypeOK
  PROVE  /\ task \in [Targets -> TaskRecord]
         /\ attempts \in [Targets -> Seq(AttemptRecord)]
         /\ promo \in [Targets -> Seq(PromoStatus)]
         /\ \A t \in Targets : Len(attempts[t]) \in Nat /\ Len(promo[t]) \in Nat
         /\ \A t \in Targets : attempts[t] # <<>> => Len(attempts[t]) \in Nat \ {0}
<1>1. /\ task \in [Targets -> TaskRecord]
      /\ attempts \in [Targets -> Seq(AttemptRecord)]
      /\ promo \in [Targets -> Seq(PromoStatus)]
  BY DEF ResearchTypeOK, TaskRecord, AttemptRecord, PromoStatus
<1> QED
  BY <1>1

DoingRecord == [at : {"none", "begin", "recovered", "finish"}, attempt : Attempts \cup {NoAttempt},
                verified : BOOLEAN, interrupted : BOOLEAN]

\* A process that is between no two writes.
LEMMA NothingIsTyped == Nothing \in DoingRecord /\ Nothing.at = "none"
  BY DEF Nothing, DoingRecord

\* What _begin adds to the records.  No attempt of a pending task is running when the
\* frontier is filled, so that the task has counted all its rounds.
LEMMA BeginRecords ==
  ASSUME ResearchTypeOK, RoundInv, ActiveInv, NEW t \in Targets, BeginAttempt(t)
  PROVE  /\ attempts' \in [Targets -> Seq(AttemptRecord)]
         /\ promo' \in [Targets -> Seq(PromoStatus)]
         /\ task[t].rounds = Len(attempts[t])
         /\ Len(attempts'[t]) = Len(attempts[t]) + 1
         /\ Len(promo'[t]) = Len(promo[t]) + 1
         /\ attempts'[t] # <<>>
         /\ \A i \in 1..Len(attempts[t]) : attempts'[t][i] = attempts[t][i]
         /\ \A i \in 1..Len(promo[t]) : promo'[t][i] = promo[t][i]
         /\ attempts'[t][Len(attempts[t]) + 1] = [round |-> Len(attempts[t]) + 1, status |-> "running"]
         /\ \A u \in Targets \ {t} : attempts'[u] = attempts[u] /\ promo'[u] = promo[u]
<1> DEFINE new == [round |-> task[t].rounds + 1, status |-> "running"]
<1>1. /\ attempts \in [Targets -> Seq(AttemptRecord)] /\ promo \in [Targets -> Seq(PromoStatus)]
      /\ attempts' = [attempts EXCEPT ![t] = Append(@, new)]
      /\ promo' = [promo EXCEPT ![t] = Append(@, "none")]
      /\ task[t].rounds \in 0..MaxRounds
  BY DEF ResearchTypeOK, BeginAttempt, AttemptRecord, PromoStatus
<1>2. task[t].status = "pending" /\ task[t].rounds < MaxRounds
  BY DEF BeginAttempt, Ready
<1>3. new \in AttemptRecord
  BY <1>1, <1>2, ResearchAssumption DEF AttemptRecord
<1>4. task[t].rounds = Len(attempts[t])
  <2> SUFFICES ASSUME task[t].rounds # Len(attempts[t]) PROVE FALSE
    OBVIOUS
  <2>1. attempts[t] # <<>> /\ Record(LastOf(t)).status = "running"
    BY <1>1 DEF RoundInv
  <2>2. researchPhase = "fill" /\ researchDoing.at = "none"
    BY NothingIsTyped DEF BeginAttempt
  <2>3. LastOf(t) \in active
    BY <2>1, <2>2 DEF ActiveInv, Recovered
  <2>4. task[t].status = "running"
    BY <2>3 DEF ActiveInv, LastOf, Owner
  <2> QED
    BY <1>2, <2>4
<1> HIDE DEF new
<1>5. /\ attempts' \in [Targets -> Seq(AttemptRecord)] /\ attempts'[t] = Append(attempts[t], new)
      /\ \A u \in Targets \ {t} : attempts'[u] = attempts[u]
  BY <1>1, <1>3
<1>6. /\ promo' \in [Targets -> Seq(PromoStatus)] /\ promo'[t] = Append(promo[t], "none")
      /\ \A u \in Targets \ {t} : promo'[u] = promo[u]
  <2>1. "none" \in PromoStatus
    BY DEF PromoStatus
  <2> QED
    BY <1>1, <2>1
<1>7. attempts[t] \in Seq(AttemptRecord) /\ promo[t] \in Seq(PromoStatus)
  BY <1>1
<1>8. /\ Len(attempts'[t]) = Len(attempts[t]) + 1 /\ attempts'[t] # <<>>
      /\ \A i \in 1..Len(attempts[t]) : attempts'[t][i] = attempts[t][i]
      /\ attempts'[t][Len(attempts[t]) + 1] = new
  BY <1>5, <1>7
<1>9. /\ Len(promo'[t]) = Len(promo[t]) + 1
      /\ \A i \in 1..Len(promo[t]) : promo'[t][i] = promo[t][i]
  BY <1>6, <1>7
<1> QED
  BY <1>4, <1>5, <1>6, <1>8, <1>9 DEF new

\* While the loop awaits, no record is half written.
LEMMA AwaitNothing == AtAwait => researchDoing = Nothing /\ researchDoing.at = "none"
  BY NothingIsTyped DEF AtAwait

\* A state directory without research has no attempts.
LEMMA InitHolds == ResearchInit => ResearchIInv
<1> SUFFICES ASSUME ResearchInit PROVE ResearchIInv
  OBVIOUS
<1> USE ResearchAssumption
<1>1. ResearchTypeOK
  <2>1. /\ NoTask \in TaskRecord
        /\ <<>> \in Seq([round : 1..MaxRounds, status : {"running", "verified", "failed", "interrupted"}])
        /\ <<>> \in Seq({"none", "submitted", "published", "quarantined"})
    BY DEF NoTask, TaskRecord
  <2>2. task \in [Targets -> TaskRecord]
    BY <2>1 DEF ResearchInit
  <2>3. /\ attempts \in [Targets -> Seq([round : 1..MaxRounds,
                                        status : {"running", "verified", "failed", "interrupted"}])]
        /\ promo \in [Targets -> Seq({"none", "submitted", "published", "quarantined"})]
    BY <2>1 DEF ResearchInit
  <2>4. researchPhase \in ResearchPhases /\ runs \in 0..MaxRuns
        /\ active \subseteq Attempts /\ begun \subseteq active
    BY DEF ResearchInit, ResearchPhases
  <2>5. {watch, researchStop} \subseteq BOOLEAN
    BY DEF ResearchInit
  <2>6. researchDoing \in DoingRecord
    BY NothingIsTyped DEF ResearchInit
  <2> QED
    BY <2>2, <2>3, <2>4, <2>6, <2>5 DEF ResearchTypeOK, TaskRecord, DoingRecord
<1>2. RoundInv
  BY DEF ResearchInit, RoundInv, NoTask
<1>3. FailureInv
  BY DEF ResearchInit, FailureInv, NoTask
<1>4. DoingInv
  BY DEF ResearchInit, DoingInv, Nothing
<1>5. ActiveInv
  BY DEF ResearchInit, ActiveInv, Recovered
<1>6. VerifiedByEvidence
  BY DEF ResearchInit, VerifiedByEvidence, NoTask, AttemptsOf
<1>7. RunningInv
  BY DEF ResearchInit, RunningInv
<1> QED
  BY <1>1, <1>2, <1>3, <1>4, <1>5, <1>6, <1>7 DEF ResearchIInv

\* A step that leaves the records alone.
LEMMA DurableKept ==
  ASSUME ResearchIInv, UNCHANGED researchDurable
  PROVE  RoundInv' /\ FailureInv' /\ VerifiedByEvidence' /\ Attempts' = Attempts
<1> USE DEF researchDurable
<1>1. RoundInv'
  BY DEF ResearchIInv, RoundInv, LastOf, Record
<1>2. FailureInv'
  BY DEF ResearchIInv, FailureInv, Uncounted, FailedOf, LastOf, Record, AttemptsOf
<1>3. VerifiedByEvidence'
  BY DEF ResearchIInv, VerifiedByEvidence, AttemptsOf, Accepted, Owner
<1>4. Attempts' = Attempts
  BY DEF Attempts, AttemptsOf
<1> QED
  BY <1>1, <1>2, <1>3, <1>4

ProcessStep ==
  \/ StartRun \/ Opened \/ ResearchCrash \/ ResearchRequestStop \/ ResearchRecovered
  \/ Filled \/ Wake \/ TimeLimit \/ CloseRun
  \/ \E a \in active : FirstStep(a) \/ CancelUnbegun(a)

\* Starting, stopping, waking and crashing touch no record: what is between two
\* writes may be lost (run, request_stop, a crash).
LEMMA ProcessStepKeeps ==
  ASSUME ResearchIInv, ProcessStep
  PROVE  ResearchIInv'
<1> USE ResearchAssumption DEF process, researchDurable
<1>1. UNCHANGED researchDurable
  BY DEF ProcessStep, StartRun, Opened, ResearchCrash, ResearchRequestStop, ResearchRecovered, Filled, Wake,
         TimeLimit, CloseRun, FirstStep, CancelUnbegun
<1>2. RoundInv' /\ FailureInv' /\ VerifiedByEvidence' /\ Attempts' = Attempts
  BY <1>1, DurableKept
<1>3. ResearchTypeOK /\ RoundInv /\ DoingInv /\ ActiveInv
  BY DEF ResearchIInv
<1>4. researchDoing' = researchDoing \/ researchDoing' = Nothing
  BY DEF ProcessStep, StartRun, Opened, ResearchCrash, ResearchRequestStop, ResearchRecovered, Filled, Wake,
         TimeLimit, CloseRun, FirstStep, CancelUnbegun, ResearchProcessGone
<1>5. ResearchTypeOK'
  <2>1. /\ researchPhase \in ResearchPhases /\ runs \in 0..MaxRuns
        /\ watch \in BOOLEAN /\ researchStop \in BOOLEAN
        /\ active \subseteq Attempts /\ begun \subseteq active
        /\ researchDoing \in DoingRecord
    BY <1>3 DEF ResearchTypeOK, DoingRecord
  <2>2. researchPhase' \in ResearchPhases
    BY <2>1 DEF ProcessStep, StartRun, Opened, ResearchCrash, ResearchRequestStop, ResearchRecovered, Filled, Wake,
         TimeLimit, CloseRun, FirstStep, CancelUnbegun, ResearchProcessGone, LoopTop,
         ResearchPhases
  <2>3. runs' \in 0..MaxRuns /\ watch' \in BOOLEAN /\ researchStop' \in BOOLEAN
    <3>1. CASE StartRun
      <4>1. runs < MaxRuns /\ runs' = runs + 1 /\ watch' \in WatchModes /\ UNCHANGED researchStop
        BY <3>1 DEF StartRun
      <4>2. runs' \in 0..MaxRuns
        BY <2>1, <4>1
      <4> QED
        BY <2>1, <4>1, <4>2
    <3>2. CASE ~StartRun
      BY <2>1, <3>2 DEF ProcessStep, Opened, ResearchCrash, ResearchRequestStop, ResearchRecovered,
           Filled, Wake, TimeLimit, CloseRun, FirstStep, CancelUnbegun, ResearchProcessGone
    <3> QED
      BY <3>1, <3>2
  <2>4. active' \subseteq Attempts /\ begun' \subseteq active'
    BY <2>1 DEF ProcessStep, StartRun, Opened, ResearchCrash, ResearchRequestStop, ResearchRecovered, Filled, Wake,
         TimeLimit, CloseRun, FirstStep, CancelUnbegun, ResearchProcessGone
  <2>5. researchDoing' \in DoingRecord
    BY <2>1, <1>4, NothingIsTyped
  <2> QED
    BY <1>1, <1>2, <1>3, <2>2, <2>3, <2>4, <2>5 DEF ResearchTypeOK, DoingRecord
<1>6. DoingInv'
  <2>1. CASE researchDoing' = Nothing
    BY <2>1 DEF DoingInv, Nothing
  <2>2. CASE researchDoing' = researchDoing /\ researchDoing.at # "none"
    <3>1. UNCHANGED <<researchPhase, active>>
      BY <2>2, <1>3 DEF ProcessStep, StartRun, Opened, ResearchCrash, ResearchRequestStop, ResearchRecovered, Filled, Wake,
         TimeLimit, CloseRun, FirstStep, CancelUnbegun, ResearchProcessGone, AtAwait, Nothing, DoingInv
    <3> QED
      BY <1>1, <1>3, <2>2, <3>1 DEF DoingInv, Owner, Record, LastOf, Accepted
  <2>3. CASE researchDoing' = researchDoing /\ researchDoing.at = "none"
    <3>1. researchPhase' \in {"down", "open"} => researchDoing' = Nothing
      BY <2>3, <1>3 DEF ProcessStep, StartRun, Opened, ResearchCrash, ResearchRequestStop, ResearchRecovered, Filled, Wake,
         TimeLimit, CloseRun, FirstStep, CancelUnbegun, ResearchProcessGone, AtAwait, LoopTop, DoingInv
    <3> QED
      BY <2>3, <3>1 DEF DoingInv
  <2> QED
    BY <1>4, <2>1, <2>2, <2>3
<1>7. ActiveInv'
  <2>1. CASE StartRun \/ Opened \/ ResearchCrash \/ CloseRun \/ ResearchRequestStop \/ TimeLimit
    BY <1>1, <1>3, <2>1, SMTT(30) DEF StartRun, Opened, ResearchCrash, CloseRun, ResearchProcessGone, ActiveInv, Recovered,
         ResearchRequestStop, TimeLimit, Waiting, AtAwait, LastOf, Record, Owner, ResearchTypeOK
  <2>2. CASE ResearchRecovered
    <3>1. active = {} /\ active' = {} /\ ~researchStop /\ ~researchStop' /\ researchPhase' \in {"fill", "unwind"}
      BY <1>3, <2>2 DEF ResearchRecovered, ActiveInv, LoopTop
    <3>2. ASSUME NEW t \in Targets, attempts[t] # <<>>,
                 task[t].status = "running" \/ Record(LastOf(t)).status = "running"
          PROVE  FALSE
      <4>1. Len(attempts[t]) \in Nat \ {0}
        BY <1>3, <3>2, Typed
      <4>2. LastOf(t) \in AttemptsOf(t) /\ LastOf(t) \in Attempts
        BY <4>1 DEF LastOf, AttemptsOf, Attempts
      <4>3. \A b \in AttemptsOf(t) : Record(b).round <= Record(LastOf(t)).round
        BY <1>3, <4>1 DEF RoundInv, Record, AttemptsOf, LastOf
      <4>4. Unfinished(t, LastOf(t))
        BY <3>2, <4>2, <4>3 DEF Unfinished, Latest
      <4> QED
        BY <2>2, <4>2, <4>4 DEF ResearchRecovered
    <3>3. \A t \in Targets : task[t].status = "running" => attempts[t] # <<>>
      BY <1>3 DEF RoundInv
    <3> QED
      BY <1>1, <3>1, <3>2, <3>3 DEF ActiveInv, Recovered, Record, LastOf
  <2>3. CASE Filled \/ Wake \/ \E a \in active : FirstStep(a)
    BY <1>1, <1>3, <2>3 DEF Filled, Wake, FirstStep, LoopTop, ActiveInv, Recovered, AtAwait, Waiting, Record, LastOf,
         Owner, Nothing
  <2>4. ASSUME NEW a \in active, CancelUnbegun(a) PROVE ActiveInv'
    <3>1. /\ researchStop \/ researchPhase = "unwind"
          /\ active' = active \ {a}
          /\ UNCHANGED <<researchStop, researchDoing>>
          /\ researchPhase' = researchPhase \/ researchPhase' = "woken"
          /\ researchPhase = "wait" <=> researchPhase' # researchPhase
      BY <2>4 DEF CancelUnbegun
    <3> QED
      BY <1>1, <1>3, <3>1 DEF ActiveInv, Recovered, Record, LastOf, Owner
  <2> QED
    BY <2>1, <2>2, <2>3, <2>4 DEF ProcessStep
<1>8. RunningInv'
  <2>1. CASE ResearchRecovered
    <3>1. ASSUME NEW t \in Targets, task[t].status = "running" PROVE FALSE
      <4>1. Len(attempts[t]) \in Nat \ {0}
        BY <1>3, <3>1, Typed DEF RoundInv
      <4>2. LastOf(t) \in AttemptsOf(t) /\ LastOf(t) \in Attempts
        BY <4>1 DEF LastOf, AttemptsOf, Attempts
      <4>3. \A b \in AttemptsOf(t) : Record(b).round <= Record(LastOf(t)).round
        BY <1>3, <4>1 DEF RoundInv, Record, AttemptsOf, LastOf
      <4>4. Unfinished(t, LastOf(t))
        BY <3>1, <4>2, <4>3 DEF Unfinished, Latest
      <4> QED
        BY <2>1, <4>2, <4>4 DEF ResearchRecovered
    <3> QED
      BY <1>1, <3>1 DEF RunningInv
  <2>2. CASE ~ResearchRecovered
    <3>1. /\ researchPhase' \in {"fill", "wait", "woken", "unwind"} =>
               researchPhase \in {"fill", "wait", "woken", "unwind"} /\ UNCHANGED researchDoing
      BY <2>2, <1>3 DEF ProcessStep, StartRun, Opened, ResearchCrash, ResearchRequestStop, Filled, Wake,
         TimeLimit, CloseRun, FirstStep, CancelUnbegun, ResearchProcessGone, Waiting, ResearchTypeOK, ResearchPhases,
         AtAwait, ActiveInv
    <3>2. RunningInv
      BY DEF ResearchIInv
    <3> QED
      BY <1>1, <3>1, <3>2 DEF RunningInv, Record, LastOf
  <2> QED
    BY <2>1, <2>2
<1> QED
  BY <1>2, <1>5, <1>6, <1>7, <1>8 DEF ResearchIInv

-----------------------------------------------------------------------------
\* A step that changes the record of one task.
LEMMA TaskKept ==
  ASSUME ResearchIInv, NEW t \in Targets, NEW new \in TaskRecord, task' = [task EXCEPT ![t] = new],
         UNCHANGED <<attempts, promo>>
  PROVE  /\ task' \in [Targets -> TaskRecord] /\ task'[t] = new
         /\ \A u \in Targets \ {t} : task'[u] = task[u]
         /\ Attempts' = Attempts
         /\ \A u \in Targets : LastOf(u)' = LastOf(u) /\ AttemptsOf(u)' = AttemptsOf(u)
                               /\ FailedOf(u)' = FailedOf(u)
         /\ \A a : Record(a)' = Record(a) /\ Accepted(a)' = Accepted(a)
<1>1. task \in [Targets -> TaskRecord]
  BY Typed DEF ResearchIInv
<1>2. task' \in [Targets -> TaskRecord] /\ task'[t] = new /\ \A u \in Targets \ {t} : task'[u] = task[u]
  BY <1>1
<1>3. /\ Attempts' = Attempts
      /\ \A u \in Targets : LastOf(u)' = LastOf(u) /\ AttemptsOf(u)' = AttemptsOf(u)
                               /\ FailedOf(u)' = FailedOf(u)
      /\ \A a : Record(a)' = Record(a) /\ Accepted(a)' = Accepted(a)
  BY DEF Attempts, AttemptsOf, LastOf, FailedOf, Record, Accepted
<1> QED
  BY <1>2, <1>3

\* A task whose number of rounds is written.
LEMMA ChangedRounds ==
  ASSUME NEW r \in TaskRecord, NEW n \in 0..MaxRounds
  PROVE  /\ [r EXCEPT !.rounds = n] \in TaskRecord
         /\ [r EXCEPT !.rounds = n].rounds = n
         /\ [r EXCEPT !.rounds = n].failures = r.failures
         /\ [r EXCEPT !.rounds = n].status = r.status
         /\ [r EXCEPT !.rounds = n].deps = r.deps
  BY DEF TaskRecord

\* A task that _begin sets running.
LEMMA ChangedToRunning ==
  ASSUME NEW r \in TaskRecord, NEW n \in 0..MaxRounds
  PROVE  /\ [r EXCEPT !.status = "running", !.rounds = n] \in TaskRecord
         /\ [r EXCEPT !.status = "running", !.rounds = n].rounds = n
         /\ [r EXCEPT !.status = "running", !.rounds = n].failures = r.failures
         /\ [r EXCEPT !.status = "running", !.rounds = n].status = "running"
         /\ [r EXCEPT !.status = "running", !.rounds = n].deps = r.deps
  BY DEF TaskRecord

TaskStatus == {"none", "pending", "running", "verified", "blocked"}

Settled(r, n, s) == [r EXCEPT !.failures = n, !.status = s]

\* A task that _finish settles.
LEMMA ChangedOutcome ==
  ASSUME NEW r \in TaskRecord, NEW n \in 0..MaxFailures, NEW s \in TaskStatus
  PROVE  /\ Settled(r, n, s) \in TaskRecord /\ Settled(r, n, s).rounds = r.rounds
         /\ Settled(r, n, s).failures = n
         /\ Settled(r, n, s).status = s /\ Settled(r, n, s).deps = r.deps
  BY DEF TaskRecord, TaskStatus, Settled

\* What a target's evidence depends on.
LEMMA EvidenceKept ==
  ASSUME VerifiedByEvidence,
         \A u \in Targets :
           /\ AttemptsOf(u)' = AttemptsOf(u) /\ (AttemptsOf(u) # {} => task'[u].deps = task[u].deps)
           /\ task[u].status = "verified" => task'[u].status = "verified"
           /\ task'[u].status = "verified" =>
                task[u].status = "verified" \/ \E a \in AttemptsOf(u) : Accepted(a)
           /\ task[u].deps \subseteq Targets,
         \A a : Accepted(a) => Accepted(a)'
  PROVE  VerifiedByEvidence'
<1> SUFFICES ASSUME NEW u \in Targets
             PROVE  /\ task'[u].status = "verified" => \E a \in AttemptsOf(u)' : Accepted(a)'
                    /\ AttemptsOf(u)' # {} => \A d \in task'[u].deps : task'[d].status = "verified"
  BY Zenon DEF VerifiedByEvidence
<1>1. task[u].status = "verified" => \E a \in AttemptsOf(u) : Accepted(a)
  BY DEF VerifiedByEvidence
<1>2. AttemptsOf(u) # {} => \A d \in task[u].deps : d \in Targets /\ task[d].status = "verified"
  BY DEF VerifiedByEvidence
<1> QED
  BY <1>1, <1>2, Zenon

\* What the operator does to one target.
OperatorTaskStep(t) ==
  PauseTask(t) \/ ResumeTask(t) \/ \E deps \in SUBSET Targets : DefineTask(t, deps)

\* Defining, pausing and resuming a target leaves its rounds alone (the
\* commands of aizim research).
LEMMA OperatorKeeps ==
  ASSUME ResearchIInv, NEW t \in Targets, OperatorTaskStep(t)
  PROVE  ResearchIInv'
<1> USE ResearchAssumption DEF process
<1>1. ResearchTypeOK /\ RoundInv /\ FailureInv /\ DoingInv /\ ActiveInv /\ RunningInv /\ VerifiedByEvidence
  BY DEF ResearchIInv
<1>2. /\ task \in [Targets -> TaskRecord] /\ task[t] \in TaskRecord
      /\ \A u \in Targets : Len(attempts[u]) \in Nat
  BY <1>1, Typed
<1>3. PICK new \in TaskRecord :
        /\ task' = [task EXCEPT ![t] = new]
        /\ new.rounds = task[t].rounds /\ new.failures = task[t].failures
        /\ \/ new.status = task[t].status /\ new.deps = task[t].deps
           \/ task[t].status = "none" /\ new.status = "pending"
  <2>1. CASE PauseTask(t) \/ ResumeTask(t)
    <3>1. PICK p \in BOOLEAN : task' = [task EXCEPT ![t].paused = p]
      BY <2>1 DEF PauseTask, ResumeTask
    <3> DEFINE new == [task[t] EXCEPT !.paused = p]
    <3>2. new \in TaskRecord /\ new.rounds = task[t].rounds /\ new.failures = task[t].failures
          /\ new.status = task[t].status /\ new.deps = task[t].deps
      BY <1>2 DEF TaskRecord
    <3>3. task' = [task EXCEPT ![t] = new]
      BY <3>1, Zenon
    <3> HIDE DEF new
    <3> QED
      BY <3>2, <3>3
  <2>2. ASSUME NEW deps \in SUBSET Targets, DefineTask(t, deps)
        PROVE  \E new \in TaskRecord :
                 /\ task' = [task EXCEPT ![t] = new]
                 /\ new.rounds = task[t].rounds /\ new.failures = task[t].failures
                 /\ task[t].status = "none" /\ new.status = "pending"
    <3> DEFINE new == [NoTask EXCEPT !.status = "pending", !.deps = deps]
    <3>1. task[t].status = "none" /\ task' = [task EXCEPT ![t] = new]
      BY <2>2 DEF DefineTask
    <3>2. NoTask \in TaskRecord /\ NoTask.rounds = 0 /\ NoTask.failures = 0
      BY DEF NoTask, TaskRecord
    <3>3. new \in TaskRecord /\ new.rounds = 0 /\ new.failures = 0 /\ new.status = "pending"
      BY <3>2 DEF TaskRecord
    <3>4. task[t].failures = 0 /\ attempts[t] = <<>> /\ task[t].rounds = 0
      BY <1>1, <1>2, <3>1 DEF FailureInv, RoundInv, TaskRecord
    <3> HIDE DEF new
    <3> QED
      BY <3>1, <3>3, <3>4
  <2> QED
    BY <2>1, <2>2 DEF OperatorTaskStep
<1>4. AtAwait /\ UNCHANGED <<attempts, promo, process, researchPhase, active, begun, researchDoing>>
  BY DEF OperatorTaskStep, PauseTask, ResumeTask, DefineTask
<1>5. /\ task' \in [Targets -> TaskRecord] /\ task'[t] = new
      /\ \A u \in Targets \ {t} : task'[u] = task[u]
      /\ Attempts' = Attempts
      /\ \A u \in Targets : LastOf(u)' = LastOf(u) /\ AttemptsOf(u)' = AttemptsOf(u)
                               /\ FailedOf(u)' = FailedOf(u)
      /\ \A a : Record(a)' = Record(a) /\ Accepted(a)' = Accepted(a)
  BY <1>3, <1>4, TaskKept
<1>6. task[t].status = "none" => attempts[t] = <<>> /\ task[t].failures = 0 /\ FailedOf(t) = {}
  <2>1. task[t].status = "none" => attempts[t] = <<>> /\ task[t].failures = 0
    BY <1>1 DEF RoundInv, FailureInv
  <2>2. attempts[t] = <<>> => AttemptsOf(t) = {}
    BY DEF AttemptsOf
  <2> QED
    BY <2>1, <2>2 DEF FailedOf
<1>7. ResearchTypeOK'
  BY <1>1, <1>4, <1>5 DEF ResearchTypeOK, TaskRecord
<1>8. RoundInv'
  BY <1>1, <1>2, <1>3, <1>4, <1>5, <1>6 DEF RoundInv
<1>9. FailureInv'
  <2>1. Cardinality({}) = 0
    BY FS_EmptySet
  <2>2. task[t].status = "none" => new.failures < MaxFailures /\ ~Uncounted(t)'
    BY <1>3, <1>5, <1>6 DEF Uncounted
  <2>3. new.status = task[t].status => Uncounted(t)' = Uncounted(t)
    BY <1>5 DEF Uncounted
  <2>4. \A u \in Targets \ {t} : Uncounted(u)' = Uncounted(u)
    BY <1>5 DEF Uncounted
  <2>5. \A u \in Targets \ {t} : FailedOf(u)' = FailedOf(u) /\ task'[u] = task[u]
    BY <1>5
  <2>6. CASE new.status = task[t].status
    BY <1>1, <1>3, <1>5, <2>3, <2>4, <2>5, <2>6 DEF FailureInv
  <2>7. CASE task[t].status = "none" /\ new.status = "pending"
    <3>1. Cardinality(FailedOf(t)') = 0 /\ new.failures = 0 /\ 0 < MaxFailures
      <4>1. FailedOf(t)' = {} /\ new.failures = 0
        BY <1>3, <1>5, <1>6, <2>7, Zenon
      <4> QED
        BY <2>1, <4>1
    <3> QED
      BY <1>1, <1>5, <2>2, <2>4, <2>5, <2>7, <3>1 DEF FailureInv
  <2> QED
    BY <1>3, <2>6, <2>7
<1>10. DoingInv'
  BY <1>1, <1>4, AwaitNothing DEF DoingInv
<1>11. ActiveInv'
  <2>1. ActiveInv /\ Nothing.at = "none"
    BY <1>1, NothingIsTyped
  <2>2. \A u \in Targets : task'[u].status = "running" <=> task[u].status = "running"
    BY <1>3, <1>5
  <2> QED
    BY <1>4, <1>5, <2>1, <2>2 DEF ActiveInv, Recovered
<1>12. VerifiedByEvidence'
  <2>1. task[t].status = "none" => AttemptsOf(t) = {}
    BY <1>6 DEF AttemptsOf
  <2>2. /\ \A u \in Targets : task'[u].status = "verified" <=> task[u].status = "verified"
        /\ new.deps = task[t].deps \/ task[t].status = "none"
    BY <1>3, <1>5
  <2>3. ASSUME NEW u \in Targets
        PROVE  /\ task'[u].status = "verified" => \E a \in AttemptsOf(u)' : Accepted(a)'
               /\ AttemptsOf(u)' # {} => \A d \in task'[u].deps : task'[d].status = "verified"
    <3>1. AttemptsOf(u)' = AttemptsOf(u) /\ \A a : Accepted(a)' = Accepted(a)
      BY <1>5
    <3>2. task[u].status = "verified" => \E a \in AttemptsOf(u) : Accepted(a)
      BY <1>1 DEF VerifiedByEvidence
    <3>3. AttemptsOf(u) # {} => task'[u].deps = task[u].deps /\ u \in Targets
      BY <1>5, <2>1, <2>2
    <3>4. AttemptsOf(u) # {} => \A d \in task[u].deps : d \in Targets /\ task[d].status = "verified"
      BY <1>1, Typed DEF VerifiedByEvidence, TaskRecord
    <3> QED
      BY <2>2, <3>1, <3>2, <3>3, <3>4
  <2> QED
    BY <2>3 DEF VerifiedByEvidence
<1>13. RunningInv'
  BY <1>1, <1>3, <1>4, <1>5 DEF RunningInv
<1> QED
  BY <1>7, <1>8, <1>9, <1>10, <1>11, <1>12, <1>13 DEF ResearchIInv

-----------------------------------------------------------------------------
\* The attempt with the greatest round, which recover looks for, is the last.
LEMMA LatestIsLast ==
  ASSUME ResearchTypeOK, RoundInv, NEW t \in Targets, NEW a, Latest(t, a)
  PROVE  a = LastOf(t) /\ attempts[t] # <<>> /\ Record(a).round = Len(attempts[t])
<1>1. Len(attempts[t]) \in Nat
  BY Typed
<1>2. PICK i \in 1..Len(attempts[t]) : a = <<t, i>>
  BY DEF Latest, AttemptsOf
<1>3. LastOf(t) \in AttemptsOf(t)
  BY <1>1, <1>2 DEF LastOf, AttemptsOf
<1>4. Record(LastOf(t)).round = Len(attempts[t]) /\ Record(a).round = i
  BY <1>1, <1>2 DEF RoundInv, Record, LastOf
<1>5. Len(attempts[t]) <= i
  BY <1>3, <1>4 DEF Latest
<1>6. i = Len(attempts[t])
  BY <1>1, <1>5
<1> QED
  BY <1>1, <1>2, <1>4, <1>6 DEF LastOf

\* recover: the task takes over the rounds of its attempts.
LEMMA RecoverRoundsKeeps ==
  ASSUME ResearchIInv, NEW t \in Targets, RecoverRounds(t)
  PROVE  ResearchIInv'
<1> USE ResearchAssumption DEF process
<1>1. ResearchTypeOK /\ RoundInv /\ FailureInv /\ DoingInv /\ ActiveInv /\ RunningInv /\ VerifiedByEvidence
  BY DEF ResearchIInv
<1>2. /\ task \in [Targets -> TaskRecord] /\ task[t] \in TaskRecord
      /\ \A u \in Targets : Len(attempts[u]) \in Nat
  BY <1>1, Typed
<1>3. PICK a \in Attempts :
        /\ Unfinished(t, a)
        /\ task' = [task EXCEPT ![t].rounds = IF @ < Record(a).round
                                             THEN Record(a).round ELSE @]
        /\ researchDoing' = [Nothing EXCEPT !.at = "recovered", !.attempt = a]
  BY DEF RecoverRounds
<1>4. /\ researchPhase = "recover" /\ researchDoing = Nothing /\ researchDoing.at = "none"
      /\ UNCHANGED <<attempts, promo, process, researchPhase, active, begun>>
  BY NothingIsTyped DEF RecoverRounds
<1>5. a = LastOf(t) /\ attempts[t] # <<>> /\ Record(a).round = Len(attempts[t])
  BY <1>1, <1>3, LatestIsLast DEF Unfinished
<1>6. "running" \in {Record(a).status, task[t].status} /\ task[t].status \in {"pending", "running"}
  <2>1. "running" \in {Record(a).status, task[t].status}
    BY <1>3 DEF Unfinished
  <2>2. Len(attempts[t]) \in 1..Len(attempts[t])
    BY <1>1, <1>5, Typed
  <2> QED
    BY <1>1, <1>5, <2>1, <2>2 DEF RoundInv, Record, LastOf
<1> DEFINE new == [task[t] EXCEPT !.rounds = Len(attempts[t])]
<1>7. task[t].rounds \in Nat /\ task[t].rounds <= Len(attempts[t])
  BY <1>1, <1>2 DEF RoundInv, TaskRecord
<1>8. task' = [task EXCEPT ![t] = new]
  <2>1. (IF task[t].rounds < Record(a).round THEN Record(a).round ELSE task[t].rounds)
           = Len(attempts[t])
    BY <1>2, <1>5, <1>7
  <2>2. task' = [task EXCEPT ![t].rounds =
                   IF task[t].rounds < Record(a).round THEN Record(a).round ELSE task[t].rounds]
    BY <1>3
  <2>3. task' = [task EXCEPT ![t].rounds = Len(attempts[t])]
    BY <2>1, <2>2, Zenon
  <2> QED
    BY <2>3
<1>9. new \in TaskRecord /\ new.rounds = Len(attempts[t]) /\ new.failures = task[t].failures
      /\ new.status = task[t].status /\ new.deps = task[t].deps
  <2>1. Len(attempts[t]) \in 0..MaxRounds
    BY <1>1, <1>2 DEF RoundInv
  <2> QED
    BY <1>2, <2>1, ChangedRounds, Zenon
<1> HIDE DEF new
<1>10. /\ task' \in [Targets -> TaskRecord] /\ task'[t] = new
       /\ \A u \in Targets \ {t} : task'[u] = task[u]
       /\ Attempts' = Attempts
       /\ \A u \in Targets : LastOf(u)' = LastOf(u) /\ AttemptsOf(u)' = AttemptsOf(u)
                               /\ FailedOf(u)' = FailedOf(u)
       /\ \A b : Record(b)' = Record(b) /\ Accepted(b)' = Accepted(b)
  BY <1>4, <1>8, <1>9, TaskKept
<1>11. /\ researchDoing' \in DoingRecord /\ researchDoing'.at = "recovered" /\ researchDoing'.attempt = a
  <2> DEFINE marked == [Nothing EXCEPT !.at = "recovered", !.attempt = a]
  <2>1. marked \in DoingRecord /\ marked.at = "recovered" /\ marked.attempt = a
    BY NothingIsTyped DEF DoingRecord
  <2>2. researchDoing' = marked
    BY <1>3, Zenon
  <2> HIDE DEF marked
  <2> QED
    BY <2>1, <2>2
<1>12. ResearchTypeOK'
  BY <1>1, <1>4, <1>10, <1>11 DEF ResearchTypeOK, TaskRecord, DoingRecord
<1>13. RoundInv'
  BY <1>1, <1>4, <1>9, <1>10, ZenonT(40) DEF RoundInv
<1>14. FailureInv'
  <2>1. \A u \in Targets : Uncounted(u)' = Uncounted(u)
    BY <1>9, <1>10 DEF Uncounted
  <2> QED
    BY <1>1, <1>9, <1>10, <2>1 DEF FailureInv
<1>15. DoingInv'
  BY <1>4, <1>5, <1>6, <1>9, <1>10, <1>11 DEF DoingInv, Owner, LastOf
<1>16. ActiveInv'
  BY <1>1, <1>4, <1>10 DEF ActiveInv, Recovered
<1>17. VerifiedByEvidence'
  <2>1. \A u \in Targets : task[u].deps \subseteq Targets
    BY <1>2 DEF TaskRecord
  <2>2. \A u \in Targets : task'[u].status = task[u].status /\ task'[u].deps = task[u].deps
    BY <1>9, <1>10, Zenon
  <2> QED
    BY <1>1, <1>10, <2>1, <2>2, EvidenceKept
<1>18. RunningInv'
  BY <1>4 DEF RunningInv
<1> QED
  BY <1>12, <1>13, <1>14, <1>15, <1>16, <1>17, <1>18 DEF ResearchIInv

\* The second write of _begin: the task is running in that round.
LEMMA BeginTaskKeeps ==
  ASSUME ResearchIInv, BeginTask
  PROVE  ResearchIInv'
<1> USE ResearchAssumption DEF process
<1> DEFINE a == researchDoing.attempt
           t == Owner(a)
           new == [task[t] EXCEPT !.status = "running", !.rounds = Len(attempts[t])]
<1>1. ResearchTypeOK /\ RoundInv /\ FailureInv /\ DoingInv /\ ActiveInv /\ RunningInv /\ VerifiedByEvidence
  BY DEF ResearchIInv
<1>2. /\ researchDoing.at = "begin" /\ active' = active \cup {a} /\ researchDoing' = Nothing
      /\ task' = [task EXCEPT ![t].status = "running", ![t].rounds = Record(a).round]
      /\ UNCHANGED <<attempts, promo, process, researchPhase, begun>>
  BY DEF BeginTask
<1>3. /\ t \in Targets /\ attempts[t] # <<>> /\ a = LastOf(t) /\ researchPhase = "fill"
      /\ task[t].status = "pending" /\ Record(a).status = "running"
  BY <1>1, <1>2 DEF DoingInv
<1>4. /\ task \in [Targets -> TaskRecord] /\ task[t] \in TaskRecord
      /\ \A u \in Targets : Len(attempts[u]) \in Nat
      /\ Len(attempts[t]) \in Nat \ {0}
  BY <1>1, <1>3, Typed
<1> HIDE DEF a, t
<1>5. Record(a).round = Len(attempts[t]) /\ a \in Attempts /\ Owner(a) = t
  <2>1. a = <<t, Len(attempts[t])>> /\ Len(attempts[t]) \in 1..Len(attempts[t])
    BY <1>3, <1>4 DEF LastOf
  <2>2. Record(a).round = Len(attempts[t])
    <3>1. attempts[t][Len(attempts[t])].round = Len(attempts[t])
      BY <1>1, <1>3, <2>1 DEF RoundInv
    <3> QED
      BY <2>1, <3>1 DEF Record
  <2> QED
    BY <1>3, <2>1, <2>2 DEF Attempts, AttemptsOf, Owner
<1>6. task' = [task EXCEPT ![t] = new]
  BY <1>2, <1>5, Zenon
<1>7. new \in TaskRecord /\ new.rounds = Len(attempts[t]) /\ new.failures = task[t].failures
      /\ new.status = "running" /\ new.deps = task[t].deps
  <2>1. Len(attempts[t]) \in 0..MaxRounds
    BY <1>1, <1>3, <1>4 DEF RoundInv
  <2> QED
    BY <1>4, <2>1, ChangedToRunning, Zenon
<1> HIDE DEF new
<1>8. /\ task' \in [Targets -> TaskRecord] /\ task'[t] = new
      /\ \A u \in Targets \ {t} : task'[u] = task[u]
      /\ Attempts' = Attempts
      /\ \A u \in Targets : LastOf(u)' = LastOf(u) /\ AttemptsOf(u)' = AttemptsOf(u)
                               /\ FailedOf(u)' = FailedOf(u)
      /\ \A b : Record(b)' = Record(b) /\ Accepted(b)' = Accepted(b)
  BY <1>2, <1>3, <1>6, <1>7, TaskKept
<1>9. ResearchTypeOK'
  <2>1. active' \subseteq Attempts' /\ begun' \subseteq active'
    BY <1>1, <1>2, <1>5, <1>8 DEF ResearchTypeOK
  <2>2. researchDoing' \in DoingRecord'
    BY <1>2, <1>8, NothingIsTyped DEF DoingRecord
  <2> QED
    BY <1>1, <1>2, <1>8, <2>1, <2>2 DEF ResearchTypeOK, TaskRecord, DoingRecord
<1>10. RoundInv'
  <2>1. \A u \in Targets : task[u].status = "pending" => task'[u].status \in {"pending", "running"}
    BY <1>3, <1>7, <1>8
  <2>2. \A u \in Targets \ {t} : task'[u] = task[u]
    BY <1>8
  <2>3. \A u \in Targets : task'[u].status = "none" => task[u].status = "none"
    BY <1>7, <1>8
  <2>4. \A u \in Targets : task'[u].status = "running" => task[u].status = "running" \/ u = t
    BY <1>8
  <2>5. \A u \in Targets :
          \/ task'[u].rounds = Len(attempts[u])
          \/ /\ task'[u].rounds + 1 = Len(attempts[u])
             /\ Record(LastOf(u)).status = "running" /\ task'[u].status = "pending"
    BY <1>1, <1>7, <1>8, <2>2 DEF RoundInv
  <2> QED
    BY <1>1, <1>2, <1>3, <1>8, <2>1, <2>3, <2>4, <2>5 DEF RoundInv
<1>11. FailureInv'
  <2>1. \A u \in Targets : Uncounted(u)' = Uncounted(u)
    BY <1>3, <1>7, <1>8 DEF Uncounted
  <2> QED
    BY <1>1, <1>3, <1>7, <1>8, <2>1 DEF FailureInv
<1>12. DoingInv'
  BY <1>2, NothingIsTyped DEF DoingInv
<1>13. ActiveInv'
  <2>1. Nothing.at = "none"
    BY NothingIsTyped
  <2>2. \A b \in active' : Owner(b) \in Targets /\ b = LastOf(Owner(b)) /\ task'[Owner(b)].status = "running"
                           /\ Record(b).status = "running"
    <3>1. \A b \in active : researchDoing.at # "finish"
      BY <1>2
    <3>2. \A b \in active : Owner(b) # t
      BY <1>1, <1>3 DEF ActiveInv
    <3> QED
      BY <1>1, <1>2, <1>3, <1>5, <1>7, <1>8, <3>1, <3>2 DEF ActiveInv
  <2>3. Recovered /\ Recovered'
    BY <1>1, <1>2, <1>3 DEF ActiveInv, Recovered
  <2>4. \A u \in Targets : task'[u].status = "running" => LastOf(u) \in active'
    BY <1>1, <1>2, <1>3, <1>8, <2>3 DEF ActiveInv
  <2>5. \A u \in Targets : attempts[u] # <<>> /\ Record(LastOf(u)).status = "running" => LastOf(u) \in active'
    BY <1>1, <1>2, <1>3, <2>3 DEF ActiveInv, a
  <2> QED
    BY <1>2, <1>3, <1>8, <2>2, <2>3, <2>4, <2>5 DEF ActiveInv, Recovered
<1>14. VerifiedByEvidence'
  <2>1. \A u \in Targets : task[u].deps \subseteq Targets
    BY <1>4 DEF TaskRecord
  <2>2. \A u \in Targets : /\ task'[u].deps = task[u].deps
                           /\ task[u].status = "verified" <=> task'[u].status = "verified"
    BY <1>3, <1>7, <1>8
  <2> QED
    BY <1>1, <1>8, <2>1, <2>2, EvidenceKept
<1>15. RunningInv'
  <2>1. \A u \in Targets \ {t} : task'[u] = task[u]
    BY <1>8
  <2> QED
    BY <1>1, <1>2, <1>3, <1>8, <2>1 DEF RunningInv
<1> QED
  BY <1>9, <1>10, <1>11, <1>12, <1>13, <1>14, <1>15 DEF ResearchIInv

\* The second write of _finish: the task takes the outcome of the round that
\* the attempt has recorded, and counts a failure once.
LEMMA FinishTaskKeeps ==
  ASSUME ResearchIInv, FinishTask
  PROVE  ResearchIInv'
<1> USE ResearchAssumption DEF process
<1> DEFINE a == researchDoing.attempt
           t == Owner(a)
           f == IF researchDoing.verified THEN 0
                ELSE IF researchDoing.interrupted THEN task[t].failures ELSE task[t].failures + 1
           st == CASE researchDoing.verified -> "verified"
                   [] ~researchDoing.verified /\ (task[t].rounds >= MaxRounds \/ f >= MaxFailures)
                        -> "blocked"
                   [] OTHER -> "pending"
           new == Settled(task[t], f, st)
<1>1. ResearchTypeOK /\ RoundInv /\ FailureInv /\ DoingInv /\ ActiveInv /\ RunningInv /\ VerifiedByEvidence
  BY DEF ResearchIInv
<1>2. /\ researchDoing.at = "finish" /\ active' = active \ {a} /\ begun' = begun \ {a}
      /\ researchDoing' = Nothing
      /\ researchPhase' = IF researchPhase = "wait" THEN "woken" ELSE researchPhase
      /\ UNCHANGED <<attempts, promo, process>>
  BY DEF FinishTask
<1>3. task' = [task EXCEPT ![t] = new]
  BY Zenon DEF FinishTask, Outcome, Settled
<1>4. /\ t \in Targets /\ attempts[t] # <<>> /\ a = LastOf(t)
      /\ task[t].status \in {"pending", "running"} /\ task[t].rounds = Len(attempts[t])
      /\ researchDoing.verified => Accepted(a)
      /\ Record(a).status = IF researchDoing.verified THEN "verified"
                            ELSE IF researchDoing.interrupted THEN "interrupted" ELSE "failed"
      /\ researchPhase \in {"recover", "wait", "woken", "unwind"}
      /\ researchPhase = "recover" => researchDoing.verified \/ researchDoing.interrupted
      /\ researchPhase # "recover" => a \in active
  BY <1>1, <1>2 DEF DoingInv
<1>5. /\ task \in [Targets -> TaskRecord] /\ task[t] \in TaskRecord
      /\ \A u \in Targets : Len(attempts[u]) \in Nat
      /\ Len(attempts[t]) \in Nat \ {0}
      /\ task[t].failures \in 0..MaxFailures
      /\ researchDoing.verified \in BOOLEAN /\ researchDoing.interrupted \in BOOLEAN
  <2>1. task \in [Targets -> TaskRecord] /\ \A u \in Targets : Len(attempts[u]) \in Nat
    BY <1>1, Typed
  <2>2. researchDoing.verified \in BOOLEAN /\ researchDoing.interrupted \in BOOLEAN
    BY <1>1 DEF ResearchTypeOK
  <2>3. Len(attempts[t]) \in Nat \ {0}
    BY <1>1, <1>4, Typed
  <2> QED
    BY <1>4, <2>1, <2>2, <2>3 DEF TaskRecord
<1> HIDE DEF a, t
\* A round that failed had been the task's own.
<1>6. ~researchDoing.verified /\ ~researchDoing.interrupted => task[t].status = "running"
  BY <1>1, <1>4 DEF ActiveInv, t
<1>7. f \in 0..MaxFailures /\ (st = "pending" => f < MaxFailures)
      /\ st \in {"verified", "blocked", "pending"} /\ (st = "verified" <=> researchDoing.verified)
  <2>1. task[t].failures < MaxFailures
    BY <1>1, <1>4 DEF FailureInv
  <2>2. f \in 0..MaxFailures /\ f \in Nat
    BY <1>5, <2>1
  <2> HIDE DEF f
  <2> QED
    BY <1>5, <2>2
<1>8. Cardinality(FailedOf(t)) = f \/ st = "verified"
  <2>1. Cardinality(FailedOf(t)) = task[t].failures + (IF Uncounted(t) THEN 1 ELSE 0)
    BY <1>1, <1>4 DEF FailureInv
  <2>2. CASE researchDoing.verified
    BY <1>7, <2>2
  <2>3. CASE ~researchDoing.verified /\ researchDoing.interrupted
    <3>1. ~Uncounted(t)
      BY <1>4, <2>3 DEF Uncounted
    <3> QED
      BY <1>5, <2>1, <2>3, <3>1
  <2>4. CASE ~researchDoing.verified /\ ~researchDoing.interrupted
    <3>1. Uncounted(t)
      BY <1>4, <1>6, <2>4 DEF Uncounted
    <3> QED
      BY <2>1, <2>4, <3>1
  <2> QED
    BY <2>2, <2>3, <2>4
<1> HIDE DEF f, st
<1>9. /\ new \in TaskRecord /\ new.rounds = Len(attempts[t]) /\ new.failures = f
      /\ new.status = st /\ new.deps = task[t].deps
  <2>1. st \in TaskStatus
    BY <1>7 DEF TaskStatus
  <2>2. /\ new \in TaskRecord /\ new.rounds = task[t].rounds /\ new.failures = f
        /\ new.status = st /\ new.deps = task[t].deps
    <3>1. task[t] \in TaskRecord /\ f \in 0..MaxFailures
      BY <1>5, <1>7
    <3> QED
      BY <2>1, <3>1, ChangedOutcome
  <2> QED
    BY <1>4, <2>2
<1> HIDE DEF new
<1>10. /\ task' \in [Targets -> TaskRecord] /\ task'[t] = new
       /\ \A u \in Targets \ {t} : task'[u] = task[u]
       /\ Attempts' = Attempts
       /\ \A u \in Targets : LastOf(u)' = LastOf(u) /\ AttemptsOf(u)' = AttemptsOf(u)
                               /\ FailedOf(u)' = FailedOf(u)
       /\ \A b : Record(b)' = Record(b) /\ Accepted(b)' = Accepted(b)
  BY <1>2, <1>3, <1>4, <1>9, TaskKept
<1>11. ResearchTypeOK'
  <2>1. active' \subseteq Attempts' /\ begun' \subseteq active'
    BY <1>1, <1>2, <1>10 DEF ResearchTypeOK
  <2>2. researchDoing' \in DoingRecord'
    BY <1>2, <1>10, NothingIsTyped DEF DoingRecord
  <2>3. researchPhase' \in ResearchPhases
    BY <1>2, <1>4 DEF ResearchPhases
  <2> QED
    BY <1>1, <1>2, <1>10, <2>1, <2>2, <2>3 DEF ResearchTypeOK, TaskRecord, DoingRecord
<1>12. RoundInv'
  <2>1. Record(a).status # "running" /\ a = <<t, Len(attempts[t])>>
    BY <1>4 DEF LastOf
  <2>2. \A i \in 1..Len(attempts[t]) : attempts[t][i].status # "running"
    <3>1. attempts[t][Len(attempts[t])].status # "running"
      BY <2>1 DEF Record
    <3> QED
      BY <1>1, <1>4, <3>1 DEF RoundInv
  <2>3. \A u \in Targets \ {t} : task'[u] = task[u]
    BY <1>10
  <2>4. task'[t].rounds = Len(attempts[t]) /\ task'[t].status \notin {"none", "running"}
    BY <1>7, <1>9, <1>10
  <2> QED
    BY <1>1, <1>2, <1>4, <1>10, <2>2, <2>3, <2>4 DEF RoundInv
<1>13. FailureInv'
  <2>1. task'[t].status = st /\ task'[t].failures = f
    BY <1>9, <1>10
  <2> SUFFICES ASSUME NEW u \in Targets
               PROVE  /\ task'[u].status \in {"pending", "running"} => task'[u].failures < MaxFailures
                      /\ task'[u].status = "none" => task'[u].failures = 0
                      /\ task'[u].status \in {"pending", "running", "blocked"} =>
                           Cardinality(FailedOf(u)') = task'[u].failures + (IF Uncounted(u)' THEN 1 ELSE 0)
    BY Zenon DEF FailureInv
  <2>2. FailedOf(u)' = FailedOf(u)
    BY <1>10
  <2>3. CASE u = t
    <3>1. ~Uncounted(u)'
      BY <1>7, <2>1, <2>3 DEF Uncounted
    <3>2. st # "verified" => Cardinality(FailedOf(u)') = f
      BY <1>8, <2>2, <2>3, Zenon
    <3> QED
      BY <1>7, <2>1, <2>3, <3>1, <3>2
  <2>4. CASE u # t
    <3>1. task'[u] = task[u] /\ Record(LastOf(u))' = Record(LastOf(u))
      BY <1>10, <2>4
    <3>2. Uncounted(u)' <=> Uncounted(u)
      BY <3>1 DEF Uncounted
    <3>3. Cardinality(FailedOf(u)') = Cardinality(FailedOf(u))
      BY <2>2, Zenon
    <3> QED
      BY <1>1, <3>1, <3>2, <3>3 DEF FailureInv
  <2> QED
    BY <2>3, <2>4
<1>14. DoingInv'
  BY <1>2, NothingIsTyped DEF DoingInv
<1>15. ActiveInv'
  <2>1. \A b \in active' : /\ Owner(b) \in Targets /\ b = LastOf(Owner(b)) /\ Owner(b) # t
                           /\ task'[Owner(b)].status = "running" /\ Record(b).status = "running"
    <3>1. \A b \in active' : b \in active /\ b # researchDoing.attempt
      BY <1>2 DEF a
    <3> SUFFICES ASSUME NEW b \in active'
                 PROVE  /\ Owner(b) \in Targets /\ b = LastOf(Owner(b)) /\ Owner(b) # t
                        /\ task'[Owner(b)].status = "running" /\ Record(b).status = "running"
      OBVIOUS
    <3>2. /\ Owner(b) \in Targets /\ b = LastOf(Owner(b)) /\ task[Owner(b)].status = "running"
          /\ Record(b).status = "running"
      BY <1>1, <3>1 DEF ActiveInv
    <3>3. Owner(b) # t
      BY <1>4, <3>1, <3>2 DEF a
    <3> QED
      BY <1>10, <3>2, <3>3
  <2>2. /\ researchPhase' \in {"down", "open", "recover"} => active' = {} /\ ~researchStop'
        /\ researchPhase' = "fill" => ~researchStop'
        /\ Recovered' => Recovered
    BY <1>1, <1>2, <1>4 DEF ActiveInv, Recovered
  <2>3. \A u \in Targets \ {t} : LastOf(u) # a /\ task'[u] = task[u]
    BY <1>4, <1>10 DEF LastOf
  <2>4. task'[t].status # "running" /\ Record(LastOf(t)).status # "running"
    BY <1>4, <1>7, <1>9, <1>10
  <2>5. researchDoing.at # "begin"
    BY <1>2
  <2>6. Recovered' => \A u \in Targets :
         /\ task'[u].status = "running" => LastOf(u) \in active'
         /\ attempts[u] # <<>> /\ Record(LastOf(u)).status = "running" => LastOf(u) \in active'
    BY <1>1, <1>2, <2>2, <2>3, <2>4, <2>5 DEF ActiveInv
  <2> QED
    BY <1>2, <1>10, <2>1, <2>2, <2>6 DEF ActiveInv, Recovered
<1>16. VerifiedByEvidence'
  <2>1. \A u \in Targets : task[u].deps \subseteq Targets
    BY <1>5 DEF TaskRecord
  <2>2. \A u \in Targets : task'[u].deps = task[u].deps
    BY <1>9, <1>10
  <2>3. \A u \in Targets : task[u].status = "verified" => task'[u].status = "verified"
    BY <1>4, <1>10
  <2>4. a \in AttemptsOf(t)
    BY <1>4, <1>5 DEF AttemptsOf, LastOf
  <2>5. \A u \in Targets : task'[u].status = "verified" =>
           task[u].status = "verified" \/ \E b \in AttemptsOf(u) : Accepted(b)
    BY <1>4, <1>7, <1>9, <1>10, <2>4
  <2> QED
    BY <1>1, <1>10, <2>1, <2>2, <2>3, <2>5, EvidenceKept
<1>17. RunningInv'
  <2>1. \A u \in Targets \ {t} : task'[u] = task[u] /\ LastOf(u) # a
    BY <1>4, <1>10 DEF LastOf
  <2>2. task'[t].status # "running"
    BY <1>7, <1>9, <1>10
  <2>3. researchPhase' \in {"fill", "wait", "woken", "unwind"} => researchPhase \in {"fill", "wait", "woken", "unwind"}
    BY <1>2
  <2> QED
    BY <1>1, <1>10, <2>1, <2>2, <2>3 DEF RunningInv, a
<1> QED
  BY <1>11, <1>12, <1>13, <1>14, <1>15, <1>16, <1>17 DEF ResearchIInv

\* The first write of _begin: the attempt of the next round.
LEMMA BeginAttemptKeeps ==
  ASSUME ResearchIInv, NEW t \in Targets, BeginAttempt(t)
  PROVE  ResearchIInv'
<1> USE ResearchAssumption DEF process
<1> DEFINE n == Len(attempts[t])
           new == [Nothing EXCEPT !.at = "begin", !.attempt = <<t, n + 1>>]
<1>1. ResearchTypeOK /\ RoundInv /\ FailureInv /\ DoingInv /\ ActiveInv /\ RunningInv /\ VerifiedByEvidence
  BY DEF ResearchIInv
<1>2. /\ researchPhase = "fill" /\ researchDoing = Nothing /\ Nothing.at = "none"
      /\ Ready(t) /\ researchDoing' = new
      /\ UNCHANGED <<task, process, researchPhase, active, begun>>
  BY NothingIsTyped DEF BeginAttempt
<1>3. /\ task \in [Targets -> TaskRecord]
      /\ \A u \in Targets : Len(attempts[u]) \in Nat
      /\ n \in Nat
  BY <1>1, Typed
<1>4. /\ attempts' \in [Targets -> Seq(AttemptRecord)]
      /\ promo' \in [Targets -> Seq(PromoStatus)]
      /\ task[t].rounds = n
      /\ Len(attempts'[t]) = n + 1
      /\ Len(promo'[t]) = Len(promo[t]) + 1
      /\ attempts'[t] # <<>>
      /\ \A i \in 1..n : attempts'[t][i] = attempts[t][i]
      /\ \A i \in 1..Len(promo[t]) : promo'[t][i] = promo[t][i]
      /\ attempts'[t][n + 1] = [round |-> n + 1, status |-> "running"]
      /\ \A u \in Targets \ {t} : attempts'[u] = attempts[u] /\ promo'[u] = promo[u]
  BY <1>1, BeginRecords, Zenon
<1>5. /\ task[t].status = "pending" /\ n < MaxRounds
      /\ \A d \in task[t].deps : task[d].status = "verified"
      /\ \A i \in 1..n : attempts[t][i].status # "running"
  <2>1. /\ task[t].status = "pending" /\ n < MaxRounds
        /\ \A d \in task[t].deps : task[d].status = "verified"
    BY <1>2, <1>4 DEF Ready
  <2>2. Recovered /\ active = active
    BY <1>1, <1>2 DEF Recovered, ActiveInv
  <2>3. ASSUME NEW i \in 1..n, attempts[t][i].status = "running" PROVE FALSE
    <3>1. i = n /\ attempts[t] # <<>> /\ Record(LastOf(t)).status = "running"
      BY <1>1, <2>3 DEF RoundInv, Record, LastOf
    <3>2. LastOf(t) \in active
      BY <1>1, <1>2, <2>2, <3>1 DEF ActiveInv
    <3>3. task[t].status = "running"
      BY <1>1, <3>2 DEF ActiveInv, LastOf, Owner
    <3> QED
      BY <2>1, <3>3
  <2> QED
    BY <2>1, <2>3
<1> HIDE DEF n
<1>6. /\ LastOf(t)' = <<t, n + 1>> /\ Record(LastOf(t))'.status = "running"
      /\ \A u \in Targets \ {t} : LastOf(u)' = LastOf(u) /\ AttemptsOf(u)' = AttemptsOf(u)
                                  /\ Record(LastOf(u))' = Record(LastOf(u))
                                  /\ FailedOf(u)' = FailedOf(u)
  BY <1>3, <1>4 DEF LastOf, AttemptsOf, Record, FailedOf
<1>7. AttemptsOf(t)' = AttemptsOf(t) \cup {<<t, n + 1>>} /\ Attempts \subseteq Attempts'
      /\ <<t, n + 1>> \in Attempts'
  <2>1. AttemptsOf(t)' = {<<t, i>> : i \in 1..n + 1} /\ AttemptsOf(t) = {<<t, i>> : i \in 1..n}
    BY <1>4 DEF AttemptsOf, n
  <2>2. 1..n + 1 = (1..n) \cup {n + 1}
    BY <1>3
  <2>3. AttemptsOf(t)' = AttemptsOf(t) \cup {<<t, n + 1>>}
    BY <2>1, <2>2
  <2> QED
    BY <1>6, <2>3 DEF Attempts
<1>8. \A u \in Targets : \A b \in AttemptsOf(u) : Record(b)' = Record(b) /\ (Accepted(b) => Accepted(b)')
  <2> SUFFICES ASSUME NEW u \in Targets, NEW i \in 1..Len(attempts[u])
               PROVE  Record(<<u, i>>)' = Record(<<u, i>>)
                      /\ (Accepted(<<u, i>>) => Accepted(<<u, i>>)')
    BY DEF AttemptsOf
  <2>1. Len(promo[u]) = Len(attempts[u])
    BY <1>1 DEF RoundInv
  <2> QED
    BY <1>3, <1>4, <2>1 DEF Record, Accepted, Owner, n
<1>9. FailedOf(t)' = FailedOf(t)
  <2>1. \A b : b = <<t, n + 1>> => Record(b)'.status = "running"
    BY <1>4 DEF Record
  <2>2. \A b \in AttemptsOf(t) : Record(b)' = Record(b)
    BY <1>8
  <2>3. \A b : b \in AttemptsOf(t)' <=> b \in AttemptsOf(t) \/ b = <<t, n + 1>>
    BY <1>7
  <2>4. \A b : b \in FailedOf(t)' <=> b \in FailedOf(t)
    BY <2>1, <2>2, <2>3 DEF FailedOf
  <2> QED
    BY <2>4
<1>10. new \in DoingRecord' /\ new.at = "begin" /\ new.attempt = <<t, n + 1>>
  BY <1>7, NothingIsTyped DEF DoingRecord
<1> HIDE DEF new
<1>11. ResearchTypeOK'
  <2>1. active' \subseteq Attempts' /\ begun' \subseteq active'
    BY <1>1, <1>2, <1>7 DEF ResearchTypeOK
  <2>2. researchDoing' \in DoingRecord'
    BY <1>2, <1>10
  <2> QED
    BY <1>1, <1>2, <1>4, <2>1, <2>2 DEF ResearchTypeOK, AttemptRecord, PromoStatus, DoingRecord
<1>12. RoundInv'
  <2> SUFFICES ASSUME NEW u \in Targets
               PROVE  /\ \A i \in 1..Len(attempts'[u]) : attempts'[u][i].round = i
                      /\ \A i \in 1..Len(attempts'[u]) : attempts'[u][i].status = "running" =>
                           i = Len(attempts'[u]) /\ task'[u].status \in {"pending", "running"}
                      /\ Len(promo'[u]) = Len(attempts'[u])
                      /\ Len(attempts'[u]) <= MaxRounds
                      /\ \/ task'[u].rounds = Len(attempts'[u])
                         \/ /\ task'[u].rounds + 1 = Len(attempts'[u])
                            /\ Record(LastOf(u))'.status = "running" /\ task'[u].status = "pending"
                      /\ task'[u].status = "none" => attempts'[u] = <<>>
                      /\ task'[u].status = "running" => attempts'[u] # <<>>
    BY Zenon DEF RoundInv
  <2>1. CASE u # t
    <3>1. attempts'[u] = attempts[u] /\ promo'[u] = promo[u] /\ Record(LastOf(u))' = Record(LastOf(u))
          /\ task'[u] = task[u]
      BY <1>2, <1>4, <1>6, <2>1
    <3> QED
      BY <1>1, <3>1 DEF RoundInv
  <2>2. CASE u = t
    <3>1. \A i \in 1..n + 1 : i \in 1..n \/ i = n + 1
      BY <1>3
    <3>2. \A i \in 1..n : attempts[t][i].round = i
      BY <1>1 DEF RoundInv, n
    <3>3. Len(promo[t]) = n
      BY <1>1 DEF RoundInv, n
    <3>4. \A i \in 1..Len(attempts'[u]) : attempts'[u][i].round = i
      <4>1. Len(attempts'[u]) = n + 1 /\ attempts'[u][n + 1].round = n + 1
        BY <1>4, <2>2
      <4>2. \A i \in 1..n : attempts'[u][i] = attempts[t][i]
        BY <1>4, <2>2
      <4> QED
        BY <3>1, <3>2, <4>1, <4>2
    <3>5. \A i \in 1..Len(attempts'[u]) : attempts'[u][i].status = "running" => i = Len(attempts'[u])
      BY <1>4, <1>5, <2>2, <3>1
    <3>6. /\ Len(promo'[u]) = Len(attempts'[u]) /\ Len(attempts'[u]) <= MaxRounds
          /\ task'[u].rounds + 1 = Len(attempts'[u]) /\ attempts'[u] # <<>> /\ task'[u].status = "pending"
      BY <1>2, <1>3, <1>4, <1>5, <2>2, <3>3
    <3>7. Record(LastOf(u))'.status = "running"
      BY <1>6, <2>2
    <3> QED
      BY <3>4, <3>5, <3>6, <3>7
  <2> QED
    BY <2>1, <2>2
<1>13. FailureInv'
  <2>1. \A u \in Targets : Uncounted(u)' = Uncounted(u)
    BY <1>2, <1>5, <1>6 DEF Uncounted
  <2>2. \A u \in Targets : FailedOf(u)' = FailedOf(u)
    BY <1>6, <1>9
  <2> QED
    BY <1>1, <1>2, <2>1, <2>2 DEF FailureInv
<1>14. DoingInv'
  BY <1>2, <1>4, <1>5, <1>6, <1>10 DEF DoingInv, Owner
<1>15. ActiveInv'
  <2>1. \A b \in active : Owner(b) # t /\ Owner(b) \in Targets /\ b = LastOf(Owner(b))
    BY <1>1, <1>5 DEF ActiveInv
  <2>2. \A b \in active : b = LastOf(Owner(b))' /\ Record(b)'.status = "running"
    BY <1>1, <1>2, <1>6, <2>1, ZenonT(40) DEF ActiveInv
  <2>3. Recovered
    BY <1>1, <1>2 DEF Recovered, ActiveInv
  <2>4. \A u \in Targets : task[u].status = "running" => LastOf(u)' \in active
    BY <1>1, <1>5, <1>6, <2>3 DEF ActiveInv
  <2>5. \A u \in Targets \ {t} : attempts[u] # <<>> /\ Record(LastOf(u))'.status = "running" => LastOf(u)' \in active
    BY <1>1, <1>2, <1>6, <2>3 DEF ActiveInv
  <2>6. \A u \in Targets : attempts'[u] # <<>> /\ Record(LastOf(u))'.status = "running" =>
          LastOf(u)' \in active \/ (researchDoing'.at = "begin" /\ researchDoing'.attempt = LastOf(u)')
    BY <1>2, <1>4, <1>6, <1>10, <2>5
  <2> QED
    BY <1>1, <1>2, <2>1, <2>2, <2>4, <2>6 DEF ActiveInv, Recovered
<1>16. VerifiedByEvidence'
  <2> SUFFICES ASSUME NEW u \in Targets
               PROVE  /\ task'[u].status = "verified" => \E b \in AttemptsOf(u)' : Accepted(b)'
                      /\ AttemptsOf(u)' # {} => \A d \in task'[u].deps : task'[d].status = "verified"
    BY Zenon DEF VerifiedByEvidence
  <2>1. task[u].status = "verified" => \E b \in AttemptsOf(u) : Accepted(b)
    BY <1>1 DEF VerifiedByEvidence
  <2>2. AttemptsOf(u) \subseteq AttemptsOf(u)'
    BY <1>6, <1>7
  <2>3. u # t => (AttemptsOf(u) # {} => \A d \in task[u].deps : task[d].status = "verified")
    BY <1>1 DEF VerifiedByEvidence
  <2> QED
    BY <1>2, <1>5, <1>6, <1>8, <2>1, <2>2, <2>3
<1>17. RunningInv'
  <2>1. \A u \in Targets \ {t} : Record(LastOf(u))' = Record(LastOf(u))
    BY <1>6
  <2>2. researchDoing.at # "finish"
    BY <1>2
  <2> QED
    BY <1>1, <1>2, <1>5, <2>1, <2>2 DEF RunningInv
<1> QED
  BY <1>11, <1>12, <1>13, <1>14, <1>15, <1>16, <1>17 DEF ResearchIInv

\* _finish: the attempt's record, after a round or in recovery.
LEMMA FinishAttemptKeeps ==
  ASSUME ResearchIInv, NEW a, NEW flag \in BOOLEAN, FinishAttempt(a, flag),
         UNCHANGED <<task, promo, process, researchPhase, active, begun>>,
         Owner(a) \in Targets, attempts[Owner(a)] # <<>>, a = LastOf(Owner(a)),
         task[Owner(a)].status \in {"pending", "running"},
         task[Owner(a)].rounds = Len(attempts[Owner(a)]),
         "running" \in {Record(a).status, task[Owner(a)].status},
         researchDoing.at \in {"none", "recovered"}, researchPhase \in {"recover", "wait", "woken", "unwind"},
         researchPhase = "recover" => Accepted(a) \/ flag,
         researchPhase # "recover" => a \in active /\ Record(a).status = "running"
  PROVE  ResearchIInv'
<1> USE DEF process
<1> DEFINE t == Owner(a)
           n == Len(attempts[t])
<1>1. ResearchTypeOK /\ RoundInv /\ FailureInv /\ DoingInv /\ ActiveInv /\ RunningInv /\ VerifiedByEvidence
  BY DEF ResearchIInv
<1>2. /\ attempts' \in [Targets -> Seq(AttemptRecord)]
      /\ \A u \in Targets : Len(attempts'[u]) = Len(attempts[u])
      /\ \A u \in Targets : \A i \in 1..Len(attempts[u]) :
           /\ attempts'[u][i].round = attempts[u][i].round
           /\ <<u, i>> # a => attempts'[u][i].status = attempts[u][i].status
      /\ \A u \in Targets \ {t} : attempts'[u] = attempts[u]
      /\ attempts'[t] # <<>>
      /\ Record(a)'.status = IF Accepted(a) THEN "verified" ELSE IF flag THEN "interrupted" ELSE "failed"
  BY <1>1, FinishRecords, Zenon
<1>3. /\ researchDoing' = [at |-> "finish", attempt |-> a, verified |-> Accepted(a), interrupted |-> flag]
      /\ Accepted(a) \in BOOLEAN
  BY DEF FinishAttempt, Accepted
<1>4. /\ task \in [Targets -> TaskRecord] /\ \A u \in Targets : Len(attempts[u]) \in Nat
      /\ n \in Nat \ {0} /\ t \in Targets /\ a = <<t, n>> /\ Record(a) = attempts[t][n]
  <2>1. task \in [Targets -> TaskRecord] /\ \A u \in Targets : Len(attempts[u]) \in Nat
    BY <1>1, Typed
  <2>2. n \in Nat \ {0}
    BY <1>1, Typed
  <2> QED
    BY <2>1, <2>2 DEF LastOf, Record
<1>5. Record(a)' = attempts'[t][n] /\ Record(a)'.status # "running"
  BY <1>2, <1>4 DEF Record
<1> HIDE DEF t, n
<1>6. /\ Attempts' = Attempts
      /\ \A u \in Targets : LastOf(u)' = LastOf(u) /\ AttemptsOf(u)' = AttemptsOf(u)
      /\ \A u \in Targets \ {t} : FailedOf(u)' = FailedOf(u) /\ Record(LastOf(u))' = Record(LastOf(u))
      /\ \A b : Accepted(b)' = Accepted(b)
  <2>1. \A u \in Targets : LastOf(u)' = LastOf(u) /\ AttemptsOf(u)' = AttemptsOf(u)
    BY <1>2 DEF LastOf, AttemptsOf
  <2>2. Attempts' = Attempts
    BY <2>1 DEF Attempts
  <2>3. \A u \in Targets \ {t} : \A i : Record(<<u, i>>)' = Record(<<u, i>>)
    BY <1>2 DEF Record
  <2>4. \A u \in Targets \ {t} : FailedOf(u)' = FailedOf(u)
    BY <2>3, <1>2 DEF FailedOf, AttemptsOf
  <2>5. \A u \in Targets \ {t} : Record(LastOf(u))' = Record(LastOf(u))
    BY <1>2 DEF LastOf, Record
  <2>6. \A b : Accepted(b)' = Accepted(b)
    BY DEF Accepted
  <2> QED
    BY <2>1, <2>2, <2>4, <2>5, <2>6
<1>7. \A b : b \in FailedOf(t)' <=>
             IF b = a THEN ~Accepted(a) /\ ~flag ELSE b \in FailedOf(t)
  <2> SUFFICES ASSUME NEW b PROVE b \in FailedOf(t)' <=>
                                  IF b = a THEN ~Accepted(a) /\ ~flag ELSE b \in FailedOf(t)
    OBVIOUS
  <2>1. a \in AttemptsOf(t)
    BY <1>4 DEF AttemptsOf, n
  <2>2. AttemptsOf(t)' = AttemptsOf(t)
    BY <1>4, <1>6
  <2>3. CASE b = a
    <3>1. Record(b)'.status = "failed" <=> ~Accepted(a) /\ ~flag
      BY <1>2, <1>3, <2>3
    <3> QED
      BY <2>1, <2>2, <2>3, <3>1 DEF FailedOf
  <2>4. CASE b # a
    <3>1. ASSUME b \in AttemptsOf(t) PROVE Record(b)'.status = Record(b).status
      <4>1. PICK i \in 1..n : b = <<t, i>>
        BY <3>1 DEF AttemptsOf, n
      <4> QED
        BY <1>2, <1>4, <2>4, <4>1 DEF Record, n
    <3> QED
      BY <2>2, <2>4, <3>1 DEF FailedOf
  <2> QED
    BY <2>3, <2>4
<1>8. ResearchTypeOK'
  <2>1. a \in Attempts
    BY <1>4 DEF Attempts, AttemptsOf, n
  <2>2. researchDoing' \in DoingRecord'
    BY <1>3, <1>6, <2>1 DEF DoingRecord
  <2> QED
    BY <1>1, <1>2, <1>6, <2>2 DEF ResearchTypeOK, AttemptRecord, DoingRecord
<1>9. RoundInv'
  <2> SUFFICES ASSUME NEW u \in Targets
               PROVE  /\ \A i \in 1..Len(attempts'[u]) : attempts'[u][i].round = i
                      /\ \A i \in 1..Len(attempts'[u]) : attempts'[u][i].status = "running" =>
                           i = Len(attempts'[u]) /\ task'[u].status \in {"pending", "running"}
                      /\ Len(promo'[u]) = Len(attempts'[u])
                      /\ Len(attempts'[u]) <= MaxRounds
                      /\ \/ task'[u].rounds = Len(attempts'[u])
                         \/ /\ task'[u].rounds + 1 = Len(attempts'[u])
                            /\ Record(LastOf(u))'.status = "running" /\ task'[u].status = "pending"
                      /\ task'[u].status = "none" => attempts'[u] = <<>>
                      /\ task'[u].status = "running" => attempts'[u] # <<>>
    BY Zenon DEF RoundInv
  <2>1. CASE u # t
    <3>1. attempts'[u] = attempts[u] /\ Record(LastOf(u))' = Record(LastOf(u))
          /\ task'[u] = task[u] /\ promo'[u] = promo[u]
      BY <1>2, <1>6, <2>1
    <3> QED
      BY <1>1, <3>1 DEF RoundInv
  <2>2. CASE u = t
    <3>1. \A i \in 1..n : attempts'[t][i].round = i
      BY <1>1, <1>2, <1>4 DEF RoundInv, n
    <3>2. \A i \in 1..n : attempts'[t][i].status # "running"
      <4> SUFFICES ASSUME NEW i \in 1..n PROVE attempts'[t][i].status # "running"
        OBVIOUS
      <4>1. CASE i = n
        BY <1>5, <4>1
      <4>2. CASE i # n
        <5>1. attempts'[t][i].status = attempts[t][i].status
          BY <1>2, <1>4, <4>2 DEF n
        <5>2. attempts[t][i].status # "running"
          BY <1>1, <1>4, <4>2 DEF RoundInv, n
        <5> QED
          BY <5>1, <5>2
      <4> QED
        BY <4>1, <4>2
    <3>3. /\ Len(attempts'[t]) = n /\ Len(promo[t]) = n /\ n <= MaxRounds /\ task[t].rounds = n
          /\ task[t].status \in {"pending", "running"} /\ attempts'[t] # <<>>
      BY <1>1, <1>2, <1>4 DEF RoundInv, n, t
    <3> QED
      BY <2>2, <3>1, <3>2, <3>3
  <2> QED
    BY <2>1, <2>2
<1>10. FailureInv'
  <2> SUFFICES ASSUME NEW u \in Targets
               PROVE  task'[u].status \in {"pending", "running", "blocked"} =>
                           Cardinality(FailedOf(u)') = task'[u].failures + (IF Uncounted(u)' THEN 1 ELSE 0)
    BY <1>1 DEF FailureInv
  <2>1. CASE u # t
    <3>1. Uncounted(u)' <=> Uncounted(u)
      BY <1>6, <2>1 DEF Uncounted
    <3>2. Cardinality(FailedOf(u)') = Cardinality(FailedOf(u))
      BY <1>6, <2>1, Zenon
    <3> QED
      BY <1>1, <3>1, <3>2 DEF FailureInv
  <2>2. CASE u = t
    <3>1. /\ Cardinality(FailedOf(t)) = task[t].failures + (IF Uncounted(t) THEN 1 ELSE 0)
          /\ task[t].failures \in Nat /\ IsFiniteSet(FailedOf(t))
      <4>1. Cardinality(FailedOf(t)) = task[t].failures + (IF Uncounted(t) THEN 1 ELSE 0)
        BY <1>1, <1>4 DEF FailureInv, t
      <4>2. task[t].failures \in Nat
        BY <1>4 DEF TaskRecord
      <4>3. IsFiniteSet(FailedOf(t))
        BY <1>1, <1>4, FailedAreFinite
      <4> QED
        BY <4>1, <4>2, <4>3
    <3>2. LastOf(t)' = a /\ LastOf(t) = a
      BY <1>4, <1>6 DEF LastOf, n
    <3>3. Uncounted(t) <=> task[t].status = "running" /\ Record(a).status = "failed"
      BY <3>2 DEF Uncounted
    <3>4. Uncounted(t)' <=> task[t].status = "running" /\ Record(a)'.status = "failed"
      <4>1. LastOf(t)' = <<t, n>>
        BY <1>4, <3>2
      <4>2. Record(LastOf(t))' = attempts'[t][n]
        BY <4>1 DEF Record
      <4> QED
        BY <1>5, <4>2 DEF Uncounted
    <3>5. a \in FailedOf(t) <=> Record(a).status = "failed"
      BY <1>4 DEF FailedOf, AttemptsOf, n
    <3>6. CASE ~Accepted(a) /\ ~flag
      <4>1. a \in active /\ Record(a).status = "running" /\ task[t].status = "running"
        BY <1>1, <3>6 DEF ActiveInv, t
      <4>2. FailedOf(t)' = FailedOf(t) \cup {a} /\ a \notin FailedOf(t)
        BY <1>7, <3>5, <3>6, <4>1
      <4>3. Cardinality(FailedOf(t) \cup {a}) = Cardinality(FailedOf(t)) + 1
        BY <3>1, <4>2, FS_AddElement
      <4>4. Uncounted(t)' /\ ~Uncounted(t)
        BY <1>2, <3>3, <3>4, <3>6, <4>1
      <4> QED
        BY <2>2, <3>1, <4>2, <4>3, <4>4
    <3>7. CASE (Accepted(a) \/ flag) /\ Record(a).status = "failed"
      <4>1. task[t].status = "running"
        BY <3>7 DEF t
      <4>2. FailedOf(t)' = FailedOf(t) \ {a} /\ a \in FailedOf(t)
        BY <1>7, <3>5, <3>7
      <4>3. Cardinality(FailedOf(t) \ {a}) = Cardinality(FailedOf(t)) - 1
        BY <3>1, <4>2, FS_RemoveElement
      <4>4. ~Uncounted(t)' /\ Uncounted(t)
        BY <1>2, <1>3, <3>3, <3>4, <3>7, <4>1
      <4> QED
        BY <2>2, <3>1, <4>2, <4>3, <4>4
    <3>8. CASE (Accepted(a) \/ flag) /\ Record(a).status # "failed"
      <4>1. FailedOf(t)' = FailedOf(t)
        BY <1>7, <3>5, <3>8
      <4>2. ~Uncounted(t)' /\ ~Uncounted(t)
        BY <1>2, <1>3, <3>3, <3>4, <3>8
      <4> QED
        BY <2>2, <3>1, <4>1, <4>2
    <3> QED
      BY <1>3, <3>6, <3>7, <3>8
  <2> QED
    BY <2>1, <2>2
<1>11. DoingInv'
  <2>1. /\ researchDoing'.at = "finish" /\ researchDoing'.attempt = a
        /\ researchDoing'.verified = Accepted(a) /\ researchDoing'.interrupted = flag
    BY <1>3
  <2>2. /\ t \in Targets /\ attempts'[t] # <<>> /\ a = LastOf(t)' /\ Len(attempts'[t]) = Len(attempts[t])
        /\ task[t].status \in {"pending", "running"} /\ task[t].rounds = Len(attempts[t])
    BY <1>2, <1>4, <1>6 DEF LastOf, n, t
  <2> QED
    BY <1>2, <1>6, <2>1, <2>2 DEF DoingInv, t
<1>12. ActiveInv'
  <2>1. \A b \in active : /\ Owner(b) \in Targets /\ b = LastOf(Owner(b))' /\ task[Owner(b)].status = "running"
                          /\ b # a => Record(b)'.status = "running"
    <3> SUFFICES ASSUME NEW b \in active
                 PROVE  /\ Owner(b) \in Targets /\ b = LastOf(Owner(b))' /\ task[Owner(b)].status = "running"
                        /\ b # a => Record(b)'.status = "running"
      OBVIOUS
    <3>1. /\ Owner(b) \in Targets /\ b = LastOf(Owner(b)) /\ task[Owner(b)].status = "running"
          /\ Record(b).status = "running" \/ (researchDoing.at = "finish" /\ researchDoing.attempt = b)
      BY <1>1 DEF ActiveInv
    <3>2. b # a => Owner(b) # t
      BY <3>1 DEF t
    <3>3. b # a => Record(LastOf(Owner(b)))' = Record(LastOf(Owner(b))) /\ LastOf(Owner(b))' = LastOf(Owner(b))
      BY <1>6, <3>1, <3>2
    <3>4. b # a => Record(b)'.status = "running"
      BY <3>1, <3>3
    <3> QED
      BY <1>6, <3>1, <3>4
  <2>2. Recovered' => Recovered
    BY DEF Recovered
  <2>3. Recovered => \A u \in Targets :
       /\ task[u].status = "running" => LastOf(u) \in active
       /\ attempts[u] # <<>> /\ Record(LastOf(u)).status = "running" => LastOf(u) \in active
    BY <1>1 DEF ActiveInv
  <2>4. \A u \in Targets : attempts'[u] # <<>> /\ Record(LastOf(u))'.status = "running" =>
          attempts[u] # <<>> /\ Record(LastOf(u)).status = "running"
    <3> SUFFICES ASSUME NEW u \in Targets, attempts'[u] # <<>>, Record(LastOf(u))'.status = "running"
                 PROVE  attempts[u] # <<>> /\ Record(LastOf(u)).status = "running"
      OBVIOUS
    <3>1. u # t
      BY <1>4, <1>5, <1>6 DEF LastOf, Record, n
    <3> QED
      BY <1>2, <1>6, <3>1
  <2> QED
    BY <1>1, <1>3, <1>6, <2>1, <2>2, <2>3, <2>4 DEF ActiveInv
<1>13. VerifiedByEvidence'
  <2>1. \A u \in Targets : task[u].deps \subseteq Targets
    BY <1>4 DEF TaskRecord
  <2> QED
    BY <1>1, <1>6, <2>1, EvidenceKept
<1>14. RunningInv'
  <2>1. \A u \in Targets \ {t} : Record(LastOf(u))' = Record(LastOf(u))
    BY <1>6
  <2>2. LastOf(t)' = a
    BY <1>4, <1>6 DEF LastOf, n
  <2>3. researchDoing'.at = "finish" /\ researchDoing'.attempt = a
    BY <1>3
  <2> QED
    BY <1>1, <2>1, <2>2, <2>3 DEF RunningInv
<1> QED
  BY <1>8, <1>9, <1>10, <1>11, <1>12, <1>13, <1>14 DEF ResearchIInv

\* recover: an attempt that was left running is verified if its submission was
\* accepted, and interrupted otherwise.
LEMMA RecoverAttemptKeeps ==
  ASSUME ResearchIInv, RecoverAttempt
  PROVE  ResearchIInv'
<1> DEFINE a == researchDoing.attempt
<1>1. ResearchTypeOK /\ DoingInv /\ researchDoing.at = "recovered"
  BY DEF ResearchIInv, RecoverAttempt
<1>2. /\ Owner(a) \in Targets /\ attempts[Owner(a)] # <<>> /\ a = LastOf(Owner(a))
      /\ task[Owner(a)].status \in {"pending", "running"}
      /\ task[Owner(a)].rounds = Len(attempts[Owner(a)])
      /\ researchPhase = "recover" /\ "running" \in {Record(a).status, task[Owner(a)].status}
  BY <1>1 DEF DoingInv
<1>3. /\ FinishAttempt(a, ~Accepted(a)) /\ (~Accepted(a)) \in BOOLEAN
      /\ UNCHANGED <<task, promo, process, researchPhase, active, begun>>
  BY DEF RecoverAttempt, Accepted
<1> HIDE DEF a
<1> QED
  BY <1>1, <1>2, <1>3, FinishAttemptKeeps

\* The round of an active attempt ends or is cancelled: _finish writes the
\* attempt first.
LEMMA AttemptStopKeeps ==
  ASSUME ResearchIInv, NEW a \in active, AttemptEnds(a) \/ AttemptCancelled(a)
  PROVE  ResearchIInv'
<1>1. ResearchTypeOK /\ RoundInv /\ DoingInv /\ ActiveInv
  BY DEF ResearchIInv
<1>2. AtAwait /\ researchDoing.at = "none"
  BY AwaitNothing DEF AttemptEnds, AttemptCancelled
<1>3. /\ Owner(a) \in Targets /\ a = LastOf(Owner(a)) /\ task[Owner(a)].status = "running"
      /\ Record(a).status = "running"
  BY <1>1, <1>2 DEF ActiveInv
<1>4. attempts[Owner(a)] # <<>> /\ task[Owner(a)].rounds = Len(attempts[Owner(a)])
  BY <1>1, <1>3 DEF RoundInv
<1>5. researchPhase \in {"wait", "woken", "unwind"}
  BY <1>1, <1>2 DEF ActiveInv, AtAwait, ResearchTypeOK, ResearchPhases
<1>6. PICK flag \in BOOLEAN : FinishAttempt(a, flag)
  BY DEF AttemptEnds, AttemptCancelled
<1>7. UNCHANGED <<task, promo, process, researchPhase, active, begun>>
  BY DEF AttemptEnds, AttemptCancelled
<1> QED
  BY <1>2, <1>3, <1>4, <1>5, <1>6, <1>7, FinishAttemptKeeps

\* What becomes of a submission takes no publication back.
LEMMA WorkersKeep ==
  ASSUME ResearchIInv, NEW a \in Attempts, Submit(a) \/ Promote(a)
  PROVE  ResearchIInv'
<1> USE DEF process
<1> DEFINE t == Owner(a)
           n == a[2]
<1>1. ResearchTypeOK /\ RoundInv /\ FailureInv /\ DoingInv /\ ActiveInv /\ RunningInv /\ VerifiedByEvidence
  BY DEF ResearchIInv
<1>2. /\ t \in Targets /\ n \in 1..Len(attempts[t]) /\ a = <<t, n>>
  BY DEF Attempts, AttemptsOf, Owner
<1>3. /\ task \in [Targets -> TaskRecord] /\ promo \in [Targets -> Seq(PromoStatus)]
      /\ \A u \in Targets : Len(promo[u]) = Len(attempts[u]) /\ Len(attempts[u]) \in Nat
  BY <1>1, Typed DEF RoundInv
<1>4. PICK v \in PromoStatus : promo' = [promo EXCEPT ![t][n] = v]
  BY DEF Submit, Promote, PromoStatus
<1>5. promo[t][n] # "published"
  BY DEF Submit, Promote
<1>6. UNCHANGED <<task, attempts, process, researchPhase, active, begun, researchDoing>>
  BY DEF Submit, Promote
<1> DEFINE new == [promo[t] EXCEPT ![n] = v]
<1>7. promo' = [promo EXCEPT ![t] = new]
  BY <1>4, Zenon
<1> HIDE DEF t, n
<1>8. new \in Seq(PromoStatus) /\ Len(new) = Len(promo[t])
      /\ \A i \in 1..Len(promo[t]) : i # n => new[i] = promo[t][i]
  BY <1>2, <1>3
<1> HIDE DEF new
<1>9. /\ promo' \in [Targets -> Seq(PromoStatus)]
      /\ \A u \in Targets : Len(promo'[u]) = Len(promo[u])
      /\ promo'[t] = new /\ \A u \in Targets \ {t} : promo'[u] = promo[u]
  BY <1>2, <1>3, <1>7, <1>8
<1>10. /\ Attempts' = Attempts
       /\ \A u \in Targets : LastOf(u)' = LastOf(u) /\ AttemptsOf(u)' = AttemptsOf(u)
                             /\ FailedOf(u)' = FailedOf(u)
       /\ \A b : Record(b)' = Record(b)
  BY <1>6 DEF Attempts, AttemptsOf, LastOf, FailedOf, Record
<1>11. \A u \in Targets : \A i \in 1..Len(attempts[u]) : Accepted(<<u, i>>) => Accepted(<<u, i>>)'
  <2> SUFFICES ASSUME NEW u \in Targets, NEW i \in 1..Len(attempts[u]), promo[u][i] = "published"
               PROVE  promo'[u][i] = "published"
    BY DEF Accepted, Owner
  <2> QED
    BY <1>3, <1>5, <1>8, <1>9
<1>12. ResearchTypeOK'
  BY <1>1, <1>6, <1>9, <1>10 DEF ResearchTypeOK, PromoStatus
<1>13. RoundInv'
  BY <1>1, <1>6, <1>9, <1>10 DEF RoundInv
<1>14. FailureInv'
  BY <1>1, <1>6, <1>10 DEF FailureInv, Uncounted
<1>15. DoingInv'
  <2>1. researchDoing.at = "none" \/ AtAwait
    BY AwaitNothing DEF Submit, Promote
  <2> QED
    BY <1>1, <1>6, <2>1, AwaitNothing DEF DoingInv
<1>16. ActiveInv'
  BY <1>1, <1>6, <1>10 DEF ActiveInv, Recovered
<1>17. VerifiedByEvidence'
  <2>1. \A u \in Targets : \A b \in AttemptsOf(u) : Accepted(b) => Accepted(b)'
    BY <1>11 DEF AttemptsOf
  <2>2. \A u \in Targets : AttemptsOf(u)' = AttemptsOf(u)
    BY <1>10
  <2> QED
    BY <1>1, <1>6, <2>1, <2>2 DEF VerifiedByEvidence
<1>18. RunningInv'
  BY <1>1, <1>6, <1>10 DEF RunningInv
<1> QED
  BY <1>12, <1>13, <1>14, <1>15, <1>16, <1>17, <1>18 DEF ResearchIInv

\* A step of something else.
LEMMA StutterKeeps ==
  ASSUME ResearchIInv, UNCHANGED researchVars
  PROVE  ResearchIInv'
<1> USE DEF researchVars, process, researchDurable
<1>1. ResearchTypeOK'
  <2>1. Attempts' = Attempts
    BY DurableKept
  <2> QED
    BY <2>1 DEF ResearchIInv, ResearchTypeOK
<1>2. RoundInv' /\ FailureInv' /\ VerifiedByEvidence'
  BY DurableKept
<1>3. DoingInv'
  BY DEF ResearchIInv, DoingInv, Owner, Record, LastOf, Accepted
<1>4. ActiveInv'
  BY DEF ResearchIInv, ActiveInv, Owner, Record, LastOf, Recovered
<1>5. RunningInv'
  BY DEF ResearchIInv, RunningInv, Record, LastOf
<1> QED
  BY <1>1, <1>2, <1>3, <1>4, <1>5 DEF ResearchIInv

\* The invariant of the research engine: rounds, failures, active attempts and
\* half-written outcomes agree, through crashes at any write
\* (research/engine.py: _begin, _finish, recover, run).
THEOREM ResearchInvariant == ResearchSpec => []ResearchIInv
<1>1. ResearchInit => ResearchIInv
  BY InitHolds
<1>2. ASSUME ResearchIInv, [ResearchNext]_researchVars PROVE ResearchIInv'
  <2>1. CASE UNCHANGED researchVars
    BY <1>2, <2>1, StutterKeeps
  <2>2. CASE ResearchOperator
    <3>1. CASE StartRun \/ ResearchRequestStop
      BY <1>2, <3>1, ProcessStepKeeps DEF ProcessStep
    <3>2. CASE \E t \in Targets :
                 PauseTask(t) \/ ResumeTask(t) \/ \E deps \in SUBSET Targets : DefineTask(t, deps)
      BY <1>2, <3>2, OperatorKeeps DEF OperatorTaskStep
    <3> QED
      BY <2>2, <3>1, <3>2 DEF ResearchOperator
  <2>3. CASE Recovery
    <3>1. CASE Opened \/ ResearchRecovered
      BY <1>2, <3>1, ProcessStepKeeps DEF ProcessStep
    <3>2. CASE RecoverAttempt
      BY <1>2, <3>2, RecoverAttemptKeeps
    <3>3. CASE \E t \in Targets : RecoverRounds(t)
      BY <1>2, <3>3, RecoverRoundsKeeps
    <3> QED
      BY <2>3, <3>1, <3>2, <3>3 DEF Recovery
  <2>4. CASE Engine
    <3>1. CASE Filled \/ Wake \/ CloseRun \/ \E a \in active : FirstStep(a) \/ CancelUnbegun(a)
      BY <1>2, <3>1, ProcessStepKeeps DEF ProcessStep
    <3>2. CASE FinishTask
      BY <1>2, <3>2, FinishTaskKeeps
    <3>3. CASE BeginTask
      BY <1>2, <3>3, BeginTaskKeeps
    <3>4. CASE \E t \in Targets : BeginAttempt(t)
      BY <1>2, <3>4, BeginAttemptKeeps
    <3>5. CASE \E a \in active : AttemptEnds(a) \/ AttemptCancelled(a)
      BY <1>2, <3>5, AttemptStopKeeps
    <3> QED
      BY <2>4, <3>1, <3>2, <3>3, <3>4, <3>5 DEF Engine
  <2>5. CASE ResearchWorkers
    BY <1>2, <2>5, WorkersKeep DEF ResearchWorkers
  <2>6. CASE TimeLimit \/ ResearchCrash
    BY <1>2, <2>6, ProcessStepKeeps DEF ProcessStep
  <2> QED
    BY <1>2, <2>1, <2>2, <2>3, <2>4, <2>5, <2>6 DEF ResearchNext
<1> QED
  BY <1>1, <1>2, PTL DEF ResearchSpec

\* While the loop awaits, an attempt is recorded running exactly if a coroutine
\* works on it, one for each task.
LEMMA RunningIsActiveHolds ==
  ASSUME ResearchIInv
  PROVE  RunningIsActive
<1> SUFFICES ASSUME Waiting, AtAwait, ~researchStop
             PROVE  /\ \A a \in Attempts : Record(a).status = "running" <=> a \in active
                    /\ \A t \in Targets : task[t].status = "running" <=> \E a \in active : Owner(a) = t
                    /\ \A a, b \in active : Owner(a) = Owner(b) => a = b
  BY DEF RunningIsActive
<1>1. RoundInv /\ ActiveInv /\ Recovered /\ researchDoing.at = "none"
  BY AwaitNothing DEF ResearchIInv, Recovered, Waiting
<1>2. \A a \in active : /\ Owner(a) \in Targets /\ a = LastOf(Owner(a)) /\ task[Owner(a)].status = "running"
                        /\ Record(a).status = "running"
  BY <1>1 DEF ActiveInv
<1>3. ASSUME NEW a \in Attempts, Record(a).status = "running" PROVE a \in active
  <2>1. PICK t \in Targets : \E i \in 1..Len(attempts[t]) : a = <<t, i>>
    BY DEF Attempts, AttemptsOf
  <2>2. PICK i \in 1..Len(attempts[t]) : a = <<t, i>>
    BY <2>1
  <2>3. i = Len(attempts[t]) /\ attempts[t] # <<>>
    BY <1>1, <1>3, <2>2 DEF RoundInv, Record
  <2>4. a = LastOf(t)
    BY <2>2, <2>3 DEF LastOf
  <2> QED
    BY <1>1, <1>3, <2>3, <2>4 DEF ActiveInv
<1>4. \A t \in Targets : task[t].status = "running" <=> \E a \in active : Owner(a) = t
  <2>1. \A t : Owner(LastOf(t)) = t
    BY DEF LastOf, Owner
  <2> QED
    BY <1>1, <1>2, <2>1 DEF ActiveInv
<1> QED
  BY <1>2, <1>3, <1>4

\* No round is used twice, and none beyond the budget.
LEMMA RoundsAreSpentHolds ==
  ASSUME ResearchIInv
  PROVE  RoundsAreSpent
<1> SUFFICES ASSUME NEW t \in Targets
             PROVE  /\ \A a, b \in AttemptsOf(t) : Record(a).round = Record(b).round => a = b
                    /\ Cardinality(AttemptsOf(t)) <= MaxRounds
  BY DEF RoundsAreSpent
<1>1. ResearchTypeOK /\ RoundInv
  BY DEF ResearchIInv
<1>2. \A i \in 1..Len(attempts[t]) : Record(<<t, i>>).round = i
  BY <1>1 DEF RoundInv, Record
<1>3. Cardinality(AttemptsOf(t)) <= MaxRounds
  BY <1>1, FailedAreFinite DEF RoundInv
<1> QED
  BY <1>2, <1>3 DEF AttemptsOf

\* While the loop awaits, the failures of a task are its failed attempts.
LEMMA FailuresAgreeHolds ==
  ASSUME ResearchIInv
  PROVE  FailuresAgree
<1> SUFFICES ASSUME Waiting, AtAwait, NEW t \in Targets,
                    task[t].status \in {"pending", "running", "blocked"}
             PROVE  task[t].failures = Cardinality(FailedOf(t))
  BY DEF FailuresAgree, FailedOf
<1>1. ResearchTypeOK /\ FailureInv /\ ActiveInv /\ researchDoing.at = "none"
  BY AwaitNothing DEF ResearchIInv
<1>2. ~Uncounted(t)
  BY <1>1 DEF ResearchIInv, RunningInv, Uncounted, Waiting
<1>3. task[t].failures \in Nat
  BY <1>1, Typed DEF TaskRecord
<1> QED
  BY <1>1, <1>2, <1>3 DEF FailureInv

\* For any targets, rounds and failures allowed: what the task records agrees
\* with what its attempts record whenever the loop awaits, whatever was
\* interrupted before (research/engine.py: _begin, _finish, recover).
THEOREM RecordsAgree == ResearchSpec => []RoundsAgree
<1>1. ResearchIInv => RoundsAgree
  BY RunningIsActiveHolds, RoundsAreSpentHolds, FailuresAgreeHolds DEF RoundsAgree, ResearchIInv
<1> QED
  BY <1>1, ResearchInvariant, PTL

\* For any targets and limits: a task that is verified has an attempt whose
\* contribution was published, and one that was worked on has its dependencies
\* verified (research/engine.py: frontier, _finish, recover).
THEOREM VerifiedHasEvidence == ResearchSpec => []VerifiedByEvidence
<1>1. ResearchIInv => VerifiedByEvidence
  BY DEF ResearchIInv
<1> QED
  BY <1>1, ResearchInvariant, PTL

=============================================================================
