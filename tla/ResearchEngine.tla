--------------------------- MODULE ResearchEngine ---------------------------
(***************************************************************************)
(* The research loop (research/engine.py, records.py, runner.py): targets  *)
(* with dependencies, a bounded number of rounds each, several rounds of   *)
(* different targets at a time, and recovery after a crash.  A round ends  *)
(* with two or three writes that are separate transactions; no other step  *)
(* of the process comes between them, but a crash may.  The publication of *)
(* what a round's worker submitted goes its own way: it may come after the *)
(* round was given up.                                                     *)
(***************************************************************************)
EXTENDS Naturals, Sequences, FiniteSets

CONSTANTS
  Targets,      \* task ids; their order is the order of the frontier
  MaxRounds,    \* max_rounds of every task
  MaxFailures,  \* max_failures of every task
  MaxWorkers,   \* rounds that may run at a time
  WatchModes,   \* the values of --watch
  MaxRuns       \* bound on the research processes ever started

ASSUME ResearchAssumption ==
  /\ Targets \subseteq Nat /\ WatchModes \subseteq BOOLEAN
  /\ MaxRounds \in Nat \ {0} /\ MaxFailures \in Nat \ {0} /\ MaxWorkers \in Nat \ {0}
  /\ MaxRuns \in Nat

VARIABLES
  \* Durable: the "research" projection and the events of promotion.
  task,      \* the task records
  attempts,  \* of each task, its attempt records in order of creation
  promo,     \* of each of them, what the events say of its contribution
  \* The one process that owns the state.
  researchPhase,  \* where run_research is: see Phases
  runs,           \* how many processes there have been
  watch,          \* research run --watch
  researchStop,   \* ResearchEngine.stop
  active,         \* ResearchEngine.active: attempts with a task of the event loop
  begun,          \* those of them whose task has had its first step
  researchDoing   \* the write in the middle of which the process is

researchDurable == <<task, attempts, promo>>
process == <<runs, watch, researchStop>>
researchVars == <<researchDurable, process, researchPhase, active, begun, researchDoing>>

-----------------------------------------------------------------------------
NoTask == [status |-> "none", deps |-> {}, rounds |-> 0, failures |-> 0, paused |-> FALSE]
NoAttempt == <<>>
Nothing == [at |-> "none", attempt |-> NoAttempt, verified |-> FALSE, interrupted |-> FALSE]

ResearchInit ==
  /\ task = [t \in Targets |-> NoTask]
  /\ attempts = [t \in Targets |-> <<>>]
  /\ promo = [t \in Targets |-> <<>>]
  /\ researchPhase = "down"
  /\ runs = 0
  /\ watch = FALSE
  /\ researchStop = FALSE
  /\ active = {}
  /\ begun = {}
  /\ researchDoing = Nothing

\* An attempt is known by its task and its place among the task's attempts.
AttemptsOf(t) == {<<t, i>> : i \in 1..Len(attempts[t])}
Attempts == UNION {AttemptsOf(t) : t \in Targets}
Owner(a) == a[1]
Record(a) == attempts[a[1]][a[2]]

\* run_research opens the host, recovers, and then runs the loop of
\* ResearchEngine.run: it fills the free slots, waits for a round (or, idle,
\* for a moment) and is woken; at the end it cancels what is left.  No other
\* code of the process runs while it recovers or fills.
ResearchPhases == {"down", "open", "recover", "fill", "wait", "woken", "unwind"}
Waiting == researchPhase \in {"wait", "woken"}
AtAwait == researchDoing = Nothing /\ researchPhase \notin {"recover", "fill"}

-----------------------------------------------------------------------------
(* Operator changes, served by whichever process owns the state.           *)

DefineTask(t, deps) ==
  /\ AtAwait
  /\ task[t].status = "none"
  /\ t \notin deps
  /\ \A d \in deps : task[d].status # "none"
  /\ task' = [task EXCEPT ![t] = [NoTask EXCEPT !.status = "pending", !.deps = deps]]
  /\ UNCHANGED <<attempts, promo, process, researchPhase, active, begun, researchDoing>>

PauseTask(t) ==
  /\ AtAwait
  /\ task[t].status \in {"pending", "running", "blocked"}
  /\ ~task[t].paused
  /\ task' = [task EXCEPT ![t].paused = TRUE]
  /\ UNCHANGED <<attempts, promo, process, researchPhase, active, begun, researchDoing>>

ResumeTask(t) ==
  /\ AtAwait
  /\ task[t].status \in {"pending", "running"}
  /\ task[t].paused
  /\ task' = [task EXCEPT ![t].paused = FALSE]
  /\ UNCHANGED <<attempts, promo, process, researchPhase, active, begun, researchDoing>>

-----------------------------------------------------------------------------
(* run_research.                                                           *)

StartRun ==
  /\ researchPhase = "down"
  /\ runs < MaxRuns
  /\ runs' = runs + 1
  /\ watch' \in WatchModes
  /\ researchPhase' = "open"
  /\ UNCHANGED <<researchDurable, researchStop, active, begun, researchDoing>>

\* The host and the controller session are up: engine.run begins.
Opened ==
  /\ researchPhase = "open"
  /\ researchPhase' = "recover"
  /\ UNCHANGED <<researchDurable, process, active, begun, researchDoing>>

ResearchProcessGone ==
  /\ researchPhase' = "down"
  /\ researchStop' = FALSE
  /\ active' = {}
  /\ begun' = {}
  /\ researchDoing' = Nothing
  /\ UNCHANGED <<runs, watch>>

\* Also a start that fails, and a preflight that does.
ResearchCrash ==
  /\ researchPhase # "down"
  /\ ResearchProcessGone
  /\ UNCHANGED researchDurable

\* SIGINT or SIGTERM.
ResearchRequestStop ==
  /\ Waiting
  /\ AtAwait
  /\ ~researchStop
  /\ researchStop' = TRUE
  /\ UNCHANGED <<researchDurable, runs, watch, researchPhase, active, begun, researchDoing>>

-----------------------------------------------------------------------------
(* _finish: the attempt, then the task (and then a summary for readers).   *)

\* verified_for_worker
Accepted(a) == promo[Owner(a)][a[2]] = "published"

FinishAttempt(a, interrupted) ==
  /\ attempts' = [attempts EXCEPT ![Owner(a)][a[2]].status =
       CASE Accepted(a) -> "verified"
         [] ~Accepted(a) /\ interrupted -> "interrupted"
         [] OTHER -> "failed"]
  /\ researchDoing' = [at |-> "finish", attempt |-> a, verified |-> Accepted(a),
               interrupted |-> interrupted]

\* The task record that goes with the attempt being finished.
Outcome(t) ==
  LET failures == IF researchDoing.verified THEN 0
                  ELSE IF researchDoing.interrupted THEN task[t].failures ELSE task[t].failures + 1
  IN  [task[t] EXCEPT
        !.failures = failures,
        !.status = CASE researchDoing.verified -> "verified"
                     [] ~researchDoing.verified /\ (task[t].rounds >= MaxRounds \/ failures >= MaxFailures)
                          -> "blocked"
                     [] OTHER -> "pending"]

FinishTask ==
  /\ researchDoing.at = "finish"
  /\ task' = [task EXCEPT ![Owner(researchDoing.attempt)] = Outcome(Owner(researchDoing.attempt))]
  /\ active' = active \ {researchDoing.attempt}
  /\ begun' = begun \ {researchDoing.attempt}
  /\ researchDoing' = Nothing
  /\ researchPhase' = IF researchPhase = "wait" THEN "woken" ELSE researchPhase
  /\ UNCHANGED <<attempts, promo, process>>

-----------------------------------------------------------------------------
(* recover: the last attempt of every task that was left in the middle.    *)

Latest(t, a) ==
  /\ a \in AttemptsOf(t)
  /\ \A b \in AttemptsOf(t) : Record(b).round <= Record(a).round

Unfinished(t, a) == Latest(t, a) /\ "running" \in {Record(a).status, task[t].status}

\* Mutant: the round of a half-begun attempt is not counted.
RecoverUncounted(t) ==
  /\ researchPhase = "recover"
  /\ researchDoing = Nothing
  /\ \E a \in Attempts :
       /\ Unfinished(t, a)
       /\ researchDoing' = [Nothing EXCEPT !.at = "recovered", !.attempt = a]
  /\ UNCHANGED <<researchDurable, process, researchPhase, active, begun>>

\* The task is given the round of the attempt.
RecoverRounds(t) ==
  /\ researchPhase = "recover"
  /\ researchDoing = Nothing
  /\ \E a \in Attempts :
       /\ Unfinished(t, a)
       /\ task' = [task EXCEPT ![t].rounds = IF @ < Record(a).round
                                             THEN Record(a).round ELSE @]
       /\ researchDoing' = [Nothing EXCEPT !.at = "recovered", !.attempt = a]
  /\ UNCHANGED <<attempts, promo, process, researchPhase, active, begun>>

RecoverAttempt ==
  /\ researchDoing.at = "recovered"
  /\ FinishAttempt(researchDoing.attempt, ~Accepted(researchDoing.attempt))
  /\ UNCHANGED <<task, promo, process, researchPhase, active, begun>>

\* The top of the loop; validate_control raises when the controller has been
\* reconfigured.
LoopTop == researchPhase' \in IF researchStop THEN {"unwind"} ELSE {"fill", "unwind"}

ResearchRecovered ==
  /\ researchPhase = "recover"
  /\ researchDoing = Nothing
  /\ \A t \in Targets, a \in Attempts : ~Unfinished(t, a)
  /\ LoopTop
  /\ UNCHANGED <<researchDurable, process, active, begun, researchDoing>>

-----------------------------------------------------------------------------
(* ResearchEngine.run.                                                     *)

\* Mutant: a target starts when its dependencies are no longer pending.
ReadyEarly(t) ==
  /\ task[t].status = "pending"
  /\ task[t].rounds < MaxRounds
  /\ task[t].failures < MaxFailures
  /\ ~task[t].paused
  /\ \A d \in task[t].deps : task[d].status # "pending"

Ready(t) ==
  /\ task[t].status = "pending"
  /\ task[t].rounds < MaxRounds
  /\ task[t].failures < MaxFailures
  /\ ~task[t].paused
  /\ \A d \in task[t].deps : task[d].status = "verified"

\* The attempt record of _begin, for the first task of the frontier.
BeginAttempt(t) ==
  /\ researchPhase = "fill"
  /\ researchDoing = Nothing
  /\ Cardinality(active) < MaxWorkers
  /\ Ready(t)
  /\ \A u \in Targets : Ready(u) => t <= u
  /\ attempts' = [attempts EXCEPT ![t] = Append(@, [round |-> task[t].rounds + 1,
                                                   status |-> "running"])]
  /\ promo' = [promo EXCEPT ![t] = Append(@, "none")]
  /\ researchDoing' = [Nothing EXCEPT !.at = "begin", !.attempt = <<t, Len(attempts[t]) + 1>>]
  /\ UNCHANGED <<task, process, researchPhase, active, begun>>

\* The task record of _begin, and asyncio.create_task.
BeginTask ==
  /\ researchDoing.at = "begin"
  /\ task' = [task EXCEPT ![Owner(researchDoing.attempt)].status = "running",
                          ![Owner(researchDoing.attempt)].rounds = Record(researchDoing.attempt).round]
  /\ active' = active \cup {researchDoing.attempt}
  /\ researchDoing' = Nothing
  /\ UNCHANGED <<attempts, promo, process, researchPhase, begun>>

\* Mutant: a run is idle only when every target has been verified.
IdleWhenVerified == active = {} /\ \A t \in Targets : task[t].status \in {"none", "verified"}

ResearchIdle == active = {}

\* No slot or no target is left: the end of an idle run, or a wait.
Filled ==
  /\ researchPhase = "fill"
  /\ researchDoing = Nothing
  /\ Cardinality(active) < MaxWorkers => \A t \in Targets : ~Ready(t)
  /\ researchPhase' = IF ResearchIdle /\ ~watch THEN "unwind" ELSE "wait"
  /\ UNCHANGED <<researchDurable, process, active, begun, researchDoing>>

\* A round is done, or a moment has passed in an idle watch.
Wake ==
  /\ AtAwait
  /\ researchPhase = "woken" \/ (researchPhase = "wait" /\ active = {})
  /\ LoopTop
  /\ UNCHANGED <<researchDurable, process, active, begun, researchDoing>>

FirstStep(a) ==
  /\ AtAwait
  /\ a \in active \ begun
  /\ Waiting
  /\ ~researchStop
  /\ begun' = begun \cup {a}
  /\ UNCHANGED <<researchDurable, process, researchPhase, active, researchDoing>>

\* The worker of the round submits.
Submit(a) ==
  /\ AtAwait
  /\ a \in begun
  /\ promo[Owner(a)][a[2]] = "none"
  /\ promo' = [promo EXCEPT ![Owner(a)][a[2]] = "submitted"]
  /\ UNCHANGED <<task, attempts, process, researchPhase, active, begun, researchDoing>>

\* The consumer of the host, or of a controller's between two runs, publishes
\* or quarantines it, now or later.
Promote(a) ==
  /\ AtAwait
  /\ promo[Owner(a)][a[2]] = "submitted"
  /\ \E result \in {"published", "quarantined"} :
       promo' = [promo EXCEPT ![Owner(a)][a[2]] = result]
  /\ UNCHANGED <<task, attempts, process, researchPhase, active, begun, researchDoing>>

\* The executor returns: published, quarantined, nothing submitted, the
\* round's deadline, a timeout, an error.
AttemptEnds(a) ==
  /\ Waiting
  /\ AtAwait
  /\ ~researchStop
  /\ a \in begun
  /\ FinishAttempt(a, FALSE)
  /\ UNCHANGED <<task, promo, process, researchPhase, active, begun>>

\* A stop or the end of the run cancels a round.
AttemptCancelled(a) ==
  /\ AtAwait
  /\ researchStop \/ researchPhase = "unwind"
  /\ a \in begun
  /\ FinishAttempt(a, TRUE)
  /\ UNCHANGED <<task, promo, process, researchPhase, active, begun>>

\* A task cancelled before its first step never reaches its handlers.
CancelUnbegun(a) ==
  /\ AtAwait
  /\ researchStop \/ researchPhase = "unwind"
  /\ a \in active \ begun
  /\ active' = active \ {a}
  /\ researchPhase' = IF researchPhase = "wait" THEN "woken" ELSE researchPhase
  /\ UNCHANGED <<researchDurable, process, begun, researchDoing>>

\* The run's time limit cancels the loop where it waits.
TimeLimit ==
  /\ Waiting
  /\ AtAwait
  /\ researchPhase' = "unwind"
  /\ UNCHANGED <<researchDurable, process, active, begun, researchDoing>>

CloseRun ==
  /\ researchPhase = "unwind"
  /\ AtAwait
  /\ active = {}
  /\ ResearchProcessGone
  /\ UNCHANGED researchDurable

-----------------------------------------------------------------------------
ResearchOperator ==
  \/ \E t \in Targets :
       PauseTask(t) \/ ResumeTask(t) \/ \E deps \in SUBSET Targets : DefineTask(t, deps)
  \/ StartRun
  \/ ResearchRequestStop

Recovery == Opened \/ RecoverAttempt \/ ResearchRecovered \/ \E t \in Targets : RecoverRounds(t)

Engine ==
  \/ FinishTask \/ BeginTask \/ Filled \/ Wake \/ CloseRun
  \/ \E t \in Targets : BeginAttempt(t)
  \/ \E a \in active : FirstStep(a) \/ AttemptEnds(a) \/ AttemptCancelled(a) \/ CancelUnbegun(a)

ResearchWorkers == \E a \in Attempts : Submit(a) \/ Promote(a)

ResearchNext == ResearchOperator \/ Recovery \/ Engine \/ ResearchWorkers \/ TimeLimit \/ ResearchCrash

ResearchSpec == ResearchInit /\ [][ResearchNext]_researchVars

(* The process keeps running; every round is bounded by its timeout.  The  *)
(* start of Lean before the rounds (research/runner.py:85) has none: that  *)
(* it ends is an assumption.                                               *)
ResearchFairness == WF_researchVars(Recovery \/ Engine)
ResearchFairSpec == ResearchSpec /\ ResearchFairness

-----------------------------------------------------------------------------
(* Properties.                                                             *)

\* Every variable has the type of the record or field it stands for.
ResearchTypeOK ==
  /\ task \in [Targets -> [status : {"none", "pending", "running", "verified", "blocked"},
                           deps : SUBSET Targets, rounds : 0..MaxRounds,
                           failures : 0..MaxFailures, paused : BOOLEAN]]
  /\ attempts \in [Targets -> Seq([round : 1..MaxRounds,
                                   status : {"running", "verified", "failed", "interrupted"}])]
  /\ promo \in [Targets -> Seq({"none", "submitted", "published", "quarantined"})]
  /\ researchPhase \in ResearchPhases
  /\ runs \in 0..MaxRuns
  /\ {watch, researchStop} \subseteq BOOLEAN
  /\ active \subseteq Attempts
  /\ begun \subseteq active
  /\ researchDoing \in [at : {"none", "begin", "recovered", "finish"},
                attempt : Attempts \cup {NoAttempt}, verified : BOOLEAN,
                interrupted : BOOLEAN]

\* Once recovery is over, the store says "running" of exactly the rounds
\* that run: one attempt of the task, and it is a task of the event loop.  (A
\* stop may cancel a round before its first step; its records stay "running"
\* until the next start.)
RunningIsActive ==
  Waiting /\ AtAwait /\ ~researchStop =>
    /\ \A a \in Attempts : Record(a).status = "running" <=> a \in active
    /\ \A t \in Targets : task[t].status = "running" <=> \E a \in active : Owner(a) = t
    /\ \A a, b \in active : Owner(a) = Owner(b) => a = b

\* Through crashes between any two writes, every attempt is a round of its
\* own, so that max_rounds bounds what a target may cost.
RoundsAreSpent ==
  \A t \in Targets :
    /\ \A a, b \in AttemptsOf(t) : Record(a).round = Record(b).round => a = b
    /\ Cardinality(AttemptsOf(t)) <= MaxRounds

\* The failures of a task are its failed attempts: what a crash interrupts
\* in the middle of a failure is an interruption in both records.
FailuresAgree ==
  Waiting /\ AtAwait =>
    \A t \in Targets :
      task[t].status \in {"pending", "running", "blocked"} =>
        task[t].failures = Cardinality({a \in AttemptsOf(t) : Record(a).status = "failed"})

\* A target is verified by a publication of one of its own attempts, and
\* worked on only after every dependency has been.
VerifiedByEvidence ==
  \A t \in Targets :
    /\ task[t].status = "verified" => \E a \in AttemptsOf(t) : Accepted(a)
    /\ AttemptsOf(t) # {} => \A d \in task[t].deps : task[d].status = "verified"

\* A run that does not watch, or is told to stop, ends.
RunEnds == (researchPhase # "down" /\ (~watch \/ researchStop)) ~> researchPhase = "down"

\* The workflow guide on restart: recovery settles already-published work
\* without repeating it.
PublishedIsSettled ==
  [][researchPhase = "recover" /\ researchPhase' \notin {"recover", "down"} =>
       \A t \in Targets :
         (\E a \in AttemptsOf(t) : Accepted(a)) => task[t].status = "verified"]_researchVars

\* The record of a target and the records of its attempts agree, through crashes
\* between any two writes of the engine.
RoundsAgree == ResearchTypeOK /\ RoundsAreSpent /\ RunningIsActive /\ FailuresAgree
=============================================================================
