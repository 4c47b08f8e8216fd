----------------------------- MODULE SharedRun -----------------------------
(***************************************************************************)
(* `aizim run`: a run is created, two provers work through the gateway,    *)
(* the promotion consumer publishes what they submit, prover-b builds on   *)
(* what prover-a published, the result is validated, reviewed, completed   *)
(* and sealed into five artifacts.  Runs of one project follow each other  *)
(* and share the publication queue and the published knowledge.            *)
(*                                                                         *)
(* Sources: orchestration/{runner,conductor,worker,worker_gateway,         *)
(* run_validation,codex_auditor,run_failures}.py, modes/evaluation.py and  *)
(* modes/manifest.py.  A promotion is here one claim and one outcome; the  *)
(* modules Promotion and PromotionConsumer have its steps.                 *)
(***************************************************************************)
EXTENDS Naturals, Sequences, FiniteSets, SequencesExt

CONSTANTS
  Backend,         \* "fake" replays the fixtures, "codex" is a model
  SharedMaxRuns,   \* bound: runs of the project
  Slots,           \* resources.max_proof_workers and scratch_slots
  SharedMaxFaults  \* bound: failures of the surroundings and interruptions

ASSUME RunAssumption ==
  /\ Backend \in {"fake", "codex"}
  /\ SharedMaxRuns \in Nat \ {0} /\ Slots \in Nat \ {0} /\ SharedMaxFaults \in Nat

VARIABLES
  sharedRun, sharedPhase, sharedStart,      \* the current run, where its runner is, its first epoch
  log,                    \* the events of every run
  work,                   \* per worker: the execution in progress
  document, accepted,     \* per worker: the leased document, its accepted snippets
  lease, cursor,          \* per worker: the lease is live; the last cursor saved
  script,                 \* per worker: the calls a fixture has left
  queue, deltas,          \* the publication queue and the published deltas
  consumer,               \* the promotion consumer of the host
  error, exit,            \* the first failure of the run and its exit code
  part, labels, trace,    \* the evaluation artifacts
  sharedFaults

workers == <<work, document, accepted, lease, cursor, script>>
knowledge == <<queue, deltas, consumer>>
evidence == <<part, labels, trace>>
sharedVars == <<sharedRun, sharedPhase, sharedStart, log, workers, knowledge, error, exit, evidence, sharedFaults>>

SharedWorkers == {"a", "b"}
SharedIds == SharedWorkers \cup {"other"}
SharedEvent(type, who, ref, n) == [type |-> type, who |-> who, ref |-> ref, epoch |-> n]
Plain(type) == SharedEvent(type, "-", "-", 0)

SharedRecord(event) == log' = [log EXCEPT ![sharedRun] = Append(@, event)]
RecordAll(events) == log' = [log EXCEPT ![sharedRun] = @ \o events]
Recorded(type, who, ref) ==
  \E i \in DOMAIN log[sharedRun] : log[sharedRun][i].type = type /\ log[sharedRun][i].who = who
                             /\ log[sharedRun][i].ref = ref
Has(events, type) == \E i \in DOMAIN events : events[i].type = type

SharedFault == sharedFaults < SharedMaxFaults /\ sharedFaults' = sharedFaults + 1
SharedNoFault == UNCHANGED sharedFaults

SharedRest == [at |-> "idle", round |-> 0, epoch |-> 0, ends |-> "-"]
Blank == [text |-> "sorry", module |-> 0]

SharedInit ==
  /\ sharedRun = 0 /\ sharedPhase = "idle" /\ sharedStart = 0
  /\ log = [r \in 1..SharedMaxRuns |-> <<>>]
  /\ work = [w \in SharedWorkers |-> SharedRest]
  /\ document = [w \in SharedWorkers |-> Blank]
  /\ accepted = [w \in SharedWorkers |-> {}]
  /\ lease = [w \in SharedWorkers |-> FALSE]
  /\ cursor = [w \in SharedWorkers |-> "none"]
  /\ script = [w \in SharedWorkers |-> <<>>]
  /\ queue = <<>> /\ deltas = <<>> /\ consumer = "off"
  /\ error = "none" /\ exit = "none"
  /\ part = 0 /\ labels = [status |-> "running", verdict |-> "-"] /\ trace = <<>>
  /\ sharedFaults = 0

-----------------------------------------------------------------------------
(* _run and run_two_worker up to the first round.                          *)

CreateRun ==
  /\ sharedPhase \in {"idle", "exited"}
  /\ sharedRun < SharedMaxRuns
  /\ sharedRun' = sharedRun + 1
  /\ sharedPhase' = "created"
  /\ sharedStart' = Len(deltas)
  /\ log' = [log EXCEPT ![sharedRun + 1] = <<Plain("RunCreated")>>]
  /\ work' = [w \in SharedWorkers |-> SharedRest]
  /\ cursor' = [w \in SharedWorkers |-> "none"]
  /\ lease' = [w \in SharedWorkers |-> FALSE]
  /\ document' = [w \in SharedWorkers |-> Blank]
  /\ accepted' = [w \in SharedWorkers |-> {}]
  /\ script' = [w \in SharedWorkers |-> <<>>]
  /\ error' = "none" /\ exit' = "none"
  /\ part' = 0 /\ labels' = [status |-> "running", verdict |-> "-"] /\ trace' = <<>>
  /\ UNCHANGED <<knowledge, sharedFaults>>

\* ResourceGovernor.validate raises: a disk floor that is not met, for one.
GovernorRefuses ==
  /\ sharedPhase = "created"
  /\ SharedFault
  /\ sharedPhase' = "exited" /\ exit' = "readiness"
  /\ UNCHANGED <<sharedRun, sharedStart, log, workers, knowledge, error, evidence>>

SharedOpenHost ==
  /\ sharedPhase = "created"
  /\ sharedPhase' = "prewarm"
  /\ consumer' = "waiting"
  /\ UNCHANGED <<sharedRun, sharedStart, log, workers, queue, deltas, error, exit, evidence, sharedFaults>>

SharedOpenHostFails ==
  /\ sharedPhase = "created"
  /\ SharedFault
  /\ SharedRecord(Plain("RunAborted"))
  /\ sharedPhase' = "exited" /\ exit' \in {"authorization", "runtime"}
  /\ UNCHANGED <<sharedRun, sharedStart, workers, knowledge, error, evidence>>

\* Every failure from here on cancels the workers before the run is aborted.
SharedFail(category) ==
  /\ sharedPhase' = "stopping"
  /\ error' = category

PrewarmFails ==
  /\ sharedPhase = "prewarm"
  /\ SharedFault
  /\ SharedFail("runtime")
  /\ UNCHANGED <<sharedRun, sharedStart, log, workers, knowledge, exit, evidence>>

\* PROVER_A_TOOLS, PROVER_B_WAIT_TOOLS and PROVER_B_PROVE_TOOLS.
Tools(w, round) ==
  IF w = "a" THEN {"multi_attempt", "document_apply", "contribution_submit", "knowledge_read"}
  ELSE IF round = 0 THEN {"knowledge_read"}
  ELSE {"document_apply", "contribution_submit"}

\* prover_a.json and prover_b.json; lean.goal changes nothing.
Fixture(w, round) ==
  IF w = "a"
  THEN <<"multi_attempt", "document_apply", "contribution_submit", "knowledge_read">>
  ELSE IF round = 0 THEN <<"knowledge_read">>
  ELSE <<"document_apply", "contribution_submit">>

Actions(w, round) == IF Backend = "fake" THEN Fixture(w, round) ELSE <<>>

\* WorkerRunner.run up to the proof slot, which is one step of the loop.
StartedFrom(n, S, round) ==
  /\ work' = [w \in SharedWorkers |-> IF w \in S
                THEN [at |-> "slot", round |-> round, epoch |-> n, ends |-> "-"]
                ELSE work[w]]
  /\ document' = [w \in SharedWorkers |-> IF w \in S THEN Blank ELSE document[w]]
  /\ accepted' = [w \in SharedWorkers |-> IF w \in S THEN {} ELSE accepted[w]]
  /\ lease' = [w \in SharedWorkers |-> w \in S \/ lease[w]]
  /\ cursor' = [w \in SharedWorkers |-> IF w \in S THEN "live" ELSE cursor[w]]
  /\ script' = [w \in SharedWorkers |-> IF w \in S THEN Actions(w, round) ELSE script[w]]

\* Mutant: every round works on the epoch that the run began with.
StartedAtFirstEpoch(S, round) == StartedFrom(sharedStart, S, round)

\* A round works on the current epoch.
SharedStarted(S, round) == StartedFrom(Len(deltas), S, round)

StartedEvents(order) == [i \in DOMAIN order |-> SharedEvent("WorkerStarted", order[i], "-", 0)]

StartRounds ==
  /\ sharedPhase = "prewarm"
  /\ sharedPhase' = "round0"
  /\ SharedStarted(SharedWorkers, 0)
  /\ RecordAll(StartedEvents(<<"a", "b">>))
  /\ UNCHANGED <<sharedRun, sharedStart, knowledge, error, exit, evidence, sharedFaults>>

\* create_document raises for one of them: it was scheduled and never started.
CreateDocumentFails(w) ==
  /\ sharedPhase = "prewarm"
  /\ SharedFault
  /\ \E other \in SharedWorkers \ {w} :
       /\ SharedStarted({other}, 0)
       /\ RecordAll(StartedEvents(<<other>>))
  /\ SharedFail("authorization")
  /\ UNCHANGED <<sharedRun, sharedStart, knowledge, exit, evidence>>

-----------------------------------------------------------------------------
(* WorkerRunner.run.                                                       *)

InUse == Cardinality({w \in SharedWorkers : work[w].at = "running"})

\* proof_slot: the semaphores serve prover-a, which asked first, first.
TakeSlot(w) ==
  /\ work[w].at = "slot"
  /\ InUse < Slots
  /\ w = "b" => work["a"].at # "slot"
  /\ work' = [work EXCEPT ![w].at = "running"]
  /\ UNCHANGED <<sharedRun, sharedPhase, sharedStart, log, document, accepted, lease, cursor, script, knowledge,
                 error, exit, evidence, sharedFaults>>

\* The execution is over: its events, the terminal cursor, then the release.
Ends(w, events, ends) ==
  /\ RecordAll(events)
  /\ cursor' = [cursor EXCEPT ![w] = "terminal"]
  /\ work' = [work EXCEPT ![w].at = "releasing", ![w].ends = ends]
  /\ UNCHANGED <<sharedRun, sharedPhase, sharedStart, document, accepted, lease, script, knowledge,
                 error, exit, evidence, sharedFaults>>

Stopped(w, reason) == SharedEvent("WorkerStopped", w, reason, 0)
AgentDone(w) == SharedEvent("AgentRunCompleted", w, "-", 0)

BackendSubmits(w) ==
  /\ work[w].at = "running"
  /\ script[w] = <<>>
  /\ Ends(w, <<AgentDone(w), Stopped(w, "COMPLETED")>>, "returned")

\* The agent abstained or failed; a fixture only after a refused call.
BackendFails(w) ==
  /\ work[w].at = "running"
  /\ Backend = "codex"
  /\ Ends(w, <<AgentDone(w), Stopped(w, "BACKEND_FAILED")>>, "failed")

BackendRaises(w) ==
  /\ work[w].at = "running"
  /\ SharedFault
  /\ RecordAll(<<SharedEvent("WorkerCrashed", w, "WORKER_CRASHED", 0)>>)
  /\ cursor' = [cursor EXCEPT ![w] = "terminal"]
  /\ work' = [work EXCEPT ![w].at = "releasing", ![w].ends = "failed"]
  /\ UNCHANGED <<sharedRun, sharedPhase, sharedStart, document, accepted, lease, script, knowledge,
                 error, exit, evidence>>

\* Mutant: the backend is awaited without wait_for.
NeverTimesOut(w) == FALSE /\ UNCHANGED sharedVars

WorkerTimesOut(w) ==
  /\ work[w].at = "running"
  /\ Ends(w, <<SharedEvent("WorkerTimedOut", w, "-", 0), Stopped(w, "WORKER_TIMEOUT")>>, "failed")

\* _run_workers and _race_failure cancel what is still running.
CancelWorker(w) ==
  /\ sharedPhase = "stopping"
  /\ work[w].at \in {"slot", "running"}
  /\ Ends(w, <<SharedEvent("WorkerCrashed", w, "WORKER_CANCELLED", 0)>>, "failed")

\* release_worker_lease is not interrupted; its error replaces a success
\* and is dropped after a failure.
SharedReleaseLease(w) ==
  /\ work[w].at = "releasing"
  /\ \/ /\ SharedNoFault
        /\ lease' = [lease EXCEPT ![w] = FALSE]
        /\ work' = [work EXCEPT ![w].at = work[w].ends]
     \/ /\ SharedFault
        /\ UNCHANGED lease
        /\ work' = [work EXCEPT ![w].at = "failed"]
  /\ UNCHANGED <<sharedRun, sharedPhase, sharedStart, log, document, accepted, cursor, script, knowledge,
                 error, exit, evidence>>

-----------------------------------------------------------------------------
(* WorkerGatewayActions, called by a running backend over its session.     *)

SharedCalls(w, tool) ==
  /\ work[w].at = "running"
  /\ tool \in Tools(w, work[w].round)
  /\ Backend = "fake" => script[w] # <<>> /\ Head(script[w]) = tool

\* A fixture goes on to its next call.
Answered(w) == script' = [script EXCEPT ![w] = IF @ = <<>> THEN @ ELSE Tail(@)]

\* FakeAgentBackend.run stops at the first refused call.
Refused(w) ==
  /\ Backend = "fake"
  /\ script' = [script EXCEPT ![w] = <<>>]
  /\ RecordAll(<<AgentDone(w), Stopped(w, "BACKEND_FAILED")>>)
  /\ cursor' = [cursor EXCEPT ![w] = "terminal"]
  /\ work' = [work EXCEPT ![w].at = "releasing", ![w].ends = "failed"]

Snippets == IF Backend = "fake" THEN {"good"} ELSE {"good", "bad"}

\* multi_attempt: Lean accepts a snippet without diagnostics and in time.
MultiAttempt(w) ==
  /\ SharedCalls(w, "multi_attempt")
  /\ \/ /\ "good" \notin accepted[w]
        /\ accepted' = [accepted EXCEPT ![w] = @ \cup {"good"}]
        /\ Answered(w)
     \/ /\ Backend = "fake"
        /\ UNCHANGED accepted
        /\ Answered(w)
  /\ UNCHANGED <<sharedRun, sharedPhase, sharedStart, log, work, document, lease, cursor, knowledge,
                 error, exit, evidence, sharedFaults>>

\* _acknowledged_module.
Acknowledged(w, n) ==
  \E i \in DOMAIN log[sharedRun] : log[sharedRun][i] = SharedEvent("KnowledgeDeltaAcknowledged", w, "-", n)

\* multi_attempt of this lease accepted the text, or it builds on a module whose
\* delta the worker has acknowledged; one proof marker is left to replace.
Applicable(w, text, module) ==
  /\ text \in accepted[w] \/ module # 0
  /\ module # 0 => Acknowledged(w, module)
  /\ document[w].text = "sorry"
  /\ lease[w]

\* A fixture names the delta the conductor passed to its second round.
Modules(w) ==
  IF Backend = "fake" THEN {IF work[w].round = 1 THEN sharedStart + 1 ELSE 0}
  ELSE {0} \cup DOMAIN deltas

DocumentApply(w, text, module) ==
  /\ SharedCalls(w, "document_apply")
  /\ module \in Modules(w)
  /\ \/ /\ Applicable(w, text, module)
        /\ document' = [document EXCEPT ![w] = [text |-> text, module |-> module]]
        /\ Answered(w)
        /\ UNCHANGED <<log, cursor, work>>
     \/ /\ ~Applicable(w, text, module)
        /\ Refused(w)
        /\ UNCHANGED document
  /\ UNCHANGED <<sharedRun, sharedPhase, sharedStart, accepted, lease, knowledge, error, exit, evidence, sharedFaults>>

\* The id is an argument of the call; a fixture uses the worker's own.
DraftIds(w) == IF Backend = "fake" THEN {w} ELSE SharedIds

Submitted(id) ==
  \E i \in DOMAIN log[sharedRun] : log[sharedRun][i].type = "ContributionSubmitted" /\ log[sharedRun][i].ref = id

\* contribution_submit: the leased document as it stands, with the epoch of
\* its lease; validate_candidate_source refuses one with a sorry in it.
ContributionSubmit(w, id) ==
  /\ SharedCalls(w, "contribution_submit")
  /\ id \in DraftIds(w)
  /\ document[w].text # "sorry" /\ lease[w]
  /\ ~Submitted(id)
  /\ SharedRecord(SharedEvent("ContributionSubmitted", w, id, work[w].epoch))
  /\ queue' = Append(queue, [run |-> sharedRun, by |-> w, id |-> id, epoch |-> work[w].epoch,
                             text |-> document[w].text, module |-> document[w].module,
                             claimed |-> FALSE])
  /\ consumer' = IF consumer = "waiting" THEN "serving" ELSE consumer
  /\ Answered(w)
  /\ UNCHANGED <<sharedRun, sharedPhase, sharedStart, work, document, accepted, lease, cursor, deltas,
                 error, exit, evidence, sharedFaults>>

\* A fixture reads from the epoch of its lease.
ReadFrom(w) == IF Backend = "fake" THEN {work[w].epoch} ELSE {0, work[w].epoch}
Unread(after) == {n \in DOMAIN deltas : n > after}

\* acknowledge knows the deltas among the events of the reader's own run.
Known(n) == deltas[n].run = sharedRun
Acknowledgeable(after) == {n \in Unread(after) : \A m \in Unread(after) : m <= n => Known(m)}
NewlyAcknowledged(w, after) == {n \in Acknowledgeable(after) : ~Acknowledged(w, n)}
Ascending(S) ==
  {order \in [1..Cardinality(S) -> S] : \A i, j \in 1..Cardinality(S) : i < j => order[i] < order[j]}
AcknowledgedEvents(w, order) ==
  [i \in DOMAIN order |-> SharedEvent("KnowledgeDeltaAcknowledged", w, "-", order[i])]

\* knowledge_read with wait: it answers once there is a delta beyond the
\* epoch, each one acknowledged in turn; an unknown one fails the call.
KnowledgeRead(w, after) ==
  /\ SharedCalls(w, "knowledge_read")
  /\ after \in ReadFrom(w)
  /\ Unread(after) # {}
  /\ \/ /\ Acknowledgeable(after) = Unread(after) \/ Backend = "codex"
        /\ Backend = "codex" => NewlyAcknowledged(w, after) # {}
        /\ \E order \in Ascending(NewlyAcknowledged(w, after)) :
             RecordAll(AcknowledgedEvents(w, order))
        /\ Answered(w)
        /\ UNCHANGED <<work, cursor>>
     \/ /\ Acknowledgeable(after) # Unread(after)
        /\ Refused(w)
  /\ UNCHANGED <<sharedRun, sharedPhase, sharedStart, document, accepted, lease, knowledge,
                 error, exit, evidence, sharedFaults>>

-----------------------------------------------------------------------------
(* PromotionConsumer.run of the host.                                      *)

Stale(entry) == entry.epoch # Len(deltas)

\* claim_next gives nothing while another row is claimed.
ClaimNext ==
  /\ consumer = "serving"
  /\ IF queue = <<>> \/ (\E i \in DOMAIN queue : queue[i].claimed)
     THEN consumer' = "waiting" /\ UNCHANGED queue
     ELSE \/ /\ ~Stale(Head(queue))
             /\ queue' = [queue EXCEPT ![1].claimed = TRUE]
             /\ consumer' = "promoting"
          \/ /\ Stale(Head(queue))      \* rebased, which the consumer takes for a failure
             /\ queue' = Append(Tail(queue), [Head(queue) EXCEPT !.id = "rebased",
                                                                 !.epoch = Len(deltas)])
             /\ consumer' = "stale"
  /\ UNCHANGED <<sharedRun, sharedPhase, sharedStart, log, workers, deltas, error, exit, evidence, sharedFaults>>

Publish ==
  /\ consumer = "promoting"
  /\ Head(queue).text = "good"
  /\ deltas' = Append(deltas, [run |-> Head(queue).run, id |-> Head(queue).id])
  /\ log' = [log EXCEPT ![Head(queue).run] =
       Append(@, SharedEvent("DeclarationPublished", "-", Head(queue).id, Len(deltas) + 1))]
  /\ queue' = Tail(queue)
  /\ consumer' = "serving"
  /\ UNCHANGED <<sharedRun, sharedPhase, sharedStart, workers, error, exit, evidence, sharedFaults>>

\* Lean rejects the candidate, or the promotion fails for another reason.
Quarantine ==
  /\ consumer = "promoting"
  /\ \/ Head(queue).text # "good" /\ consumer' = "rejected" /\ SharedNoFault
     \/ Head(queue).text = "good" /\ consumer' = "broken" /\ SharedFault
  /\ queue' = Tail(queue)
  /\ UNCHANGED <<sharedRun, sharedPhase, sharedStart, log, workers, deltas, error, exit, evidence>>

Failed == {"stale", "rejected", "broken"}

\* run_exit_code of the PromotionConsumerError.
FailureCategory ==
  CASE consumer = "stale" -> "authorization"
    [] consumer = "rejected" -> "verification"
    [] OTHER -> "runtime"

-----------------------------------------------------------------------------
(* run_two_worker from the first round to the end of the host.             *)

Hosted == {"prewarm", "round0", "round1", "epoch"}

\* _race_failure and wait_for_epoch raise the failure of the consumer.
ConsumerFails ==
  /\ sharedPhase \in Hosted
  /\ consumer \in Failed
  /\ SharedFail(FailureCategory)
  /\ UNCHANGED <<sharedRun, sharedStart, log, workers, knowledge, exit, evidence, sharedFaults>>

\* run_exit_code of what a failed execution raised: the backend's own error,
\* the release's after a success, a WorkerExecutionError otherwise.
ErrorsOf(w) ==
  IF Recorded("WorkerCrashed", w, "WORKER_CRASHED") THEN {"readiness", "runtime"}
  ELSE IF work[w].ends = "returned" THEN {"authorization"}
  ELSE {"runtime"}

WorkerFails(w) ==
  /\ sharedPhase \in {"round0", "round1"}
  /\ work[w].at = "failed"
  /\ \E category \in ErrorsOf(w) : SharedFail(category)
  /\ UNCHANGED <<sharedRun, sharedStart, log, workers, knowledge, exit, evidence, sharedFaults>>

Interrupt ==
  /\ sharedPhase \in Hosted
  /\ SharedFault
  /\ SharedFail("runtime")
  /\ UNCHANGED <<sharedRun, sharedStart, log, workers, knowledge, exit, evidence>>

\* first_published_delta.
FirstIsProverA ==
  /\ Len(deltas) > sharedStart
  /\ deltas[sharedStart + 1] = [run |-> sharedRun, id |-> "a"]
  /\ Recorded("ContributionSubmitted", "a", "a")

RoundEnds ==
  /\ sharedPhase = "round0"
  /\ consumer \notin Failed
  /\ \A w \in SharedWorkers : work[w].at = "returned"
  /\ IF FirstIsProverA
     THEN /\ sharedPhase' = "round1"
          /\ SharedStarted({"b"}, 1)
          /\ RecordAll(StartedEvents(<<"b">>))
          /\ UNCHANGED error
     ELSE SharedFail("runtime") /\ UNCHANGED <<log, workers>>
  /\ UNCHANGED <<sharedRun, sharedStart, knowledge, exit, evidence, sharedFaults>>

\* create_document raises for the second round, which is never started.
SecondRoundFails ==
  /\ sharedPhase = "round0"
  /\ consumer \notin Failed
  /\ \A w \in SharedWorkers : work[w].at = "returned"
  /\ FirstIsProverA
  /\ SharedFault
  /\ SharedFail("authorization")
  /\ UNCHANGED <<sharedRun, sharedStart, log, workers, knowledge, exit, evidence>>

SecondRoundEnds ==
  /\ sharedPhase = "round1"
  /\ consumer \notin Failed
  /\ work["b"].at = "returned"
  /\ sharedPhase' = "epoch"
  /\ UNCHANGED <<sharedRun, sharedStart, log, workers, knowledge, error, exit, evidence, sharedFaults>>

Declarations == {i \in DOMAIN log[sharedRun] : log[sharedRun][i].type = "DeclarationPublished"}

\* Mutant: the completion is validated by the number of declarations alone.
CompletionCounts == Cardinality(Declarations) = 2

\* validate_shared_completion.
CompletionValid ==
  /\ Len(deltas) = sharedStart + 2
  /\ \E i, j \in Declarations :
       /\ i < j /\ Declarations = {i, j}
       /\ log[sharedRun][i].ref = "a" /\ log[sharedRun][j].ref = "b"
  /\ deltas[sharedStart + 2].id = "b" /\ deltas[sharedStart + 2].run = sharedRun
  /\ Acknowledged("b", sharedStart + 1)

\* Mutant: run_two_worker records the completion that the runner records too.
WaitAndComplete ==
  /\ sharedPhase = "epoch"
  /\ Len(deltas) >= sharedStart + 2
  /\ sharedPhase' = "closing"
  /\ SharedRecord(Plain("RunCompleted"))
  /\ UNCHANGED <<sharedRun, sharedStart, workers, knowledge, error, exit, evidence, sharedFaults>>

WaitForEpoch ==
  /\ sharedPhase = "epoch"
  /\ Len(deltas) >= sharedStart + 2
  /\ IF CompletionValid THEN sharedPhase' = "closing" /\ UNCHANGED error ELSE SharedFail("runtime")
  /\ UNCHANGED <<sharedRun, sharedStart, log, workers, knowledge, exit, evidence, sharedFaults>>

EpochTimesOut ==
  /\ sharedPhase = "epoch"
  /\ SharedFail("runtime")
  /\ UNCHANGED <<sharedRun, sharedStart, log, workers, knowledge, exit, evidence, sharedFaults>>

AbortRun ==
  /\ sharedPhase = "stopping"
  /\ \A w \in SharedWorkers : work[w].at \in {"idle", "returned", "failed"}
  /\ SharedRecord(Plain("RunAborted"))
  /\ sharedPhase' = "closing"
  /\ UNCHANGED <<sharedRun, sharedStart, workers, knowledge, error, exit, evidence, sharedFaults>>

\* host.aclose: the consumer is cancelled wherever it is; the failure of the
\* run is raised again, or else an error or interruption of the closing.
CloseHost ==
  /\ sharedPhase = "closing"
  /\ consumer' = "off"
  /\ \/ /\ error # "none"
        /\ sharedPhase' = "exited" /\ exit' = error /\ SharedNoFault
     \/ /\ error = "none"
        /\ sharedPhase' = "review" /\ UNCHANGED exit /\ SharedNoFault
     \/ /\ error = "none"
        /\ sharedPhase' = "exited" /\ exit' = "runtime" /\ SharedFault
  /\ UNCHANGED <<sharedRun, sharedStart, log, workers, queue, deltas, error, evidence>>

-----------------------------------------------------------------------------
(* The alignment review and the end of the run.                            *)

Verdicts == {"aligned", "misaligned", "inconclusive"}
Reviewed(verdict) == SharedEvent("AlignmentReviewed", "-", verdict, 0)

LastVerdict(events) ==
  LET reviews == {i \in DOMAIN events : events[i].type = "AlignmentReviewed"}
  IN  IF reviews = {} THEN "-"
      ELSE events[CHOOSE i \in reviews : \A j \in reviews : j <= i].ref

\* Mutant: a run that was reviewed passes.
LabelsOfReview(events) ==
  [status |-> IF Has(events, "AlignmentReviewed") THEN "pass" ELSE "aborted",
   verdict |-> LastVerdict(events)]

\* EvaluationPolicy.labels.
LabelsOf(events) ==
  [status |-> IF Has(events, "RunAborted") THEN "aborted"
              ELSE IF Has(events, "RunCompleted") THEN "pass" ELSE "running",
   verdict |-> LastVerdict(events)]

\* The terminal events, then _record_evaluation_artifacts begins.
Conclude(events) ==
  /\ RecordAll(events)
  /\ labels' = LabelsOf(log[sharedRun] \o events)
  /\ sharedPhase' = "artifacts"
  /\ part' = 1
  /\ UNCHANGED <<sharedRun, sharedStart, workers, knowledge, exit, trace>>

FakeReview ==
  /\ sharedPhase = "review" /\ Backend = "fake"
  /\ Conclude(<<Reviewed("aligned"), Plain("RunCompleted")>>)
  /\ UNCHANGED <<error, sharedFaults>>

AuditAlignment(verdict) ==
  /\ sharedPhase = "review" /\ Backend = "codex"
  /\ IF verdict = "aligned"
     THEN Conclude(<<Reviewed(verdict), Plain("RunCompleted")>>) /\ UNCHANGED error
     ELSE /\ Conclude(<<Reviewed(verdict), Plain("RunAborted")>>)
          /\ error' = "verification"
  /\ UNCHANGED sharedFaults

\* The auditor cannot be started, times out or is interrupted.
AuditFails ==
  /\ sharedPhase = "review" /\ Backend = "codex"
  /\ SharedFault
  /\ Conclude(<<Plain("RunAborted")>>)
  /\ error' \in {"readiness", "runtime"}

\* _record_evaluation_artifacts, part by part.
Names == {"run-manifest.json", "alignment-review.json", "formal-trace.jsonl",
          "formal-trace.sha256", "acceptance-report.json"}
Registered(name) == SharedEvent("ArtifactRegistered", "-", name, 0)
Parts == <<
  <<Registered("run-manifest.json")>>,
  <<Registered("alignment-review.json")>>,
  <<Plain("FormalTraceSealed")>>,
  <<Registered("formal-trace.jsonl"), Registered("formal-trace.sha256")>>,
  <<Registered("acceptance-report.json")>> >>
Sealing == 3

RecordPart ==
  /\ sharedPhase = "artifacts"
  /\ part <= Len(Parts)
  /\ RecordAll(Parts[part])
  /\ trace' = IF part = Sealing THEN log[sharedRun] \o Parts[part] ELSE trace
  /\ part' = part + 1
  /\ UNCHANGED <<sharedRun, sharedPhase, sharedStart, workers, knowledge, error, exit, labels, sharedFaults>>

\* write_named_artifact raises: the artifact is not registered.
WriteFails ==
  /\ sharedPhase = "artifacts"
  /\ part <= Len(Parts) /\ part # Sealing
  /\ SharedFault
  /\ sharedPhase' = "exited" /\ exit' = "runtime"
  /\ UNCHANGED <<sharedRun, sharedStart, log, workers, knowledge, error, evidence>>

SharedFinish ==
  /\ sharedPhase = "artifacts"
  /\ part > Len(Parts)
  /\ sharedPhase' = "exited"
  /\ exit' = IF error = "none" THEN "ok" ELSE error
  /\ UNCHANGED <<sharedRun, sharedStart, log, workers, knowledge, error, evidence, sharedFaults>>

-----------------------------------------------------------------------------
Worker(w) ==
  \/ TakeSlot(w) \/ BackendSubmits(w) \/ BackendFails(w) \/ BackendRaises(w)
  \/ WorkerTimesOut(w) \/ CancelWorker(w) \/ SharedReleaseLease(w)

Gateway(w) ==
  \/ MultiAttempt(w)
  \/ \E text \in Snippets, module \in Modules(w) : DocumentApply(w, text, module)
  \/ \E id \in SharedIds : ContributionSubmit(w, id)
  \/ \E after \in ReadFrom(w) : KnowledgeRead(w, after)

Consumer == ClaimNext \/ Publish \/ Quarantine

Conductor ==
  \/ SharedOpenHost \/ ConsumerFails \/ (\E w \in SharedWorkers : WorkerFails(w))
  \/ RoundEnds \/ SecondRoundEnds \/ WaitForEpoch \/ EpochTimesOut \/ AbortRun \/ CloseHost
  \/ FakeReview \/ (\E v \in Verdicts : AuditAlignment(v)) \/ RecordPart \/ SharedFinish

Failing ==
  \/ GovernorRefuses \/ SharedOpenHostFails \/ PrewarmFails
  \/ (\E w \in SharedWorkers : CreateDocumentFails(w)) \/ SecondRoundFails \/ Interrupt \/ AuditFails \/ WriteFails

SharedNext ==
  \/ CreateRun \/ StartRounds \/ Conductor \/ Failing \/ Consumer
  \/ \E w \in SharedWorkers : Worker(w) \/ Gateway(w)

SharedSpec == SharedInit /\ [][SharedNext]_sharedVars

\* The runner goes on where nothing it waits for can last, timers fire and
\* cancelled or finished workers are cleaned up.  A backend need never call or
\* return, and a start of Lean has no timeout (LeanMcpClient.start): the prewarm,
\* which waits for one, need not end, and neither need a promotion.
SharedFairness ==
  /\ WF_sharedVars(Conductor)
  /\ \A w \in SharedWorkers :
       /\ WF_sharedVars(TakeSlot(w)) /\ WF_sharedVars(WorkerTimesOut(w))
       /\ WF_sharedVars(CancelWorker(w)) /\ WF_sharedVars(SharedReleaseLease(w))
SharedFairSpec == SharedSpec /\ SharedFairness

-----------------------------------------------------------------------------
(* Properties.                                                             *)

\* Every variable has its type, and a run has no more executions than slots.
SharedTypeOK ==
  /\ sharedRun \in 0..SharedMaxRuns
  /\ sharedPhase \in Hosted \cup {"idle", "created", "stopping", "closing", "review", "artifacts",
                            "exited"}
  /\ sharedStart \in 0..Len(deltas)
  /\ \A r \in 1..SharedMaxRuns : \A i \in DOMAIN log[r] : log[r][i].epoch \in 0..Len(deltas)
  /\ work \in [SharedWorkers -> [at : {"idle", "slot", "running", "releasing", "returned", "failed"},
                           round : 0..1, epoch : 0..Len(deltas),
                           ends : {"-", "returned", "failed"}]]
  /\ document \in [SharedWorkers -> [text : {"sorry", "good", "bad"}, module : 0..Len(deltas)]]
  /\ lease \in [SharedWorkers -> BOOLEAN]
  /\ cursor \in [SharedWorkers -> {"none", "live", "terminal"}]
  /\ consumer \in {"off", "waiting", "serving", "promoting"} \cup Failed
  /\ InUse <= Slots
  /\ exit \in {"none", "ok", "readiness", "authorization", "verification", "runtime"}

\* Where the first event of a kind stands in the log of the current run.
SharedAt(type, who, ref, n) ==
  {i \in DOMAIN log[sharedRun] : log[sharedRun][i] = SharedEvent(type, who, ref, n)}

\* A run is completed only after prover-a's own contribution was published
\* first, prover-b acknowledged it before submitting its own contribution,
\* that one was published next and the review found them aligned
\* (validate_shared_completion, audit_alignment), and it was never aborted.
CompletedIsEarned ==
  sharedRun > 0 /\ Has(log[sharedRun], "RunCompleted") =>
    /\ ~Has(log[sharedRun], "RunAborted")
    /\ \E i \in SharedAt("ContributionSubmitted", "a", "a", sharedStart),
          j \in SharedAt("DeclarationPublished", "-", "a", sharedStart + 1),
          k \in SharedAt("KnowledgeDeltaAcknowledged", "b", "-", sharedStart + 1),
          l \in SharedAt("ContributionSubmitted", "b", "b", sharedStart + 1),
          m \in SharedAt("DeclarationPublished", "-", "b", sharedStart + 2),
          n \in SharedAt("AlignmentReviewed", "-", "aligned", 0),
          o \in SharedAt("RunCompleted", "-", "-", 0) :
         i < j /\ j < k /\ k < l /\ l < m /\ m < n /\ n < o

\* A run never gets a second verdict: whatever the workers, the auditor and
\* the artifacts do, at most one terminal event is recorded.
OneTerminalEvent ==
  \A r \in 1..SharedMaxRuns :
    Cardinality({i \in DOMAIN log[r] : log[r][i].type \in {"RunCompleted", "RunAborted"}}) <= 1

\* Once the run has its verdict no execution is left: every worker that was
\* started has stopped or crashed as often, and its last cursor is terminal.
WorkersAreSettled ==
  sharedRun > 0 /\ (Has(log[sharedRun], "RunCompleted") \/ Has(log[sharedRun], "RunAborted")) =>
    \A w \in SharedWorkers :
      /\ work[w].at \notin {"slot", "running", "releasing"}
      /\ cursor[w] # "live"
      /\ Cardinality({i \in DOMAIN log[sharedRun] : log[sharedRun][i] = SharedEvent("WorkerStarted", w, "-", 0)})
           = Cardinality({i \in DOMAIN log[sharedRun] :
                            /\ log[sharedRun][i].type \in {"WorkerStopped", "WorkerCrashed"}
                            /\ log[sharedRun][i].who = w})

\* The runbook: "Success includes ... no live leases".  A release that fails
\* takes the success away.
SuccessLeavesNoLease == exit = "ok" => \A w \in SharedWorkers : ~lease[w]

\* The event of the submission that a row of the queue came from, before or after
\* its rebase.
IsSubmissionOf(event, row) ==
  /\ event.type = "ContributionSubmitted" /\ event.who = row.by
  /\ row.id # "rebased" => event.ref = row.id /\ event.epoch = row.epoch

BuildsOnRead(row, events) ==
  /\ row.module <= row.epoch
  /\ \E i, j \in DOMAIN events :
       /\ i < j
       /\ events[i] = SharedEvent("KnowledgeDeltaAcknowledged", row.by, "-", row.module)
       /\ IsSubmissionOf(events[j], row)

\* What was submitted on top of a published module was written by a worker that
\* had read of it: it acknowledged the delta before it submitted, and the epoch of
\* its lease counts the delta, so that the import is part of the project against
\* which the submission is verified, whichever round, rebase or later run the row
\* of the queue has gone through (document_apply, contribution_submit).
SubmissionBuildsOnRead ==
  \A q \in DOMAIN queue : queue[q].module # 0 => BuildsOnRead(queue[q], log[queue[q].run])

\* The five artifacts agree with each other and with the log: the trace is
\* the log up to its seal, with the verdict in it that the labels report.
EvidenceAgrees ==
  sharedPhase = "artifacts" /\ part > Sealing =>
    /\ Last(trace) = Plain("FormalTraceSealed")
    /\ IsPrefix(trace, log[sharedRun])
    /\ labels.status = (IF Has(trace, "RunCompleted") THEN "pass" ELSE "aborted")
    /\ labels.status = "pass" <=> labels.verdict = "aligned"

\* Exit code 0 is returned exactly for a completed run with all artifacts.
AllRegistered == \A name \in Names : Has(log[sharedRun], "ArtifactRegistered")
                                     /\ \E i \in DOMAIN log[sharedRun] : log[sharedRun][i] = Registered(name)
ExitTellsTheTruth ==
  sharedPhase = "exited" => (exit = "ok" <=> Has(log[sharedRun], "RunCompleted") /\ AllRegistered)

\* Every run that was created exits, unless Lean never finishes starting in its
\* prewarm: the timeouts of the workers, of the epoch and of the auditor bound what
\* the backends, the promotions and Lean may take in all the rest of it.
PrewarmHangs == [](sharedPhase = "prewarm")
SharedRunEnds ==
  \A r \in 1..SharedMaxRuns :
    (sharedRun = r /\ sharedPhase = "created") ~> (sharedPhase = "exited" \/ PrewarmHangs)

\* What a run leaves behind tells how it went, whichever step of it failed: one
\* verdict, no execution under way, no lease after a success, and an exit code and
\* artifacts that say the same (_run_shared_lean, _finish).
RunIsSettled ==
  /\ SharedTypeOK
  /\ OneTerminalEvent /\ WorkersAreSettled /\ SuccessLeavesNoLease
  /\ ExitTellsTheTruth /\ EvidenceAgrees
=============================================================================
