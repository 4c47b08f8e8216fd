---------------------------- MODULE SharedRunProofs ----------------------------
(***************************************************************************)
(* For any number of runs, slots and failures, with the fixtures or with a *)
(* model: a run is completed only if it was earned, a submission builds on *)
(* what its worker had read, and what a run leaves behind tells how it     *)
(* went.                                                                   *)
(*                                                                         *)
(* The order that a completion needs is spread over the log.  The history  *)
(* says who may have written each of its events: a submission has the      *)
(* epoch of its lease, prover-a's lease is older than the first delta of   *)
(* the run and prover-b's second one younger, a declaration takes the      *)
(* epoch after that of its submission, and an acknowledgement comes after  *)
(* its declaration.  What validate_shared_completion looks at then leaves  *)
(* one order only.                                                         *)
(*                                                                         *)
(* The many actions come in a few forms, named below, so that a lemma has  *)
(* to look at an append, an end or a start once.                           *)
(***************************************************************************)
EXTENDS SharedRun, FiniteSetTheorems, TLAPS

\* The log of the current run.
L == log[sharedRun]
\* The types of events, who they name and what they refer to.
Types ==
  {"RunCreated", "RunAborted", "RunCompleted", "WorkerStarted", "WorkerStopped", "WorkerCrashed",
   "WorkerTimedOut", "AgentRunCompleted", "ContributionSubmitted", "KnowledgeDeltaAcknowledged",
   "DeclarationPublished", "AlignmentReviewed", "ArtifactRegistered", "FormalTraceSealed"}
Whos == SharedWorkers \cup {"-"}
Reasons == {"COMPLETED", "BACKEND_FAILED", "WORKER_CRASHED", "WORKER_TIMEOUT", "WORKER_CANCELLED"}
Ids == SharedIds \cup {"rebased"}
Refs == Ids \cup Reasons \cup Names \cup Verdicts \cup {"-"}
\* The events, the entries of the queue, the deltas and the executions.
EventRecord == [type : Types, who : Whos, ref : Refs, epoch : Nat]
QueueEntry ==
  [run : 1..SharedMaxRuns, by : SharedWorkers, id : Ids, epoch : Nat, text : {"good", "bad"}, module : Nat,
   claimed : BOOLEAN]
Delta == [run : 1..SharedMaxRuns, id : Ids]
Ats == {"idle", "slot", "running", "releasing", "returned", "failed"}
Execution == [at : Ats, round : 0..1, epoch : Nat, ends : {"-", "returned", "failed"}]
\* The categories of an exit code, and the phases of a runner.
Categories == {"readiness", "authorization", "verification", "runtime"}
Phases == Hosted \cup {"idle", "created", "stopping", "closing", "review", "artifacts", "exited"}

\* Every variable has its type.
Typed ==
  /\ sharedRun \in 0..SharedMaxRuns
  /\ sharedPhase \in Phases
  /\ sharedRun = 0 <=> sharedPhase = "idle"
  /\ sharedStart \in Nat
  /\ log \in [1..SharedMaxRuns -> Seq(EventRecord)]
  /\ deltas \in Seq(Delta)
  /\ queue \in Seq(QueueEntry)
  /\ work \in [SharedWorkers -> Execution]
  /\ document \in [SharedWorkers -> [text : {"sorry", "good", "bad"}, module : Nat]]
  /\ accepted \in [SharedWorkers -> SUBSET {"good"}]
  /\ lease \in [SharedWorkers -> BOOLEAN]
  /\ cursor \in [SharedWorkers -> {"none", "live", "terminal"}]
  /\ consumer \in {"off", "waiting", "serving", "promoting"} \cup Failed
  /\ error \in {"none"} \cup Categories
  /\ exit \in {"none", "ok"} \cup Categories
  /\ part \in 0..6
  /\ trace \in Seq(EventRecord)

\* No epoch is ahead of the published deltas, and the entry that is being
\* promoted has the present one (claim_next).
Bounded ==
  /\ sharedStart <= Len(deltas)
  /\ \A r \in 1..SharedMaxRuns : \A i \in DOMAIN log[r] : log[r][i].epoch <= Len(deltas)
  /\ \A w \in SharedWorkers : work[w].epoch <= Len(deltas) /\ document[w].module <= Len(deltas)
  /\ \A i \in DOMAIN queue : queue[i].epoch <= Len(deltas)
  /\ consumer = "promoting" => queue # <<>> /\ Head(queue).epoch = Len(deltas)

\* Every execution of the run has returned.
Returned == \A w \in SharedWorkers : work[w].at = "returned"

\* Where an execution is goes with its cursor, its lease and the phase of the
\* runner, and the phase with the error, the exit code and the consumer.
WorkerInv ==
  /\ \A w \in SharedWorkers :
       /\ work[w].at \in {"slot", "running"} <=> cursor[w] = "live"
       /\ work[w].at \in {"idle", "returned"} => ~lease[w]
       /\ work[w].at = "releasing" => work[w].ends \in {"returned", "failed"}
  /\ sharedPhase \in {"idle", "created", "prewarm"} => \A w \in SharedWorkers : work[w].at = "idle"
  /\ sharedPhase \in {"closing", "review", "artifacts", "exited"} =>
       \A w \in SharedWorkers : work[w].at \notin {"slot", "running", "releasing"}
  /\ sharedPhase \in {"epoch", "review", "artifacts"} \/ (sharedPhase = "closing" /\ error = "none") => Returned
  /\ sharedPhase = "round1" => work["a"].at = "returned"
  /\ sharedPhase \in {"idle", "created", "prewarm", "round0", "round1", "epoch", "review"} => error = "none"
  /\ sharedPhase = "stopping" => error # "none"
  /\ exit = "none" <=> sharedPhase # "exited"
  /\ exit = "ok" => Returned
  /\ sharedPhase \in {"idle", "created", "review", "artifacts", "exited"} => consumer = "off"

\* Where a worker was started and where it was stopped.
StartsOf(w) == {i \in DOMAIN L : L[i] = SharedEvent("WorkerStarted", w, "-", 0)}
StopsOf(w) == {i \in DOMAIN L : L[i].type \in {"WorkerStopped", "WorkerCrashed"} /\ L[i].who = w}
\* A worker was stopped as often as it was started, but for the execution that
\* goes on.
CountInv ==
  sharedRun > 0 => \A w \in SharedWorkers :
    Cardinality(StartsOf(w)) = Cardinality(StopsOf(w)) + (IF work[w].at \in {"slot", "running"} THEN 1 ELSE 0)

\* The verdict in the log of the current run.
Completed == Has(L, "RunCompleted")
Aborted == Has(L, "RunAborted")
\* The terminal events of a run.
Terminal(r) == {i \in DOMAIN log[r] : log[r][i].type \in {"RunCompleted", "RunAborted"}}
\* An event that the current run has recorded, and the last one it registers.
InLog(event) == \E i \in DOMAIN L : L[i] = event
Report == Registered("acceptance-report.json")

\* When the verdict is there: never before the host has closed but as an abort,
\* at most once, with the labels, the artifacts and the exit code that follow
\* it (run_two_worker, audit_alignment, _record_evaluation_artifacts).
VerdictInv ==
  /\ \A r \in 1..SharedMaxRuns : \A i, j \in Terminal(r) : i = j
  /\ sharedPhase \in {"created", "prewarm", "round0", "round1", "epoch", "stopping", "review"}
       \/ (sharedPhase = "closing" /\ error = "none") =>
       Terminal(sharedRun) = {}
  /\ sharedPhase \in {"created", "prewarm", "round0", "round1", "epoch", "stopping", "closing", "review"} =>
       ~Has(L, "RunCompleted") /\ ~Has(L, "AlignmentReviewed") /\ ~InLog(Report)
  /\ sharedPhase = "artifacts" =>
       /\ error = "none" <=> Completed
       /\ Completed <=> ~Aborted
       /\ labels.status = (IF Completed THEN "pass" ELSE "aborted")
       /\ labels.verdict = "aligned" <=> Completed
       /\ part \in 1..6
       /\ part > 1 => InLog(Registered("run-manifest.json"))
       /\ part > 2 => InLog(Registered("alignment-review.json"))
       /\ part > 4 => InLog(Registered("formal-trace.jsonl")) /\ InLog(Registered("formal-trace.sha256"))
       /\ part > 5 <=> InLog(Report)
       /\ part > 3 => /\ trace # <<>> /\ Last(trace) = Plain("FormalTraceSealed")
                      /\ IsPrefix(trace, L)
                      /\ Has(trace, "RunCompleted") <=> Completed
  /\ sharedPhase = "exited" => (exit = "ok" <=> Completed /\ InLog(Report))
  /\ sharedPhase = "exited" /\ InLog(Report) => AllRegistered

\* Three kinds of events that the history of a run is made of.
IsDeclared(event) == event.type = "DeclarationPublished"
IsSubmission(event) == event.type = "ContributionSubmitted"
IsAcknowledged(event) == event.type = "KnowledgeDeltaAcknowledged"

\* The deltas up to the start are of earlier runs, a queue entry is of no later
\* run, and prover-a's lease is older than what this run publishes while
\* prover-b's second one is younger.
DeltaInv ==
  /\ \A n \in DOMAIN deltas : deltas[n].run <= sharedRun /\ (n <= sharedStart => deltas[n].run < sharedRun)
  /\ \A q \in DOMAIN queue : queue[q].run <= sharedRun
  /\ sharedPhase \in {"created", "prewarm"} =>
       /\ \A n \in DOMAIN deltas : deltas[n].run < sharedRun
       /\ \A q \in DOMAIN queue : queue[q].run < sharedRun
       /\ \A i \in DOMAIN L : ~IsSubmission(L[i])
       /\ work["b"].round = 0
  /\ work["a"].at # "idle" => \A n \in 1..work["a"].epoch : deltas[n].run < sharedRun
  /\ work["b"].round = 1 => work["b"].epoch > sharedStart

\* A declaration has its delta, and its submission is before it with the epoch
\* before it.
DeclaredIsPublished ==
  \A i \in DOMAIN L : IsDeclared(L[i]) =>
       /\ L[i].epoch \in DOMAIN deltas /\ deltas[L[i].epoch] = [run |-> sharedRun, id |-> L[i].ref]
       /\ L[i].who = "-"
       /\ L[i].ref # "rebased" => \E l \in 1..(i - 1) : \E w \in SharedWorkers :
            L[l] = SharedEvent("ContributionSubmitted", w, L[i].ref, L[i].epoch - 1)
\* The declarations of a run are in the order of their epochs.
DeclaredInOrder ==
  \A i, j \in DOMAIN L : i < j /\ IsDeclared(L[i]) /\ IsDeclared(L[j]) => L[i].epoch < L[j].epoch
\* What the run has published is declared in its log.
PublishedIsDeclared ==
  \A n \in DOMAIN deltas : deltas[n].run = sharedRun => InLog(SharedEvent("DeclarationPublished", "-", deltas[n].id, n))
\* What the run has in the queue was submitted by one of its workers.
QueuedIsSubmitted ==
  \A q \in DOMAIN queue : queue[q].run = sharedRun /\ queue[q].id # "rebased" =>
       \E w \in SharedWorkers : InLog(SharedEvent("ContributionSubmitted", w, queue[q].id, queue[q].epoch))
\* prover-a submits from before anything was published in this run, prover-b
\* from after the first delta and in its second round.
SubmissionEpochs ==
  \A l \in DOMAIN L : IsSubmission(L[l]) =>
       /\ L[l].who \in SharedWorkers
       /\ L[l].who = "a" => \A n \in 1..L[l].epoch : deltas[n].run < sharedRun
       /\ L[l].who = "b" => L[l].epoch > sharedStart /\ work["b"].round = 1
\* What was acknowledged had been declared.
AcknowledgedIsDeclared ==
  \A k \in DOMAIN L : IsAcknowledged(L[k]) => \E j \in 1..(k - 1) : IsDeclared(L[j]) /\ L[j].epoch = L[k].epoch
\* prover-b submits after all that it acknowledges: in its second round it has
\* no tool to read with (PROVER_B_PROVE_TOOLS).
AcknowledgedFirst ==
  \A k, l \in DOMAIN L : IsAcknowledged(L[k]) /\ L[k].who = "b" /\ IsSubmission(L[l]) /\ L[l].who = "b" => k < l
\* The history of the current run.
HistoryInv ==
  sharedRun > 0 =>
    /\ DeclaredIsPublished /\ DeclaredInOrder /\ PublishedIsDeclared /\ QueuedIsSubmitted
    /\ SubmissionEpochs /\ AcknowledgedIsDeclared /\ AcknowledgedFirst

\* prover-a submitted and was published, prover-b acknowledged it, submitted
\* and was published.
PublishedInTurn ==
  \E i \in SharedAt("ContributionSubmitted", "a", "a", sharedStart),
     j \in SharedAt("DeclarationPublished", "-", "a", sharedStart + 1),
     k \in SharedAt("KnowledgeDeltaAcknowledged", "b", "-", sharedStart + 1),
     l \in SharedAt("ContributionSubmitted", "b", "b", sharedStart + 1),
     m \in SharedAt("DeclarationPublished", "-", "b", sharedStart + 2) :
    i < j /\ j < k /\ k < l /\ l < m

\* A run under review has published in turn.
EarnedInv ==
  /\ sharedPhase = "review" \/ (sharedPhase = "closing" /\ error = "none") => PublishedInTurn
  /\ CompletedIsEarned

\* prover-a works without an import: it has no text before it applies one, which
\* is before anything of this run is published and acknowledged.
AppliedFirst ==
  /\ document["a"].text = "sorry" =>
       /\ \A n \in DOMAIN deltas : deltas[n].run < sharedRun
       /\ \A q \in DOMAIN queue : queue[q].run < sharedRun
  /\ work["b"].round = 1 => document["a"].text # "sorry"
  /\ document["a"].module = 0
\* prover-b's second lease counts all that it has acknowledged.
ReadIsCounted ==
  work["b"].round = 1 =>
    \A k \in DOMAIN L : IsAcknowledged(L[k]) /\ L[k].who = "b" => L[k].epoch <= work["b"].epoch
\* What prover-b's document imports was acknowledged and is counted.
ImportIsRead ==
  document["b"].module # 0 =>
    document["b"].module <= work["b"].epoch /\ Acknowledged("b", document["b"].module)
\* What is submitted on top of a module was written by a worker that read of it.
ImportInv == AppliedFirst /\ ReadIsCounted /\ ImportIsRead /\ SubmissionBuildsOnRead

\* The inductive invariant.
SharedIInv ==
  /\ Typed /\ Bounded /\ WorkerInv /\ CountInv /\ VerdictInv /\ InUse <= Slots
  /\ DeltaInv /\ HistoryInv /\ EarnedInv /\ ImportInv

-----------------------------------------------------------------------------
\* The names that occur in events.
LEMMA NamesOfEvents ==
  /\ {"RunCreated", "RunAborted", "RunCompleted", "WorkerStarted", "WorkerStopped", "WorkerCrashed"} \subseteq Types
  /\ {"WorkerTimedOut", "AgentRunCompleted", "ContributionSubmitted", "KnowledgeDeltaAcknowledged"} \subseteq Types
  /\ {"DeclarationPublished", "AlignmentReviewed", "ArtifactRegistered", "FormalTraceSealed"} \subseteq Types
  /\ SharedWorkers \subseteq Whos /\ "-" \in Whos
  /\ {"-", "rebased"} \subseteq Refs /\ Reasons \subseteq Refs
  /\ SharedIds \subseteq Refs /\ Names \subseteq Refs /\ Verdicts \subseteq Refs
  BY DEF Types, Whos, Refs, Ids

\* An event is one of the records that a log may hold.
LEMMA EventsAreRecords ==
  ASSUME NEW type \in Types, NEW who \in Whos, NEW ref \in Refs, NEW n \in Nat
  PROVE  /\ SharedEvent(type, who, ref, n) \in EventRecord
         /\ SharedEvent(type, who, ref, n).type = type /\ SharedEvent(type, who, ref, n).who = who
         /\ SharedEvent(type, who, ref, n).ref = ref /\ SharedEvent(type, who, ref, n).epoch = n
  BY DEF SharedEvent, EventRecord

\* What an append to the log of the current run does to it.
LEMMA Appended ==
  ASSUME Typed, sharedRun # 0, UNCHANGED sharedRun, NEW events \in Seq(EventRecord), RecordAll(events)
  PROVE  /\ log' \in [1..SharedMaxRuns -> Seq(EventRecord)]
         /\ L \in Seq(EventRecord) /\ L' \in Seq(EventRecord) /\ Len(L) \in Nat /\ Len(events) \in Nat
         /\ Len(L') = Len(L) + Len(events)
         /\ L' = L \o events
         /\ \A i \in 1..Len(L) : L'[i] = L[i]
         /\ \A i \in 1..Len(events) : L'[Len(L) + i] = events[i]
         /\ \A i \in 1..Len(L') : i \in 1..Len(L) \/
              (i > Len(L) /\ i - Len(L) \in 1..Len(events) /\ L'[i] = events[i - Len(L)])
         /\ \A r \in 1..SharedMaxRuns : r # sharedRun => log'[r] = log[r]
<1>1. log \in [1..SharedMaxRuns -> Seq(EventRecord)] /\ sharedRun \in 1..SharedMaxRuns
  BY RunAssumption DEF Typed
<1>2. L \in Seq(EventRecord) /\ Len(L) \in Nat /\ Len(events) \in Nat
  BY <1>1 DEF L
<1> DEFINE new == L \o events
<1>3. log' = [log EXCEPT ![sharedRun] = new]
  BY Zenon DEF RecordAll, L
<1>4. /\ new \in Seq(EventRecord) /\ Len(new) = Len(L) + Len(events)
      /\ \A i \in 1..Len(L) : new[i] = L[i]
      /\ \A i \in 1..Len(events) : new[Len(L) + i] = events[i]
      /\ \A i \in 1..Len(new) : i \in 1..Len(L) \/
           (i > Len(L) /\ i - Len(L) \in 1..Len(events) /\ new[i] = events[i - Len(L)])
  BY <1>2
<1> HIDE DEF new
<1>5. L' = new /\ log' \in [1..SharedMaxRuns -> Seq(EventRecord)]
      /\ \A r \in 1..SharedMaxRuns : r # sharedRun => log'[r] = log[r]
  BY <1>1, <1>3, <1>4 DEF L
<1> QED
  BY <1>2, <1>4, <1>5 DEF new

\* One event that is recorded is a sequence of events.
LEMMA OneAppended ==
  ASSUME Typed, sharedRun # 0, NEW event \in EventRecord, SharedRecord(event)
  PROVE  \E events \in Seq(EventRecord) : events = <<event>> /\ RecordAll(events)
<1>1. L \in Seq(EventRecord)
  BY RunAssumption DEF Typed, L
<1>2. PICK events \in Seq(EventRecord) : events = <<event>>
  <2>1. <<event>> \in Seq(EventRecord)
    OBVIOUS
  <2> QED
    BY <2>1
<1>3. Append(L, event) = L \o events
  BY <1>1, <1>2
<1>4. RecordAll(events)
  BY <1>3 DEF SharedRecord, RecordAll, L
<1> QED
  BY <1>2, <1>4

-----------------------------------------------------------------------------
(* The forms of a step.                                                    *)

\* An execution is over.
EndEvents(w) ==
  {events \in Seq(EventRecord) :
     /\ Len(events) > 0
     /\ \A i \in 1..Len(events) : events[i].epoch = 0
     /\ events[Len(events)].type \in {"WorkerStopped", "WorkerCrashed"} /\ events[Len(events)].who = w
     /\ \A i \in 1..Len(events) - 1 : events[i].type \in {"AgentRunCompleted", "WorkerTimedOut"}}

\* The same for whatever ends an execution: a result, a failure, a timeout, a
\* cancellation or a refused call.
EndStep(w) ==
  /\ work[w].at \in {"slot", "running"}
  /\ \E events \in EndEvents(w) : RecordAll(events)
  /\ cursor' = [cursor EXCEPT ![w] = "terminal"]
  /\ \E ends \in {"returned", "failed"} : work' = [work EXCEPT ![w].at = "releasing", ![w].ends = ends]
  /\ UNCHANGED <<sharedRun, sharedPhase, sharedStart, document, accepted, lease, knowledge, error, exit, evidence>>

\* Executions begin.
StartStep(S, round) ==
  /\ S \subseteq SharedWorkers
  /\ SharedStarted(S, round)
  /\ \E order \in {<<"a", "b">>, <<"a">>, <<"b">>} :
       S = {order[i] : i \in DOMAIN order} /\ RecordAll(StartedEvents(order))
  /\ UNCHANGED <<sharedRun, sharedStart, knowledge, exit, evidence>>
  /\ \/ /\ sharedPhase = "prewarm" /\ round = 0
        /\ \/ sharedPhase' = "round0" /\ UNCHANGED error
           \/ sharedPhase' = "stopping" /\ error' = "authorization"
     \/ /\ sharedPhase = "round0" /\ sharedPhase' = "round1" /\ round = 1 /\ S = {"b"}
        /\ Returned /\ Len(deltas) > sharedStart /\ deltas[sharedStart + 1].run = sharedRun
        /\ UNCHANGED error

\* A terminal event, the review or a part of the artifacts.
BookStep ==
  \/ SharedOpenHostFails \/ AbortRun \/ FakeReview \/ (\E v \in Verdicts : AuditAlignment(v)) \/ AuditFails
  \/ RecordPart

ReadStep(w, after) ==
  /\ SharedCalls(w, "knowledge_read")
  /\ \E order \in Ascending(NewlyAcknowledged(w, after)) : RecordAll(AcknowledgedEvents(w, order))
  /\ Answered(w)
  /\ UNCHANGED <<sharedRun, sharedPhase, sharedStart, work, cursor, document, accepted, lease, knowledge,
                 error, exit, evidence, sharedFaults>>

SubmitStep == \E w \in SharedWorkers, id \in SharedIds : ContributionSubmit(w, id)

PhaseStep ==
  \/ GovernorRefuses \/ SharedOpenHost \/ PrewarmFails \/ ConsumerFails \/ Interrupt
  \/ (\E w \in SharedWorkers : WorkerFails(w))
  \/ (RoundEnds /\ ~FirstIsProverA) \/ SecondRoundFails \/ SecondRoundEnds \/ WaitForEpoch \/ EpochTimesOut
  \/ CloseHost \/ WriteFails \/ SharedFinish

ApplyStep(w, text, module) ==
  /\ SharedCalls(w, "document_apply")
  /\ module \in Modules(w) /\ Applicable(w, text, module)
  /\ document' = [document EXCEPT ![w] = [text |-> text, module |-> module]]
  /\ UNCHANGED <<sharedRun, sharedPhase, sharedStart, log, work, accepted, lease, cursor, knowledge,
                 error, exit, evidence, sharedFaults>>

WorkStep ==
  \E w \in SharedWorkers :
    \/ TakeSlot(w) \/ SharedReleaseLease(w) \/ MultiAttempt(w)
    \/ \E text \in Snippets, module \in Nat : ApplyStep(w, text, module)

\* The steps of the promotion consumer that publish nothing.
QueueStep == ClaimNext \/ Quarantine

\* The forms that the steps of a run have.
Forms ==
  \/ CreateRun \/ BookStep \/ SubmitStep \/ Publish \/ PhaseStep \/ WorkStep \/ QueueStep
  \/ \E w \in SharedWorkers : EndStep(w) \/ \E after \in Nat : ReadStep(w, after)
  \/ \E S \in SUBSET SharedWorkers, round \in 0..1 : StartStep(S, round)

\* The events an execution may end with.
LEMMA EndEventsAre ==
  ASSUME NEW w \in SharedWorkers, NEW reason \in Reasons
  PROVE  /\ <<AgentDone(w), Stopped(w, reason)>> \in EndEvents(w)
         /\ <<SharedEvent("WorkerTimedOut", w, "-", 0), Stopped(w, reason)>> \in EndEvents(w)
         /\ <<SharedEvent("WorkerCrashed", w, reason, 0)>> \in EndEvents(w)
<1>1. /\ w \in Whos /\ reason \in Refs /\ "-" \in Refs
      /\ {"AgentRunCompleted", "WorkerStopped", "WorkerTimedOut", "WorkerCrashed"} \subseteq Types
  BY NamesOfEvents
<1>2. /\ AgentDone(w) \in EventRecord /\ AgentDone(w).type = "AgentRunCompleted"
      /\ Stopped(w, reason) \in EventRecord /\ Stopped(w, reason).type = "WorkerStopped" /\ Stopped(w, reason).who = w
      /\ AgentDone(w).epoch = 0 /\ Stopped(w, reason).epoch = 0
      /\ SharedEvent("WorkerTimedOut", w, "-", 0).epoch = 0 /\ SharedEvent("WorkerCrashed", w, reason, 0).epoch = 0
      /\ SharedEvent("WorkerTimedOut", w, "-", 0) \in EventRecord
      /\ SharedEvent("WorkerTimedOut", w, "-", 0).type = "WorkerTimedOut"
      /\ SharedEvent("WorkerCrashed", w, reason, 0) \in EventRecord
      /\ SharedEvent("WorkerCrashed", w, reason, 0).type = "WorkerCrashed"
      /\ SharedEvent("WorkerCrashed", w, reason, 0).who = w
  BY <1>1, EventsAreRecords DEF AgentDone, Stopped
<1> QED
  BY <1>2 DEF EndEvents

\* A refused call of a fixture ends the execution.
LEMMA RefusedEnds ==
  ASSUME NEW w \in SharedWorkers, work[w].at = "running", Refused(w),
         UNCHANGED <<sharedRun, sharedPhase, sharedStart, document, accepted, lease, knowledge,
                     error, exit, evidence, sharedFaults>>
  PROVE  EndStep(w)
<1>1. <<AgentDone(w), Stopped(w, "BACKEND_FAILED")>> \in EndEvents(w)
  BY EndEventsAre DEF Reasons
<1> QED
  BY <1>1 DEF EndStep, Refused

\* The ways in which WorkerRunner.run ends.
LEMMA WorkerEndsStep ==
  ASSUME NEW w \in SharedWorkers,
         BackendSubmits(w) \/ BackendFails(w) \/ BackendRaises(w) \/ WorkerTimesOut(w) \/ CancelWorker(w)
  PROVE  EndStep(w)
<1>1. \A reason \in Reasons : 
        /\ <<AgentDone(w), Stopped(w, reason)>> \in EndEvents(w)
        /\ <<SharedEvent("WorkerTimedOut", w, "-", 0), Stopped(w, reason)>> \in EndEvents(w)
        /\ <<SharedEvent("WorkerCrashed", w, reason, 0)>> \in EndEvents(w)
  BY EndEventsAre, Zenon
<1> DEFINE Named == {"COMPLETED", "BACKEND_FAILED", "WORKER_CRASHED", "WORKER_TIMEOUT", "WORKER_CANCELLED"} \subseteq Reasons
<1>2. Named
  BY DEF Reasons
<1>3. CASE BackendSubmits(w) \/ BackendFails(w)
  BY <1>1, <1>2, <1>3 DEF BackendSubmits, BackendFails, Ends, EndStep, knowledge, evidence
<1>4. CASE BackendRaises(w)
  BY <1>1, <1>2, <1>4 DEF BackendRaises, EndStep, knowledge, evidence
<1>5. CASE WorkerTimesOut(w)
  BY <1>1, <1>2, <1>5 DEF WorkerTimesOut, Ends, EndStep, knowledge, evidence
<1>6. CASE CancelWorker(w)
  BY <1>1, <1>2, <1>6 DEF CancelWorker, Ends, EndStep, knowledge, evidence
<1> QED
  BY <1>3, <1>4, <1>5, <1>6

\* The calls of a worker over its session: an answer or an end.
LEMMA GatewaySteps ==
  ASSUME Typed, NEW w \in SharedWorkers, Gateway(w)
  PROVE  Forms
<1>1. CASE MultiAttempt(w)
  BY <1>1, Zenon DEF Forms, WorkStep
<1>2. CASE \E text \in Snippets, module \in Modules(w) : DocumentApply(w, text, module)
  <2>1. PICK text \in Snippets, module \in Modules(w) : DocumentApply(w, text, module)
    BY <1>2
  <2>2. module \in Nat /\ Len(deltas) \in Nat
    <3>1. Modules(w) \subseteq Nat
      BY DEF Modules, Typed
    <3> QED
      BY <2>1, <3>1 DEF Typed
  <2>3. CASE Applicable(w, text, module)
    <3>1. CASE UNCHANGED <<log, cursor, work>>
      <4>1. ApplyStep(w, text, module)
        BY <2>1, <2>3, <3>1 DEF DocumentApply, ApplyStep
      <4> QED
        BY <2>2, <4>1, Zenon DEF Forms, WorkStep
    <3> QED
      BY <2>1, <2>3, <3>1, Zenon DEF DocumentApply
  <2>4. CASE ~Applicable(w, text, module)
    <3>1. EndStep(w)
      BY <2>1, <2>4, RefusedEnds DEF DocumentApply, SharedCalls
    <3> QED
      BY <3>1, Zenon DEF Forms
  <2> QED
    BY <2>3, <2>4
<1>3. CASE \E id \in SharedIds : ContributionSubmit(w, id)
  BY <1>3, Zenon DEF Forms, SubmitStep
<1>4. CASE \E after \in ReadFrom(w) : KnowledgeRead(w, after)
  <2>1. PICK after \in ReadFrom(w) : KnowledgeRead(w, after)
    BY <1>4
  <2>2. after \in Nat
    BY <2>1 DEF ReadFrom, Typed, Execution
  <2>3. CASE Refused(w)
    <3>1. EndStep(w)
      BY <2>1, <2>3, RefusedEnds DEF KnowledgeRead, SharedCalls
    <3> QED
      BY <3>1, Zenon DEF Forms
  <2>4. CASE ~Refused(w)
    <3>1. ReadStep(w, after)
      BY <2>1, <2>4 DEF KnowledgeRead, ReadStep
    <3> QED
      BY <2>2, <3>1, Zenon DEF Forms
  <2> QED
    BY <2>3, <2>4
<1> QED
  BY <1>1, <1>2, <1>3, <1>4 DEF Gateway

\* The starts of the first and of the second round.
LEMMA StartSteps ==
  ASSUME Typed, StartRounds \/ (RoundEnds /\ FirstIsProverA) \/ (\E w \in SharedWorkers : CreateDocumentFails(w))
  PROVE  \E S \in SUBSET SharedWorkers, round \in 0..1 : StartStep(S, round)
<1>1. CASE StartRounds
  <2>1. StartStep(SharedWorkers, 0)
    BY <1>1 DEF StartRounds, StartStep, SharedWorkers, knowledge, evidence
  <2> QED
    BY <2>1
<1>2. CASE RoundEnds /\ FirstIsProverA
  <2>1. StartStep({"b"}, 1)
    BY <1>2 DEF RoundEnds, SecondRoundFails, FirstIsProverA, StartStep, SharedWorkers, Returned, knowledge, evidence
  <2> QED
    BY <2>1 DEF SharedWorkers
<1>3. CASE \E w \in SharedWorkers : CreateDocumentFails(w)
  <2>1. PICK w \in SharedWorkers : CreateDocumentFails(w)
    BY <1>3
  <2>2. PICK other \in SharedWorkers \ {w} : SharedStarted({other}, 0) /\ RecordAll(StartedEvents(<<other>>))
    BY <2>1 DEF CreateDocumentFails
  <2>3. StartStep({other}, 0)
    BY <2>1, <2>2 DEF CreateDocumentFails, SharedFail, StartStep, SharedWorkers, knowledge, evidence
  <2> QED
    BY <2>3
<1> QED
  BY <1>1, <1>2, <1>3

\* Every step of the system has one of these forms.
LEMMA StepForms ==
  ASSUME Typed, SharedNext
  PROVE  Forms
<1>1. CASE CreateRun
  BY <1>1, Zenon DEF Forms
<1>2. CASE StartRounds \/ Conductor
  <2>1. CASE StartRounds \/ (RoundEnds /\ FirstIsProverA)
    BY <2>1, StartSteps, Zenon DEF Forms
  <2> QED
    BY <1>2, <2>1, Zenon DEF Conductor, Forms, PhaseStep, BookStep
<1>3. CASE Failing
  <2>1. CASE \E w \in SharedWorkers : CreateDocumentFails(w)
    BY <2>1, StartSteps, Zenon DEF Forms
  <2> QED
    BY <1>3, <2>1, Zenon DEF Failing, Forms, PhaseStep, BookStep
<1>4. CASE Consumer
  BY <1>4, Zenon DEF Consumer, Forms, QueueStep
<1>5. ASSUME NEW w \in SharedWorkers, Worker(w)
      PROVE  Forms
  <2>1. CASE TakeSlot(w) \/ SharedReleaseLease(w)
    BY <2>1, Zenon DEF Forms, WorkStep
  <2> QED
    BY <1>5, <2>1, WorkerEndsStep, Zenon DEF Worker, Forms
<1>6. ASSUME NEW w \in SharedWorkers, Gateway(w)
      PROVE  Forms
  BY <1>6, GatewaySteps
<1> QED
  BY <1>1, <1>2, <1>3, <1>4, <1>5, <1>6 DEF SharedNext
-----------------------------------------------------------------------------
(* Types.                                                                  *)

LEMMA RunIsSomewhere ==
  ASSUME Typed, WorkerInv
  PROVE  /\ sharedPhase # "idle" => sharedRun \in 1..SharedMaxRuns
         /\ \A w \in SharedWorkers : work[w].at # "idle" => sharedPhase # "idle" /\ sharedRun \in 1..SharedMaxRuns
  BY RunAssumption DEF Typed, WorkerInv

\* A run that is created.
LEMMA CreateRunTyped ==
  ASSUME SharedIInv, CreateRun
  PROVE  Typed'
<1>1. Plain("RunCreated") \in EventRecord
  BY NamesOfEvents, EventsAreRecords DEF Plain
<1>2. sharedRun + 1 \in 1..SharedMaxRuns /\ sharedRun' = sharedRun + 1 /\ Len(deltas) \in Nat
  BY RunAssumption DEF SharedIInv, Typed, CreateRun
<1>3. log' \in [1..SharedMaxRuns -> Seq(EventRecord)]
  BY <1>1, <1>2 DEF SharedIInv, Typed, CreateRun
<1>4. work' \in [SharedWorkers -> Execution]
  BY DEF CreateRun, Execution, SharedRest, Ats
<1> QED
  BY <1>2, <1>3, <1>4 DEF SharedIInv, Typed, CreateRun, Phases, Blank, knowledge

\* The orders in which workers are started.
LEMMA OrdersAre ==
  ASSUME NEW order \in {<<"a", "b">>, <<"a">>, <<"b">>}
  PROVE  order \in Seq(SharedWorkers)
<1>1. "a" \in SharedWorkers /\ "b" \in SharedWorkers
  BY DEF SharedWorkers
<1>2. <<"a", "b">> \in Seq(SharedWorkers) /\ <<"a">> \in Seq(SharedWorkers) /\ <<"b">> \in Seq(SharedWorkers)
  BY <1>1
<1> QED
  BY <1>2

\* What is recorded when executions begin.
LEMMA StartedAre ==
  ASSUME NEW order \in Seq(SharedWorkers)
  PROVE  /\ StartedEvents(order) \in Seq(EventRecord) /\ Len(StartedEvents(order)) = Len(order)
         /\ \A i \in 1..Len(order) : StartedEvents(order)[i] = SharedEvent("WorkerStarted", order[i], "-", 0)
<1>1. \A w \in SharedWorkers : SharedEvent("WorkerStarted", w, "-", 0) \in EventRecord
  BY NamesOfEvents, EventsAreRecords
<1> QED
  BY <1>1 DEF StartedEvents

\* Executions that begin have their types.
LEMMA StartStepTyped ==
  ASSUME SharedIInv, NEW S \in SUBSET SharedWorkers, NEW round \in 0..1, StartStep(S, round)
  PROVE  Typed'
<1>1. sharedRun \in 1..SharedMaxRuns /\ sharedPhase # "idle" /\ Typed /\ Len(deltas) \in Nat
  BY RunIsSomewhere DEF SharedIInv, StartStep, Typed
<1>2. PICK order \in {<<"a", "b">>, <<"a">>, <<"b">>} : RecordAll(StartedEvents(order))
  BY DEF StartStep
<1>3. order \in Seq(SharedWorkers)
  BY OrdersAre
<1>4. StartedEvents(order) \in Seq(EventRecord)
  BY <1>3, StartedAre
<1>5. log' \in [1..SharedMaxRuns -> Seq(EventRecord)]
  BY <1>1, <1>2, <1>4, Appended DEF StartStep
<1>6. work' \in [SharedWorkers -> Execution]
  BY <1>1 DEF StartStep, SharedStarted, StartedFrom, Execution, Ats, Typed
<1> QED
  BY <1>1, <1>5, <1>6 DEF Typed, StartStep, SharedStarted, StartedFrom, Phases, Hosted, Blank, Categories, knowledge, evidence

\* An execution that is over.
Over(execution, ends) == [execution EXCEPT !.at = "releasing", !.ends = ends]
\* An execution of which the result is known.
LEMMA OverIs ==
  ASSUME NEW e \in Execution, NEW ends \in {"returned", "failed"}
  PROVE  /\ Over(e, ends) \in Execution /\ Over(e, ends).at = "releasing" /\ Over(e, ends).ends = ends
         /\ Over(e, ends).round = e.round /\ Over(e, ends).epoch = e.epoch
  BY DEF Over, Execution, Ats

\* The execution that is over, and the other one.
LEMMA EndedExecution ==
  ASSUME Typed, NEW w \in SharedWorkers, NEW ends \in {"returned", "failed"},
         work' = [work EXCEPT ![w].at = "releasing", ![w].ends = ends]
  PROVE  /\ work' \in [SharedWorkers -> Execution]
         /\ work'[w].at = "releasing" /\ work'[w].ends = ends
         /\ work'[w].round = work[w].round /\ work'[w].epoch = work[w].epoch
         /\ \A u \in SharedWorkers : u # w => work'[u] = work[u]
<1>1. work \in [SharedWorkers -> Execution] /\ work[w] \in Execution
  BY DEF Typed
<1> DEFINE over == Over(work[w], ends)
<1>2. work' = [work EXCEPT ![w] = over]
  BY Zenon DEF Over
<1>3. /\ over \in Execution /\ over.at = "releasing" /\ over.ends = ends
      /\ over.round = work[w].round /\ over.epoch = work[w].epoch
  BY <1>1, OverIs
<1> HIDE DEF over
<1>4. work' \in [SharedWorkers -> Execution] /\ work'[w] = over /\ \A u \in SharedWorkers : u # w => work'[u] = work[u]
  BY <1>1, <1>2, <1>3
<1> QED
  BY <1>3, <1>4

\* An execution that ends has its type.
LEMMA EndStepTyped ==
  ASSUME SharedIInv, NEW w \in SharedWorkers, EndStep(w)
  PROVE  Typed'
<1>1. sharedRun \in 1..SharedMaxRuns /\ sharedPhase # "idle" /\ Typed
  BY RunIsSomewhere DEF SharedIInv, EndStep, Typed
<1>2. log' \in [1..SharedMaxRuns -> Seq(EventRecord)]
  BY <1>1, Appended DEF EndStep, EndEvents
<1>3. PICK ends \in {"returned", "failed"} : work' = [work EXCEPT ![w].at = "releasing", ![w].ends = ends]
  BY DEF EndStep
<1>4. work' \in [SharedWorkers -> Execution]
  BY <1>1, <1>3, EndedExecution DEF Typed
<1> QED
  BY <1>1, <1>2, <1>4 DEF Typed, EndStep, knowledge, evidence

\* The order in which a read acknowledges is a sequence of epochs.
LEMMA AscendingIs ==
  ASSUME Typed, NEW w \in SharedWorkers, NEW after \in Nat, NEW order \in Ascending(NewlyAcknowledged(w, after))
  PROVE  /\ order \in Seq(Nat) /\ Len(order) \in Nat /\ DOMAIN order = 1..Len(order)
         /\ \A i \in 1..Len(order) : /\ order[i] \in 1..Len(deltas) /\ deltas[order[i]].run = sharedRun
                                     /\ ~Acknowledged(w, order[i])
         /\ AcknowledgedEvents(w, order) \in Seq(EventRecord)
         /\ Len(AcknowledgedEvents(w, order)) = Len(order)
         /\ \A i \in 1..Len(order) :
              AcknowledgedEvents(w, order)[i] = SharedEvent("KnowledgeDeltaAcknowledged", w, "-", order[i])
<1> DEFINE S == NewlyAcknowledged(w, after)
<1>1. deltas \in Seq(Delta) /\ Len(deltas) \in Nat
  BY DEF Typed
<1>2. \A n \in S : n \in 1..Len(deltas) /\ deltas[n].run = sharedRun /\ ~Acknowledged(w, n)
  BY <1>1 DEF NewlyAcknowledged, Acknowledgeable, Unread, Known
<1>3. IsFiniteSet(S) /\ Cardinality(S) \in Nat
  <2>1. IsFiniteSet(1..Len(deltas))
    BY <1>1, FS_Interval
  <2>2. S \subseteq 1..Len(deltas)
    BY <1>2
  <2> QED
    BY <2>1, <2>2, FS_Subset, FS_CardinalityType
<1>4. order \in [1..Cardinality(S) -> S]
  BY DEF Ascending
<1> HIDE DEF S
<1>5. order \in Seq(Nat) /\ Len(order) = Cardinality(S) /\ DOMAIN order = 1..Len(order)
  BY <1>1, <1>2, <1>3, <1>4
<1>6. \A n \in Nat : SharedEvent("KnowledgeDeltaAcknowledged", w, "-", n) \in EventRecord
  BY NamesOfEvents, EventsAreRecords
<1>7. /\ AcknowledgedEvents(w, order) \in Seq(EventRecord)
      /\ Len(AcknowledgedEvents(w, order)) = Len(order)
  BY <1>5, <1>6 DEF AcknowledgedEvents
<1>8. \A i \in 1..Len(order) :
        AcknowledgedEvents(w, order)[i] = SharedEvent("KnowledgeDeltaAcknowledged", w, "-", order[i])
  BY <1>5, Zenon DEF AcknowledgedEvents
<1> QED
  BY <1>2, <1>3, <1>4, <1>5, <1>7, <1>8

\* Acknowledgements are events.
LEMMA ReadStepTyped ==
  ASSUME SharedIInv, NEW w \in SharedWorkers, NEW after \in Nat, ReadStep(w, after)
  PROVE  Typed'
<1>1. sharedRun \in 1..SharedMaxRuns /\ sharedPhase # "idle" /\ Typed
  BY RunIsSomewhere DEF SharedIInv, ReadStep, SharedCalls, Typed
<1>2. PICK order \in Ascending(NewlyAcknowledged(w, after)) : RecordAll(AcknowledgedEvents(w, order))
  BY DEF ReadStep
<1>3. AcknowledgedEvents(w, order) \in Seq(EventRecord)
  BY <1>1, AscendingIs
<1>4. log' \in [1..SharedMaxRuns -> Seq(EventRecord)]
  BY <1>1, <1>2, <1>3, Appended DEF ReadStep
<1> QED
  BY <1>1, <1>4 DEF Typed, ReadStep, knowledge, evidence

\* What the runner writes down itself: verdicts, the review and the artifacts.
Bookkeeping == {"RunAborted", "RunCompleted", "AlignmentReviewed", "ArtifactRegistered", "FormalTraceSealed"}
Booked == {event \in EventRecord : event.type \in Bookkeeping /\ event.who = "-" /\ event.epoch = 0}

\* The names of those events.
LEMMA BookedAre ==
  /\ Plain("RunAborted") \in Booked /\ Plain("RunCompleted") \in Booked /\ Plain("FormalTraceSealed") \in Booked
  /\ \A verdict \in Verdicts : Reviewed(verdict) \in Booked
  /\ \A name \in Names : Registered(name) \in Booked
  /\ \A type : Plain(type).type = type
  /\ \A verdict : Reviewed(verdict).type = "AlignmentReviewed" /\ Reviewed(verdict).ref = verdict
  /\ \A name : Registered(name).type = "ArtifactRegistered" /\ Registered(name).ref = name
<1>1. {"RunAborted", "RunCompleted", "AlignmentReviewed", "ArtifactRegistered", "FormalTraceSealed"} \subseteq Types
      /\ "-" \in Whos /\ "-" \in Refs /\ Names \subseteq Refs /\ Verdicts \subseteq Refs
  BY NamesOfEvents
<1> QED
  BY <1>1 DEF Plain, Reviewed, Registered, SharedEvent, Booked, EventRecord, Bookkeeping

\* The five parts of the artifacts.
LEMMA PartsAre ==
  /\ Len(Parts) = 5
  /\ \A i \in 1..5 : Parts[i] \in Seq(Booked)
  /\ Parts[1] = <<Registered("run-manifest.json")>> /\ Parts[2] = <<Registered("alignment-review.json")>>
  /\ Parts[3] = <<Plain("FormalTraceSealed")>>
  /\ Parts[4] = <<Registered("formal-trace.jsonl"), Registered("formal-trace.sha256")>>
  /\ Parts[5] = <<Report>>
<1>1. Len(Parts) = 5
  BY DEF Parts
<1>2. /\ Parts[1] = <<Registered("run-manifest.json")>> /\ Parts[2] = <<Registered("alignment-review.json")>>
      /\ Parts[3] = <<Plain("FormalTraceSealed")>>
      /\ Parts[4] = <<Registered("formal-trace.jsonl"), Registered("formal-trace.sha256")>>
      /\ Parts[5] = <<Report>>
  BY DEF Parts, Report
<1>3. \A name \in Names : Registered(name) \in Booked
  BY BookedAre, Zenon
<1>4. /\ Registered("run-manifest.json") \in Booked /\ Registered("alignment-review.json") \in Booked
      /\ Registered("formal-trace.jsonl") \in Booked /\ Registered("formal-trace.sha256") \in Booked
      /\ Report \in Booked /\ Plain("FormalTraceSealed") \in Booked
  BY <1>3, BookedAre DEF Names, Report
<1>5. \A i \in 1..5 : Parts[i] \in Seq(Booked)
  <2>1. Parts[1] \in Seq(Booked) /\ Parts[2] \in Seq(Booked) /\ Parts[3] \in Seq(Booked)
        /\ Parts[4] \in Seq(Booked) /\ Parts[5] \in Seq(Booked)
    BY <1>2, <1>4
  <2> QED
    BY <2>1
<1> QED
  BY <1>1, <1>2, <1>5

\* A step of that kind appends such events and leaves workers and knowledge
\* alone.
LEMMA BookStepIs ==
  ASSUME Typed, VerdictInv, BookStep
  PROVE  /\ \E events \in Seq(Booked) : RecordAll(events)
         /\ sharedPhase \notin {"idle", "exited"}
         /\ UNCHANGED <<sharedRun, sharedStart, workers, knowledge>>
<1> DEFINE Goal == /\ \E events \in Seq(Booked) : RecordAll(events)
                   /\ sharedPhase \notin {"idle", "exited"}
                   /\ UNCHANGED <<sharedRun, sharedStart, workers, knowledge>>
<1>1. ASSUME sharedRun # 0, SharedRecord(Plain("RunAborted"))
      PROVE  \E events \in Seq(Booked) : RecordAll(events)
  <2>1. Plain("RunAborted") \in EventRecord /\ <<Plain("RunAborted")>> \in Seq(Booked)
    BY BookedAre DEF Booked
  <2>2. PICK event \in EventRecord : event = Plain("RunAborted")
    BY <2>1
  <2> QED
    BY <1>1, <2>1, <2>2, OneAppended
<1>2. CASE SharedOpenHostFails
  BY <1>1, <1>2 DEF SharedOpenHostFails, Typed
<1>3. CASE AbortRun
  BY <1>1, <1>3 DEF AbortRun, Typed
<1>4. CASE FakeReview
  <2>1. <<Reviewed("aligned"), Plain("RunCompleted")>> \in Seq(Booked)
    BY BookedAre DEF Verdicts
  <2> QED
    BY <1>4, <2>1 DEF FakeReview, Conclude
<1>5. CASE \E v \in Verdicts : AuditAlignment(v)
  <2>1. PICK v \in Verdicts : AuditAlignment(v)
    BY <1>5
  <2>2. <<Reviewed(v), Plain("RunCompleted")>> \in Seq(Booked) /\ <<Reviewed(v), Plain("RunAborted")>> \in Seq(Booked)
    BY BookedAre
  <2> QED
    BY <2>1, <2>2 DEF AuditAlignment, Conclude
<1>6. CASE AuditFails
  <2>1. <<Plain("RunAborted")>> \in Seq(Booked)
    BY BookedAre
  <2> QED
    BY <1>6, <2>1 DEF AuditFails, Conclude
<1>7. CASE RecordPart
  <2>1. part \in 1..5
    BY <1>7, PartsAre DEF RecordPart, Typed, VerdictInv
  <2> QED
    BY <1>7, <2>1, PartsAre DEF RecordPart
<1> QED
  BY <1>2, <1>3, <1>4, <1>5, <1>6, <1>7 DEF BookStep

\* Its types, with the labels of the review.
LEMMA BookStepTyped ==
  ASSUME SharedIInv, BookStep
  PROVE  Typed'
<1>1. Typed /\ VerdictInv /\ sharedRun \in 1..SharedMaxRuns
  BY BookStepIs, RunIsSomewhere DEF SharedIInv
<1>2. PICK events \in Seq(Booked) : RecordAll(events)
  BY <1>1, BookStepIs
<1>3. events \in Seq(EventRecord)
  BY DEF Booked
<1>4. UNCHANGED <<sharedRun, sharedStart, workers, knowledge>>
  BY <1>1, BookStepIs
<1>5. log' \in [1..SharedMaxRuns -> Seq(EventRecord)]
  BY <1>1, <1>2, <1>3, <1>4, Appended
<1>6. /\ sharedPhase' \in Phases /\ sharedPhase' # "idle" /\ sharedPhase # "idle"
      /\ error' \in {"none"} \cup Categories /\ exit' \in {"none", "ok"} \cup Categories /\ part' \in 0..6
  <2>1. CASE RecordPart
    BY <1>1, <2>1, PartsAre DEF RecordPart, Typed
  <2>2. CASE \E v \in Verdicts : AuditAlignment(v)
    BY <1>1, <2>2 DEF AuditAlignment, Conclude, Typed, Phases, Categories
  <2> QED
    BY <1>1, <2>1, <2>2, SMTT(30) DEF BookStep, SharedOpenHostFails, AbortRun, FakeReview, AuditFails, Conclude,
          Typed, Phases, Categories, evidence
<1>7. trace' \in Seq(EventRecord)
  <2>1. CASE RecordPart
    <3>1. part \in 1..5 /\ RecordAll(Parts[part])
      BY <1>1, <2>1, PartsAre DEF RecordPart, Typed, VerdictInv
    <3>2. Parts[part] \in Seq(EventRecord) /\ L \in Seq(EventRecord)
      <4>1. Parts[part] \in Seq(Booked)
        BY <3>1, PartsAre
      <4>2. Parts[part] \in Seq(EventRecord)
        BY <4>1 DEF Booked
      <4>3. L \in Seq(EventRecord)
        BY <1>1 DEF Typed, L
      <4> QED
        BY <4>2, <4>3
    <3>3. trace' = trace \/ trace' = L \o Parts[part]
      BY <2>1 DEF RecordPart, L
    <3>4. L \o Parts[part] \in Seq(EventRecord)
      BY <3>2
    <3> QED
      BY <1>1, <3>3, <3>4 DEF Typed
  <2>2. CASE ~RecordPart
    BY <1>1, <2>2 DEF BookStep, SharedOpenHostFails, AbortRun, FakeReview, AuditAlignment, AuditFails, Conclude,
          Typed, evidence
  <2> QED
    BY <2>1, <2>2
<1> QED
  BY <1>1, <1>4, <1>5, <1>6, <1>7 DEF Typed, workers, knowledge

\* A submission is one event and one entry of the queue.
LEMMA SubmitStepTyped ==
  ASSUME SharedIInv, NEW w \in SharedWorkers, NEW id \in SharedIds, ContributionSubmit(w, id)
  PROVE  /\ Typed'
         /\ \E event \in EventRecord, events \in Seq(EventRecord) :
              /\ event = SharedEvent("ContributionSubmitted", w, id, work[w].epoch)
              /\ events = <<event>> /\ RecordAll(events)
<1>1. Typed /\ sharedRun \in 1..SharedMaxRuns /\ work[w].epoch \in Nat /\ UNCHANGED sharedRun
      /\ sharedPhase # "idle"
  BY RunIsSomewhere DEF SharedIInv, ContributionSubmit, SharedCalls, Typed, Execution
<1>2. PICK event \in EventRecord : event = SharedEvent("ContributionSubmitted", w, id, work[w].epoch)
  BY <1>1, NamesOfEvents, EventsAreRecords
<1>3. PICK events \in Seq(EventRecord) : events = <<event>> /\ RecordAll(events)
  BY <1>1, <1>2, OneAppended DEF ContributionSubmit
<1>4. log' \in [1..SharedMaxRuns -> Seq(EventRecord)]
  <2>1. RecordAll(events) /\ sharedRun # 0
    BY <1>1, <1>3
  <2> QED
    BY <1>1, <2>1, Appended
<1>5. queue' \in Seq(QueueEntry)
  <2> DEFINE entry == [run |-> sharedRun, by |-> w, id |-> id, epoch |-> work[w].epoch,
                             text |-> document[w].text, module |-> document[w].module,
                             claimed |-> FALSE]
  <2>1. entry \in QueueEntry
    BY <1>1 DEF QueueEntry, Ids, Typed, ContributionSubmit
  <2> QED
    BY <1>1, <2>1 DEF Typed, ContributionSubmit
<1> QED
  BY <1>1, <1>2, <1>3, <1>4, <1>5 DEF Typed, ContributionSubmit, evidence

\* What a publication does to the logs and the deltas.
LEMMA PublishIs ==
  ASSUME Typed, Bounded, Publish
  PROVE  /\ queue # <<>> /\ Head(queue) = queue[1] /\ queue[1] \in QueueEntry /\ 1 \in DOMAIN queue
         /\ queue[1].epoch = Len(deltas) /\ Len(deltas) \in Nat
         /\ Tail(queue) \in Seq(QueueEntry) /\ DOMAIN Tail(queue) = 1..Len(queue) - 1
         /\ \A q \in DOMAIN Tail(queue) : Tail(queue)[q] = queue[q + 1] /\ q + 1 \in DOMAIN queue
         /\ deltas' \in Seq(Delta) /\ Len(deltas') = Len(deltas) + 1
         /\ \A n \in 1..Len(deltas) : deltas'[n] = deltas[n]
         /\ deltas'[Len(deltas) + 1] = [run |-> queue[1].run, id |-> queue[1].id]
         /\ \E event \in EventRecord :
              /\ event = SharedEvent("DeclarationPublished", "-", queue[1].id, Len(deltas) + 1)
              /\ log' = [log EXCEPT ![queue[1].run] = Append(@, event)]
              /\ log' \in [1..SharedMaxRuns -> Seq(EventRecord)]
<1>1. queue # <<>> /\ queue \in Seq(QueueEntry) /\ Head(queue).epoch = Len(deltas) /\ deltas \in Seq(Delta)
      /\ log \in [1..SharedMaxRuns -> Seq(EventRecord)]
  BY DEF Typed, Bounded, Publish
<1>2. /\ Head(queue) = queue[1] /\ queue[1] \in QueueEntry /\ 1 \in DOMAIN queue /\ Len(deltas) \in Nat
      /\ Tail(queue) \in Seq(QueueEntry) /\ DOMAIN Tail(queue) = 1..Len(queue) - 1
      /\ \A q \in DOMAIN Tail(queue) : Tail(queue)[q] = queue[q + 1] /\ q + 1 \in DOMAIN queue
  BY <1>1
<1>3. queue[1].id \in Ids /\ queue[1].run \in 1..SharedMaxRuns
  BY <1>2 DEF QueueEntry
<1>4. PICK d \in Delta : d = [run |-> queue[1].run, id |-> queue[1].id]
  BY <1>3 DEF Delta
<1>5. deltas' = Append(deltas, d)
  BY <1>2, <1>4 DEF Publish
<1>6. /\ deltas' \in Seq(Delta) /\ Len(deltas') = Len(deltas) + 1
      /\ \A n \in 1..Len(deltas) : deltas'[n] = deltas[n]
      /\ deltas'[Len(deltas) + 1] = d
  BY <1>1, <1>5
<1>7. PICK event \in EventRecord : event = SharedEvent("DeclarationPublished", "-", queue[1].id, Len(deltas) + 1)
  <2>1. Ids \subseteq Refs
    BY DEF Refs
  <2> QED
    BY <2>1, <1>2, <1>3, NamesOfEvents, EventsAreRecords, SMTT(30)
<1>8. log' = [log EXCEPT ![queue[1].run] = Append(@, event)]
  BY <1>2, <1>7 DEF Publish
<1>9. log' \in [1..SharedMaxRuns -> Seq(EventRecord)]
  BY <1>1, <1>3, <1>8
<1> QED
  BY <1>1, <1>2, <1>4, <1>6, <1>7, <1>8, <1>9

\* A publication is one delta and one declaration.
LEMMA PublishTyped ==
  ASSUME SharedIInv, Publish
  PROVE  Typed'
<1>1. Typed /\ Bounded
  BY DEF SharedIInv
<1>2. log' \in [1..SharedMaxRuns -> Seq(EventRecord)] /\ deltas' \in Seq(Delta) /\ Tail(queue) \in Seq(QueueEntry)
  BY <1>1, PublishIs
<1>3. UNCHANGED <<sharedRun, sharedPhase, sharedStart, workers, error, exit, evidence>> /\ queue' = Tail(queue)
      /\ consumer' = "serving"
  BY DEF Publish
<1> QED
  BY <1>1, <1>2, <1>3 DEF Typed, workers, evidence

\* A step of the runner that records nothing leaves logs, workers and deltas
\* alone.
LEMMA PhaseStepTyped ==
  ASSUME SharedIInv, PhaseStep
  PROVE  /\ Typed' /\ UNCHANGED <<sharedRun, sharedStart, log, workers, queue, deltas, evidence>>
         /\ sharedPhase # "exited" /\ sharedPhase # "idle"
<1>1. Typed
  BY DEF SharedIInv
<1>2. UNCHANGED <<sharedRun, sharedStart, log, workers, queue, deltas, evidence>>
  BY DEF PhaseStep, GovernorRefuses, SharedOpenHost, PrewarmFails, ConsumerFails, Interrupt, WorkerFails,
         RoundEnds, SecondRoundFails, SecondRoundEnds, WaitForEpoch, EpochTimesOut, CloseHost, WriteFails, SharedFinish,
         knowledge
<1>3. /\ sharedPhase' \in Phases \ {"idle"} /\ sharedPhase # "idle" /\ sharedPhase # "exited"
      /\ error' \in {"none"} \cup Categories
      /\ exit' \in {"none", "ok"} \cup Categories
      /\ consumer' \in {"off", "waiting", "serving", "promoting"} \cup Failed
  <2>1. \A w : ErrorsOf(w) \subseteq Categories
    BY DEF ErrorsOf, Categories
  <2>2. FailureCategory \in Categories
    BY DEF FailureCategory, Categories
  <2>3. CASE \E w \in SharedWorkers : WorkerFails(w)
    BY <1>1, <2>1, <2>3 DEF WorkerFails, SharedFail, Phases, Hosted, Typed, knowledge
  <2> QED
    BY <1>1, <2>2, <2>3 DEF PhaseStep, GovernorRefuses, SharedOpenHost, PrewarmFails, ConsumerFails, Interrupt,
         RoundEnds, SecondRoundFails, SecondRoundEnds, WaitForEpoch, EpochTimesOut, CloseHost, WriteFails, SharedFinish,
         SharedFail, Phases, Hosted, Categories, knowledge, Typed
<1> QED
  BY <1>1, <1>2, <1>3 DEF Typed, workers, evidence

\* A step within an execution has its types.
LEMMA WorkStepTyped ==
  ASSUME SharedIInv, WorkStep
  PROVE  Typed'
<1>1. Typed
  BY DEF SharedIInv
<1>2. PICK w \in SharedWorkers :
         \/ TakeSlot(w) \/ SharedReleaseLease(w) \/ MultiAttempt(w)
         \/ \E text \in Snippets, module \in Nat : ApplyStep(w, text, module)
  BY DEF WorkStep
<1>3. CASE TakeSlot(w)
  BY <1>1, <1>3, ZenonT(120) DEF TakeSlot, Typed, Execution, Ats, knowledge, evidence
<1>4. CASE SharedReleaseLease(w)
  <2>1. work[w].at = "releasing" /\ work[w].ends \in {"returned", "failed"}
    BY <1>4 DEF SharedReleaseLease, SharedIInv, WorkerInv
  <2>2. PICK at \in Ats : work' = [work EXCEPT ![w].at = at]
    BY <1>4, <2>1 DEF SharedReleaseLease, Ats
  <2>3. work' \in [SharedWorkers -> Execution]
    BY <1>1, <2>2, ZenonT(120) DEF Typed, Execution
  <2>4. lease' \in [SharedWorkers -> BOOLEAN]
    BY <1>1, <1>4 DEF SharedReleaseLease, Typed
  <2> QED
    BY <1>1, <1>4, <2>3, <2>4 DEF SharedReleaseLease, Typed, knowledge, evidence
<1>5. CASE MultiAttempt(w)
  BY <1>1, <1>5, ZenonT(40) DEF MultiAttempt, Typed, knowledge, evidence
<1>6. ASSUME NEW text \in Snippets, NEW module \in Nat, ApplyStep(w, text, module)
      PROVE  Typed'
  BY <1>1, <1>6 DEF ApplyStep, Typed, Snippets, knowledge, evidence
<1> QED
  BY <1>2, <1>3, <1>4, <1>5, <1>6

\* A stale entry that was rebased.
Rebased(entry, n) == [entry EXCEPT !.id = "rebased", !.epoch = n]
\* The entry that rebasing leaves.
LEMMA RebasedIs ==
  ASSUME NEW entry \in QueueEntry, NEW n \in Nat
  PROVE  /\ Rebased(entry, n) \in QueueEntry /\ Rebased(entry, n).id = "rebased"
         /\ Rebased(entry, n).epoch = n /\ Rebased(entry, n).run = entry.run
         /\ Rebased(entry, n).by = entry.by /\ Rebased(entry, n).module = entry.module
  BY DEF Rebased, QueueEntry, Ids

\* An entry that is claimed.
Claimed(entry) == [entry EXCEPT !.claimed = TRUE]
\* The entry that claiming leaves.
LEMMA ClaimedIs ==
  ASSUME NEW entry \in QueueEntry
  PROVE  /\ Claimed(entry) \in QueueEntry /\ Claimed(entry).id = entry.id
         /\ Claimed(entry).epoch = entry.epoch /\ Claimed(entry).run = entry.run
         /\ Claimed(entry).by = entry.by /\ Claimed(entry).module = entry.module
  BY DEF Claimed, QueueEntry

\* A claim, a rebase or a quarantine changes the queue and the consumer only.
LEMMA QueueStepTyped ==
  ASSUME SharedIInv, QueueStep
  PROVE  Typed' /\ UNCHANGED <<sharedRun, sharedPhase, sharedStart, log, workers, deltas, error, exit, evidence>>
<1>1. Typed /\ Bounded
  BY DEF SharedIInv
<1>2. CASE ClaimNext
  <2>1. queue' \in Seq(QueueEntry)
    <3>1. CASE queue' = queue
      BY <1>1, <3>1 DEF Typed
    <3>2. CASE queue # <<>> /\ queue' = [queue EXCEPT ![1].claimed = TRUE]
      <4>1. queue[1] \in QueueEntry
        BY <1>1, <3>2 DEF Typed
      <4>2. PICK entry \in QueueEntry : entry = [queue[1] EXCEPT !.claimed = TRUE]
        BY <4>1 DEF QueueEntry
      <4>3. queue' = [queue EXCEPT ![1] = entry]
        BY <3>2, <4>2, Zenon
      <4> QED
        <5>1. queue \in Seq(QueueEntry) /\ 1 \in 1..Len(queue) /\ Len(queue) \in Nat
          BY <1>1, <3>2 DEF Typed
        <5> QED
          BY <5>1, <4>3
    <3>3. CASE queue # <<>> /\ queue' = Append(Tail(queue), [Head(queue) EXCEPT !.id = "rebased", !.epoch = Len(deltas)])
      <4>1. Head(queue) \in QueueEntry /\ Tail(queue) \in Seq(QueueEntry) /\ Len(deltas) \in Nat
        BY <1>1, <3>3 DEF Typed
      <4>2. Rebased(Head(queue), Len(deltas)) \in QueueEntry
        BY <4>1, RebasedIs
      <4>3. queue' = Append(Tail(queue), Rebased(Head(queue), Len(deltas)))
        BY <3>3, Zenon DEF Rebased
      <4> QED
        BY <4>1, <4>2, <4>3
    <3> QED
      BY <1>2, <3>1, <3>2, <3>3, Zenon DEF ClaimNext
  <2> QED
    BY <1>1, <1>2, <2>1 DEF ClaimNext, Typed, Failed, workers, evidence
<1>3. CASE Quarantine
  <2>1. queue # <<>> /\ Tail(queue) \in Seq(QueueEntry)
    BY <1>1, <1>3 DEF Quarantine, Bounded, Typed
  <2> QED
    BY <1>1, <1>3, <2>1 DEF Quarantine, Typed, Failed, workers, evidence
<1> QED
  BY <1>2, <1>3 DEF QueueStep

\* Every step keeps the types.
LEMMA TypedKeeps ==
  ASSUME SharedIInv, SharedNext
  PROVE  Typed'
<1>1. Forms
  BY StepForms DEF SharedIInv
<1> QED
  BY <1>1, CreateRunTyped, BookStepTyped, SubmitStepTyped, PublishTyped, PhaseStepTyped, WorkStepTyped,
     QueueStepTyped, EndStepTyped, ReadStepTyped, StartStepTyped, Zenon DEF Forms, SubmitStep
-----------------------------------------------------------------------------
(* Epochs stay within the published deltas.                                *)

\* The elements of the logs, of the queue and of the deltas.
LEMMA ElementsAre ==
  ASSUME Typed
  PROVE  /\ \A r \in 1..SharedMaxRuns : \A i \in DOMAIN log[r] :
              log[r] \in Seq(EventRecord) /\ log[r][i] \in EventRecord /\ log[r][i].epoch \in Nat
         /\ \A q \in DOMAIN queue : queue[q] \in QueueEntry /\ queue[q].epoch \in Nat
         /\ \A n \in DOMAIN deltas : deltas[n] \in Delta
<1>1. \A e \in EventRecord : e.epoch \in Nat
  BY DEF EventRecord
<1>2. \A e \in QueueEntry : e.epoch \in Nat
  BY DEF QueueEntry
<1>3. ASSUME NEW r \in 1..SharedMaxRuns, NEW i \in DOMAIN log[r]
      PROVE  log[r] \in Seq(EventRecord) /\ log[r][i] \in EventRecord
  <2>1. log[r] \in Seq(EventRecord)
    BY DEF Typed
  <2> QED
    BY <2>1
<1>4. queue \in Seq(QueueEntry) /\ deltas \in Seq(Delta)
  BY DEF Typed
<1>5. \A q \in DOMAIN queue : queue[q] \in QueueEntry
  BY <1>4
<1>6. \A n \in DOMAIN deltas : deltas[n] \in Delta
  BY <1>4
<1> QED
  BY <1>1, <1>2, <1>3, <1>5, <1>6

\* The part of Bounded about the logs.
LogBounded == \A r \in 1..SharedMaxRuns : \A i \in DOMAIN log[r] : log[r][i].epoch <= Len(deltas)

\* The deltas only grow, so what was bounded stays so.
LEMMA LogStaysBounded ==
  ASSUME Typed, Bounded, sharedRun # 0, UNCHANGED <<sharedRun, deltas>>,
         NEW events \in Seq(EventRecord), RecordAll(events),
         \A i \in 1..Len(events) : events[i].epoch <= Len(deltas)
  PROVE  LogBounded'
<1>1. /\ \A i \in 1..Len(L) : L'[i] = L[i]
      /\ \A i \in 1..Len(L') : i \in 1..Len(L) \/
              (i > Len(L) /\ i - Len(L) \in 1..Len(events) /\ L'[i] = events[i - Len(L)])
      /\ \A r \in 1..SharedMaxRuns : r # sharedRun => log'[r] = log[r]
      /\ L \in Seq(EventRecord) /\ L' \in Seq(EventRecord)
  BY Appended
<1>2. \A i \in 1..Len(L) : L[i].epoch <= Len(deltas)
  BY <1>1, RunAssumption DEF Bounded, L, Typed
<1>3. \A i \in 1..Len(L') : L'[i].epoch <= Len(deltas)
  BY <1>1, <1>2
<1>4. \A i \in DOMAIN L' : L'[i].epoch <= Len(deltas)
  BY <1>1, <1>3
<1> SUFFICES ASSUME NEW r \in 1..SharedMaxRuns, NEW i \in DOMAIN log'[r]
             PROVE  log'[r][i].epoch <= Len(deltas)
  BY DEF LogBounded
<1>5. CASE r = sharedRun
  BY <1>4, <1>5 DEF L
<1>6. CASE r # sharedRun
  BY <1>1, <1>6 DEF Bounded
<1> QED
  BY <1>5, <1>6

\* A new run records no epoch.
LEMMA CreateRunBounded ==
  ASSUME SharedIInv, CreateRun
  PROVE  Bounded'
<1>1. /\ Typed /\ Bounded /\ sharedRun' = sharedRun + 1 /\ sharedStart' = Len(deltas) /\ UNCHANGED knowledge
      /\ work' = [w \in SharedWorkers |-> SharedRest] /\ document' = [w \in SharedWorkers |-> Blank]
      /\ log' = [log EXCEPT ![sharedRun + 1] = <<Plain("RunCreated")>>]
  BY DEF CreateRun, SharedIInv
<1>2. Len(deltas) \in Nat
  BY <1>1 DEF Typed
<1>3. LogBounded'
  <2> SUFFICES ASSUME NEW r \in 1..SharedMaxRuns, NEW i \in DOMAIN log'[r]
               PROVE  log'[r][i].epoch <= Len(deltas)
    BY <1>1 DEF LogBounded, knowledge
  <2>1. CASE r = sharedRun + 1
    <3>1. log'[r] = <<Plain("RunCreated")>>
      BY <1>1, <2>1 DEF Typed
    <3>2. Plain("RunCreated").epoch = 0
      BY DEF Plain, SharedEvent
    <3> QED
      BY <1>2, <3>1, <3>2
  <2>2. CASE r # sharedRun + 1
    BY <1>1, <2>2 DEF Typed, Bounded
  <2> QED
    BY <2>1, <2>2
<1> QED
  BY <1>1, <1>2, <1>3 DEF Bounded, LogBounded, knowledge, SharedRest, Blank

\* A publication has the next epoch, and makes it the last.
LEMMA PublishBounded ==
  ASSUME SharedIInv, Publish
  PROVE  Bounded'
<1>1. Typed /\ Bounded
  BY DEF SharedIInv
<1>2. /\ queue[1] \in QueueEntry /\ Len(deltas) \in Nat /\ Len(deltas') = Len(deltas) + 1
      /\ \A q \in DOMAIN Tail(queue) : Tail(queue)[q] = queue[q + 1] /\ q + 1 \in DOMAIN queue
  BY <1>1, PublishIs
<1>3. PICK event \in EventRecord :
              /\ event = SharedEvent("DeclarationPublished", "-", queue[1].id, Len(deltas) + 1)
              /\ log' = [log EXCEPT ![queue[1].run] = Append(@, event)]
  BY <1>1, PublishIs
<1>4. /\ UNCHANGED <<sharedRun, sharedPhase, sharedStart, workers>> /\ queue' = Tail(queue)
      /\ consumer' = "serving"
  BY DEF Publish
<1>5. LogBounded'
  <2>1. event.epoch = Len(deltas) + 1
    BY <1>3 DEF SharedEvent
  <2> SUFFICES ASSUME NEW r \in 1..SharedMaxRuns, NEW i \in DOMAIN log'[r]
               PROVE  log'[r][i].epoch <= Len(deltas) + 1
    BY <1>2 DEF LogBounded
  <2>2. log[r] \in Seq(EventRecord) /\ \A j \in DOMAIN log[r] : log[r][j].epoch <= Len(deltas) /\ log[r][j].epoch \in Nat
    BY <1>1, ElementsAre DEF Typed, Bounded
  <2>3. CASE r = queue[1].run
    <3>1. log'[r] = Append(log[r], event)
      BY <1>1, <1>3, <2>3 DEF Typed
    <3>2. i \in 1..Len(log[r]) + 1
      BY <2>2, <3>1
    <3>3. CASE i = Len(log[r]) + 1
      BY <1>2, <2>1, <2>2, <3>1, <3>3
    <3>4. CASE i \in 1..Len(log[r])
      BY <1>2, <2>2, <3>1, <3>4
    <3> QED
      BY <2>2, <3>2, <3>3, <3>4
  <2>4. CASE r # queue[1].run
    BY <1>1, <1>2, <1>3, <2>2, <2>4 DEF Typed
  <2> QED
    BY <2>3, <2>4
<1>6. sharedStart' <= Len(deltas') /\ \A w \in SharedWorkers : work'[w].epoch <= Len(deltas') /\ document'[w].module <= Len(deltas')
  BY <1>1, <1>2, <1>4 DEF Bounded, Typed, workers, Execution
<1>7. \A q \in DOMAIN queue' : queue'[q].epoch <= Len(deltas')
  <2>1. \A q \in DOMAIN queue : queue[q].epoch <= Len(deltas) /\ queue[q].epoch \in Nat
    BY <1>1, ElementsAre DEF Bounded
  <2> QED
    BY <1>2, <1>4, <2>1
<1> QED
  BY <1>4, <1>5, <1>6, <1>7 DEF Bounded, LogBounded

\* A lease has the present epoch.
LEMMA StartStepBounded ==
  ASSUME SharedIInv, NEW S \in SUBSET SharedWorkers, NEW round \in 0..1, StartStep(S, round)
  PROVE  Bounded'
<1>1. sharedRun # 0 /\ Typed /\ Bounded /\ Len(deltas) \in Nat /\ UNCHANGED <<sharedRun, sharedStart, knowledge>>
  BY DEF SharedIInv, StartStep, Typed
<1>2. PICK order \in {<<"a", "b">>, <<"a">>, <<"b">>} : RecordAll(StartedEvents(order))
  BY DEF StartStep
<1>3. PICK events \in Seq(EventRecord) : events = StartedEvents(order) /\ \A i \in 1..Len(events) : events[i].epoch = 0
  <2>1. order \in Seq(SharedWorkers)
    BY OrdersAre
  <2>2. \A w \in SharedWorkers : SharedEvent("WorkerStarted", w, "-", 0) \in EventRecord
                                /\ SharedEvent("WorkerStarted", w, "-", 0).epoch = 0
    BY NamesOfEvents, EventsAreRecords
  <2>3. StartedEvents(order) \in Seq(EventRecord) /\ \A i \in 1..Len(StartedEvents(order)) : StartedEvents(order)[i].epoch = 0
    BY <2>1, <2>2 DEF StartedEvents
  <2> QED
    BY <2>3
<1>4. RecordAll(events)
  BY <1>2, <1>3
<1>5. LogBounded'
  BY <1>1, <1>3, <1>4, LogStaysBounded DEF knowledge
<1>6. \A w \in SharedWorkers : work'[w].epoch <= Len(deltas) /\ document'[w].module <= Len(deltas)
  BY <1>1 DEF StartStep, SharedStarted, StartedFrom, Bounded, Blank
<1> QED
  BY <1>1, <1>5, <1>6 DEF Bounded, LogBounded, knowledge

\* The end of an execution has no epoch.
LEMMA EndStepBounded ==
  ASSUME SharedIInv, NEW w \in SharedWorkers, EndStep(w)
  PROVE  Bounded'
<1>1. sharedRun # 0 /\ Typed /\ Bounded /\ Len(deltas) \in Nat
  BY RunIsSomewhere DEF SharedIInv, EndStep, Typed
<1>2. PICK events \in EndEvents(w) : RecordAll(events)
  BY DEF EndStep
<1>3. events \in Seq(EventRecord) /\ \A i \in 1..Len(events) : events[i].epoch = 0
  BY <1>2 DEF EndEvents
<1>4. UNCHANGED <<sharedRun, sharedStart, document, knowledge>>
  BY DEF EndStep
<1>5. LogBounded'
  BY <1>1, <1>2, <1>3, <1>4, LogStaysBounded DEF knowledge
<1>6. PICK ends \in {"returned", "failed"} : work' = [work EXCEPT ![w].at = "releasing", ![w].ends = ends]
  BY DEF EndStep
<1>7. \A u \in SharedWorkers : work'[u].epoch = work[u].epoch
  BY <1>1, <1>6, EndedExecution
<1> QED
  BY <1>1, <1>4, <1>5, <1>7 DEF Bounded, LogBounded, knowledge

\* Only published deltas are acknowledged.
LEMMA ReadStepBounded ==
  ASSUME SharedIInv, NEW w \in SharedWorkers, NEW after \in Nat, ReadStep(w, after)
  PROVE  Bounded'
<1>1. sharedRun # 0 /\ Typed /\ Bounded /\ Len(deltas) \in Nat
  BY RunIsSomewhere DEF SharedIInv, ReadStep, SharedCalls, Typed
<1>2. PICK order \in Ascending(NewlyAcknowledged(w, after)) : RecordAll(AcknowledgedEvents(w, order))
  BY DEF ReadStep
<1>3. PICK events \in Seq(EventRecord) : /\ events = AcknowledgedEvents(w, order)
                                         /\ \A i \in 1..Len(events) : events[i].epoch <= Len(deltas)
  <2>1. /\ AcknowledgedEvents(w, order) \in Seq(EventRecord) /\ Len(AcknowledgedEvents(w, order)) = Len(order)
        /\ \A i \in 1..Len(order) : /\ order[i] \in 1..Len(deltas)
             /\ AcknowledgedEvents(w, order)[i] = SharedEvent("KnowledgeDeltaAcknowledged", w, "-", order[i])
    BY <1>1, AscendingIs
  <2>2. \A n : SharedEvent("KnowledgeDeltaAcknowledged", w, "-", n).epoch = n
    BY DEF SharedEvent
  <2> QED
    BY <2>1, <2>2
<1>4. RecordAll(events)
  BY <1>2, <1>3
<1>5. UNCHANGED <<sharedRun, sharedStart, work, document, knowledge>>
  BY DEF ReadStep
<1>6. LogBounded'
  BY <1>1, <1>3, <1>4, <1>5, LogStaysBounded DEF knowledge
<1> QED
  BY <1>1, <1>5, <1>6 DEF Bounded, LogBounded, knowledge

\* Neither have verdict and artifacts.
LEMMA BookStepBounded ==
  ASSUME SharedIInv, BookStep
  PROVE  Bounded'
<1>1. Typed /\ Bounded /\ VerdictInv
  BY DEF SharedIInv
<1>2. PICK events \in Seq(Booked) : RecordAll(events)
  BY <1>1, BookStepIs
<1>3. events \in Seq(EventRecord) /\ \A i \in 1..Len(events) : events[i].epoch = 0
  BY DEF Booked
<1>4. UNCHANGED <<sharedRun, sharedStart, workers, knowledge>> /\ sharedRun # 0 /\ Len(deltas) \in Nat
  BY <1>1, BookStepIs DEF Typed
<1>5. LogBounded'
  BY <1>1, <1>2, <1>3, <1>4, LogStaysBounded DEF knowledge
<1> QED
  BY <1>1, <1>4, <1>5 DEF Bounded, LogBounded, knowledge, workers

\* A submission has the epoch of its lease.
LEMMA SubmitStepBounded ==
  ASSUME SharedIInv, NEW w \in SharedWorkers, NEW id \in SharedIds, ContributionSubmit(w, id)
  PROVE  Bounded'
<1>1. sharedRun # 0 /\ Typed /\ Bounded /\ Len(deltas) \in Nat
  BY RunIsSomewhere DEF SharedIInv, ContributionSubmit, SharedCalls, Typed
<1>2. PICK event \in EventRecord, events \in Seq(EventRecord) :
              /\ event = SharedEvent("ContributionSubmitted", w, id, work[w].epoch)
              /\ events = <<event>> /\ RecordAll(events)
  BY SubmitStepTyped
<1>3. RecordAll(events) /\ \A i \in 1..Len(events) : events[i].epoch <= Len(deltas)
  <2>1. event.epoch <= Len(deltas)
    BY <1>1, <1>2 DEF SharedEvent, Bounded
  <2> QED
    BY <1>2, <2>1
<1>4. UNCHANGED <<sharedRun, sharedStart, work, document, deltas>>
      /\ consumer' = IF consumer = "waiting" THEN "serving" ELSE consumer
  BY DEF ContributionSubmit
<1>5. LogBounded'
  BY <1>1, <1>3, <1>4, LogStaysBounded
<1>6. PICK entry : entry.epoch = work[w].epoch /\ queue' = Append(queue, entry)
  BY DEF ContributionSubmit
<1>7. queue \in Seq(QueueEntry) /\ queue' \in Seq(QueueEntry)
  BY <1>1, SubmitStepTyped DEF Typed
<1>8. \A i \in DOMAIN queue' : queue'[i].epoch <= Len(deltas)
  BY <1>1, <1>6, <1>7 DEF Bounded
<1>9. queue # <<>> => queue' # <<>> /\ Head(queue') = Head(queue)
  BY <1>6, <1>7
<1> QED
  BY <1>1, <1>4, <1>5, <1>8, <1>9 DEF Bounded, LogBounded

\* The runner alone publishes nothing.
LEMMA PhaseStepBounded ==
  ASSUME SharedIInv, PhaseStep
  PROVE  Bounded'
<1>1. UNCHANGED <<sharedRun, sharedStart, log, workers, queue, deltas, evidence>>
  BY PhaseStepTyped
<1>2. UNCHANGED consumer \/ consumer' \in {"waiting", "off"}
  BY DEF PhaseStep, GovernorRefuses, SharedOpenHost, PrewarmFails, ConsumerFails, Interrupt, WorkerFails,
         RoundEnds, SecondRoundFails, SecondRoundEnds, WaitForEpoch, EpochTimesOut, CloseHost, WriteFails, SharedFinish,
         knowledge
<1> QED
  BY <1>1, <1>2 DEF SharedIInv, Bounded, workers

\* A document imports a module that was acknowledged or published.
LEMMA WorkStepBounded ==
  ASSUME SharedIInv, WorkStep
  PROVE  Bounded'
<1>1. Typed /\ Bounded
  BY DEF SharedIInv
<1>2. PICK w \in SharedWorkers :
         \/ TakeSlot(w) \/ SharedReleaseLease(w) \/ MultiAttempt(w)
         \/ \E text \in Snippets, module \in Nat : ApplyStep(w, text, module)
  BY DEF WorkStep
<1>3. UNCHANGED <<sharedRun, sharedStart, log, queue, deltas, consumer>>
  BY <1>2 DEF TakeSlot, SharedReleaseLease, MultiAttempt, ApplyStep, knowledge
<1>4. \A u \in SharedWorkers : work'[u].epoch = work[u].epoch
  <2>1. CASE TakeSlot(w)
    BY <1>1, <2>1 DEF TakeSlot, Typed, Execution
  <2>2. CASE SharedReleaseLease(w)
    <3>1. PICK at : work' = [work EXCEPT ![w].at = at]
      BY <2>2 DEF SharedReleaseLease
    <3> QED
      BY <1>1, <3>1 DEF Typed, Execution
  <2> QED
    BY <1>2, <2>1, <2>2 DEF MultiAttempt, ApplyStep
<1>5. \A u \in SharedWorkers : document'[u].module <= Len(deltas)
  <2>1. ASSUME NEW text \in Snippets, NEW module \in Nat, ApplyStep(w, text, module)
        PROVE  \A u \in SharedWorkers : document'[u].module <= Len(deltas)
    <3>1. /\ document' = [document EXCEPT ![w] = [text |-> text, module |-> module]]
          /\ work[w].at = "running"
          /\ module # 0 => Acknowledged(w, module)
      BY <2>1 DEF ApplyStep, Applicable, SharedCalls
    <3>2. module <= Len(deltas)
      <4>1. CASE module = 0
        BY <1>1, <4>1 DEF Typed
      <4>2. CASE module # 0
        <5>1. PICK i \in DOMAIN L : L[i] = SharedEvent("KnowledgeDeltaAcknowledged", w, "-", module)
          BY <3>1, <4>2 DEF Acknowledged, L
        <5>2. L[i].epoch <= Len(deltas) /\ L[i].epoch = module
          BY <1>1, <3>1, <5>1, RunIsSomewhere DEF Bounded, L, SharedEvent, SharedIInv
        <5> QED
          BY <5>2
      <4> QED
        BY <4>1, <4>2
    <3> QED
      BY <1>1, <3>1, <3>2 DEF Typed, Bounded
  <2>2. CASE UNCHANGED document
    BY <1>1, <2>2 DEF Bounded
  <2> QED
    BY <1>2, <2>1, <2>2 DEF TakeSlot, SharedReleaseLease, MultiAttempt
<1> QED
  BY <1>1, <1>3, <1>4, <1>5 DEF Bounded

\* A claimed entry has the present epoch, or it was stale and is rebased to it.
LEMMA QueueStepBounded ==
  ASSUME SharedIInv, QueueStep
  PROVE  Bounded'
<1>1. Typed /\ Bounded
  BY DEF SharedIInv
<1>2. UNCHANGED <<sharedRun, sharedStart, log, workers, deltas>>
  BY DEF QueueStep, ClaimNext, Quarantine
<1>3. (\A i \in DOMAIN queue' : queue'[i].epoch <= Len(deltas))
      /\ (consumer' = "promoting" => queue' # <<>> /\ Head(queue').epoch = Len(deltas))
  <2>1. CASE ClaimNext
    <3>1. CASE consumer' = "waiting" /\ UNCHANGED queue
      BY <1>1, <3>1 DEF Bounded
    <3>2. CASE queue # <<>> /\ ~Stale(Head(queue)) /\ queue' = [queue EXCEPT ![1].claimed = TRUE]
      <4>1. queue \in Seq(QueueEntry) /\ queue[1] \in QueueEntry /\ Head(queue) = queue[1] /\ 1 \in 1..Len(queue)
        BY <1>1, <3>2 DEF Typed
      <4>2. PICK entry \in QueueEntry : entry = Claimed(queue[1]) /\ entry.epoch = queue[1].epoch
        BY <4>1, ClaimedIs
      <4>3. queue' = [queue EXCEPT ![1] = entry]
        BY <3>2, <4>2, Zenon DEF Claimed
      <4>4. queue' \in Seq(QueueEntry) /\ queue'[1] = entry /\ queue' # <<>> /\ Head(queue') = entry
            /\ DOMAIN queue' = DOMAIN queue /\ \A i \in DOMAIN queue : i # 1 => queue'[i] = queue[i]
        BY <4>1, <4>3
      <4>5. queue[1].epoch = Len(deltas)
        BY <3>2, <4>1 DEF Stale
      <4> QED
        BY <1>1, <4>2, <4>4, <4>5 DEF Bounded
    <3>3. CASE queue # <<>> /\ consumer' = "stale"
               /\ queue' = Append(Tail(queue), [Head(queue) EXCEPT !.id = "rebased", !.epoch = Len(deltas)])
      <4>1. Head(queue) \in QueueEntry /\ Tail(queue) \in Seq(QueueEntry) /\ Len(deltas) \in Nat
            /\ \A i \in 1..Len(Tail(queue)) : Tail(queue)[i] = queue[i + 1] /\ i + 1 \in DOMAIN queue
        BY <1>1, <3>3 DEF Typed
      <4>2. PICK entry \in QueueEntry : entry = Rebased(Head(queue), Len(deltas)) /\ entry.epoch = Len(deltas)
        BY <4>1, RebasedIs
      <4>3. queue' = Append(Tail(queue), entry)
        BY <3>3, <4>2, Zenon DEF Rebased
      <4> QED
        BY <1>1, <3>3, <4>1, <4>2, <4>3 DEF Bounded
    <3> QED
      BY <2>1, <3>1, <3>2, <3>3, Zenon DEF ClaimNext
  <2>2. CASE Quarantine
    <3>1. queue # <<>> /\ queue \in Seq(QueueEntry) /\ queue' = Tail(queue) /\ consumer' # "promoting"
      BY <1>1, <2>2 DEF Quarantine, Bounded, Typed
    <3>2. \A i \in DOMAIN queue' : queue'[i] = queue[i + 1] /\ i + 1 \in DOMAIN queue
      BY <3>1
    <3> QED
      BY <1>1, <3>1, <3>2 DEF Bounded
  <2> QED
    BY <2>1, <2>2 DEF QueueStep
<1> QED
  BY <1>1, <1>2, <1>3 DEF Bounded, workers

\* No step gets ahead of the published deltas.
LEMMA BoundedKeeps ==
  ASSUME SharedIInv, SharedNext
  PROVE  Bounded'
<1>1. Forms
  BY StepForms DEF SharedIInv
<1> QED
  BY <1>1, CreateRunBounded, BookStepBounded, SubmitStepBounded, PublishBounded, PhaseStepBounded, WorkStepBounded,
     QueueStepBounded, EndStepBounded, ReadStepBounded, StartStepBounded, Zenon DEF Forms, SubmitStep
-----------------------------------------------------------------------------
(* What is in a log stays there.                                           *)

\* No event is lost or changed.
Grown ==
  \A r \in 1..SharedMaxRuns : \A i \in DOMAIN log[r] : i \in DOMAIN log'[r] /\ log'[r][i] = log[r][i]

\* Appending to one log loses nothing.
LEMMA AppendGrows ==
  ASSUME Typed, sharedRun # 0, UNCHANGED sharedRun, NEW events \in Seq(EventRecord), RecordAll(events)
  PROVE  Grown
<1>1. /\ \A i \in 1..Len(L) : L'[i] = L[i]
      /\ \A r \in 1..SharedMaxRuns : r # sharedRun => log'[r] = log[r]
      /\ L \in Seq(EventRecord) /\ L' \in Seq(EventRecord)
      /\ Len(L) \in Nat /\ Len(events) \in Nat /\ Len(L') = Len(L) + Len(events)
  BY Appended
<1>2. \A i \in DOMAIN L : i \in DOMAIN L' /\ L'[i] = L[i]
  BY <1>1
<1> QED
  BY <1>1, <1>2 DEF Grown, L

\* Every step but the creation of a run belongs to a run.
LEMMA NotIdle ==
  ASSUME SharedIInv, Forms, ~CreateRun
  PROVE  sharedRun \in 1..SharedMaxRuns /\ sharedRun # 0 /\ UNCHANGED sharedRun
<1>1. Typed /\ WorkerInv /\ VerdictInv /\ Bounded
  BY DEF SharedIInv
<1>2. \A w \in SharedWorkers : work[w].at # "idle" => sharedPhase # "idle"
  BY <1>1, RunIsSomewhere
<1>3. CASE BookStep
  BY <1>1, <1>3, BookStepIs, RunIsSomewhere DEF Typed
<1>4. CASE SubmitStep
  BY <1>1, <1>2, <1>4, RunIsSomewhere DEF SubmitStep, ContributionSubmit, SharedCalls, Typed
<1>5. CASE Publish
  BY <1>1, <1>5, RunIsSomewhere DEF Publish, WorkerInv, Typed
<1>6. CASE PhaseStep
  BY <1>1, <1>6, PhaseStepTyped, RunIsSomewhere DEF Typed
<1>7. CASE WorkStep
  BY <1>1, <1>2, <1>7, RunIsSomewhere DEF WorkStep, TakeSlot, SharedReleaseLease, MultiAttempt, ApplyStep, SharedCalls, Typed
<1>8. CASE QueueStep
  BY <1>1, <1>8, RunIsSomewhere DEF QueueStep, ClaimNext, Quarantine, WorkerInv, Typed
<1>9. CASE \E w \in SharedWorkers : EndStep(w) \/ \E after \in Nat : ReadStep(w, after)
  BY <1>1, <1>2, <1>9, RunIsSomewhere DEF EndStep, ReadStep, SharedCalls, Typed
<1>10. CASE \E S \in SUBSET SharedWorkers, round \in 0..1 : StartStep(S, round)
  BY <1>1, <1>10, RunIsSomewhere DEF StartStep, Typed
<1> QED
  BY <1>3, <1>4, <1>5, <1>6, <1>7, <1>8, <1>9, <1>10 DEF Forms

\* Nothing but a new run starts a log anew.
LEMMA LogGrows ==
  ASSUME SharedIInv, Forms, ~CreateRun
  PROVE  Grown
<1>1. Typed /\ WorkerInv /\ VerdictInv /\ Bounded /\ sharedRun # 0 /\ UNCHANGED sharedRun
  BY NotIdle DEF SharedIInv
<1>2. ASSUME NEW events \in Seq(EventRecord), RecordAll(events)
      PROVE  Grown
  BY <1>1, <1>2, AppendGrows
<1>3. CASE BookStep
  <2>1. PICK events \in Seq(Booked) : RecordAll(events)
    BY <1>1, <1>3, BookStepIs
  <2>2. events \in Seq(EventRecord)
    BY DEF Booked
  <2> QED
    BY <1>2, <2>1, <2>2
<1>4. CASE SubmitStep
  BY <1>2, <1>4, SubmitStepTyped DEF SubmitStep
<1>5. CASE Publish
  <2>1. PICK event \in EventRecord : log' = [log EXCEPT ![queue[1].run] = Append(@, event)]
    BY <1>1, <1>5, PublishIs
  <2>2. ASSUME NEW r \in 1..SharedMaxRuns, NEW i \in DOMAIN log[r]
        PROVE  i \in DOMAIN log'[r] /\ log'[r][i] = log[r][i]
    <3>1. log[r] \in Seq(EventRecord)
      BY <1>1 DEF Typed
    <3>2. CASE r = queue[1].run
      <4>1. log'[r] = Append(log[r], event)
        BY <1>1, <2>1, <3>2 DEF Typed
      <4> QED
        BY <3>1, <4>1
    <3>3. CASE r # queue[1].run
      BY <1>1, <2>1, <3>3 DEF Typed
    <3> QED
      BY <3>2, <3>3
  <2> QED
    BY <2>2 DEF Grown
<1>6. CASE PhaseStep
  BY <1>6, PhaseStepTyped DEF Grown
<1>7. CASE WorkStep
  <2>1. UNCHANGED log
    BY <1>7 DEF WorkStep, TakeSlot, SharedReleaseLease, MultiAttempt, ApplyStep
  <2> QED
    BY <2>1 DEF Grown
<1>8. CASE QueueStep
  BY <1>8, QueueStepTyped DEF Grown
<1>9. ASSUME NEW w \in SharedWorkers, EndStep(w)
      PROVE  Grown
  BY <1>2, <1>9 DEF EndStep, EndEvents
<1>10. ASSUME NEW w \in SharedWorkers, NEW after \in Nat, ReadStep(w, after)
       PROVE  Grown
  <2>1. PICK order \in Ascending(NewlyAcknowledged(w, after)) : RecordAll(AcknowledgedEvents(w, order))
    BY <1>10 DEF ReadStep
  <2>2. AcknowledgedEvents(w, order) \in Seq(EventRecord)
    BY <1>1, AscendingIs
  <2> QED
    BY <1>2, <2>1, <2>2
<1>11. ASSUME NEW S \in SUBSET SharedWorkers, NEW round \in 0..1, StartStep(S, round)
       PROVE  Grown
  <2>1. PICK order \in {<<"a", "b">>, <<"a">>, <<"b">>} : RecordAll(StartedEvents(order))
    BY <1>11 DEF StartStep
  <2>2. StartedEvents(order) \in Seq(EventRecord)
    BY OrdersAre, StartedAre
  <2> QED
    BY <1>2, <2>1, <2>2
<1> QED
  BY <1>3, <1>4, <1>5, <1>6, <1>7, <1>8, <1>9, <1>10, <1>11 DEF Forms

-----------------------------------------------------------------------------
(* The workers, the cursors, the leases and where the runner is.           *)

LEMMA CreateRunWorkers ==
  ASSUME SharedIInv, CreateRun
  PROVE  WorkerInv'
  BY DEF SharedIInv, WorkerInv, CreateRun, SharedRest, Returned, knowledge

\* Executions begin with a live cursor, in the phases of the two rounds.
LEMMA StartStepWorkers ==
  ASSUME SharedIInv, NEW S \in SUBSET SharedWorkers, NEW round \in 0..1, StartStep(S, round)
  PROVE  WorkerInv'
<1>1. /\ work' = [w \in SharedWorkers |-> IF w \in S
                THEN [at |-> "slot", round |-> round, epoch |-> Len(deltas), ends |-> "-"]
                ELSE work[w]]
      /\ lease' = [w \in SharedWorkers |-> w \in S \/ lease[w]]
      /\ cursor' = [w \in SharedWorkers |-> IF w \in S THEN "live" ELSE cursor[w]]
      /\ UNCHANGED <<knowledge, exit>>
      /\ \/ /\ sharedPhase = "prewarm"
            /\ \/ sharedPhase' = "round0" /\ UNCHANGED error
               \/ sharedPhase' = "stopping" /\ error' = "authorization"
         \/ /\ sharedPhase = "round0" /\ sharedPhase' = "round1" /\ S = {"b"} /\ Returned /\ UNCHANGED error
  BY DEF StartStep, SharedStarted, StartedFrom
<1>2. WorkerInv
  BY DEF SharedIInv
<1>3. "a" # "b" /\ "a" \in SharedWorkers
  BY DEF SharedWorkers
<1> QED
  BY <1>1, <1>2, <1>3 DEF WorkerInv, Returned, knowledge

\* The end of an execution makes its cursor terminal.
LEMMA EndStepWorkers ==
  ASSUME SharedIInv, NEW w \in SharedWorkers, EndStep(w)
  PROVE  WorkerInv'
<1>1. Typed /\ WorkerInv
  BY DEF SharedIInv
<1>2. PICK ends \in {"returned", "failed"} : work' = [work EXCEPT ![w].at = "releasing", ![w].ends = ends]
  BY DEF EndStep
<1>3. /\ work'[w].at = "releasing" /\ work'[w].ends = ends
      /\ \A u \in SharedWorkers : u # w => work'[u] = work[u]
  BY <1>1, <1>2, EndedExecution
<1>4. /\ cursor'[w] = "terminal" /\ \A u \in SharedWorkers : u # w => cursor'[u] = cursor[u]
  BY <1>1 DEF EndStep, Typed
<1>5. work[w].at \in {"slot", "running"} /\ UNCHANGED <<sharedPhase, lease, knowledge, error, exit>>
  BY DEF EndStep
<1>6. /\ sharedPhase \notin {"idle", "created", "prewarm", "closing", "review", "artifacts", "exited", "epoch"}
      /\ sharedPhase = "round1" => w # "a"
  BY <1>1, <1>5 DEF WorkerInv, Returned
<1>7. "a" \in SharedWorkers
  BY DEF SharedWorkers
<1> QED
  BY <1>1, <1>3, <1>4, <1>5, <1>6, <1>7 DEF WorkerInv, Returned, knowledge

\* The runner aborts once no execution is left, and reviews after all returned.
LEMMA BookStepWorkers ==
  ASSUME SharedIInv, BookStep
  PROVE  WorkerInv'
<1>1. Typed /\ WorkerInv /\ UNCHANGED <<workers, knowledge>>
  BY BookStepIs DEF SharedIInv
<1>2. CASE SharedOpenHostFails
  BY <1>1, <1>2 DEF SharedOpenHostFails, WorkerInv, Returned, workers, knowledge
<1>3. CASE AbortRun
  BY <1>1, <1>3 DEF AbortRun, WorkerInv, Returned, workers, knowledge
<1>4. CASE FakeReview
  BY <1>1, <1>4 DEF FakeReview, Conclude, WorkerInv, Returned, workers, knowledge
<1>5. CASE \E v \in Verdicts : AuditAlignment(v)
  BY <1>1, <1>5 DEF AuditAlignment, Conclude, WorkerInv, Returned, workers, knowledge
<1>6. CASE AuditFails
  BY <1>1, <1>6 DEF AuditFails, Conclude, WorkerInv, Returned, workers, knowledge
<1>7. CASE RecordPart
  BY <1>1, <1>7 DEF RecordPart, WorkerInv, Returned, workers, knowledge
<1> QED
  BY <1>2, <1>3, <1>4, <1>5, <1>6, <1>7 DEF BookStep

\* The runner goes on when the executions it waits for have returned.
LEMMA PhaseStepWorkers ==
  ASSUME SharedIInv, PhaseStep
  PROVE  WorkerInv'
<1>1. Typed /\ WorkerInv /\ UNCHANGED workers /\ "a" \in SharedWorkers /\ "b" \in SharedWorkers
      /\ \A w \in SharedWorkers : w = "a" \/ w = "b"
  BY PhaseStepTyped DEF SharedIInv, SharedWorkers
<1>2. CASE GovernorRefuses \/ SharedOpenHost
  BY <1>1, <1>2 DEF GovernorRefuses, SharedOpenHost, WorkerInv, Returned, workers, knowledge
<1>3. CASE PrewarmFails \/ ConsumerFails \/ Interrupt \/ EpochTimesOut \/ (RoundEnds /\ ~FirstIsProverA) \/ SecondRoundFails
           \/ (\E w \in SharedWorkers : WorkerFails(w)) \/ (WaitForEpoch /\ ~CompletionValid)
  <2>1. /\ sharedPhase' = "stopping" /\ error' # "none" /\ UNCHANGED <<knowledge, exit>>
        /\ sharedPhase \in {"prewarm", "round0", "round1", "epoch"}
    <3>1. \A w : ErrorsOf(w) \subseteq {"readiness", "authorization", "verification", "runtime"}
      BY DEF ErrorsOf
    <3>2. FailureCategory # "none"
      BY DEF FailureCategory
    <3>3. CASE \E w \in SharedWorkers : WorkerFails(w)
      BY <3>1, <3>3 DEF WorkerFails, SharedFail
    <3> QED
      BY <1>3, <3>2, <3>3 DEF PrewarmFails, ConsumerFails, Interrupt, EpochTimesOut, RoundEnds, SecondRoundFails, WaitForEpoch,
         SharedFail, Hosted
  <2> QED
    BY <1>1, <2>1 DEF WorkerInv, Returned, workers, knowledge
<1>4. CASE SecondRoundEnds
  BY <1>1, <1>4 DEF SecondRoundEnds, WorkerInv, Returned, workers, knowledge
<1>5. CASE WaitForEpoch /\ CompletionValid
  BY <1>1, <1>5 DEF WaitForEpoch, WorkerInv, Returned, workers, knowledge
<1>6. CASE CloseHost
  BY <1>1, <1>6 DEF CloseHost, WorkerInv, Returned, workers, Typed, Categories
<1>7. CASE WriteFails \/ SharedFinish
  BY <1>1, <1>7 DEF WriteFails, SharedFinish, WorkerInv, Returned, workers, knowledge, Typed, Categories
<1> QED
  BY <1>2, <1>3, <1>4, <1>5, <1>6, <1>7 DEF PhaseStep

\* The release of a lease takes it from an execution that returned.
LEMMA WorkStepWorkers ==
  ASSUME SharedIInv, WorkStep
  PROVE  WorkerInv'
<1>1. Typed /\ WorkerInv
  BY DEF SharedIInv
<1>2. PICK w \in SharedWorkers :
         \/ TakeSlot(w) \/ SharedReleaseLease(w) \/ MultiAttempt(w)
         \/ \E text \in Snippets, module \in Nat : ApplyStep(w, text, module)
  BY DEF WorkStep
<1>3. CASE TakeSlot(w)
  <2>1. /\ work'[w].at = "running" /\ work'[w].ends = work[w].ends /\ work[w].at = "slot"
        /\ \A u \in SharedWorkers : u # w => work'[u] = work[u]
    BY <1>1, <1>3 DEF TakeSlot, Typed, Execution
  <2>2. UNCHANGED <<sharedPhase, lease, cursor, knowledge, error, exit>>
    BY <1>3 DEF TakeSlot
  <2>3. "a" \in SharedWorkers
    BY DEF SharedWorkers
  <2> QED
    BY <1>1, <2>1, <2>2, <2>3 DEF WorkerInv, Returned, knowledge
<1>4. CASE SharedReleaseLease(w)
  <2>1. work[w].at = "releasing" /\ work[w].ends \in {"returned", "failed"}
    BY <1>1, <1>4 DEF SharedReleaseLease, WorkerInv
  <2>2. PICK at \in {"returned", "failed"} : work' = [work EXCEPT ![w].at = at] /\ (at = "returned" => lease' = [lease EXCEPT ![w] = FALSE])
    BY <1>4, <2>1 DEF SharedReleaseLease
  <2>3. /\ work'[w].at = at /\ \A u \in SharedWorkers : u # w => work'[u] = work[u]
    BY <1>1, <2>2 DEF Typed, Execution
  <2>4. /\ at = "returned" => ~lease'[w]
        /\ \A u \in SharedWorkers : u # w => lease'[u] = lease[u]
    BY <1>1, <1>4, <2>2 DEF SharedReleaseLease, Typed
  <2>5. UNCHANGED <<sharedPhase, cursor, knowledge, error, exit>>
    BY <1>4 DEF SharedReleaseLease
  <2>6. "a" \in SharedWorkers
    BY DEF SharedWorkers
  <2> QED
    BY <1>1, <2>1, <2>3, <2>4, <2>5, <2>6 DEF WorkerInv, Returned, knowledge
<1>5. CASE MultiAttempt(w) \/ \E text \in Snippets, module \in Nat : ApplyStep(w, text, module)
  <2>1. UNCHANGED <<sharedPhase, work, lease, cursor, knowledge, error, exit>>
    BY <1>5 DEF MultiAttempt, ApplyStep
  <2> QED
    BY <1>1, <2>1 DEF WorkerInv, Returned, knowledge
<1> QED
  BY <1>2, <1>3, <1>4, <1>5

\* Every step keeps executions, cursors and phases together.
LEMMA WorkersKeep ==
  ASSUME SharedIInv, SharedNext
  PROVE  WorkerInv'
<1>1. Typed /\ WorkerInv /\ Forms
  BY StepForms DEF SharedIInv
<1>2. CASE SubmitStep
  BY <1>1, <1>2, RunIsSomewhere DEF SubmitStep, ContributionSubmit, SharedCalls, WorkerInv, Returned
<1>3. CASE Publish
  BY <1>1, <1>3 DEF Publish, WorkerInv, Returned, workers
<1>4. CASE QueueStep
  BY <1>1, <1>4 DEF QueueStep, ClaimNext, Quarantine, WorkerInv, Returned, workers
<1>5. ASSUME NEW w \in SharedWorkers, NEW after \in Nat, ReadStep(w, after)
      PROVE  WorkerInv'
  BY <1>1, <1>5 DEF ReadStep, WorkerInv, Returned, knowledge
<1> QED
  BY <1>1, <1>2, <1>3, <1>4, <1>5, CreateRunWorkers, BookStepWorkers, PhaseStepWorkers, WorkStepWorkers,
     EndStepWorkers, StartStepWorkers DEF Forms
-----------------------------------------------------------------------------
(* Slots, starts and stops.                                                *)

\* The executions that hold a proof slot.
RunningOf(f) == {w \in SharedWorkers : f[w].at = "running"}

\* There are at most as many as workers.
LEMMA RunningIsFinite ==
  ASSUME NEW f
  PROVE  IsFiniteSet(RunningOf(f)) /\ Cardinality(RunningOf(f)) \in Nat
<1>1. IsFiniteSet(SharedWorkers)
  <2>1. IsFiniteSet({"a"})
    BY FS_EmptySet, FS_AddElement
  <2>2. IsFiniteSet({"a"} \cup {"b"})
    BY <2>1, FS_AddElement
  <2>3. SharedWorkers = {"a"} \cup {"b"}
    BY DEF SharedWorkers
  <2> QED
    BY <2>2, <2>3
<1>2. RunningOf(f) \subseteq SharedWorkers
  BY DEF RunningOf
<1>3. IsFiniteSet(RunningOf(f))
  BY <1>1, <1>2, FS_Subset
<1> QED
  BY <1>3, FS_CardinalityType

\* The count of TakeSlot is the number of those.
LEMMA InUseIs == InUse = Cardinality(RunningOf(work))
  BY Zenon DEF InUse, RunningOf

\* No step but TakeSlot adds a running execution.
LEMMA NoMoreRunning ==
  ASSUME InUse <= Slots, \A w \in SharedWorkers : work'[w].at = "running" => work[w].at = "running"
  PROVE  (InUse <= Slots)'
<1>1. RunningOf(work') \subseteq RunningOf(work)
  BY DEF RunningOf
<1>2. Cardinality(RunningOf(work')) <= Cardinality(RunningOf(work))
  BY <1>1, RunningIsFinite, FS_Subset
<1>3. InUse' = Cardinality(RunningOf(work'))
  BY Zenon DEF InUse, RunningOf
<1> QED
  BY <1>2, <1>3, InUseIs, RunningIsFinite, RunAssumption

\* No step takes a slot that is not free (proof_slot).
LEMMA SlotsKeep ==
  ASSUME SharedIInv, SharedNext
  PROVE  (InUse <= Slots)'
<1>1. Typed /\ InUse <= Slots /\ Forms
  BY StepForms DEF SharedIInv
<1>2. CASE UNCHANGED work
  BY <1>1, <1>2, NoMoreRunning
<1>3. CASE CreateRun
  BY <1>1, <1>3, NoMoreRunning DEF CreateRun, SharedRest
<1>4. CASE \E S \in SUBSET SharedWorkers, round \in 0..1 : StartStep(S, round)
  BY <1>1, <1>4, NoMoreRunning DEF StartStep, SharedStarted, StartedFrom
<1>5. ASSUME NEW w \in SharedWorkers, EndStep(w)
      PROVE  (InUse <= Slots)'
  <2>1. PICK ends \in {"returned", "failed"} : work' = [work EXCEPT ![w].at = "releasing", ![w].ends = ends]
    BY <1>5 DEF EndStep
  <2>2. work'[w].at = "releasing" /\ \A u \in SharedWorkers : u # w => work'[u] = work[u]
    BY <1>1, <2>1, EndedExecution
  <2>3. \A u \in SharedWorkers : work'[u].at = "running" => work[u].at = "running"
    BY <2>2
  <2> QED
    BY <1>1, <2>3, NoMoreRunning
<1>6. ASSUME NEW w \in SharedWorkers, SharedReleaseLease(w)
      PROVE  (InUse <= Slots)'
  <2>1. work[w].at = "releasing" /\ work[w].ends \in {"returned", "failed"}
    BY <1>6 DEF SharedReleaseLease, SharedIInv, WorkerInv
  <2>2. PICK at \in {"returned", "failed"} : work' = [work EXCEPT ![w].at = at]
    BY <1>6, <2>1 DEF SharedReleaseLease
  <2>3. \A u \in SharedWorkers : work'[u].at = "running" => work[u].at = "running"
    BY <1>1, <2>2 DEF Typed, Execution
  <2> QED
    BY <1>1, <2>3, NoMoreRunning
<1>7. ASSUME NEW w \in SharedWorkers, TakeSlot(w)
      PROVE  (InUse <= Slots)'
  <2>1. work[w].at = "slot" /\ InUse < Slots /\ work' = [work EXCEPT ![w].at = "running"]
    BY <1>7 DEF TakeSlot
  <2>2. RunningOf(work') = RunningOf(work) \cup {w} /\ w \notin RunningOf(work)
    BY <1>1, <2>1 DEF RunningOf, Typed, Execution
  <2>3. Cardinality(RunningOf(work')) = Cardinality(RunningOf(work)) + 1
    BY <2>2, RunningIsFinite, FS_AddElement
  <2>4. InUse' = Cardinality(RunningOf(work'))
    BY Zenon DEF InUse, RunningOf
  <2> QED
    BY <2>1, <2>3, <2>4, InUseIs, RunningIsFinite, RunAssumption
<1>8. BookStep => UNCHANGED work
  BY BookStepIs DEF SharedIInv, workers
<1>9. PhaseStep => UNCHANGED work
  BY PhaseStepTyped DEF workers
<1>10. QueueStep => UNCHANGED work
  BY QueueStepTyped DEF workers
<1> QED
  BY <1>1, <1>2, <1>3, <1>4, <1>5, <1>6, <1>7, <1>8, <1>9, <1>10
     DEF Forms, SubmitStep, ContributionSubmit, Publish, workers, ReadStep, WorkStep, MultiAttempt, ApplyStep

\* The starts and the ends of a worker's executions in a log.
StartsIn(s, w) == {i \in DOMAIN s : s[i] = SharedEvent("WorkerStarted", w, "-", 0)}
StopsIn(s, w) == {i \in DOMAIN s : s[i].type \in {"WorkerStopped", "WorkerCrashed"} /\ s[i].who = w}

\* They can be counted.
LEMMA CountsAreFinite ==
  ASSUME NEW s \in Seq(EventRecord), NEW w
  PROVE  /\ IsFiniteSet(StartsIn(s, w)) /\ IsFiniteSet(StopsIn(s, w))
         /\ Cardinality(StartsIn(s, w)) \in Nat /\ Cardinality(StopsIn(s, w)) \in Nat
<1>1. IsFiniteSet(1..Len(s)) /\ DOMAIN s = 1..Len(s)
  BY FS_Interval
<1>2. StartsIn(s, w) \subseteq 1..Len(s) /\ StopsIn(s, w) \subseteq 1..Len(s)
  BY <1>1 DEF StartsIn, StopsIn
<1>3. IsFiniteSet(StartsIn(s, w)) /\ IsFiniteSet(StopsIn(s, w))
  BY <1>1, <1>2, FS_Subset
<1> QED
  BY <1>3, FS_CardinalityType

\* CountInv in those terms, now and after a step.
LEMMA CountIs ==
  CountInv <=> (sharedRun > 0 => \A w \in SharedWorkers :
    Cardinality(StartsIn(L, w)) = Cardinality(StopsIn(L, w)) + (IF work[w].at \in {"slot", "running"} THEN 1 ELSE 0))
  BY Zenon DEF CountInv, StartsOf, StopsOf, StartsIn, StopsIn

\* The same after a step.
LEMMA CountIsNext ==
  CountInv' <=> (sharedRun' > 0 => \A w \in SharedWorkers :
    Cardinality(StartsIn(L', w)) = Cardinality(StopsIn(L', w)) + (IF work'[w].at \in {"slot", "running"} THEN 1 ELSE 0))
  BY Zenon DEF CountInv, StartsOf, StopsOf, StartsIn, StopsIn

\* No start and no end of the worker is appended.
LEMMA NothingCounted ==
  ASSUME NEW s \in Seq(EventRecord), NEW e \in Seq(EventRecord), NEW w,
         \A i \in 1..Len(e) : e[i].type \notin {"WorkerStarted", "WorkerStopped", "WorkerCrashed"}
  PROVE  StartsIn(s \o e, w) = StartsIn(s, w) /\ StopsIn(s \o e, w) = StopsIn(s, w)
  BY DEF StartsIn, StopsIn, SharedEvent

\* A start in a longer log is counted once.
LEMMA OneMoreStart ==
  ASSUME NEW s \in Seq(EventRecord), NEW e \in Seq(EventRecord), NEW w, NEW k \in 1..Len(e),
         e[k] = SharedEvent("WorkerStarted", w, "-", 0),
         \A i \in 1..Len(e) : i # k => e[i] # SharedEvent("WorkerStarted", w, "-", 0),
         \A i \in 1..Len(e) : e[i].type = "WorkerStarted"
  PROVE  /\ Cardinality(StartsIn(s \o e, w)) = Cardinality(StartsIn(s, w)) + 1
         /\ StopsIn(s \o e, w) = StopsIn(s, w)
<1>1. StartsIn(s \o e, w) = StartsIn(s, w) \cup {Len(s) + k} /\ Len(s) + k \notin StartsIn(s, w)
  BY DEF StartsIn
<1>2. StopsIn(s \o e, w) = StopsIn(s, w)
  BY SMTT(30) DEF StopsIn
<1> QED
  BY <1>1, <1>2, CountsAreFinite, FS_AddElement

\* So is a stop, which is the last event of its execution.
LEMMA OneMoreStop ==
  ASSUME NEW s \in Seq(EventRecord), NEW w \in SharedWorkers, NEW e \in EndEvents(w)
  PROVE  /\ Cardinality(StopsIn(s \o e, w)) = Cardinality(StopsIn(s, w)) + 1
         /\ StartsIn(s \o e, w) = StartsIn(s, w)
         /\ \A u \in SharedWorkers : u # w =>
              StartsIn(s \o e, u) = StartsIn(s, u) /\ StopsIn(s \o e, u) = StopsIn(s, u)
<1>1. /\ e \in Seq(EventRecord) /\ Len(e) \in 1..Len(e)
      /\ e[Len(e)].type \in {"WorkerStopped", "WorkerCrashed"} /\ e[Len(e)].who = w
      /\ \A i \in 1..Len(e) - 1 : e[i].type \in {"AgentRunCompleted", "WorkerTimedOut"}
  BY DEF EndEvents
<1>2. \A i \in 1..Len(e) : i # Len(e) => e[i].type \notin {"WorkerStarted", "WorkerStopped", "WorkerCrashed"}
  <2>1. \A i \in 1..Len(e) : i = Len(e) \/ i \in 1..Len(e) - 1
    BY <1>1
  <2> QED
    BY <1>1, <2>1
<1> DEFINE t == s \o e
<1>3. /\ DOMAIN t = 1..Len(s) + Len(e) /\ DOMAIN s = 1..Len(s) /\ Len(s) \in Nat /\ Len(e) \in Nat
      /\ \A i \in 1..Len(s) : t[i] = s[i]
      /\ \A i \in 1..Len(s) + Len(e) : i \in 1..Len(s) \/ (i - Len(s) \in 1..Len(e) /\ t[i] = e[i - Len(s)])
      /\ t[Len(s) + Len(e)] = e[Len(e)]
  BY <1>1
<1> HIDE DEF t
<1>4. \A i \in 1..Len(s) + Len(e) : i \in 1..Len(s) \/ i = Len(s) + Len(e)
         \/ t[i].type \notin {"WorkerStarted", "WorkerStopped", "WorkerCrashed"}
  BY <1>2, <1>3, SMTT(30)
<1>5. Len(s) + Len(e) \in 1..Len(s) + Len(e) /\ Len(s) + Len(e) \notin 1..Len(s)
  BY <1>1, <1>3
<1>6. StopsIn(s \o e, w) = StopsIn(s, w) \cup {Len(s) + Len(e)} /\ Len(s) + Len(e) \notin StopsIn(s, w)
  <2>1. StopsIn(t, w) = StopsIn(s, w) \cup {Len(s) + Len(e)} /\ Len(s) + Len(e) \notin StopsIn(s, w)
    BY <1>1, <1>3, <1>4, <1>5 DEF StopsIn
  <2> QED
    BY <2>1 DEF t
<1>7. \A i \in 1..Len(e) : e[i].type # "WorkerStarted"
  BY <1>1, <1>2
<1>8. \A u : StartsIn(s \o e, u) = StartsIn(s, u)
  <2>1. \A i \in DOMAIN t : i \in DOMAIN s \/ t[i].type # "WorkerStarted"
    BY <1>3, <1>7
  <2>2. \A u : SharedEvent("WorkerStarted", u, "-", 0).type = "WorkerStarted"
    BY DEF SharedEvent
  <2>3. \A i \in DOMAIN s : i \in DOMAIN t /\ t[i] = s[i]
    BY <1>3
  <2>4. \A u : StartsIn(t, u) = StartsIn(s, u)
    BY <2>1, <2>2, <2>3 DEF StartsIn
  <2> QED
    BY <2>4 DEF t
<1>9. \A u \in SharedWorkers : u # w => StopsIn(s \o e, u) = StopsIn(s, u)
  <2>1. \A u \in SharedWorkers : u # w => StopsIn(t, u) = StopsIn(s, u)
    BY <1>1, <1>3, <1>4, <1>5 DEF StopsIn
  <2> QED
    BY <2>1 DEF t
<1> QED
  BY <1>6, <1>8, <1>9, CountsAreFinite, FS_AddElement, ZenonT(40)

\* Neither a start nor an end is recorded and no execution begins or ends.
LEMMA CountStays ==
  ASSUME SharedIInv, sharedRun # 0, UNCHANGED sharedRun,
         NEW e \in Seq(EventRecord), L' = L \o e,
         \A i \in 1..Len(e) : e[i].type \notin {"WorkerStarted", "WorkerStopped", "WorkerCrashed"},
         \A w \in SharedWorkers : work'[w].at \in {"slot", "running"} <=> work[w].at \in {"slot", "running"}
  PROVE  CountInv'
<1>1. L \in Seq(EventRecord)
  BY RunAssumption DEF SharedIInv, Typed, L
<1>2. \A w \in SharedWorkers : StartsIn(L', w) = StartsIn(L, w) /\ StopsIn(L', w) = StopsIn(L, w)
  BY <1>1, NothingCounted
<1>3. sharedRun > 0 /\ sharedRun' = sharedRun /\ CountInv
  BY DEF SharedIInv, Typed
<1> QED
  BY <1>2, <1>3, CountIs, CountIsNext

\* A new log has neither.
LEMMA CreateRunCounts ==
  ASSUME SharedIInv, CreateRun
  PROVE  CountInv'
<1>1. L' = <<Plain("RunCreated")>>
  <2>1. sharedRun + 1 \in 1..SharedMaxRuns
    BY RunAssumption DEF SharedIInv, Typed, CreateRun
  <2> QED
    BY <2>1 DEF SharedIInv, Typed, CreateRun, L
<1>2. Plain("RunCreated").type = "RunCreated"
  BY DEF Plain, SharedEvent
<1>3. \A w \in SharedWorkers : StartsIn(L', w) = {} /\ StopsIn(L', w) = {}
  BY <1>1, <1>2 DEF StartsIn, StopsIn, SharedEvent
<1>4. \A w \in SharedWorkers : work'[w].at = "idle"
  BY DEF CreateRun, SharedRest
<1> QED
  BY <1>3, <1>4, CountIsNext, FS_EmptySet

\* The two rounds start each worker once.
LEMMA StartStepCounts ==
  ASSUME SharedIInv, NEW S \in SUBSET SharedWorkers, NEW round \in 0..1, StartStep(S, round)
  PROVE  CountInv'
<1>1. Typed /\ WorkerInv /\ CountInv /\ sharedRun # 0 /\ UNCHANGED sharedRun /\ sharedRun > 0
  BY DEF SharedIInv, StartStep, Typed
<1>2. PICK order \in {<<"a", "b">>, <<"a">>, <<"b">>} :
         S = {order[i] : i \in DOMAIN order} /\ RecordAll(StartedEvents(order))
  BY DEF StartStep
<1>3. order \in Seq(SharedWorkers) /\ Len(order) \in Nat
  BY OrdersAre
<1>4. PICK e \in Seq(EventRecord) : /\ e = StartedEvents(order) /\ Len(e) = Len(order)
         /\ \A i \in 1..Len(order) : e[i] = SharedEvent("WorkerStarted", order[i], "-", 0)
  BY <1>3, StartedAre
<1>5. L' = L \o e /\ L \in Seq(EventRecord)
  <2>1. RecordAll(e)
    BY <1>2, <1>4
  <2> QED
    BY <1>1, <2>1, Appended
<1>6. Len(e) = Len(order) /\ \A i \in 1..Len(e) : e[i] = SharedEvent("WorkerStarted", order[i], "-", 0)
  BY <1>4
<1>7. \A i \in 1..Len(e) : e[i].type = "WorkerStarted" /\ e[i].who = order[i]
  <2>1. \A w : SharedEvent("WorkerStarted", w, "-", 0).type = "WorkerStarted" /\ SharedEvent("WorkerStarted", w, "-", 0).who = w
    BY DEF SharedEvent
  <2> QED
    BY <1>6, <2>1
<1>8. \A i, j \in 1..Len(order) : i # j => order[i] # order[j]
  BY <1>2
<1>9. \A w \in SharedWorkers : w \in S <=> \E k \in 1..Len(order) : order[k] = w
  BY <1>2, <1>3
<1>10. \A w \in SharedWorkers : work[w].at \notin {"slot", "running"} \/ w \notin S
  BY <1>1 DEF StartStep, WorkerInv, Returned
<1>11. \A w \in SharedWorkers : work'[w].at = IF w \in S THEN "slot" ELSE work[w].at
  BY DEF StartStep, SharedStarted, StartedFrom
<1>12. ASSUME NEW w \in SharedWorkers
       PROVE  Cardinality(StartsIn(L', w)) = Cardinality(StopsIn(L', w)) + (IF work'[w].at \in {"slot", "running"} THEN 1 ELSE 0)
  <2>1. Cardinality(StartsIn(L, w)) = Cardinality(StopsIn(L, w)) + (IF work[w].at \in {"slot", "running"} THEN 1 ELSE 0)
        /\ Cardinality(StopsIn(L, w)) \in Nat
    BY <1>1, <1>5, CountIs, CountsAreFinite
  <2>2. CASE w \in S
    <3>1. PICK k \in 1..Len(order) : order[k] = w
      BY <1>9, <2>2
    <3>2. \A i \in 1..Len(e) : i # k => e[i] # SharedEvent("WorkerStarted", w, "-", 0)
      BY <1>6, <1>7, <1>8, <3>1 DEF SharedEvent
    <3>3. Cardinality(StartsIn(L', w)) = Cardinality(StartsIn(L, w)) + 1 /\ StopsIn(L', w) = StopsIn(L, w)
      <4>1. k \in 1..Len(e) /\ e[k] = SharedEvent("WorkerStarted", w, "-", 0)
        BY <1>6, <3>1
      <4>2. \A i \in 1..Len(e) : e[i].type = "WorkerStarted"
        BY <1>7
      <4> QED
        BY <1>5, <3>2, <4>1, <4>2, OneMoreStart
    <3> QED
      BY <1>10, <1>11, <2>1, <2>2, <3>3
  <2>3. CASE w \notin S
    <3>1. \A i \in 1..Len(e) : e[i].who # w
      BY <1>4, <1>7, <1>9, <2>3
    <3>2. StartsIn(L', w) = StartsIn(L, w) /\ StopsIn(L', w) = StopsIn(L, w)
      <4> DEFINE t == L \o e
      <4>1. /\ DOMAIN t = 1..Len(L) + Len(e) /\ DOMAIN L = 1..Len(L) /\ Len(L) \in Nat /\ Len(e) \in Nat
            /\ \A i \in 1..Len(L) : t[i] = L[i]
            /\ \A i \in 1..Len(L) + Len(e) : i \in 1..Len(L) \/ (i - Len(L) \in 1..Len(e) /\ t[i] = e[i - Len(L)])
        BY <1>5
      <4> HIDE DEF t
      <4>2. \A i \in 1..Len(L) + Len(e) : i \in 1..Len(L) \/ t[i].who # w
        BY <3>1, <4>1
      <4>3. \A i \in 1..Len(L) + Len(e) : t[i] = SharedEvent("WorkerStarted", w, "-", 0) => t[i].who = w
        BY DEF SharedEvent
      <4>4. StartsIn(t, w) = StartsIn(L, w) /\ StopsIn(t, w) = StopsIn(L, w)
        BY <4>1, <4>2, <4>3, SMTT(30) DEF StartsIn, StopsIn
      <4> QED
        BY <1>5, <4>4 DEF t
    <3> QED
      BY <1>11, <2>1, <2>3, <3>2
  <2> QED
    BY <2>2, <2>3
<1> QED
  BY <1>12, CountIsNext

\* The end of an execution stops its worker once.
LEMMA EndStepCounts ==
  ASSUME SharedIInv, NEW w \in SharedWorkers, EndStep(w)
  PROVE  CountInv'
<1>1. Typed /\ WorkerInv /\ CountInv /\ sharedRun # 0 /\ UNCHANGED sharedRun /\ sharedRun > 0
  BY RunIsSomewhere DEF SharedIInv, EndStep, Typed
<1>2. PICK e \in EndEvents(w) : RecordAll(e)
  BY DEF EndStep
<1>3. e \in Seq(EventRecord)
  BY DEF EndEvents
<1>4. L' = L \o e /\ L \in Seq(EventRecord)
  BY <1>1, <1>2, <1>3, Appended
<1>5. PICK ends \in {"returned", "failed"} : work' = [work EXCEPT ![w].at = "releasing", ![w].ends = ends]
  BY DEF EndStep
<1>6. work'[w].at = "releasing" /\ \A u \in SharedWorkers : u # w => work'[u] = work[u]
  BY <1>1, <1>5, EndedExecution
<1>7. work[w].at \in {"slot", "running"}
  BY DEF EndStep
<1>8. /\ Cardinality(StopsIn(L', w)) = Cardinality(StopsIn(L, w)) + 1
      /\ StartsIn(L', w) = StartsIn(L, w)
      /\ \A u \in SharedWorkers : u # w => StartsIn(L', u) = StartsIn(L, u) /\ StopsIn(L', u) = StopsIn(L, u)
  BY <1>4, OneMoreStop
<1>9. ASSUME NEW u \in SharedWorkers
      PROVE  Cardinality(StartsIn(L', u)) = Cardinality(StopsIn(L', u)) + (IF work'[u].at \in {"slot", "running"} THEN 1 ELSE 0)
  <2>1. Cardinality(StartsIn(L, u)) = Cardinality(StopsIn(L, u)) + (IF work[u].at \in {"slot", "running"} THEN 1 ELSE 0)
        /\ Cardinality(StopsIn(L, u)) \in Nat
    BY <1>1, <1>4, CountIs, CountsAreFinite
  <2>2. CASE u = w
    BY <1>6, <1>7, <1>8, <2>1, <2>2
  <2>3. CASE u # w
    BY <1>6, <1>8, <2>1, <2>3
  <2> QED
    BY <2>2, <2>3
<1> QED
  BY <1>9, CountIsNext

\* Every step keeps starts and stops in balance.
LEMMA CountsKeep ==
  ASSUME SharedIInv, SharedNext
  PROVE  CountInv'
<1>1. Typed /\ WorkerInv /\ VerdictInv /\ Bounded /\ Forms
  BY StepForms DEF SharedIInv
<1>2. CASE CreateRun
  BY <1>2, CreateRunCounts
<1>3. CASE ~CreateRun
  <2>1. sharedRun # 0 /\ UNCHANGED sharedRun /\ L \in Seq(EventRecord)
    BY <1>1, <1>3, NotIdle DEF Typed, L
  <2>2. ASSUME UNCHANGED log,
               \A w \in SharedWorkers : work'[w].at \in {"slot", "running"} <=> work[w].at \in {"slot", "running"}
        PROVE  CountInv'
    <3>1. L' = L
      BY <2>1, <2>2 DEF L
    <3> QED
      BY <2>1, <2>2, <3>1, CountIs, CountIsNext DEF SharedIInv
  <2>3. CASE BookStep
    <3>1. PICK e \in Seq(Booked) : RecordAll(e)
      BY <1>1, <2>3, BookStepIs
    <3>2. e \in Seq(EventRecord) /\ \A i \in 1..Len(e) : e[i].type \notin {"WorkerStarted", "WorkerStopped", "WorkerCrashed"}
      BY DEF Booked, Bookkeeping
    <3>3. UNCHANGED work
      BY <1>1, <2>3, BookStepIs DEF workers
    <3> QED
      BY <1>1, <2>1, <3>1, <3>2, <3>3, Appended, CountStays
  <2>4. CASE SubmitStep
    <3>1. PICK w \in SharedWorkers, id \in SharedIds : ContributionSubmit(w, id)
      BY <2>4 DEF SubmitStep
    <3>2. PICK event \in EventRecord, e \in Seq(EventRecord) :
              /\ event = SharedEvent("ContributionSubmitted", w, id, work[w].epoch)
              /\ e = <<event>> /\ RecordAll(e)
      BY <3>1, SubmitStepTyped
    <3>3. \A i \in 1..Len(e) : e[i].type \notin {"WorkerStarted", "WorkerStopped", "WorkerCrashed"}
      BY <3>2 DEF SharedEvent
    <3>4. UNCHANGED work /\ RecordAll(e)
      BY <3>1, <3>2 DEF ContributionSubmit
    <3> QED
      BY <1>1, <2>1, <3>3, <3>4, Appended, CountStays
  <2>5. CASE Publish
    <3>1. PICK event \in EventRecord :
              /\ event = SharedEvent("DeclarationPublished", "-", queue[1].id, Len(deltas) + 1)
              /\ log' = [log EXCEPT ![queue[1].run] = Append(@, event)]
      BY <1>1, <2>5, PublishIs
    <3>2. event.type = "DeclarationPublished" /\ UNCHANGED work
      BY <2>5, <3>1 DEF SharedEvent, Publish, workers
    <3>3. CASE queue[1].run = sharedRun
      <4>1. L' = Append(L, event)
        BY <1>1, <2>1, <3>1, <3>3, NotIdle, <1>3 DEF L, Typed
      <4>2. PICK e \in Seq(EventRecord) : e = <<event>>
        <5>1. <<event>> \in Seq(EventRecord)
          OBVIOUS
        <5> QED
          BY <5>1
      <4>3. L' = L \o e
        BY <2>1, <4>1, <4>2
      <4>4. \A i \in 1..Len(e) : e[i].type \notin {"WorkerStarted", "WorkerStopped", "WorkerCrashed"}
        BY <3>2, <4>2
      <4> QED
        BY <2>1, <3>2, <4>3, <4>4, CountStays
    <3>4. CASE queue[1].run # sharedRun
      <4>1. L' = L
        BY <1>1, <1>3, <2>1, <3>1, <3>4, NotIdle DEF L, Typed
      <4> QED
        BY <2>1, <3>2, <4>1, CountIs, CountIsNext DEF SharedIInv
    <3> QED
      BY <3>3, <3>4
  <2>6. CASE PhaseStep \/ QueueStep
    BY <2>2, <2>6, PhaseStepTyped, QueueStepTyped DEF workers
  <2>7. ASSUME NEW w \in SharedWorkers,
               TakeSlot(w) \/ SharedReleaseLease(w) \/ MultiAttempt(w)
                 \/ \E text \in Snippets, module \in Nat : ApplyStep(w, text, module)
        PROVE  CountInv'
    <3>1. UNCHANGED log
      BY <2>7 DEF TakeSlot, SharedReleaseLease, MultiAttempt, ApplyStep
    <3>2. CASE TakeSlot(w)
      BY <1>1, <2>2, <3>1, <3>2 DEF TakeSlot, Typed, Execution
    <3>3. CASE SharedReleaseLease(w)
      <4>1. work[w].at = "releasing" /\ work[w].ends \in {"returned", "failed"}
        BY <1>1, <3>3 DEF SharedReleaseLease, WorkerInv
      <4>2. PICK at \in {"returned", "failed"} : work' = [work EXCEPT ![w].at = at]
        BY <3>3, <4>1 DEF SharedReleaseLease
      <4>3. \A u \in SharedWorkers : work'[u].at \in {"slot", "running"} <=> work[u].at \in {"slot", "running"}
        BY <1>1, <4>1, <4>2 DEF Typed, Execution
      <4> QED
        BY <2>2, <3>1, <4>3
    <3>4. CASE MultiAttempt(w) \/ \E text \in Snippets, module \in Nat : ApplyStep(w, text, module)
      BY <2>2, <3>1, <3>4 DEF MultiAttempt, ApplyStep
    <3> QED
      BY <2>7, <3>2, <3>3, <3>4
  <2>8. ASSUME NEW w \in SharedWorkers, NEW after \in Nat, ReadStep(w, after)
        PROVE  CountInv'
    <3>1. PICK order \in Ascending(NewlyAcknowledged(w, after)) : RecordAll(AcknowledgedEvents(w, order))
      BY <2>8 DEF ReadStep
    <3>2. PICK e \in Seq(EventRecord) :
             /\ e = AcknowledgedEvents(w, order) /\ Len(e) = Len(order)
             /\ \A i \in 1..Len(order) : e[i] = SharedEvent("KnowledgeDeltaAcknowledged", w, "-", order[i])
      BY <1>1, AscendingIs
    <3>3. \A i \in 1..Len(e) : e[i] = SharedEvent("KnowledgeDeltaAcknowledged", w, "-", order[i])
      BY <3>2
    <3>4. \A i \in 1..Len(e) : e[i].type \notin {"WorkerStarted", "WorkerStopped", "WorkerCrashed"}
      <4>1. \A n : SharedEvent("KnowledgeDeltaAcknowledged", w, "-", n).type = "KnowledgeDeltaAcknowledged"
        BY DEF SharedEvent
      <4> QED
        BY <3>3, <4>1
    <3>5. RecordAll(e) /\ UNCHANGED work
      BY <2>8, <3>1, <3>2 DEF ReadStep
    <3> QED
      BY <1>1, <2>1, <3>4, <3>5, Appended, CountStays
  <2> QED
    BY <1>1, <1>3, <2>3, <2>4, <2>5, <2>6, <2>7, <2>8, StartStepCounts, EndStepCounts DEF Forms, WorkStep
<1> QED
  BY <1>2, <1>3
-----------------------------------------------------------------------------
(* The verdict, the artifacts and the exit code.                           *)

\* The logs grow by events that are no bookkeeping of the runner.
Neutral ==
  /\ UNCHANGED sharedRun /\ Grown
  /\ \A r \in 1..SharedMaxRuns : \A i \in DOMAIN log'[r] :
       i \in DOMAIN log[r] \/ log'[r][i].type \notin Bookkeeping

\* The phases before a verdict.
VerdictPhases == {"created", "prewarm", "round0", "round1", "epoch", "stopping", "review"}

\* Such a step leaves the verdict and the artifacts as they are.
LEMMA NeutralMeans ==
  ASSUME Typed, sharedRun # 0, Neutral
  PROVE  /\ \A r \in 1..SharedMaxRuns : Terminal(r)' = Terminal(r)
         /\ \A type \in Bookkeeping : Has(L, type)' <=> Has(L, type)
         /\ \A name \in Names : InLog(Registered(name))' <=> InLog(Registered(name))
<1>1. sharedRun \in 1..SharedMaxRuns /\ sharedRun' = sharedRun
  BY RunAssumption DEF Typed, Neutral
<1>2. \A r \in 1..SharedMaxRuns : Terminal(r)' = Terminal(r)
  BY DEF Terminal, Neutral, Grown, Bookkeeping
<1>3. ASSUME NEW type \in Bookkeeping
      PROVE  Has(L, type)' <=> Has(L, type)
  BY <1>1, <1>3 DEF Neutral, Grown, Has, L
<1>4. ASSUME NEW name \in Names
      PROVE  InLog(Registered(name))' <=> InLog(Registered(name))
  <2>1. Registered(name).type \in Bookkeeping
    BY BookedAre DEF Bookkeeping
  <2> QED
    BY <1>1, <2>1 DEF Neutral, Grown, InLog, L
<1> QED
  BY <1>2, <1>3, <1>4

\* So it keeps VerdictInv as long as the phase does not pass the verdict.
LEMMA NeutralVerdict ==
  ASSUME SharedIInv, sharedRun # 0, Neutral,
         sharedPhase \notin {"artifacts", "exited"}, sharedPhase' \notin {"artifacts", "exited"},
         (sharedPhase' \in VerdictPhases \/ (sharedPhase' = "closing" /\ error' = "none"))
           => (sharedPhase \in VerdictPhases \/ (sharedPhase = "closing" /\ error = "none")),
         sharedPhase' = "closing" => sharedPhase \in VerdictPhases \cup {"closing"}
  PROVE  VerdictInv'
<1>1. Typed /\ VerdictInv
  BY DEF SharedIInv
<1>2. sharedRun \in 1..SharedMaxRuns /\ sharedRun' = sharedRun
  BY <1>1, RunAssumption DEF Typed, Neutral
<1>3. /\ \A r \in 1..SharedMaxRuns : Terminal(r)' = Terminal(r)
      /\ \A type \in Bookkeeping : Has(L, type)' <=> Has(L, type)
      /\ InLog(Report)' <=> InLog(Report)
  BY <1>1, NeutralMeans DEF Report, Names
<1>4. \A r \in 1..SharedMaxRuns : \A i, j \in Terminal(r)' : i = j
  BY <1>1, <1>3 DEF VerdictInv
<1>5. Terminal(sharedRun)' = Terminal(sharedRun)
  BY <1>2, <1>3 DEF Terminal
<1>6. (Has(L, "RunCompleted")' <=> Has(L, "RunCompleted")) /\ (Has(L, "AlignmentReviewed")' <=> Has(L, "AlignmentReviewed"))
  BY <1>3 DEF Bookkeeping
<1> QED
  BY <1>1, <1>3, <1>4, <1>5, <1>6 DEF VerdictInv, VerdictPhases

\* Appending other events is such a step.
LEMMA AppendIsNeutral ==
  ASSUME Typed, sharedRun # 0, UNCHANGED sharedRun, NEW e \in Seq(EventRecord), RecordAll(e),
         \A i \in 1..Len(e) : e[i].type \notin Bookkeeping
  PROVE  Neutral
<1>1. /\ \A i \in 1..Len(L') : i \in 1..Len(L) \/
              (i > Len(L) /\ i - Len(L) \in 1..Len(e) /\ L'[i] = e[i - Len(L)])
      /\ \A r \in 1..SharedMaxRuns : r # sharedRun => log'[r] = log[r]
      /\ L \in Seq(EventRecord) /\ L' \in Seq(EventRecord)
  BY Appended
<1>2. Grown
  BY AppendGrows
<1>3. \A i \in DOMAIN L' : i \in DOMAIN L \/ L'[i].type \notin Bookkeeping
  <2>1. DOMAIN L = 1..Len(L) /\ DOMAIN L' = 1..Len(L')
    BY <1>1
  <2>2. ASSUME NEW i \in 1..Len(L'), i \notin 1..Len(L)
        PROVE  L'[i].type \notin Bookkeeping
    <3>1. i - Len(L) \in 1..Len(e) /\ L'[i] = e[i - Len(L)]
      BY <1>1, <2>2, Zenon
    <3> QED
      BY <3>1, Zenon
  <2> QED
    BY <2>1, <2>2, Zenon
<1> QED
  BY <1>1, <1>2, <1>3 DEF Neutral, L

\* The executions, the gateway and the consumer record no verdict.
LEMMA OthersAreNeutral ==
  ASSUME SharedIInv, sharedRun # 0,
         \/ SubmitStep \/ Publish \/ PhaseStep \/ WorkStep \/ QueueStep
         \/ (\E w \in SharedWorkers : EndStep(w) \/ \E after \in Nat : ReadStep(w, after))
         \/ \E S \in SUBSET SharedWorkers, round \in 0..1 : StartStep(S, round)
  PROVE  Neutral
<1>1. Typed /\ Bounded
  BY DEF SharedIInv
<1>2. ASSUME UNCHANGED <<sharedRun, log>>
      PROVE  Neutral
  BY <1>2 DEF Neutral, Grown
<1>3. CASE SubmitStep
  <2>1. PICK w \in SharedWorkers, id \in SharedIds : ContributionSubmit(w, id)
    BY <1>3 DEF SubmitStep
  <2>2. PICK event \in EventRecord, e \in Seq(EventRecord) :
              /\ event = SharedEvent("ContributionSubmitted", w, id, work[w].epoch)
              /\ e = <<event>> /\ RecordAll(e)
    BY <2>1, SubmitStepTyped
  <2>3. \A i \in 1..Len(e) : e[i].type \notin Bookkeeping
    BY <2>2 DEF SharedEvent, Bookkeeping
  <2>4. RecordAll(e) /\ UNCHANGED sharedRun
    BY <2>1, <2>2 DEF ContributionSubmit
  <2> QED
    BY <1>1, <2>3, <2>4, AppendIsNeutral
<1>4. CASE Publish
  <2>1. PICK event \in EventRecord :
              /\ event = SharedEvent("DeclarationPublished", "-", queue[1].id, Len(deltas) + 1)
              /\ log' = [log EXCEPT ![queue[1].run] = Append(@, event)]
    BY <1>1, <1>4, PublishIs
  <2>2. event.type \notin Bookkeeping /\ UNCHANGED sharedRun
    BY <1>4, <2>1 DEF SharedEvent, Bookkeeping, Publish
  <2>3. ASSUME NEW r \in 1..SharedMaxRuns
        PROVE  /\ \A i \in DOMAIN log[r] : i \in DOMAIN log'[r] /\ log'[r][i] = log[r][i]
               /\ \A i \in DOMAIN log'[r] : i \in DOMAIN log[r] \/ log'[r][i].type \notin Bookkeeping
    <3>1. log[r] \in Seq(EventRecord)
      BY <1>1 DEF Typed
    <3>2. CASE r = queue[1].run
      <4>1. log'[r] = Append(log[r], event)
        BY <1>1, <2>1, <3>2 DEF Typed
      <4> QED
        BY <2>2, <3>1, <4>1
    <3>3. CASE r # queue[1].run
      BY <1>1, <2>1, <3>3 DEF Typed
    <3> QED
      BY <3>2, <3>3
  <2> QED
    BY <2>2, <2>3 DEF Neutral, Grown
<1>5. CASE PhaseStep \/ QueueStep
  BY <1>2, <1>5, PhaseStepTyped, QueueStepTyped
<1>6. CASE WorkStep
  BY <1>2, <1>6 DEF WorkStep, TakeSlot, SharedReleaseLease, MultiAttempt, ApplyStep
<1>7. ASSUME NEW w \in SharedWorkers, EndStep(w)
      PROVE  Neutral
  <2>1. PICK e \in EndEvents(w) : RecordAll(e)
    BY <1>7 DEF EndStep
  <2>2. e \in Seq(EventRecord) /\ \A i \in 1..Len(e) : e[i].type \notin Bookkeeping
    <3>1. \A i \in 1..Len(e) : e[i].type \in {"AgentRunCompleted", "WorkerTimedOut", "WorkerStopped", "WorkerCrashed"}
      BY <2>1 DEF EndEvents
    <3> QED
      BY <3>1 DEF EndEvents, Bookkeeping
  <2>3. UNCHANGED sharedRun
    BY <1>7 DEF EndStep
  <2> QED
    BY <1>1, <2>1, <2>2, <2>3, AppendIsNeutral
<1>8. ASSUME NEW w \in SharedWorkers, NEW after \in Nat, ReadStep(w, after)
      PROVE  Neutral
  <2>1. PICK order \in Ascending(NewlyAcknowledged(w, after)) : RecordAll(AcknowledgedEvents(w, order))
    BY <1>8 DEF ReadStep
  <2>2. PICK e \in Seq(EventRecord) :
           /\ e = AcknowledgedEvents(w, order) /\ Len(e) = Len(order)
           /\ \A i \in 1..Len(order) : e[i] = SharedEvent("KnowledgeDeltaAcknowledged", w, "-", order[i])
    BY <1>1, AscendingIs
  <2>3. \A i \in 1..Len(e) : e[i] = SharedEvent("KnowledgeDeltaAcknowledged", w, "-", order[i])
    BY <2>2
  <2>4. \A n : SharedEvent("KnowledgeDeltaAcknowledged", w, "-", n).type \notin Bookkeeping
    BY DEF SharedEvent, Bookkeeping
  <2>5. RecordAll(e) /\ UNCHANGED sharedRun /\ \A i \in 1..Len(e) : e[i].type \notin Bookkeeping
    BY <1>8, <2>1, <2>2, <2>3, <2>4 DEF ReadStep
  <2> QED
    BY <1>1, <2>5, AppendIsNeutral
<1>9. ASSUME NEW S \in SUBSET SharedWorkers, NEW round \in 0..1, StartStep(S, round)
      PROVE  Neutral
  <2>1. PICK order \in {<<"a", "b">>, <<"a">>, <<"b">>} : RecordAll(StartedEvents(order))
    BY <1>9 DEF StartStep
  <2>2. order \in Seq(SharedWorkers)
    BY OrdersAre
  <2>3. PICK e \in Seq(EventRecord) : /\ e = StartedEvents(order) /\ Len(e) = Len(order)
           /\ \A i \in 1..Len(order) : e[i] = SharedEvent("WorkerStarted", order[i], "-", 0)
    BY <2>2, StartedAre
  <2>4. \A i \in 1..Len(e) : e[i] = SharedEvent("WorkerStarted", order[i], "-", 0)
    BY <2>3
  <2>5. \A w : SharedEvent("WorkerStarted", w, "-", 0).type \notin Bookkeeping
    BY DEF SharedEvent, Bookkeeping
  <2>6. RecordAll(e) /\ UNCHANGED sharedRun /\ \A i \in 1..Len(e) : e[i].type \notin Bookkeeping
    BY <1>9, <2>1, <2>3, <2>4, <2>5 DEF StartStep
  <2> QED
    BY <1>1, <2>6, AppendIsNeutral
<1> QED
  BY <1>3, <1>4, <1>5, <1>6, <1>7, <1>8, <1>9

\* A new run has no verdict.
LEMMA CreateRunVerdict ==
  ASSUME SharedIInv, CreateRun
  PROVE  VerdictInv'
<1>1. Typed /\ VerdictInv
  BY DEF SharedIInv
<1>2. /\ sharedRun' \in 1..SharedMaxRuns /\ sharedPhase' = "created" /\ sharedRun' = sharedRun + 1
      /\ log' = [log EXCEPT ![sharedRun'] = <<Plain("RunCreated")>>]
  BY RunAssumption DEF SharedIInv, Typed, CreateRun
<1>3. log'[sharedRun'] = <<Plain("RunCreated")>>
  BY <1>1, <1>2 DEF Typed
<1>4. Plain("RunCreated").type = "RunCreated" /\ Report.type = "ArtifactRegistered"
  BY DEF Plain, SharedEvent, Report, Registered
<1>5. /\ \A i \in DOMAIN log'[sharedRun'] : log'[sharedRun'][i].type = "RunCreated"
  BY <1>3, <1>4
<1>6. \A r \in 1..SharedMaxRuns : r # sharedRun' => log'[r] = log[r]
  BY <1>1, <1>2 DEF Typed
<1>7. /\ ~Has(L, "RunCompleted")' /\ ~Has(L, "AlignmentReviewed")' /\ ~InLog(Report)' /\ Terminal(sharedRun)' = {}
  BY <1>4, <1>5 DEF Has, InLog, L, Terminal
<1>8. \A r \in 1..SharedMaxRuns : \A i, j \in Terminal(r)' : i = j
  BY <1>1, <1>2, <1>6, <1>7 DEF VerdictInv, Terminal
<1> QED
  BY <1>2, <1>7, <1>8 DEF VerdictInv

\* The rounds come before it.
LEMMA StartStepVerdict ==
  ASSUME SharedIInv, NEW S \in SUBSET SharedWorkers, NEW round \in 0..1, StartStep(S, round)
  PROVE  VerdictInv'
<1>1. sharedRun # 0 /\ Neutral
  BY OthersAreNeutral DEF SharedIInv, StartStep, Typed
<1> QED
  BY <1>1, NeutralVerdict DEF StartStep, VerdictPhases

\* The runner closes, reviews and exits with what is in the log.
LEMMA PhaseStepVerdict ==
  ASSUME SharedIInv, PhaseStep
  PROVE  VerdictInv'
<1>1. Typed /\ VerdictInv /\ WorkerInv /\ UNCHANGED <<sharedRun, log, evidence>> /\ sharedRun # 0
  BY PhaseStepTyped DEF SharedIInv, Typed
<1>2. Neutral
  BY <1>1, OthersAreNeutral
<1>3. /\ Terminal(sharedRun)' = Terminal(sharedRun) /\ \A r \in 1..SharedMaxRuns : Terminal(r)' = Terminal(r)
      /\ UNCHANGED L /\ UNCHANGED <<part, labels, trace>>
  BY <1>1 DEF Terminal, L, evidence
<1>4. ASSUME sharedPhase \in {"prewarm", "round0", "round1", "epoch", "created"},
             sharedPhase' \in VerdictPhases \/ sharedPhase' = "closing"
      PROVE  VerdictInv'
  BY <1>1, <1>2, <1>4, NeutralVerdict DEF VerdictPhases
<1>5. ASSUME ~Completed, ~InLog(Report), exit' # "ok", sharedPhase' = "exited"
      PROVE  VerdictInv'
  <2>1. ~Completed' /\ ~InLog(Report)'
    BY <1>3, <1>5 DEF Completed, InLog
  <2>2. \A r \in 1..SharedMaxRuns : \A i, j \in Terminal(r)' : i = j
    BY <1>1, <1>3 DEF VerdictInv
  <2> QED
    BY <1>5, <2>1, <2>2 DEF VerdictInv
<1>6. CASE SharedOpenHost \/ PrewarmFails \/ ConsumerFails \/ Interrupt \/ EpochTimesOut
           \/ (RoundEnds /\ ~FirstIsProverA) \/ SecondRoundFails \/ SecondRoundEnds \/ WaitForEpoch
           \/ (\E w \in SharedWorkers : WorkerFails(w))
  <2>1. sharedPhase \in {"prewarm", "round0", "round1", "epoch", "created"}
    BY <1>6 DEF SharedOpenHost, PrewarmFails, ConsumerFails, Interrupt, EpochTimesOut, RoundEnds, SecondRoundFails,
       SecondRoundEnds, WaitForEpoch, WorkerFails, Hosted
  <2>2. sharedPhase' \in VerdictPhases \/ sharedPhase' = "closing"
    BY <1>6 DEF SharedOpenHost, PrewarmFails, ConsumerFails, Interrupt, EpochTimesOut, RoundEnds, SecondRoundFails,
       SecondRoundEnds, WaitForEpoch, WorkerFails, SharedFail, VerdictPhases
  <2> QED
    BY <1>4, <2>1, <2>2
<1>7. CASE GovernorRefuses
  <2>1. ~Completed /\ exit' # "ok" /\ ~InLog(Report) /\ sharedPhase' = "exited"
    BY <1>1, <1>7 DEF GovernorRefuses, VerdictInv, Completed
  <2> QED
    BY <1>5, <2>1
<1>8. CASE CloseHost
  <2>1. CASE sharedPhase' = "review" /\ error = "none"
    BY <1>1, <1>2, <1>8, <2>1, NeutralVerdict DEF CloseHost, VerdictPhases
  <2>2. CASE sharedPhase' = "exited"
    <3>1. ~Completed /\ exit' # "ok" /\ ~InLog(Report)
      BY <1>1, <1>8, <2>2 DEF CloseHost, VerdictInv, Completed, Typed, Categories
    <3> QED
      BY <1>5, <2>2, <3>1
  <2> QED
    BY <1>8, <2>1, <2>2 DEF CloseHost
<1>9. CASE WriteFails \/ SharedFinish
  <2>1. sharedPhase = "artifacts" /\ sharedPhase' = "exited"
    BY <1>9 DEF WriteFails, SharedFinish
  <2>2. exit' = "ok" <=> Completed /\ InLog(Report)
    BY <1>1, <1>9, <2>1, PartsAre DEF WriteFails, SharedFinish, VerdictInv, Typed, Categories
  <2>3. InLog(Report) => AllRegistered
    <3>1. SUFFICES ASSUME InLog(Report), NEW name \in Names
                   PROVE  Has(L, "ArtifactRegistered") /\ \E i \in DOMAIN L : L[i] = Registered(name)
      BY Zenon DEF AllRegistered, L
    <3>2. part > 5
      BY <1>1, <2>1, <3>1 DEF VerdictInv
    <3>3. /\ InLog(Registered("run-manifest.json")) /\ InLog(Registered("alignment-review.json"))
          /\ InLog(Registered("formal-trace.jsonl")) /\ InLog(Registered("formal-trace.sha256"))
      BY <1>1, <2>1, <3>2 DEF VerdictInv, Typed
    <3>4. InLog(Registered(name))
      BY <3>1, <3>3 DEF Names, Report
    <3>5. Registered(name).type = "ArtifactRegistered"
      BY BookedAre
    <3> QED
      BY <3>4, <3>5 DEF InLog, Has
  <2>4. (Completed' <=> Completed) /\ (InLog(Report)' <=> InLog(Report)) /\ (AllRegistered' <=> AllRegistered)
    BY <1>1, <1>3 DEF Completed, InLog, AllRegistered
  <2>5. \A r \in 1..SharedMaxRuns : \A i, j \in Terminal(r)' : i = j
    BY <1>1, <1>3 DEF VerdictInv
  <2> QED
    BY <2>1, <2>2, <2>3, <2>4, <2>5 DEF VerdictInv
<1> QED
  BY <1>6, <1>7, <1>8, <1>9 DEF PhaseStep

\* What the runner appends, seen in the log.
LEMMA BookedLog ==
  ASSUME Typed, sharedRun # 0, UNCHANGED sharedRun, NEW e \in Seq(EventRecord), RecordAll(e)
  PROVE  /\ \A type : Has(L, type)' <=> Has(L, type) \/ Has(e, type)
         /\ \A event : InLog(event)' <=> InLog(event) \/ \E i \in 1..Len(e) : e[i] = event
         /\ \A r \in 1..SharedMaxRuns : r # sharedRun => Terminal(r)' = Terminal(r)
         /\ Terminal(sharedRun)' = Terminal(sharedRun) \cup
              {Len(L) + i : i \in {j \in 1..Len(e) : e[j].type \in {"RunCompleted", "RunAborted"}}}
<1>1. /\ L \in Seq(EventRecord) /\ L' \in Seq(EventRecord) /\ Len(L) \in Nat /\ Len(e) \in Nat
      /\ Len(L') = Len(L) + Len(e)
      /\ \A i \in 1..Len(L) : L'[i] = L[i]
      /\ \A i \in 1..Len(e) : L'[Len(L) + i] = e[i]
      /\ \A i \in 1..Len(L') : i \in 1..Len(L) \/
              (i > Len(L) /\ i - Len(L) \in 1..Len(e) /\ L'[i] = e[i - Len(L)])
      /\ \A r \in 1..SharedMaxRuns : r # sharedRun => log'[r] = log[r]
  BY Appended
<1>2. DOMAIN L = 1..Len(L) /\ DOMAIN L' = 1..Len(L') /\ DOMAIN e = 1..Len(e)
  BY <1>1
<1>3. \A i \in 1..Len(L) : i \in 1..Len(L')
  BY <1>1
<1>4. \A i \in 1..Len(e) : Len(L) + i \in 1..Len(L') /\ Len(L) + i \notin 1..Len(L) /\ Len(L) + i - Len(L) = i
  BY <1>1
<1>5. \A type : Has(L, type)' <=> Has(L, type) \/ Has(e, type)
  <2> SUFFICES ASSUME NEW type
               PROVE  (\E i \in 1..Len(L') : L'[i].type = type)
                        <=> (\E i \in 1..Len(L) : L[i].type = type) \/ (\E i \in 1..Len(e) : e[i].type = type)
    BY <1>2 DEF Has
  <2> QED
    BY <1>1, <1>3, <1>4, ZenonT(40)
<1>6. \A event : InLog(event)' <=> InLog(event) \/ \E i \in 1..Len(e) : e[i] = event
  <2> SUFFICES ASSUME NEW event
               PROVE  (\E i \in 1..Len(L') : L'[i] = event)
                        <=> (\E i \in 1..Len(L) : L[i] = event) \/ (\E i \in 1..Len(e) : e[i] = event)
    BY <1>2 DEF InLog
  <2> QED
    BY <1>1, <1>3, <1>4, ZenonT(40)
<1>7. \A r \in 1..SharedMaxRuns : r # sharedRun => Terminal(r)' = Terminal(r)
  BY <1>1 DEF Terminal
<1>8. Terminal(sharedRun)' = Terminal(sharedRun) \cup
              {Len(L) + i : i \in {j \in 1..Len(e) : e[j].type \in {"RunCompleted", "RunAborted"}}}
  <2> DEFINE T == {i \in 1..Len(L) : L[i].type \in {"RunCompleted", "RunAborted"}}
             N == {j \in 1..Len(e) : e[j].type \in {"RunCompleted", "RunAborted"}}
             U == {i \in 1..Len(L') : L'[i].type \in {"RunCompleted", "RunAborted"}}
  <2>1. Terminal(sharedRun) = T /\ Terminal(sharedRun)' = U
    BY <1>2 DEF Terminal, L
  <2>2. ASSUME NEW i \in U
        PROVE  i \in T \/ \E j \in N : i = Len(L) + j
    <3>1. CASE i \in 1..Len(L)
      BY <1>1, <3>1
    <3>2. CASE i - Len(L) \in 1..Len(e) /\ L'[i] = e[i - Len(L)]
      <4>1. i - Len(L) \in N /\ i = Len(L) + (i - Len(L))
        BY <1>1, <3>2
      <4> QED
        BY <4>1
    <3> QED
      BY <1>1, <3>1, <3>2
  <2>3. \A i \in T : i \in U
    BY <1>1, <1>3
  <2>4. \A j \in N : Len(L) + j \in U
    BY <1>1, <1>4
  <2> QED
    BY <2>1, <2>2, <2>3, <2>4
<1> QED
  BY <1>5, <1>6, <1>7, <1>8

\* The first terminal event of the run is the only one.
LEMMA FirstTerminal ==
  ASSUME Typed, VerdictInv, sharedRun # 0, UNCHANGED sharedRun, NEW e \in Seq(EventRecord), RecordAll(e),
         Terminal(sharedRun) = {},
         \A i, j \in 1..Len(e) : e[i].type \in {"RunCompleted", "RunAborted"} /\ e[j].type \in {"RunCompleted", "RunAborted"}
                                 => i = j
  PROVE  \A r \in 1..SharedMaxRuns : \A i, j \in Terminal(r)' : i = j
<1>1. /\ \A r \in 1..SharedMaxRuns : r # sharedRun => Terminal(r)' = Terminal(r)
      /\ Terminal(sharedRun)' =
              {Len(L) + i : i \in {j \in 1..Len(e) : e[j].type \in {"RunCompleted", "RunAborted"}}}
  BY BookedLog
<1>2. \A i, j \in Terminal(sharedRun)' : i = j
  BY <1>1
<1>3. ASSUME NEW r \in 1..SharedMaxRuns
      PROVE  \A i, j \in Terminal(r)' : i = j
  <2>1. CASE r = sharedRun
    <3>1. Terminal(r)' = Terminal(sharedRun)'
      BY <2>1 DEF Terminal
    <3> QED
      BY <1>2, <3>1
  <2>2. CASE r # sharedRun
    BY <1>1, <2>2 DEF VerdictInv
  <2> QED
    BY <2>1, <2>2
<1> QED
  BY <1>3

\* The verdict that the labels report when the review is the first one.
LEMMA FirstVerdict ==
  ASSUME NEW s \in Seq(EventRecord), NEW e \in Seq(EventRecord), ~Has(s, "AlignmentReviewed"),
         Len(e) > 0, \A i \in 1..Len(e) : i # 1 => e[i].type # "AlignmentReviewed"
  PROVE  /\ e[1].type = "AlignmentReviewed" => LastVerdict(s \o e) = e[1].ref
         /\ e[1].type # "AlignmentReviewed" => LastVerdict(s \o e) = "-"
<1> DEFINE t == s \o e
           R == {i \in DOMAIN t : t[i].type = "AlignmentReviewed"}
<1>1. /\ DOMAIN t = 1..Len(s) + Len(e) /\ Len(s) \in Nat /\ Len(e) \in Nat /\ DOMAIN s = 1..Len(s)
      /\ \A i \in 1..Len(s) : t[i] = s[i]
      /\ \A i \in 1..Len(s) + Len(e) : i \in 1..Len(s) \/ (i - Len(s) \in 1..Len(e) /\ t[i] = e[i - Len(s)])
      /\ t[Len(s) + 1] = e[1]
  OBVIOUS
<1>2. LastVerdict(t) = IF R = {} THEN "-" ELSE t[CHOOSE i \in R : \A j \in R : j <= i].ref
  BY Zenon DEF LastVerdict
<1>3. \A i \in R : i = Len(s) + 1
  BY <1>1, SMTT(30) DEF Has
<1>4. CASE e[1].type = "AlignmentReviewed"
  <2>1. R = {Len(s) + 1}
    BY <1>1, <1>3, <1>4
  <2>2. (CHOOSE i \in R : \A j \in R : j <= i) = Len(s) + 1
    BY <1>1, <2>1
  <2> QED
    BY <1>1, <1>2, <1>4, <2>1, <2>2
<1>5. CASE e[1].type # "AlignmentReviewed"
  <2>1. R = {}
    BY <1>1, <1>3, <1>5
  <2> QED
    BY <1>2, <1>5, <2>1
<1> QED
  BY <1>4, <1>5

\* An abort is the first verdict, and no completion follows.
LEMMA AbortVerdict ==
  ASSUME SharedIInv, SharedOpenHostFails \/ AbortRun
  PROVE  VerdictInv'
<1>1. Typed /\ VerdictInv /\ WorkerInv /\ sharedRun # 0 /\ UNCHANGED sharedRun
  BY DEF SharedIInv, Typed, SharedOpenHostFails, AbortRun
<1>2. PICK event \in EventRecord : event = Plain("RunAborted") /\ event.type = "RunAborted" /\ SharedRecord(event)
  BY BookedAre DEF Booked, SharedOpenHostFails, AbortRun
<1>3. PICK e \in Seq(EventRecord) : e = <<event>> /\ RecordAll(e)
  BY <1>1, <1>2, OneAppended
<1>4. Len(e) = 1 /\ e[1].type = "RunAborted" /\ Report.type = "ArtifactRegistered"
  BY <1>2, <1>3 DEF Report, Registered, SharedEvent
<1>5. sharedPhase \in {"created", "stopping"} /\ Terminal(sharedRun) = {}
      /\ ~Has(L, "RunCompleted") /\ ~Has(L, "AlignmentReviewed") /\ ~InLog(Report)
  BY <1>1 DEF SharedOpenHostFails, AbortRun, VerdictInv
<1>6. RecordAll(e) /\ \A i \in 1..Len(e) : i = 1
  BY <1>3, <1>4
<1>7. \A r \in 1..SharedMaxRuns : \A i, j \in Terminal(r)' : i = j
  <2>1. \A i, j \in 1..Len(e) : i = j
    BY <1>6
  <2> QED
    BY <1>1, <1>5, <1>6, <2>1, FirstTerminal
<1>8. ~Has(L, "RunCompleted")' /\ ~Has(L, "AlignmentReviewed")' /\ ~InLog(Report)'
  <2>1. ~Has(e, "RunCompleted") /\ ~Has(e, "AlignmentReviewed") /\ \A i \in 1..Len(e) : e[i] # Report
    BY <1>4, <1>6 DEF Has
  <2> QED
    BY <1>1, <1>5, <1>6, <2>1, BookedLog
<1>9. \/ sharedPhase' = "exited" /\ exit' # "ok"
      \/ sharedPhase' = "closing" /\ error' # "none"
  BY <1>1 DEF SharedOpenHostFails, AbortRun, WorkerInv
<1> QED
  BY <1>7, <1>8, <1>9 DEF VerdictInv, Completed

\* The end of the review: the one verdict and the labels.
LEMMA ConcludeVerdict ==
  ASSUME SharedIInv, sharedPhase = "review", NEW e \in Seq(EventRecord), Conclude(e),
         Len(e) > 0, Len(e) <= 2, e[Len(e)].type \in {"RunCompleted", "RunAborted"},
         Len(e) = 2 => /\ e[1].type = "AlignmentReviewed"
                       /\ e[1].ref = "aligned" <=> e[2].type = "RunCompleted",
         Len(e) = 1 => e[1].type = "RunAborted",
         error' = "none" <=> e[Len(e)].type = "RunCompleted"
  PROVE  VerdictInv'
<1>1. Typed /\ VerdictInv /\ sharedRun # 0 /\ UNCHANGED <<sharedRun, trace>> /\ RecordAll(e)
      /\ sharedPhase' = "artifacts" /\ part' = 1 /\ labels' = LabelsOf(log[sharedRun] \o e)
  BY DEF SharedIInv, Typed, Conclude
<1>2. L' = L \o e /\ L \in Seq(EventRecord) /\ L' = log[sharedRun] \o e
  BY <1>1, Appended DEF L
<1>3. /\ Len(e) \in Nat /\ DOMAIN e = 1..Len(e)
      /\ \/ Len(e) = 1 /\ e[1].type = "RunAborted" /\ e[Len(e)].type = "RunAborted"
         \/ /\ Len(e) = 2 /\ e[1].type = "AlignmentReviewed" /\ e[Len(e)] = e[2]
            /\ e[2].type \in {"RunCompleted", "RunAborted"}
            /\ e[1].ref = "aligned" <=> e[2].type = "RunCompleted"
  <2>1. Len(e) \in Nat /\ DOMAIN e = 1..Len(e)
    OBVIOUS
  <2>2. Len(e) = 1 \/ Len(e) = 2
    BY <2>1
  <2> QED
    BY <2>1, <2>2
<1>4. Terminal(sharedRun) = {} /\ ~Has(L, "RunCompleted") /\ ~Has(L, "RunAborted")
      /\ ~Has(L, "AlignmentReviewed") /\ ~InLog(Report)
  BY <1>1 DEF VerdictInv, Terminal, Has, L
<1>5. /\ Has(L, "RunCompleted")' <=> e[Len(e)].type = "RunCompleted"
      /\ Has(L, "RunAborted")' <=> e[Len(e)].type = "RunAborted"
      /\ ~InLog(Report)'
  <2>1. \A type : Has(L, type)' <=> Has(L, type) \/ Has(e, type)
    BY <1>1, BookedLog, Zenon
  <2>2. \A i \in 1..Len(e) : i = Len(e) \/ (i = 1 /\ Len(e) = 2)
    <3>1. CASE Len(e) = 1
      BY <3>1
    <3>2. CASE Len(e) = 2
      BY <3>2
    <3> QED
      BY <1>3, <3>1, <3>2, Zenon
  <2>3. DOMAIN e = 1..Len(e) /\ Len(e) \in 1..Len(e)
    BY <1>3, SMTT(30)
  <2>4. Has(e, "RunCompleted") <=> e[Len(e)].type = "RunCompleted"
    BY <2>2, <2>3, ZenonT(40) DEF Has
  <2>5. Has(e, "RunAborted") <=> e[Len(e)].type = "RunAborted"
    BY <2>2, <2>3 DEF Has
  <2>6. Report.type = "ArtifactRegistered"
    BY DEF Report, Registered, SharedEvent
  <2>7. \A i \in 1..Len(e) : e[i] # Report
    BY <2>2, <2>6
  <2>8. InLog(Report)' <=> InLog(Report) \/ \E i \in 1..Len(e) : e[i] = Report
    BY <1>1, BookedLog
  <2> QED
    BY <1>4, <2>1, <2>4, <2>5, <2>7, <2>8
<1>6. LastVerdict(L') = "aligned" <=> e[Len(e)].type = "RunCompleted"
  <2>1. \A i \in 1..Len(e) : i # 1 => e[i].type # "AlignmentReviewed"
    BY <1>3
  <2>2. /\ e[1].type = "AlignmentReviewed" => LastVerdict(L \o e) = e[1].ref
        /\ e[1].type # "AlignmentReviewed" => LastVerdict(L \o e) = "-"
    BY <1>2, <1>4, <2>1, FirstVerdict
  <2>3. LastVerdict(L') = LastVerdict(L \o e)
    BY <1>2
  <2> QED
    BY <1>3, <2>2, <2>3
<1>7. /\ labels'.status = (IF Completed' THEN "pass" ELSE "aborted")
      /\ labels'.verdict = "aligned" <=> Completed'
      /\ error' = "none" <=> Completed'
      /\ Completed' <=> ~Aborted'
  <2>1. labels'.verdict = LastVerdict(L')
        /\ labels'.status = IF Has(L', "RunAborted") THEN "aborted"
              ELSE IF Has(L', "RunCompleted") THEN "pass" ELSE "running"
    BY <1>1, <1>2 DEF LabelsOf
  <2>2. (Completed' <=> e[Len(e)].type = "RunCompleted") /\ (Aborted' <=> e[Len(e)].type = "RunAborted")
    BY <1>5 DEF Completed, Aborted
  <2>3. (Has(L', "RunAborted") <=> Aborted') /\ (Has(L', "RunCompleted") <=> Completed')
    BY DEF Completed, Aborted, Has
  <2> QED
    BY <1>6, <2>1, <2>2, <2>3
<1>8. \A r \in 1..SharedMaxRuns : \A i, j \in Terminal(r)' : i = j
  <2>1. \A i, j \in 1..Len(e) : e[i].type \in {"RunCompleted", "RunAborted"} /\ e[j].type \in {"RunCompleted", "RunAborted"}
                                 => i = j
    BY <1>3
  <2> QED
    BY <1>1, <1>4, <2>1, FirstTerminal
<1> QED
  BY <1>1, <1>5, <1>7, <1>8 DEF VerdictInv

\* The artifacts are registered in their order, and the seal copies the log.
LEMMA RecordPartVerdict ==
  ASSUME SharedIInv, RecordPart
  PROVE  VerdictInv'
<1>1. Typed /\ VerdictInv /\ sharedRun # 0 /\ UNCHANGED <<sharedRun, sharedPhase, error, labels>>
      /\ sharedPhase = "artifacts" /\ part \in 1..5 /\ RecordAll(Parts[part]) /\ part' = part + 1
      /\ trace' = IF part = 3 THEN log[sharedRun] \o Parts[part] ELSE trace
  BY PartsAre, SMTT(30) DEF SharedIInv, Typed, RecordPart, VerdictInv, Sealing
<1>2. PICK e \in Seq(EventRecord) : e = Parts[part]
  <2>1. Parts[part] \in Seq(Booked)
    BY <1>1, PartsAre
  <2>2. Seq(Booked) \subseteq Seq(EventRecord)
    BY DEF Booked
  <2> QED
    BY <2>1, <2>2
<1>3. RecordAll(e) /\ L \in Seq(EventRecord)
  BY <1>1, <1>2, Appended
<1>4. L' = L \o e
  BY <1>1, <1>3, Appended
<1>5. /\ Report = Registered("acceptance-report.json") /\ Report.type = "ArtifactRegistered"
      /\ \A name : Registered(name).type = "ArtifactRegistered" /\ Registered(name).ref = name
      /\ Plain("FormalTraceSealed").type = "FormalTraceSealed"
  BY BookedAre DEF Report
<1>6. /\ part = 1 => e = <<Registered("run-manifest.json")>>
      /\ part = 2 => e = <<Registered("alignment-review.json")>>
      /\ part = 3 => e = <<Plain("FormalTraceSealed")>>
      /\ part = 4 => e = <<Registered("formal-trace.jsonl"), Registered("formal-trace.sha256")>>
      /\ part = 5 => e = <<Report>>
  BY <1>2, PartsAre
<1>7. /\ part = 1 => Len(e) = 1 /\ e[1] = Registered("run-manifest.json")
      /\ part = 2 => Len(e) = 1 /\ e[1] = Registered("alignment-review.json")
      /\ part = 3 => Len(e) = 1 /\ e[1] = Plain("FormalTraceSealed")
      /\ part = 4 => /\ Len(e) = 2 /\ e[1] = Registered("formal-trace.jsonl")
                     /\ e[2] = Registered("formal-trace.sha256")
      /\ part = 5 => Len(e) = 1 /\ e[1] = Report
  BY <1>6
<1>8. part = 1 \/ part = 2 \/ part = 3 \/ part = 4 \/ part = 5
  BY <1>1
<1>9. \A i \in 1..Len(e) : /\ e[i].type \in {"ArtifactRegistered", "FormalTraceSealed"}
                           /\ e[i] = Report => part = 5
  BY <1>5, <1>7, <1>8
<1>10. /\ \A type \in {"RunCompleted", "RunAborted", "AlignmentReviewed"} : Has(L, type)' <=> Has(L, type)
       /\ \A event : InLog(event)' <=> InLog(event) \/ \E i \in 1..Len(e) : e[i] = event
  <2>1. \A type \in {"RunCompleted", "RunAborted", "AlignmentReviewed"} : ~Has(e, type)
    BY <1>9 DEF Has
  <2> QED
    BY <1>1, <1>3, <2>1, BookedLog
<1>11. \A r \in 1..SharedMaxRuns : \A i, j \in Terminal(r)' : i = j
  <2>1. {j \in 1..Len(e) : e[j].type \in {"RunCompleted", "RunAborted"}} = {}
    BY <1>9
  <2>2. \A r \in 1..SharedMaxRuns : r # sharedRun => Terminal(r)' = Terminal(r)
    BY <1>1, <1>3, BookedLog
  <2>3. Terminal(sharedRun)' = Terminal(sharedRun)
    <3>1. Terminal(sharedRun)' = Terminal(sharedRun) \cup
              {Len(L) + i : i \in {j \in 1..Len(e) : e[j].type \in {"RunCompleted", "RunAborted"}}}
      BY <1>1, <1>3, BookedLog
    <3> QED
      BY <2>1, <3>1
  <2>4. ASSUME NEW r \in 1..SharedMaxRuns
        PROVE  Terminal(r)' = Terminal(r)
    BY <1>1, <2>2, <2>3 DEF Terminal
  <2> QED
    BY <1>1, <2>4 DEF VerdictInv
<1>12. (Completed' <=> Completed) /\ (Aborted' <=> Aborted)
  BY <1>10 DEF Completed, Aborted
<1>13. /\ part' > 1 => InLog(Registered("run-manifest.json"))'
       /\ part' > 2 => InLog(Registered("alignment-review.json"))'
       /\ part' > 4 => InLog(Registered("formal-trace.jsonl"))' /\ InLog(Registered("formal-trace.sha256"))'
       /\ part' > 5 <=> InLog(Report)'
  <2>1. /\ part > 1 => InLog(Registered("run-manifest.json"))
        /\ part > 2 => InLog(Registered("alignment-review.json"))
        /\ part > 4 => InLog(Registered("formal-trace.jsonl")) /\ InLog(Registered("formal-trace.sha256"))
        /\ part > 5 <=> InLog(Report)
    BY <1>1 DEF VerdictInv
  <2>2. 1 \in 1..Len(e) /\ (part = 4 => 2 \in 1..Len(e))
    BY <1>7, <1>8
  <2> QED
    BY <1>1, <1>9, <1>10, <1>7, <1>8, <2>1, <2>2
<1>14. part' > 3 => /\ trace' # <<>> /\ Last(trace') = Plain("FormalTraceSealed")
                    /\ IsPrefix(trace', L')
                    /\ Has(trace', "RunCompleted") <=> Completed'
  <2>1. CASE part = 3
    <3>1. trace' = L' /\ Len(e) = 1 /\ e[1] = Plain("FormalTraceSealed")
      <4>1. trace' = L \o e
        BY <1>1, <1>2, <2>1 DEF L
      <4> QED
        BY <1>4, <1>7, <2>1, <4>1
    <3>2. L' \in Seq(EventRecord) /\ Len(L') = Len(L) + 1 /\ L'[Len(L')] = Plain("FormalTraceSealed")
      <4>1. /\ L' \in Seq(EventRecord) /\ Len(L') = Len(L) + Len(e) /\ Len(L) \in Nat
            /\ \A i \in 1..Len(e) : L'[Len(L) + i] = e[i]
        BY <1>1, <1>3, Appended
      <4> QED
        BY <3>1, <4>1
    <3>3. L' # <<>> /\ Last(L') = Plain("FormalTraceSealed") /\ IsPrefix(L', L')
      BY <3>2 DEF Last, IsPrefix
    <3>4. Has(L', "RunCompleted") <=> Completed'
      BY DEF Has, Completed
    <3> QED
      BY <3>1, <3>3, <3>4
  <2>2. CASE part \in 4..5
    <3>1. trace' = trace /\ trace # <<>> /\ Last(trace) = Plain("FormalTraceSealed") /\ IsPrefix(trace, L)
          /\ (Has(trace, "RunCompleted") <=> Completed) /\ trace \in Seq(EventRecord)
      <4>1. part > 3 /\ trace' = trace /\ trace \in Seq(EventRecord)
        <5>1. part > 3 /\ part # 3
          BY <2>2
        <5>2. trace' = trace
          BY <1>1, <5>1, Zenon
        <5>3. trace \in Seq(EventRecord)
          BY <1>1, Zenon DEF Typed
        <5> QED
          BY <5>1, <5>2, <5>3
      <4>2. /\ trace # <<>> /\ Last(trace) = Plain("FormalTraceSealed")
            /\ IsPrefix(trace, L)
            /\ Has(trace, "RunCompleted") <=> Completed
        BY <1>1, <4>1, Zenon DEF VerdictInv
      <4> QED
        BY <4>1, <4>2, Zenon
    <3>2. IsPrefix(trace, L')
      BY <1>3, <1>4, <3>1 DEF IsPrefix
    <3> QED
      BY <1>12, <3>1, <3>2
  <2> QED
    BY <1>1, <2>1, <2>2
<1> QED
  BY <1>1, <1>11, <1>12, <1>13, <1>14 DEF VerdictInv

\* Verdict, labels and artifacts are written together.
LEMMA BookStepVerdict ==
  ASSUME SharedIInv, BookStep
  PROVE  VerdictInv'
<1>1. Typed /\ VerdictInv /\ WorkerInv
  BY DEF SharedIInv
<1>2. CASE SharedOpenHostFails \/ AbortRun
  BY <1>2, AbortVerdict
<1>3. CASE RecordPart
  BY <1>3, RecordPartVerdict
<1>4. ASSUME sharedPhase = "review", NEW v \in Verdicts, NEW last \in {"RunCompleted", "RunAborted"},
             Conclude(<<Reviewed(v), Plain(last)>>), v = "aligned" <=> last = "RunCompleted",
             error' = "none" <=> last = "RunCompleted"
      PROVE  VerdictInv'
  <2>1. Reviewed(v) \in Booked /\ Reviewed(v).type = "AlignmentReviewed" /\ Reviewed(v).ref = v
        /\ Plain(last) \in Booked /\ Plain(last).type = last
    BY <1>4, BookedAre
  <2>2. PICK e \in Seq(EventRecord) : e = <<Reviewed(v), Plain(last)>>
    <3>1. <<Reviewed(v), Plain(last)>> \in Seq(EventRecord)
      BY <2>1 DEF Booked
    <3> QED
      BY <3>1
  <2>3. Len(e) = 2 /\ e[1].type = "AlignmentReviewed" /\ e[1].ref = v /\ e[2].type = last
    BY <2>1, <2>2
  <2>4. Conclude(e)
    BY <1>4, <2>2 DEF Conclude, RecordAll
  <2>5. Len(e) > 0 /\ Len(e) <= 2 /\ e[Len(e)].type \in {"RunCompleted", "RunAborted"} /\ e[Len(e)].type = last
    BY <1>4, <2>3
  <2> QED
    BY <1>4, <2>3, <2>4, <2>5, ConcludeVerdict
<1>5. CASE FakeReview
  <2>1. "aligned" \in Verdicts /\ "RunCompleted" \in {"RunCompleted", "RunAborted"}
    BY DEF Verdicts
  <2>2. sharedPhase = "review" /\ error' = "none" /\ Conclude(<<Reviewed("aligned"), Plain("RunCompleted")>>)
    BY <1>1, <1>5 DEF FakeReview, WorkerInv
  <2> QED
    BY <1>4, <2>1, <2>2
<1>6. CASE \E v \in Verdicts : AuditAlignment(v)
  <2>1. PICK v \in Verdicts : AuditAlignment(v)
    BY <1>6
  <2>2. sharedPhase = "review" /\ error = "none"
    BY <1>1, <2>1 DEF AuditAlignment, WorkerInv
  <2>3. CASE v = "aligned"
    <3>1. Conclude(<<Reviewed(v), Plain("RunCompleted")>>) /\ error' = "none"
      BY <2>1, <2>2, <2>3 DEF AuditAlignment
    <3> QED
      BY <1>4, <2>2, <2>3, <3>1
  <2>4. CASE v # "aligned"
    <3>1. Conclude(<<Reviewed(v), Plain("RunAborted")>>) /\ error' = "verification"
      BY <2>1, <2>4 DEF AuditAlignment
    <3> QED
      BY <1>4, <2>2, <2>4, <3>1
  <2> QED
    BY <2>3, <2>4
<1>7. CASE AuditFails
  <2>1. PICK event \in EventRecord : event = Plain("RunAborted") /\ event.type = "RunAborted"
    BY BookedAre DEF Booked
  <2>2. PICK e \in Seq(EventRecord) : e = <<event>>
    <3>1. <<event>> \in Seq(EventRecord)
      OBVIOUS
    <3> QED
      BY <3>1
  <2>3. Len(e) = 1 /\ e[1].type = "RunAborted"
    BY <2>1, <2>2
  <2>4. Conclude(e) /\ sharedPhase = "review" /\ error' # "none"
    BY <1>7, <2>1, <2>2 DEF AuditFails, Conclude, RecordAll
  <2>5. Len(e) > 0 /\ Len(e) <= 2 /\ e[Len(e)].type \in {"RunCompleted", "RunAborted"} /\ e[Len(e)].type # "RunCompleted"
    BY <2>3
  <2>6. Len(e) # 2 /\ sharedPhase = "review" /\ (error' = "none" <=> e[Len(e)].type = "RunCompleted")
    BY <2>3, <2>4, <2>5
  <2>7. Conclude(e)
    BY <2>4
  <2> QED
    BY <2>3, <2>5, <2>6, <2>7, ConcludeVerdict
<1> QED
  BY <1>2, <1>3, <1>5, <1>6, <1>7 DEF BookStep

\* Every step keeps verdict, labels, artifacts and exit code together.
LEMMA VerdictKeeps ==
  ASSUME SharedIInv, SharedNext
  PROVE  VerdictInv'
<1>1. Typed /\ WorkerInv /\ VerdictInv /\ Bounded /\ Forms
  BY StepForms DEF SharedIInv
<1>2. CASE SubmitStep \/ Publish \/ WorkStep \/ QueueStep
           \/ (\E w \in SharedWorkers : EndStep(w) \/ \E after \in Nat : ReadStep(w, after))
  <2>1. ~CreateRun => sharedRun # 0
    BY <1>1, NotIdle
  <2>2. UNCHANGED <<sharedPhase, error>>
    <3>1. QueueStep => UNCHANGED <<sharedPhase, error>>
      BY QueueStepTyped
    <3> QED
      BY <1>2, <3>1 DEF SubmitStep, ContributionSubmit, Publish, WorkStep, TakeSlot, SharedReleaseLease, MultiAttempt,
         ApplyStep, EndStep, ReadStep
  <2>3. sharedPhase \notin {"artifacts", "exited", "idle"}
    <3>1. Publish \/ QueueStep => consumer # "off"
      BY DEF Publish, QueueStep, ClaimNext, Quarantine
    <3>2. SubmitStep \/ WorkStep \/ (\E w \in SharedWorkers : EndStep(w) \/ \E after \in Nat : ReadStep(w, after))
            => \E w \in SharedWorkers : work[w].at \in {"slot", "running", "releasing"}
      BY DEF SubmitStep, ContributionSubmit, WorkStep, TakeSlot, SharedReleaseLease, MultiAttempt,
         ApplyStep, EndStep, ReadStep, SharedCalls
    <3> QED
      BY <1>1, <1>2, <3>1, <3>2 DEF WorkerInv
  <2>4. sharedRun # 0
    BY <1>1, <2>3 DEF Typed
  <2>5. Neutral
    BY <1>2, <2>4, OthersAreNeutral
  <2>6. sharedPhase' = "closing" => sharedPhase \in VerdictPhases \cup {"closing"}
    BY <2>2
  <2> QED
    BY <2>2, <2>3, <2>4, <2>5, <2>6, NeutralVerdict
<1> QED
  BY <1>1, <1>2, CreateRunVerdict, BookStepVerdict, PhaseStepVerdict, StartStepVerdict DEF Forms
-----------------------------------------------------------------------------
(* Which run a delta, an entry of the queue and a lease belong to.         *)

\* The fields that the comparisons of runs and epochs need.
LEMMA DeltaFields ==
  ASSUME Typed
  PROVE  /\ \A n \in DOMAIN deltas : deltas[n].run \in Nat
         /\ \A q \in DOMAIN queue : queue[q].run \in Nat
         /\ sharedRun \in Nat /\ sharedStart \in Nat /\ Len(deltas) \in Nat
         /\ DOMAIN deltas = 1..Len(deltas) /\ DOMAIN queue = 1..Len(queue)
         /\ \A w \in SharedWorkers : work[w].epoch \in Nat /\ work[w].round \in 0..1
         /\ "a" \in SharedWorkers /\ "b" \in SharedWorkers
<1>1. \A d \in Delta : d.run \in Nat
  BY DEF Delta
<1>2. \A d \in QueueEntry : d.run \in Nat
  BY DEF QueueEntry
<1>3. (\A n \in DOMAIN deltas : deltas[n] \in Delta) /\ (\A q \in DOMAIN queue : queue[q] \in QueueEntry)
  BY ElementsAre
<1>4. "a" \in SharedWorkers /\ "b" \in SharedWorkers
  BY DEF SharedWorkers
<1>5. \A w \in SharedWorkers : work[w].epoch \in Nat /\ work[w].round \in 0..1
  BY DEF Typed, Execution
<1>6. sharedRun \in Nat /\ sharedStart \in Nat /\ deltas \in Seq(Delta) /\ queue \in Seq(QueueEntry)
  BY DEF Typed
<1> QED
  BY <1>1, <1>2, <1>3, <1>4, <1>5, <1>6

\* The deltas, the queue and the leases stay as they are, or none is new.
LEMMA DeltaStays ==
  ASSUME Typed, DeltaInv, UNCHANGED <<sharedRun, sharedStart, deltas>>,
         \A q \in DOMAIN queue' : \E p \in DOMAIN queue : queue'[q].run = queue[p].run,
         sharedPhase' \in {"created", "prewarm"} => sharedPhase \in {"created", "prewarm"} /\ UNCHANGED L,
         work'["a"].at # "idle" => work["a"].at # "idle" /\ work'["a"].epoch = work["a"].epoch,
         work'["b"].round = work["b"].round /\ work'["b"].epoch = work["b"].epoch
  PROVE  DeltaInv'
<1>1. \A q \in DOMAIN queue' : queue'[q].run <= sharedRun
  BY DEF DeltaInv
<1>2. sharedPhase' \in {"created", "prewarm"} =>
       /\ \A n \in DOMAIN deltas : deltas[n].run < sharedRun
       /\ \A q \in DOMAIN queue' : queue'[q].run < sharedRun
       /\ \A i \in DOMAIN L' : ~IsSubmission(L'[i])
  BY DEF DeltaInv
<1> QED
  BY <1>1, <1>2 DEF DeltaInv, IsSubmission

\* What there is when a run is created is of earlier runs.
LEMMA CreateRunDeltas ==
  ASSUME SharedIInv, CreateRun
  PROVE  DeltaInv'
<1>1. Typed /\ DeltaInv
  BY DEF SharedIInv
<1>2. /\ sharedRun' = sharedRun + 1 /\ sharedStart' = Len(deltas) /\ UNCHANGED knowledge
      /\ work' = [w \in SharedWorkers |-> SharedRest]
      /\ log' = [log EXCEPT ![sharedRun + 1] = <<Plain("RunCreated")>>]
      /\ sharedRun + 1 \in 1..SharedMaxRuns
  BY <1>1, RunAssumption DEF CreateRun, Typed
<1>3. L' = <<Plain("RunCreated")>>
  BY <1>1, <1>2 DEF Typed, L
<1>4. \A i \in DOMAIN L' : ~IsSubmission(L'[i])
  BY <1>3 DEF IsSubmission, Plain, SharedEvent
<1>5. /\ \A n \in DOMAIN deltas : deltas[n].run <= sharedRun /\ deltas[n].run < sharedRun + 1
      /\ \A q \in DOMAIN queue : queue[q].run <= sharedRun /\ queue[q].run < sharedRun + 1
      /\ sharedRun \in Nat /\ \A n \in DOMAIN deltas : deltas[n].run <= sharedRun + 1
      /\ \A q \in DOMAIN queue : queue[q].run <= sharedRun + 1
  BY <1>1, DeltaFields DEF DeltaInv
<1>6. work'["a"].at = "idle" /\ work'["b"].round = 0
  BY <1>1, <1>2, DeltaFields DEF SharedRest
<1> QED
  BY <1>2, <1>4, <1>5, <1>6 DEF DeltaInv, knowledge, IsSubmission

\* prover-a is leased before this run has published anything, prover-b's second
\* lease comes after.
LEMMA StartStepDeltas ==
  ASSUME SharedIInv, NEW S \in SUBSET SharedWorkers, NEW round \in 0..1, StartStep(S, round)
  PROVE  DeltaInv'
<1>1. Typed /\ DeltaInv /\ WorkerInv
  BY DEF SharedIInv
<1>2. /\ UNCHANGED <<sharedRun, sharedStart, deltas, queue>>
      /\ \A w \in SharedWorkers : work'[w] = IF w \in S
                THEN [at |-> "slot", round |-> round, epoch |-> Len(deltas), ends |-> "-"]
                ELSE work[w]
      /\ sharedPhase' \notin {"created", "prewarm"}
      /\ sharedPhase = "prewarm" => round = 0
      /\ sharedPhase # "prewarm" => round = 1 /\ S = {"b"} /\ Len(deltas) > sharedStart
  BY DEF StartStep, SharedStarted, StartedFrom, knowledge
<1>3. work'["a"].at # "idle" => \A n \in 1..work'["a"].epoch : deltas[n].run < sharedRun
  <2>1. CASE "a" \in S
    <3>1. sharedPhase = "prewarm" /\ work'["a"].epoch = Len(deltas)
      BY <1>1, <1>2, <2>1, DeltaFields
    <3> QED
      BY <1>1, <3>1, DeltaFields DEF DeltaInv
  <2>2. CASE "a" \notin S
    BY <1>1, <1>2, <2>2, DeltaFields DEF DeltaInv
  <2> QED
    BY <2>1, <2>2
<1>4. work'["b"].round = 1 => work'["b"].epoch > sharedStart
  BY <1>1, <1>2, DeltaFields DEF DeltaInv
<1> QED
  BY <1>1, <1>2, <1>3, <1>4 DEF DeltaInv

\* What is published is of a run that exists, and beyond the start.
LEMMA PublishDeltas ==
  ASSUME SharedIInv, Publish
  PROVE  DeltaInv'
<1>1. Typed /\ DeltaInv /\ Bounded
  BY DEF SharedIInv
<1>2. /\ UNCHANGED <<sharedRun, sharedPhase, sharedStart, work>> /\ queue' = Tail(queue)
  BY DEF Publish, workers
<1>3. /\ 1 \in DOMAIN queue /\ Len(deltas) \in Nat
      /\ \A q \in DOMAIN Tail(queue) : Tail(queue)[q] = queue[q + 1] /\ q + 1 \in DOMAIN queue
      /\ deltas' \in Seq(Delta) /\ Len(deltas') = Len(deltas) + 1
      /\ \A n \in 1..Len(deltas) : deltas'[n] = deltas[n]
      /\ deltas'[Len(deltas) + 1].run = queue[1].run
  BY <1>1, PublishIs
<1>4. DOMAIN deltas' = 1..Len(deltas) + 1
  BY <1>3
<1>5. sharedStart <= Len(deltas) /\ \A w \in SharedWorkers : work[w].epoch <= Len(deltas)
  BY <1>1 DEF Bounded
<1>6. \A n \in DOMAIN deltas' : deltas'[n].run <= sharedRun /\ (n <= sharedStart => deltas'[n].run < sharedRun)
  <2> SUFFICES ASSUME NEW n \in 1..Len(deltas) + 1
               PROVE  deltas'[n].run <= sharedRun /\ (n <= sharedStart => deltas'[n].run < sharedRun)
    BY <1>4
  <2>1. CASE n \in 1..Len(deltas)
    BY <1>1, <1>3, <2>1, DeltaFields DEF DeltaInv
  <2>2. CASE n = Len(deltas) + 1
    BY <1>1, <1>3, <1>5, <2>2, DeltaFields DEF DeltaInv
  <2> QED
    BY <1>3, <2>1, <2>2
<1>7. \A q \in DOMAIN queue' : queue'[q].run <= sharedRun
  BY <1>1, <1>2, <1>3 DEF DeltaInv
<1>8. sharedPhase \in {"created", "prewarm"} =>
        /\ \A n \in DOMAIN deltas' : deltas'[n].run < sharedRun
        /\ \A q \in DOMAIN queue' : queue'[q].run < sharedRun
        /\ \A i \in DOMAIN L' : ~IsSubmission(L'[i])
  <2> SUFFICES ASSUME sharedPhase \in {"created", "prewarm"}
               PROVE  /\ \A n \in DOMAIN deltas' : deltas'[n].run < sharedRun
                      /\ \A q \in DOMAIN queue' : queue'[q].run < sharedRun
                      /\ \A i \in DOMAIN L' : ~IsSubmission(L'[i])
    OBVIOUS
  <2>1. /\ \A n \in DOMAIN deltas : deltas[n].run < sharedRun
        /\ \A q \in DOMAIN queue : queue[q].run < sharedRun
        /\ \A i \in DOMAIN L : ~IsSubmission(L[i])
    BY <1>1 DEF DeltaInv
  <2>2. queue[1].run < sharedRun
    BY <1>3, <2>1
  <2>3. \A n \in DOMAIN deltas' : deltas'[n].run < sharedRun
    <3> SUFFICES ASSUME NEW n \in 1..Len(deltas) + 1
                 PROVE  deltas'[n].run < sharedRun
      BY <1>4
    <3>1. CASE n \in 1..Len(deltas)
      BY <1>1, <1>3, <2>1, <3>1, DeltaFields
    <3>2. CASE n = Len(deltas) + 1
      BY <1>3, <2>2, <3>2
    <3> QED
      BY <1>3, <3>1, <3>2
  <2>4. \A q \in DOMAIN queue' : queue'[q].run < sharedRun
    BY <1>2, <1>3, <2>1
  <2>5. L' = L
    <3>1. PICK event : log' = [log EXCEPT ![queue[1].run] = Append(@, event)]
      BY <1>1, PublishIs
    <3>2. queue[1].run # sharedRun /\ sharedRun \in 1..SharedMaxRuns /\ sharedRun' = sharedRun
      BY <1>1, <1>2, <1>3, <2>2, RunIsSomewhere, DeltaFields DEF SharedIInv
    <3> QED
      BY <1>1, <3>1, <3>2 DEF L, Typed
  <2> QED
    BY <2>1, <2>3, <2>4, <2>5
<1>9. work["a"].at # "idle" => \A n \in 1..work["a"].epoch : deltas'[n].run < sharedRun
  BY <1>1, <1>3, <1>5, DeltaFields DEF DeltaInv
<1> QED
  BY <1>1, <1>2, <1>6, <1>7, <1>8, <1>9 DEF DeltaInv, IsSubmission

\* A row of the queue that comes from another one, or is it.
Follows(row, old) ==
  /\ row.run = old.run /\ row.by = old.by /\ row.module = old.module
  /\ \/ row.id = old.id /\ row.epoch = old.epoch
     \/ row.id = "rebased" /\ row.epoch \in Nat /\ row.epoch >= old.epoch

\* What the queue holds after a step of the consumer.
LEMMA QueueStepIs ==
  ASSUME Typed, Bounded, QueueStep
  PROVE  \A q \in DOMAIN queue' : \E p \in DOMAIN queue : Follows(queue'[q], queue[p])
<1>1. CASE queue' = queue
  BY <1>1 DEF Follows
<1>2. CASE queue # <<>> /\ queue' = [queue EXCEPT ![1].claimed = TRUE]
  <2>1. queue \in Seq(QueueEntry) /\ queue[1] \in QueueEntry /\ 1 \in 1..Len(queue)
    BY <1>2 DEF Typed
  <2>2. PICK entry \in QueueEntry : entry = Claimed(queue[1])
    BY <2>1, ClaimedIs
  <2>3. Follows(entry, queue[1])
    BY <2>1, <2>2, ClaimedIs DEF Follows
  <2>4. queue' = [queue EXCEPT ![1] = entry]
    BY <1>2, <2>2, Zenon DEF Claimed
  <2>5. DOMAIN queue' = DOMAIN queue /\ 1 \in DOMAIN queue /\ queue'[1] = entry
        /\ \A i \in DOMAIN queue : i # 1 => queue'[i] = queue[i]
    BY <2>1, <2>4
  <2>6. \A row : Follows(row, row)
    BY DEF Follows
  <2> QED
    BY <2>3, <2>5, <2>6
<1>3. CASE queue # <<>> /\ queue' = Append(Tail(queue), [Head(queue) EXCEPT !.id = "rebased", !.epoch = Len(deltas)])
  <2>1. /\ queue[1] \in QueueEntry /\ Head(queue) = queue[1] /\ 1 \in DOMAIN queue
        /\ Tail(queue) \in Seq(QueueEntry) /\ Len(deltas) \in Nat
        /\ \A i \in 1..Len(Tail(queue)) : Tail(queue)[i] = queue[i + 1] /\ i + 1 \in DOMAIN queue
    BY <1>3 DEF Typed
  <2>2. PICK entry \in QueueEntry : entry = Rebased(queue[1], Len(deltas))
    BY <2>1, RebasedIs
  <2>3. Follows(entry, queue[1])
    <3>1. queue[1].epoch <= Len(deltas) /\ queue[1].epoch \in Nat
      BY <2>1, ElementsAre DEF Bounded
    <3>2. /\ entry.run = queue[1].run /\ entry.id = "rebased" /\ entry.epoch = Len(deltas)
          /\ entry.by = queue[1].by /\ entry.module = queue[1].module
      BY <2>1, <2>2, RebasedIs
    <3> QED
      BY <2>1, <3>1, <3>2 DEF Follows
  <2>4. queue' = Append(Tail(queue), entry)
    BY <1>3, <2>1, <2>2, Zenon DEF Rebased
  <2>5. DOMAIN queue' = 1..Len(Tail(queue)) + 1 /\ queue'[Len(Tail(queue)) + 1] = entry
        /\ \A i \in 1..Len(Tail(queue)) : queue'[i] = queue[i + 1] /\ i + 1 \in DOMAIN queue
        /\ Len(Tail(queue)) \in Nat
    BY <2>1, <2>4
  <2>6. \A i \in 1..Len(Tail(queue)) + 1 : i \in 1..Len(Tail(queue)) \/ i = Len(Tail(queue)) + 1
    BY <2>5
  <2>7. \A row : Follows(row, row)
    BY DEF Follows
  <2> QED
    BY <2>1, <2>3, <2>5, <2>6, <2>7
<1>4. CASE Quarantine
  <2>1. queue # <<>> /\ queue \in Seq(QueueEntry) /\ queue' = Tail(queue)
    BY <1>4 DEF Quarantine, Bounded, Typed
  <2>2. \A i \in DOMAIN queue' : queue'[i] = queue[i + 1] /\ i + 1 \in DOMAIN queue
    BY <2>1
  <2> QED
    BY <2>2 DEF Follows
<1>5. ClaimNext => \/ queue' = queue \/ (queue # <<>> /\ queue' = [queue EXCEPT ![1].claimed = TRUE])
                   \/ (queue # <<>> /\ queue' = Append(Tail(queue), [Head(queue) EXCEPT !.id = "rebased", !.epoch = Len(deltas)]))
  BY Zenon DEF ClaimNext
<1> QED
  BY <1>1, <1>2, <1>3, <1>4, <1>5, Zenon DEF QueueStep

\* A step of an execution or of the consumer keeps who works from which epoch.
LEMMA WorkStays ==
  ASSUME SharedIInv, NEW w \in SharedWorkers,
         TakeSlot(w) \/ SharedReleaseLease(w) \/ MultiAttempt(w) \/ EndStep(w)
           \/ \E text \in Snippets, module \in Nat : ApplyStep(w, text, module)
  PROVE  /\ UNCHANGED <<sharedRun, sharedPhase, sharedStart, deltas, queue>>
         /\ work[w].at # "idle"
         /\ \A u \in SharedWorkers : /\ work'[u].round = work[u].round /\ work'[u].epoch = work[u].epoch
                                     /\ work'[u].at # "idle" => work[u].at # "idle"
<1>1. Typed /\ WorkerInv
  BY DEF SharedIInv
<1>2. UNCHANGED <<sharedRun, sharedPhase, sharedStart, deltas, queue>> /\ work[w].at # "idle"
  BY DEF TakeSlot, SharedReleaseLease, MultiAttempt, EndStep, ApplyStep, SharedCalls, knowledge
<1>3. CASE EndStep(w)
  <2>1. PICK ends \in {"returned", "failed"} : work' = [work EXCEPT ![w].at = "releasing", ![w].ends = ends]
    BY <1>3 DEF EndStep
  <2> QED
    BY <1>1, <1>2, <2>1, EndedExecution
<1>4. CASE TakeSlot(w) \/ SharedReleaseLease(w)
  <2>1. PICK at : work' = [work EXCEPT ![w].at = at]
    BY <1>4 DEF TakeSlot, SharedReleaseLease
  <2>2. \A u \in SharedWorkers : /\ work'[u].round = work[u].round /\ work'[u].epoch = work[u].epoch
                                 /\ u # w => work'[u] = work[u]
    BY <1>1, <2>1 DEF Typed, Execution
  <2> QED
    BY <1>2, <2>2
<1>5. CASE MultiAttempt(w) \/ \E text \in Snippets, module \in Nat : ApplyStep(w, text, module)
  BY <1>2, <1>5 DEF MultiAttempt, ApplyStep
<1> QED
  BY <1>3, <1>4, <1>5

\* Every step keeps the runs of deltas, queue and leases.
LEMMA DeltasKeep ==
  ASSUME SharedIInv, SharedNext
  PROVE  DeltaInv'
<1>1. Typed /\ DeltaInv /\ WorkerInv /\ VerdictInv /\ Bounded /\ Forms
  BY StepForms DEF SharedIInv
<1>2. ASSUME UNCHANGED <<sharedRun, sharedStart, deltas, work, queue>>,
             sharedPhase' \in {"created", "prewarm"} => sharedPhase \in {"created", "prewarm"} /\ UNCHANGED L
      PROVE  DeltaInv'
  BY <1>1, <1>2, DeltaStays
<1>3. CASE BookStep
  <2>1. UNCHANGED <<sharedRun, sharedStart, workers, knowledge>>
    BY <1>1, <1>3, BookStepIs
  <2>2. sharedPhase' \notin {"created", "prewarm"}
    BY <1>3 DEF BookStep, SharedOpenHostFails, AbortRun, FakeReview, AuditAlignment, AuditFails, Conclude, RecordPart
  <2> QED
    BY <1>2, <2>1, <2>2 DEF workers, knowledge
<1>4. CASE SubmitStep
  <2>1. PICK w \in SharedWorkers, id \in SharedIds : ContributionSubmit(w, id)
    BY <1>4 DEF SubmitStep
  <2>2. UNCHANGED <<sharedRun, sharedPhase, sharedStart, work, deltas>> /\ work[w].at = "running"
    BY <2>1 DEF ContributionSubmit, SharedCalls
  <2>3. sharedPhase \notin {"created", "prewarm"}
    BY <1>1, <2>2 DEF WorkerInv
  <2>4. PICK entry \in QueueEntry : entry.run = sharedRun /\ queue' = Append(queue, entry)
    <3> DEFINE entry == [run |-> sharedRun, by |-> w, id |-> id, epoch |-> work[w].epoch,
                               text |-> document[w].text, module |-> document[w].module,
                               claimed |-> FALSE]
    <3>1. sharedRun \in 1..SharedMaxRuns
      BY <1>1, <2>2, RunIsSomewhere
    <3>2. entry \in QueueEntry
      BY <1>1, <2>1, <3>1 DEF QueueEntry, Ids, Typed, Execution, ContributionSubmit
    <3> QED
      BY <2>1, <3>2 DEF ContributionSubmit
  <2>5. \A q \in DOMAIN queue' : queue'[q].run <= sharedRun
    <3>1. queue \in Seq(QueueEntry)
      BY <1>1 DEF Typed
    <3>2. DOMAIN queue' = 1..Len(queue) + 1 /\ queue'[Len(queue) + 1] = entry
          /\ \A q \in 1..Len(queue) : queue'[q] = queue[q]
      BY <2>4, <3>1
    <3>3. \A q \in 1..Len(queue) + 1 : q \in 1..Len(queue) \/ q = Len(queue) + 1
      BY <3>1
    <3> QED
      BY <1>1, <2>4, <3>2, <3>3, DeltaFields DEF DeltaInv
  <2> QED
    BY <1>1, <2>2, <2>3, <2>5 DEF DeltaInv
<1>5. CASE PhaseStep
  <2>1. UNCHANGED <<sharedRun, sharedStart, log, workers, queue, deltas, evidence>>
    BY <1>5, PhaseStepTyped
  <2>2. sharedPhase' \in {"created", "prewarm"} => sharedPhase \in {"created", "prewarm"}
    BY <1>5 DEF PhaseStep, GovernorRefuses, SharedOpenHost, PrewarmFails, ConsumerFails, Interrupt, WorkerFails,
         RoundEnds, SecondRoundFails, SecondRoundEnds, WaitForEpoch, EpochTimesOut, CloseHost, WriteFails, SharedFinish, SharedFail
  <2> QED
    BY <1>2, <2>1, <2>2 DEF workers, L
<1>6. CASE QueueStep
  <2>1. UNCHANGED <<sharedRun, sharedPhase, sharedStart, log, workers, deltas>>
    BY <1>6, QueueStepTyped
  <2>2. UNCHANGED L
    BY <2>1 DEF L
  <2> QED
    <3>1. \A q \in DOMAIN queue' : \E p \in DOMAIN queue : queue'[q].run = queue[p].run
      BY <1>1, <1>6, QueueStepIs DEF Follows
    <3> QED
      BY <1>1, <1>6, <2>1, <2>2, <3>1, DeltaStays DEF workers
<1>7. ASSUME NEW w \in SharedWorkers,
             TakeSlot(w) \/ SharedReleaseLease(w) \/ MultiAttempt(w) \/ EndStep(w)
               \/ \E text \in Snippets, module \in Nat : ApplyStep(w, text, module)
      PROVE  DeltaInv'
  <2>1. /\ UNCHANGED <<sharedRun, sharedPhase, sharedStart, deltas, queue>>
        /\ \A u \in SharedWorkers : /\ work'[u].round = work[u].round /\ work'[u].epoch = work[u].epoch
                                    /\ work'[u].at # "idle" => work[u].at # "idle"
    BY <1>7, WorkStays
  <2>2. sharedPhase \notin {"created", "prewarm"}
    BY <1>1, <1>7, WorkStays DEF WorkerInv
  <2> QED
    BY <1>1, <2>1, <2>2, DeltaFields, DeltaStays
<1>8. ASSUME NEW w \in SharedWorkers, NEW after \in Nat, ReadStep(w, after)
      PROVE  DeltaInv'
  <2>1. UNCHANGED <<sharedRun, sharedPhase, sharedStart, work, knowledge>> /\ work[w].at = "running"
    BY <1>8 DEF ReadStep, SharedCalls
  <2>2. sharedPhase \notin {"created", "prewarm"}
    BY <1>1, <2>1 DEF WorkerInv
  <2> QED
    BY <1>2, <2>1, <2>2 DEF knowledge
<1> QED
  BY <1>1, <1>3, <1>4, <1>5, <1>6, <1>7, <1>8, CreateRunDeltas, PublishDeltas, StartStepDeltas DEF Forms, WorkStep
-----------------------------------------------------------------------------
(* Who submitted, published and acknowledged what, and in which order.     *)

\* The log grows by events that HistoryInv does not speak of.
HistoryEvents == {"DeclarationPublished", "ContributionSubmitted", "KnowledgeDeltaAcknowledged"}
\* The log of the run grows by other events only.
Quiet ==
  /\ UNCHANGED sharedRun
  /\ \A i \in DOMAIN L : i \in DOMAIN L' /\ L'[i] = L[i]
  /\ \A i \in DOMAIN L' : i \in DOMAIN L \/ L'[i].type \notin HistoryEvents

\* Appending other events is such a step.
LEMMA AppendIsQuiet ==
  ASSUME Typed, sharedRun # 0, UNCHANGED sharedRun, NEW e \in Seq(EventRecord), RecordAll(e),
         \A i \in 1..Len(e) : e[i].type \notin HistoryEvents
  PROVE  Quiet
<1>1. /\ \A i \in 1..Len(L) : L'[i] = L[i]
      /\ \A i \in 1..Len(L') : i \in 1..Len(L) \/
              (i > Len(L) /\ i - Len(L) \in 1..Len(e) /\ L'[i] = e[i - Len(L)])
      /\ L \in Seq(EventRecord) /\ L' \in Seq(EventRecord)
      /\ Len(L) \in Nat /\ Len(e) \in Nat /\ Len(L') = Len(L) + Len(e)
  BY Appended
<1>2. \A i \in DOMAIN L : i \in DOMAIN L' /\ L'[i] = L[i]
  BY <1>1
<1>3. ASSUME NEW i \in 1..Len(L'), i \notin 1..Len(L)
      PROVE  L'[i].type \notin HistoryEvents
  BY <1>1, <1>3
<1>4. DOMAIN L = 1..Len(L) /\ DOMAIN L' = 1..Len(L')
  BY <1>1
<1> QED
  BY <1>2, <1>3, <1>4 DEF Quiet

\* The log of a run that exists is a sequence of events.
LEMMA LogIs ==
  ASSUME Typed, sharedRun # 0
  PROVE  /\ L \in Seq(EventRecord) /\ Len(L) \in Nat /\ DOMAIN L = 1..Len(L) /\ sharedRun \in 1..SharedMaxRuns
         /\ \A i \in 1..Len(L) : L[i] \in EventRecord /\ L[i].epoch \in Nat
<1>1. sharedRun \in 1..SharedMaxRuns /\ L \in Seq(EventRecord)
  BY RunAssumption DEF Typed, L
<1>2. \A event \in EventRecord : event.epoch \in Nat
  BY DEF EventRecord
<1>3. \A i \in 1..Len(L) : L[i] \in EventRecord
  BY <1>1
<1> QED
  BY <1>1, <1>2, <1>3

\* A step that submits, publishes and acknowledges nothing keeps the history.
LEMMA QuietHistory ==
  ASSUME Typed, HistoryInv, sharedRun # 0, Quiet, UNCHANGED <<sharedStart, deltas>>,
         \A q \in DOMAIN queue' :
           \E p \in DOMAIN queue : /\ queue'[q].run = queue[p].run
                                   /\ \/ queue'[q].id = "rebased"
                                      \/ queue'[q].id = queue[p].id /\ queue'[q].epoch = queue[p].epoch,
         (\E l \in DOMAIN L : IsSubmission(L[l])) /\ work["b"].round = 1 => work'["b"].round = 1
  PROVE  HistoryInv'
<1>1. /\ DeclaredIsPublished /\ DeclaredInOrder /\ PublishedIsDeclared /\ QueuedIsSubmitted
      /\ SubmissionEpochs /\ AcknowledgedIsDeclared /\ AcknowledgedFirst
  BY DEF HistoryInv, Typed
<1>2. Len(L) \in Nat /\ DOMAIN L = 1..Len(L)
  BY LogIs
<1>3. /\ \A i \in DOMAIN L : i \in DOMAIN L' /\ L'[i] = L[i]
      /\ \A i \in DOMAIN L' : IsDeclared(L'[i]) \/ IsSubmission(L'[i]) \/ IsAcknowledged(L'[i]) => i \in DOMAIN L /\ L'[i] = L[i]
      /\ sharedRun' = sharedRun
  BY DEF Quiet, HistoryEvents, IsDeclared, IsSubmission, IsAcknowledged
<1>4. \A event : InLog(event) => InLog(event)'
  BY <1>3 DEF InLog
<1>5. \A i \in DOMAIN L : \A l \in 1..(i - 1) : l \in DOMAIN L /\ L'[l] = L[l]
  BY <1>2, <1>3
<1>6. DeclaredIsPublished'
  BY <1>1, <1>3, <1>5 DEF DeclaredIsPublished, IsDeclared
<1>7. DeclaredInOrder'
  BY <1>1, <1>3 DEF DeclaredInOrder, IsDeclared
<1>8. PublishedIsDeclared'
  BY <1>1, <1>3, <1>4 DEF PublishedIsDeclared
<1>9. QueuedIsSubmitted'
  BY <1>1, <1>3, <1>4 DEF QueuedIsSubmitted
<1>10. SubmissionEpochs'
  BY <1>1, <1>3 DEF SubmissionEpochs, IsSubmission
<1>11. AcknowledgedIsDeclared'
  BY <1>1, <1>3, <1>5 DEF AcknowledgedIsDeclared, IsAcknowledged, IsDeclared
<1>12. AcknowledgedFirst'
  BY <1>1, <1>3 DEF AcknowledgedFirst, IsAcknowledged, IsSubmission
<1> QED
  BY <1>6, <1>7, <1>8, <1>9, <1>10, <1>11, <1>12 DEF HistoryInv

\* The executions, the runner and the claims of the consumer are quiet.
LEMMA OthersAreQuiet ==
  ASSUME SharedIInv, sharedRun # 0,
         \/ BookStep \/ PhaseStep \/ WorkStep \/ QueueStep
         \/ (\E w \in SharedWorkers : EndStep(w))
         \/ \E S \in SUBSET SharedWorkers, round \in 0..1 : StartStep(S, round)
  PROVE  Quiet
<1>1. Typed /\ Bounded /\ VerdictInv
  BY DEF SharedIInv
<1>2. ASSUME UNCHANGED <<sharedRun, log>>
      PROVE  Quiet
  BY <1>2 DEF Quiet, L
<1>3. CASE BookStep
  <2>1. PICK e \in Seq(Booked) : RecordAll(e)
    BY <1>1, <1>3, BookStepIs
  <2>2. e \in Seq(EventRecord) /\ \A i \in 1..Len(e) : e[i] \in Booked
    BY DEF Booked
  <2>3. \A i \in 1..Len(e) : e[i].type \notin HistoryEvents
    BY <2>2 DEF Booked, Bookkeeping, HistoryEvents
  <2>4. UNCHANGED sharedRun
    BY <1>1, <1>3, BookStepIs
  <2> QED
    BY <1>1, <2>1, <2>2, <2>3, <2>4, AppendIsQuiet
<1>4. CASE PhaseStep \/ QueueStep
  BY <1>2, <1>4, PhaseStepTyped, QueueStepTyped
<1>5. CASE WorkStep
  BY <1>2, <1>5 DEF WorkStep, TakeSlot, SharedReleaseLease, MultiAttempt, ApplyStep
<1>6. ASSUME NEW w \in SharedWorkers, EndStep(w)
      PROVE  Quiet
  <2>1. PICK e \in EndEvents(w) : RecordAll(e)
    BY <1>6 DEF EndStep
  <2>2. e \in Seq(EventRecord) /\ \A i \in 1..Len(e) : e[i].type \notin HistoryEvents
    <3>1. \A i \in 1..Len(e) : e[i].type \in {"AgentRunCompleted", "WorkerTimedOut", "WorkerStopped", "WorkerCrashed"}
      BY <2>1 DEF EndEvents
    <3> QED
      BY <3>1 DEF EndEvents, HistoryEvents
  <2>3. UNCHANGED sharedRun
    BY <1>6 DEF EndStep
  <2> QED
    BY <1>1, <2>1, <2>2, <2>3, AppendIsQuiet
<1>7. ASSUME NEW S \in SUBSET SharedWorkers, NEW round \in 0..1, StartStep(S, round)
      PROVE  Quiet
  <2>1. PICK order \in {<<"a", "b">>, <<"a">>, <<"b">>} : RecordAll(StartedEvents(order))
    BY <1>7 DEF StartStep
  <2>2. order \in Seq(SharedWorkers)
    BY OrdersAre
  <2>3. PICK e \in Seq(EventRecord) : /\ e = StartedEvents(order) /\ Len(e) = Len(order)
           /\ \A i \in 1..Len(order) : e[i] = SharedEvent("WorkerStarted", order[i], "-", 0)
    BY <2>2, StartedAre
  <2>4. \A i \in 1..Len(e) : e[i] = SharedEvent("WorkerStarted", order[i], "-", 0)
    BY <2>3
  <2>5. \A w : SharedEvent("WorkerStarted", w, "-", 0).type \notin HistoryEvents
    BY DEF SharedEvent, HistoryEvents
  <2>6. RecordAll(e) /\ UNCHANGED sharedRun /\ \A i \in 1..Len(e) : e[i].type \notin HistoryEvents
    BY <1>7, <2>1, <2>3, <2>4, <2>5 DEF StartStep
  <2> QED
    BY <1>1, <2>6, AppendIsQuiet
<1> QED
  BY <1>3, <1>4, <1>5, <1>6, <1>7

\* A new run has no history.
LEMMA CreateRunHistory ==
  ASSUME SharedIInv, CreateRun
  PROVE  HistoryInv'
<1>1. Typed /\ DeltaInv
  BY DEF SharedIInv
<1>2. /\ sharedRun' = sharedRun + 1 /\ UNCHANGED <<deltas, queue>>
      /\ log' = [log EXCEPT ![sharedRun + 1] = <<Plain("RunCreated")>>]
      /\ sharedRun + 1 \in 1..SharedMaxRuns
  BY <1>1, RunAssumption DEF CreateRun, Typed, knowledge
<1>3. L' = <<Plain("RunCreated")>> /\ Plain("RunCreated").type = "RunCreated"
  BY <1>1, <1>2 DEF Typed, L, Plain, SharedEvent
<1>4. \A i \in DOMAIN L' : L'[i].type = "RunCreated"
  BY <1>3
<1>5. /\ \A n \in DOMAIN deltas' : deltas'[n].run # sharedRun'
      /\ \A q \in DOMAIN queue' : queue'[q].run # sharedRun'
  BY <1>1, <1>2, DeltaFields DEF DeltaInv
<1>6. \A i \in DOMAIN L' : ~IsDeclared(L'[i]) /\ ~IsSubmission(L'[i]) /\ ~IsAcknowledged(L'[i])
  BY <1>4 DEF IsDeclared, IsSubmission, IsAcknowledged
<1>7. DeclaredIsPublished' /\ DeclaredInOrder' /\ SubmissionEpochs' /\ AcknowledgedIsDeclared' /\ AcknowledgedFirst'
  BY <1>6 DEF DeclaredIsPublished, DeclaredInOrder, SubmissionEpochs, AcknowledgedIsDeclared, AcknowledgedFirst,
     IsDeclared, IsSubmission, IsAcknowledged
<1>8. PublishedIsDeclared' /\ QueuedIsSubmitted'
  BY <1>5 DEF PublishedIsDeclared, QueuedIsSubmitted
<1> QED
  BY <1>7, <1>8 DEF HistoryInv

\* What a worker submits has the epoch of its lease.
LEMMA SubmitStepHistory ==
  ASSUME SharedIInv, NEW w \in SharedWorkers, NEW id \in SharedIds, ContributionSubmit(w, id)
  PROVE  HistoryInv'
<1>1. /\ Typed /\ DeltaInv /\ WorkerInv /\ work[w].at = "running" /\ sharedRun # 0 /\ Typed'
      /\ UNCHANGED <<sharedRun, sharedStart, deltas, work>>
  <2>1. work[w].at = "running" /\ Typed /\ WorkerInv /\ DeltaInv /\ UNCHANGED <<sharedRun, sharedStart, deltas, work>>
    BY DEF SharedIInv, ContributionSubmit, SharedCalls
  <2>2. sharedRun \in 1..SharedMaxRuns
    BY <2>1, RunIsSomewhere
  <2> QED
    BY <2>1, <2>2, SubmitStepTyped, RunAssumption
<1>2. PICK event \in EventRecord, e \in Seq(EventRecord) :
              /\ event = SharedEvent("ContributionSubmitted", w, id, work[w].epoch)
              /\ e = <<event>> /\ RecordAll(e)
  BY SubmitStepTyped
<1>3. /\ L \in Seq(EventRecord) /\ L' \in Seq(EventRecord) /\ Len(L) \in Nat /\ Len(L') = Len(L) + 1
      /\ \A i \in 1..Len(L) : L'[i] = L[i]
      /\ L'[Len(L) + 1] = event
  <2>1. RecordAll(e) /\ Len(e) = 1 /\ e[1] = event
    BY <1>2
  <2>2. /\ L \in Seq(EventRecord) /\ L' \in Seq(EventRecord) /\ Len(L) \in Nat /\ Len(L') = Len(L) + Len(e)
        /\ \A i \in 1..Len(L) : L'[i] = L[i]
        /\ \A i \in 1..Len(e) : L'[Len(L) + i] = e[i]
    BY <1>1, <2>1, Appended
  <2> QED
    BY <2>1, <2>2
<1>4. event.type = "ContributionSubmitted" /\ event.who = w /\ event.epoch = work[w].epoch
  BY <1>2 DEF SharedEvent
<1>5. DOMAIN L = 1..Len(L) /\ DOMAIN L' = 1..Len(L) + 1 /\ \A i \in DOMAIN L' : i \in DOMAIN L \/ i = Len(L) + 1
  BY <1>3
<1>6. /\ DeclaredIsPublished /\ DeclaredInOrder /\ PublishedIsDeclared /\ QueuedIsSubmitted
      /\ SubmissionEpochs /\ AcknowledgedIsDeclared /\ AcknowledgedFirst
  BY <1>1 DEF HistoryInv, Typed, SharedIInv
<1>7. \A i \in DOMAIN L : i \in DOMAIN L' /\ L'[i] = L[i] /\ i < Len(L) + 1
  BY <1>3, <1>5
<1>8. \A ev : InLog(ev) => \E i \in DOMAIN L' : L'[i] = ev
  BY <1>7 DEF InLog
<1>9. \A i \in DOMAIN L : \A l \in 1..(i - 1) : l \in DOMAIN L /\ L'[l] = L[l]
  BY <1>3, <1>5
<1>10. /\ \A i \in DOMAIN L' : IsDeclared(L'[i]) \/ IsAcknowledged(L'[i]) => i \in DOMAIN L /\ L'[i] = L[i]
       /\ InLog(event)'
  <2>1. Len(L) + 1 \in DOMAIN L'
    BY <1>3, <1>5
  <2> QED
    BY <1>3, <1>4, <1>5, <2>1 DEF InLog, IsDeclared, IsAcknowledged
<1>11. DeclaredIsPublished'
  BY <1>1, <1>6, <1>9, <1>10 DEF DeclaredIsPublished, IsDeclared
<1>12. DeclaredInOrder'
  BY <1>6, <1>10 DEF DeclaredInOrder, IsDeclared
<1>13. PublishedIsDeclared'
  BY <1>1, <1>6, <1>8 DEF PublishedIsDeclared, InLog
<1>14. QueuedIsSubmitted'
  <2>1. PICK entry \in QueueEntry : /\ entry.run = sharedRun /\ entry.id = id /\ entry.epoch = work[w].epoch
                                    /\ queue' = Append(queue, entry)
    <3> DEFINE entry == [run |-> sharedRun, by |-> w, id |-> id, epoch |-> work[w].epoch,
                               text |-> document[w].text, module |-> document[w].module,
                               claimed |-> FALSE]
    <3>1. sharedRun \in 1..SharedMaxRuns
      BY <1>1, LogIs
    <3>2. entry \in QueueEntry
      BY <1>1, <3>1 DEF QueueEntry, Ids, Typed, Execution, ContributionSubmit
    <3> QED
      BY <3>2 DEF ContributionSubmit
  <2>2. queue \in Seq(QueueEntry)
    BY <1>1 DEF Typed
  <2>3. /\ DOMAIN queue' = 1..Len(queue) + 1 /\ queue'[Len(queue) + 1] = entry
        /\ \A q \in 1..Len(queue) : queue'[q] = queue[q] /\ q \in DOMAIN queue
        /\ \A q \in 1..Len(queue) + 1 : q \in 1..Len(queue) \/ q = Len(queue) + 1
    BY <2>1, <2>2
  <2>4. InLog(SharedEvent("ContributionSubmitted", w, entry.id, entry.epoch))'
    BY <1>1, <1>2, <1>10, <2>1
  <2> SUFFICES ASSUME NEW q \in DOMAIN queue', queue'[q].run = sharedRun, queue'[q].id # "rebased"
               PROVE  \E u \in SharedWorkers : \E i \in DOMAIN L' :
                        L'[i] = SharedEvent("ContributionSubmitted", u, queue'[q].id, queue'[q].epoch)
    BY <1>1 DEF QueuedIsSubmitted, InLog
  <2>5. CASE q \in 1..Len(queue)
    BY <1>6, <1>7, <2>3, <2>5 DEF QueuedIsSubmitted, InLog
  <2>6. CASE q = Len(queue) + 1
    BY <2>3, <2>4, <2>6 DEF InLog
  <2> QED
    BY <2>3, <2>5, <2>6
<1>15. SubmissionEpochs'
  <2>1. w = "a" => \A n \in 1..work[w].epoch : deltas[n].run < sharedRun
    BY <1>1 DEF DeltaInv
  <2>2. w = "b" => work[w].epoch > sharedStart /\ work["b"].round = 1
    <3>1. work["b"].round = 0 => Tools("b", work["b"].round) = {"knowledge_read"}
      BY DEF Tools
    <3>2. "contribution_submit" \in Tools(w, work[w].round)
      BY DEF ContributionSubmit, SharedCalls
    <3>3. w = "b" => work["b"].round = 1
      BY <1>1, <3>1, <3>2, DeltaFields
    <3> QED
      BY <1>1, <3>3 DEF DeltaInv
  <2> SUFFICES ASSUME NEW l \in DOMAIN L', IsSubmission(L'[l])
               PROVE  /\ L'[l].who \in SharedWorkers
                      /\ L'[l].who = "a" => \A n \in 1..L'[l].epoch : deltas[n].run < sharedRun
                      /\ L'[l].who = "b" => L'[l].epoch > sharedStart /\ work["b"].round = 1
    BY <1>1 DEF SubmissionEpochs, IsSubmission
  <2>3. CASE l \in DOMAIN L
    BY <1>6, <1>7, <2>3 DEF SubmissionEpochs
  <2>4. CASE l = Len(L) + 1
    BY <1>3, <1>4, <2>1, <2>2, <2>4
  <2> QED
    BY <1>5, <2>3, <2>4
<1>16. AcknowledgedIsDeclared'
  BY <1>6, <1>9, <1>10 DEF AcknowledgedIsDeclared, IsAcknowledged, IsDeclared
<1>17. AcknowledgedFirst'
  <2> SUFFICES ASSUME NEW k \in DOMAIN L', NEW l \in DOMAIN L', IsAcknowledged(L'[k]), L'[k].who = "b",
                      IsSubmission(L'[l]), L'[l].who = "b"
               PROVE  k < l
    BY DEF AcknowledgedFirst, IsAcknowledged, IsSubmission
  <2>1. k \in DOMAIN L /\ L'[k] = L[k] /\ k < Len(L) + 1
    BY <1>7, <1>10
  <2>2. CASE l \in DOMAIN L
    BY <1>6, <1>7, <2>1, <2>2 DEF AcknowledgedFirst
  <2> QED
    BY <1>5, <2>1, <2>2
<1> QED
  BY <1>11, <1>12, <1>13, <1>14, <1>15, <1>16, <1>17 DEF HistoryInv

\* What a read does to the log.
LEMMA ReadStepIs ==
  ASSUME SharedIInv, NEW w \in SharedWorkers, NEW after \in Nat, ReadStep(w, after)
  PROVE  /\ Typed /\ WorkerInv /\ work[w].at = "running" /\ sharedRun # 0
         /\ UNCHANGED <<sharedRun, sharedStart, deltas, work, document, queue>>
         /\ Len(L) \in Nat /\ DOMAIN L = 1..Len(L) /\ DOMAIN L' = 1..Len(L')
         /\ \A i \in DOMAIN L : i \in DOMAIN L' /\ L'[i] = L[i]
         /\ \A i \in DOMAIN L' : \/ i \in DOMAIN L /\ L'[i] = L[i]
                               \/ /\ i > Len(L) /\ L'[i].type = "KnowledgeDeltaAcknowledged" /\ L'[i].who = w
                                  /\ L'[i].epoch \in DOMAIN deltas /\ deltas[L'[i].epoch].run = sharedRun
<1>1. /\ Typed /\ WorkerInv /\ work[w].at = "running" /\ sharedRun # 0
      /\ UNCHANGED <<sharedRun, sharedStart, deltas, work, document, queue>>
  <2>1. work[w].at = "running" /\ Typed /\ WorkerInv /\ UNCHANGED <<sharedRun, sharedStart, deltas, work, document, queue>>
    BY DEF SharedIInv, ReadStep, SharedCalls, knowledge
  <2>2. sharedRun \in 1..SharedMaxRuns
    BY <2>1, RunIsSomewhere
  <2> QED
    BY <2>1, <2>2, RunAssumption
<1>2. PICK order \in Ascending(NewlyAcknowledged(w, after)) : RecordAll(AcknowledgedEvents(w, order))
  BY DEF ReadStep
<1>3. PICK e \in Seq(EventRecord) :
         /\ e = AcknowledgedEvents(w, order) /\ Len(e) = Len(order)
         /\ \A i \in 1..Len(order) : e[i] = SharedEvent("KnowledgeDeltaAcknowledged", w, "-", order[i])
  BY <1>1, AscendingIs
<1>4. \A i \in 1..Len(e) : /\ e[i] = SharedEvent("KnowledgeDeltaAcknowledged", w, "-", order[i])
                           /\ order[i] \in DOMAIN deltas /\ deltas[order[i]].run = sharedRun
  BY <1>1, <1>3, AscendingIs, DeltaFields
<1>5. \A n : /\ SharedEvent("KnowledgeDeltaAcknowledged", w, "-", n).type = "KnowledgeDeltaAcknowledged"
             /\ SharedEvent("KnowledgeDeltaAcknowledged", w, "-", n).who = w
             /\ SharedEvent("KnowledgeDeltaAcknowledged", w, "-", n).epoch = n
  BY DEF SharedEvent
<1>6. \A i \in 1..Len(e) : /\ e[i].type = "KnowledgeDeltaAcknowledged" /\ e[i].who = w
                           /\ e[i].epoch \in DOMAIN deltas /\ deltas[e[i].epoch].run = sharedRun
  BY <1>4, <1>5
<1>7. RecordAll(e)
  BY <1>2, <1>3
<1>8. /\ L \in Seq(EventRecord) /\ L' \in Seq(EventRecord) /\ Len(L) \in Nat /\ Len(e) \in Nat
      /\ Len(L') = Len(L) + Len(e)
      /\ \A i \in 1..Len(L) : L'[i] = L[i]
      /\ \A i \in 1..Len(L') : i \in 1..Len(L) \/
              (i > Len(L) /\ i - Len(L) \in 1..Len(e) /\ L'[i] = e[i - Len(L)])
  BY <1>1, <1>7, Appended
<1>9. DOMAIN L = 1..Len(L) /\ DOMAIN L' = 1..Len(L')
  BY <1>8
<1>10. \A i \in DOMAIN L' : \/ i \in DOMAIN L /\ L'[i] = L[i]
                            \/ /\ i > Len(L) /\ L'[i].type = "KnowledgeDeltaAcknowledged" /\ L'[i].who = w
                               /\ L'[i].epoch \in DOMAIN deltas /\ deltas[L'[i].epoch].run = sharedRun
  BY <1>6, <1>8, <1>9
<1>11. \A i \in DOMAIN L : i \in DOMAIN L' /\ L'[i] = L[i]
  BY <1>8, <1>9
<1> QED
  BY <1>1, <1>8, <1>9, <1>10, <1>11

\* prover-b has no tool to read the knowledge with once it may submit.
LEMMA ReadStepHistory ==
  ASSUME SharedIInv, NEW w \in SharedWorkers, NEW after \in Nat, ReadStep(w, after)
  PROVE  HistoryInv'
<1>1. /\ Typed /\ WorkerInv /\ work[w].at = "running" /\ sharedRun # 0
      /\ UNCHANGED <<sharedRun, sharedStart, deltas, work, queue>>
  BY ReadStepIs
<1>8. Len(L) \in Nat
  BY ReadStepIs
<1>9. DOMAIN L = 1..Len(L) /\ DOMAIN L' = 1..Len(L')
  BY ReadStepIs
<1>10. \A i \in DOMAIN L' : \/ i \in DOMAIN L /\ L'[i] = L[i]
                            \/ /\ i > Len(L) /\ L'[i].type = "KnowledgeDeltaAcknowledged" /\ L'[i].who = w
                               /\ L'[i].epoch \in DOMAIN deltas /\ deltas[L'[i].epoch].run = sharedRun
  BY ReadStepIs
<1>11. \A i \in DOMAIN L : i \in DOMAIN L' /\ L'[i] = L[i]
  BY ReadStepIs
<1>12. /\ DeclaredIsPublished /\ DeclaredInOrder /\ PublishedIsDeclared /\ QueuedIsSubmitted
       /\ SubmissionEpochs /\ AcknowledgedIsDeclared /\ AcknowledgedFirst
  BY <1>1 DEF HistoryInv, Typed, SharedIInv
<1>13. \A ev : InLog(ev) => \E i \in DOMAIN L' : L'[i] = ev
  BY <1>11 DEF InLog
<1>14. \A i \in DOMAIN L : \A l \in 1..(i - 1) : l \in DOMAIN L /\ L'[l] = L[l]
  BY <1>8, <1>9, <1>11
<1>15. \A i \in DOMAIN L' : IsDeclared(L'[i]) \/ IsSubmission(L'[i]) => i \in DOMAIN L /\ L'[i] = L[i]
  BY <1>10 DEF IsDeclared, IsSubmission
<1>16. DeclaredIsPublished'
  BY <1>1, <1>12, <1>14, <1>15 DEF DeclaredIsPublished, IsDeclared
<1>17. DeclaredInOrder'
  BY <1>12, <1>15 DEF DeclaredInOrder, IsDeclared
<1>18. PublishedIsDeclared' /\ QueuedIsSubmitted'
  <2>1. PublishedIsDeclared'
    BY <1>1, <1>12, <1>13 DEF PublishedIsDeclared, InLog
  <2>2. QueuedIsSubmitted'
    <3>1. \A ev : InLog(ev) => InLog(ev)'
      BY <1>13 DEF InLog
    <3> QED
      BY <1>1, <1>12, <3>1 DEF QueuedIsSubmitted
  <2> QED
    BY <2>1, <2>2
<1>19. SubmissionEpochs'
  BY <1>1, <1>12, <1>15 DEF SubmissionEpochs, IsSubmission
<1>20. AcknowledgedIsDeclared'
  <2> SUFFICES ASSUME NEW k \in DOMAIN L', IsAcknowledged(L'[k])
               PROVE  \E j \in 1..(k - 1) : IsDeclared(L'[j]) /\ L'[j].epoch = L'[k].epoch
    BY DEF AcknowledgedIsDeclared, IsAcknowledged, IsDeclared
  <2>1. CASE k \in DOMAIN L
    BY <1>11, <1>12, <1>14, <2>1 DEF AcknowledgedIsDeclared
  <2>2. CASE k > Len(L) /\ L'[k].epoch \in DOMAIN deltas /\ deltas[L'[k].epoch].run = sharedRun
    <3> DEFINE n == L'[k].epoch
    <3>1. PICK j \in DOMAIN L : L[j] = SharedEvent("DeclarationPublished", "-", deltas[n].id, n)
      BY <1>12, <2>2 DEF PublishedIsDeclared, InLog
    <3>2. IsDeclared(L'[j]) /\ L'[j].epoch = n
      BY <1>11, <3>1 DEF IsDeclared, SharedEvent
    <3>3. j \in 1..(k - 1)
      BY <1>8, <1>9, <2>2
    <3> QED
      BY <3>2, <3>3
  <2> QED
    BY <1>10, <2>1, <2>2
<1>21. AcknowledgedFirst'
  <2>1. "knowledge_read" \in Tools(w, work[w].round)
    BY DEF ReadStep, SharedCalls
  <2>2. w = "b" => work["b"].round # 1
    BY <2>1 DEF Tools
  <2> SUFFICES ASSUME NEW k \in DOMAIN L', NEW l \in DOMAIN L', IsAcknowledged(L'[k]), L'[k].who = "b",
                      IsSubmission(L'[l]), L'[l].who = "b"
               PROVE  k < l
    BY DEF AcknowledgedFirst, IsAcknowledged, IsSubmission
  <2>3. l \in DOMAIN L /\ L'[l] = L[l] /\ work["b"].round = 1
    BY <1>12, <1>15 DEF SubmissionEpochs
  <2>4. k \in DOMAIN L /\ L'[k] = L[k]
    BY <1>10, <2>2, <2>3
  <2> QED
    BY <1>12, <2>3, <2>4 DEF AcknowledgedFirst
<1> QED
  BY <1>16, <1>17, <1>18, <1>19, <1>20, <1>21 DEF HistoryInv

\* The log of the run goes on with a declaration, if that is of this run.
Declares(event) ==
  /\ event = SharedEvent("DeclarationPublished", "-", queue[1].id, Len(deltas) + 1)
  /\ \A i \in DOMAIN L : i \in DOMAIN L' /\ L'[i] = L[i] /\ i < Len(L) + 1
  /\ \A i \in DOMAIN L' : \/ i \in DOMAIN L /\ L'[i] = L[i]
                          \/ i = Len(L) + 1 /\ L'[i] = event /\ queue[1].run = sharedRun
  /\ queue[1].run = sharedRun => Len(L) + 1 \in DOMAIN L' /\ L'[Len(L) + 1] = event

\* What a publication does to the log of the current run.
LEMMA PublishLogIs ==
  ASSUME SharedIInv, Publish
  PROVE  /\ Typed /\ WorkerInv /\ Bounded /\ DeltaInv /\ sharedRun # 0
         /\ UNCHANGED <<sharedRun, sharedStart, work, document>> /\ queue' = Tail(queue)
         /\ \E event \in EventRecord : Declares(event)
<1>1. /\ Typed /\ WorkerInv /\ Bounded /\ DeltaInv /\ sharedRun # 0
      /\ UNCHANGED <<sharedRun, sharedStart, work, document>> /\ queue' = Tail(queue)
  <2>1. Forms /\ ~CreateRun
    BY DEF Forms, Publish, CreateRun, SharedIInv, WorkerInv
  <2>2. sharedRun # 0
    BY <2>1, NotIdle
  <2> QED
    BY <2>2 DEF SharedIInv, Publish, workers
<1>2. PICK event \in EventRecord :
           /\ event = SharedEvent("DeclarationPublished", "-", queue[1].id, Len(deltas) + 1)
           /\ log' = [log EXCEPT ![queue[1].run] = Append(@, event)]
           /\ log' \in [1..SharedMaxRuns -> Seq(EventRecord)]
  BY <1>1, PublishIs
<1>3. /\ queue[1] \in QueueEntry /\ 1 \in DOMAIN queue /\ queue[1].epoch = Len(deltas) /\ Len(deltas) \in Nat
      /\ \A q \in DOMAIN Tail(queue) : Tail(queue)[q] = queue[q + 1] /\ q + 1 \in DOMAIN queue
      /\ deltas' \in Seq(Delta) /\ Len(deltas') = Len(deltas) + 1
      /\ \A n \in 1..Len(deltas) : deltas'[n] = deltas[n]
      /\ deltas'[Len(deltas) + 1] = [run |-> queue[1].run, id |-> queue[1].id]
  BY <1>1, PublishIs
<1>4. DOMAIN deltas' = 1..Len(deltas) + 1 /\ DOMAIN deltas = 1..Len(deltas)
      /\ \A n \in DOMAIN deltas' : n \in DOMAIN deltas \/ n = Len(deltas) + 1
  BY <1>1, <1>3, DeltaFields
<1>5. /\ event.type = "DeclarationPublished" /\ event.who = "-" /\ event.ref = queue[1].id
      /\ event.epoch = Len(deltas) + 1
  BY <1>2 DEF SharedEvent
<1>7. L \in Seq(EventRecord) /\ Len(L) \in Nat /\ DOMAIN L = 1..Len(L) /\ sharedRun \in 1..SharedMaxRuns
      /\ \A i \in DOMAIN L : L[i].epoch \in Nat /\ L[i].epoch <= Len(deltas)
  <2>1. L \in Seq(EventRecord) /\ Len(L) \in Nat /\ DOMAIN L = 1..Len(L) /\ sharedRun \in 1..SharedMaxRuns
        /\ \A i \in 1..Len(L) : L[i].epoch \in Nat
    BY <1>1, LogIs, Zenon
  <2> QED
    BY <1>1, <2>1 DEF Bounded, L
<1>8. \/ queue[1].run # sharedRun /\ L' = L
      \/ queue[1].run = sharedRun /\ L' = Append(L, event)
  BY <1>1, <1>2, <1>7, Zenon DEF Typed, L
<1>9. /\ \A i \in DOMAIN L : i \in DOMAIN L' /\ L'[i] = L[i] /\ i < Len(L) + 1
      /\ \A i \in DOMAIN L' : \/ i \in DOMAIN L /\ L'[i] = L[i]
                              \/ i = Len(L) + 1 /\ L'[i] = event /\ queue[1].run = sharedRun
      /\ queue[1].run = sharedRun => Len(L) + 1 \in DOMAIN L' /\ L'[Len(L) + 1] = event
  <2>1. CASE queue[1].run # sharedRun
    <3>1. L' = L
      BY <1>8, <2>1
    <3> QED
      BY <1>7, <2>1, <3>1
  <2>2. CASE queue[1].run = sharedRun
    <3>1. DOMAIN L' = 1..Len(L) + 1 /\ L'[Len(L) + 1] = event /\ \A i \in 1..Len(L) : L'[i] = L[i]
      BY <1>7, <1>8, <2>2
    <3>2. \A i \in 1..Len(L) + 1 : i \in 1..Len(L) \/ i = Len(L) + 1
      BY <1>7
    <3> QED
      BY <1>7, <2>2, <3>1, <3>2
  <2> QED
    BY <2>1, <2>2
<1>10. Declares(event)
  BY <1>2, <1>9 DEF Declares
<1> QED
  BY <1>1, <1>10

\* The claimed entry has the present epoch: its submission is in the log, and
\* the declaration takes the next epoch.
LEMMA PublishHistory ==
  ASSUME SharedIInv, Publish
  PROVE  HistoryInv'
<1>1. /\ Typed /\ WorkerInv /\ Bounded /\ DeltaInv /\ sharedRun # 0
      /\ UNCHANGED <<sharedRun, sharedStart, work>> /\ queue' = Tail(queue)
  BY PublishLogIs
<1>2. PICK event \in EventRecord : Declares(event)
  BY PublishLogIs
<1>3. /\ queue[1] \in QueueEntry /\ 1 \in DOMAIN queue /\ queue[1].epoch = Len(deltas) /\ Len(deltas) \in Nat
      /\ \A q \in DOMAIN Tail(queue) : Tail(queue)[q] = queue[q + 1] /\ q + 1 \in DOMAIN queue
      /\ deltas' \in Seq(Delta) /\ Len(deltas') = Len(deltas) + 1
      /\ \A n \in 1..Len(deltas) : deltas'[n] = deltas[n]
      /\ deltas'[Len(deltas) + 1] = [run |-> queue[1].run, id |-> queue[1].id]
  BY <1>1, PublishIs
<1>4. DOMAIN deltas' = 1..Len(deltas) + 1 /\ DOMAIN deltas = 1..Len(deltas)
      /\ \A n \in DOMAIN deltas' : n \in DOMAIN deltas \/ n = Len(deltas) + 1
  BY <1>1, <1>3, DeltaFields
<1>5. /\ event.type = "DeclarationPublished" /\ event.who = "-" /\ event.ref = queue[1].id
      /\ event.epoch = Len(deltas) + 1
  BY <1>2 DEF SharedEvent, Declares
<1>6. /\ DeclaredIsPublished /\ DeclaredInOrder /\ PublishedIsDeclared /\ QueuedIsSubmitted
      /\ SubmissionEpochs /\ AcknowledgedIsDeclared /\ AcknowledgedFirst
  BY <1>1 DEF HistoryInv, Typed, SharedIInv
<1>7. L \in Seq(EventRecord) /\ Len(L) \in Nat /\ DOMAIN L = 1..Len(L) /\ sharedRun \in 1..SharedMaxRuns
      /\ \A i \in DOMAIN L : L[i].epoch \in Nat /\ L[i].epoch <= Len(deltas)
  <2>1. L \in Seq(EventRecord) /\ Len(L) \in Nat /\ DOMAIN L = 1..Len(L) /\ sharedRun \in 1..SharedMaxRuns
        /\ \A i \in 1..Len(L) : L[i].epoch \in Nat
    BY <1>1, LogIs, Zenon
  <2> QED
    BY <1>1, <2>1 DEF Bounded, L
<1>9. /\ \A i \in DOMAIN L : i \in DOMAIN L' /\ L'[i] = L[i] /\ i < Len(L) + 1
      /\ \A i \in DOMAIN L' : \/ i \in DOMAIN L /\ L'[i] = L[i]
                              \/ i = Len(L) + 1 /\ L'[i] = event /\ queue[1].run = sharedRun
      /\ queue[1].run = sharedRun => Len(L) + 1 \in DOMAIN L' /\ L'[Len(L) + 1] = event
  BY <1>2 DEF Declares
<1>10. \A ev : InLog(ev) => \E i \in DOMAIN L' : L'[i] = ev
  BY <1>9 DEF InLog
<1>11. \A i \in DOMAIN L : \A l \in 1..(i - 1) : l \in DOMAIN L /\ l \in DOMAIN L' /\ L'[l] = L[l]
  BY <1>7, <1>9
<1>12. \A i \in DOMAIN L' : IsSubmission(L'[i]) \/ IsAcknowledged(L'[i]) => i \in DOMAIN L /\ L'[i] = L[i]
  BY <1>5, <1>9 DEF IsAcknowledged, IsSubmission
<1>13. DeclaredIsPublished'
  <2> SUFFICES ASSUME NEW i \in DOMAIN L', IsDeclared(L'[i])
               PROVE  /\ L'[i].epoch \in DOMAIN deltas' /\ deltas'[L'[i].epoch] = [run |-> sharedRun, id |-> L'[i].ref]
                      /\ L'[i].who = "-"
                      /\ L'[i].ref # "rebased" => \E l \in 1..(i - 1) : \E w \in SharedWorkers :
                            L'[l] = SharedEvent("ContributionSubmitted", w, L'[i].ref, L'[i].epoch - 1)
    BY <1>1 DEF DeclaredIsPublished, IsDeclared
  <2>1. CASE i \in DOMAIN L /\ L'[i] = L[i]
    <3>1. /\ L[i].epoch \in DOMAIN deltas /\ deltas[L[i].epoch] = [run |-> sharedRun, id |-> L[i].ref]
          /\ L[i].who = "-"
          /\ L[i].ref # "rebased" => \E l \in 1..(i - 1) : \E w \in SharedWorkers :
               L[l] = SharedEvent("ContributionSubmitted", w, L[i].ref, L[i].epoch - 1)
      BY <1>6, <2>1 DEF DeclaredIsPublished
    <3>2. L[i].epoch \in DOMAIN deltas' /\ deltas'[L[i].epoch] = deltas[L[i].epoch]
      BY <1>3, <1>4, <3>1
    <3> QED
      BY <1>11, <2>1, <3>1, <3>2
  <2>2. CASE i = Len(L) + 1 /\ L'[i] = event /\ queue[1].run = sharedRun
    <3>1. L'[i].epoch = Len(deltas) + 1 /\ Len(deltas) + 1 \in DOMAIN deltas' /\ event.epoch - 1 = Len(deltas)
      BY <1>3, <1>4, <1>5, <2>2
    <3>2. ASSUME event.ref # "rebased"
          PROVE  \E l \in 1..(i - 1) : \E w \in SharedWorkers :
                   L'[l] = SharedEvent("ContributionSubmitted", w, event.ref, event.epoch - 1)
      <4>1. PICK w \in SharedWorkers : InLog(SharedEvent("ContributionSubmitted", w, queue[1].id, queue[1].epoch))
        BY <1>3, <1>5, <1>6, <2>2, <3>2 DEF QueuedIsSubmitted
      <4>2. PICK l \in DOMAIN L : L[l] = SharedEvent("ContributionSubmitted", w, queue[1].id, queue[1].epoch)
        BY <4>1 DEF InLog
      <4>3. L[l] = SharedEvent("ContributionSubmitted", w, event.ref, event.epoch - 1)
        BY <1>3, <1>5, <3>1, <4>2
      <4>4. l \in 1..(i - 1) /\ L'[l] = L[l]
        BY <1>7, <1>9, <2>2
      <4> QED
        BY <4>3, <4>4
    <3> QED
      BY <1>3, <1>5, <2>2, <3>1, <3>2
  <2> QED
    BY <1>9, <2>1, <2>2
<1>14. DeclaredInOrder'
  <2> SUFFICES ASSUME NEW i \in DOMAIN L', NEW j \in DOMAIN L', i < j, IsDeclared(L'[i]), IsDeclared(L'[j])
               PROVE  L'[i].epoch < L'[j].epoch
    BY DEF DeclaredInOrder, IsDeclared
  <2>1. i \in DOMAIN L /\ L'[i] = L[i]
    BY <1>7, <1>9
  <2>2. CASE j \in DOMAIN L /\ L'[j] = L[j]
    BY <1>6, <2>1, <2>2 DEF DeclaredInOrder
  <2>3. CASE L'[j] = event
    BY <1>3, <1>5, <1>7, <2>1, <2>3
  <2> QED
    BY <1>9, <2>2, <2>3
<1>15. PublishedIsDeclared'
  <2> SUFFICES ASSUME NEW n \in DOMAIN deltas', deltas'[n].run = sharedRun
               PROVE  \E i \in DOMAIN L' : L'[i] = SharedEvent("DeclarationPublished", "-", deltas'[n].id, n)
    BY <1>1 DEF PublishedIsDeclared, InLog
  <2>1. CASE n \in DOMAIN deltas
    <3>1. deltas'[n] = deltas[n]
      BY <1>3, <1>4, <2>1
    <3> QED
      BY <1>6, <1>10, <2>1, <3>1 DEF PublishedIsDeclared
  <2>2. CASE n = Len(deltas) + 1
    <3>1. queue[1].run = sharedRun /\ deltas'[n].id = queue[1].id
      BY <1>3, <2>2
    <3> QED
      BY <1>2, <1>9, <2>2, <3>1 DEF Declares
  <2> QED
    BY <1>4, <2>1, <2>2
<1>16. QueuedIsSubmitted'
  <2> SUFFICES ASSUME NEW q \in DOMAIN Tail(queue), Tail(queue)[q].run = sharedRun, Tail(queue)[q].id # "rebased"
               PROVE  \E u \in SharedWorkers : \E i \in DOMAIN L' :
                        L'[i] = SharedEvent("ContributionSubmitted", u, Tail(queue)[q].id, Tail(queue)[q].epoch)
    BY <1>1 DEF QueuedIsSubmitted, InLog
  <2>1. Tail(queue)[q] = queue[q + 1] /\ q + 1 \in DOMAIN queue
    BY <1>3
  <2> QED
    BY <1>6, <1>10, <2>1 DEF QueuedIsSubmitted
<1>17. SubmissionEpochs'
  <2> SUFFICES ASSUME NEW l \in DOMAIN L', IsSubmission(L'[l])
               PROVE  /\ L'[l].who \in SharedWorkers
                      /\ L'[l].who = "a" => \A n \in 1..L'[l].epoch : deltas'[n].run < sharedRun
                      /\ L'[l].who = "b" => L'[l].epoch > sharedStart /\ work["b"].round = 1
    BY <1>1 DEF SubmissionEpochs, IsSubmission
  <2>1. l \in DOMAIN L /\ L'[l] = L[l]
    BY <1>12
  <2>2. \A n \in 1..L[l].epoch : n \in 1..Len(deltas)
    BY <1>3, <1>7, <2>1
  <2> QED
    BY <1>3, <1>6, <2>1, <2>2 DEF SubmissionEpochs
<1>18. AcknowledgedIsDeclared'
  BY <1>6, <1>11, <1>12 DEF AcknowledgedIsDeclared, IsAcknowledged, IsDeclared
<1>19. AcknowledgedFirst'
  BY <1>6, <1>12 DEF AcknowledgedFirst, IsAcknowledged, IsSubmission
<1> QED
  BY <1>13, <1>14, <1>15, <1>16, <1>17, <1>18, <1>19 DEF HistoryInv

\* Every step keeps the history.
LEMMA HistoryKeeps ==
  ASSUME SharedIInv, SharedNext
  PROVE  HistoryInv'
<1>1. Typed /\ DeltaInv /\ WorkerInv /\ VerdictInv /\ Bounded /\ Forms /\ HistoryInv
  BY StepForms DEF SharedIInv
<1>2. ~CreateRun => sharedRun # 0
  BY <1>1, NotIdle
<1>3. CASE ~CreateRun /\ (BookStep \/ PhaseStep)
  <2>1. Quiet
    BY <1>2, <1>3, OthersAreQuiet
  <2>2. UNCHANGED <<sharedStart, deltas, work, queue>>
    BY <1>1, <1>3, BookStepIs, PhaseStepTyped DEF workers, knowledge
  <2> QED
    BY <1>1, <1>2, <1>3, <2>1, <2>2, QuietHistory
<1>4. CASE ~CreateRun /\ QueueStep
  <2>1. Quiet
    BY <1>2, <1>4, OthersAreQuiet
  <2>2. UNCHANGED <<sharedStart, deltas, work>>
    BY <1>1, <1>4, QueueStepTyped DEF workers
  <2> QED
    <3>1. \A q \in DOMAIN queue' :
           \E p \in DOMAIN queue : /\ queue'[q].run = queue[p].run
                                   /\ \/ queue'[q].id = "rebased"
                                      \/ queue'[q].id = queue[p].id /\ queue'[q].epoch = queue[p].epoch
      BY <1>1, <1>4, QueueStepIs DEF Follows
    <3> QED
      BY <1>1, <1>2, <1>4, <2>1, <2>2, <3>1, QuietHistory
<1>5. ASSUME ~CreateRun, NEW w \in SharedWorkers,
             TakeSlot(w) \/ SharedReleaseLease(w) \/ MultiAttempt(w) \/ EndStep(w)
               \/ \E text \in Snippets, module \in Nat : ApplyStep(w, text, module)
      PROVE  HistoryInv'
  <2>1. Quiet
    BY <1>2, <1>5, OthersAreQuiet DEF WorkStep
  <2>2. UNCHANGED <<sharedStart, deltas, queue>> /\ work'["b"].round = work["b"].round
    BY <1>1, <1>5, WorkStays, DeltaFields
  <2> QED
    BY <1>1, <1>2, <1>5, <2>1, <2>2, QuietHistory
<1>6. ASSUME ~CreateRun, NEW S \in SUBSET SharedWorkers, NEW round \in 0..1, StartStep(S, round)
      PROVE  HistoryInv'
  <2>1. Quiet
    BY <1>2, <1>6, OthersAreQuiet
  <2>2. UNCHANGED <<sharedStart, deltas, queue>>
    BY <1>6 DEF StartStep, knowledge
  <2>3. (\E l \in DOMAIN L : IsSubmission(L[l])) /\ work["b"].round = 1 => work'["b"].round = 1
    <3>1. sharedPhase = "prewarm" => ~\E l \in DOMAIN L : IsSubmission(L[l])
      BY <1>1 DEF DeltaInv
    <3>2. sharedPhase # "prewarm" => work'["b"].round = 1
      BY <1>1, <1>6, DeltaFields DEF StartStep, SharedStarted, StartedFrom
    <3> QED
      BY <3>1, <3>2
  <2> QED
    BY <1>1, <1>2, <1>6, <2>1, <2>2, <2>3, QuietHistory
<1>7. CASE CreateRun \/ SubmitStep \/ Publish \/ \E w \in SharedWorkers, after \in Nat : ReadStep(w, after)
  BY <1>7, CreateRunHistory, SubmitStepHistory, PublishHistory, ReadStepHistory DEF SubmitStep
<1> QED
  BY <1>1, <1>3, <1>4, <1>5, <1>6, <1>7 DEF Forms, WorkStep
-----------------------------------------------------------------------------
(* What is submitted builds on what was read.                              *)

\* A step in which nobody reads anything.
NothingIsRead ==
  /\ UNCHANGED sharedRun
  /\ \A i \in DOMAIN L : i \in DOMAIN L' /\ L'[i] = L[i]
  /\ \A i \in DOMAIN L' : IsAcknowledged(L'[i]) => i \in DOMAIN L /\ L'[i] = L[i]

\* An acknowledgement is one of the events.
LEMMA AcknowledgedIs ==
  ASSUME NEW w, NEW n
  PROVE  Acknowledged(w, n) <=> \E i \in DOMAIN L : L[i] = SharedEvent("KnowledgeDeltaAcknowledged", w, "-", n)
  BY DEF Acknowledged, L

\* What was acknowledged is a delta of this run.
LEMMA AcknowledgedOfRun ==
  ASSUME SharedIInv, sharedRun # 0, NEW w, NEW n, Acknowledged(w, n)
  PROVE  n \in DOMAIN deltas /\ deltas[n].run = sharedRun
<1>1. Typed /\ DeclaredIsPublished /\ AcknowledgedIsDeclared
  BY DEF SharedIInv, HistoryInv, Typed
<1>2. PICK k \in DOMAIN L : L[k] = SharedEvent("KnowledgeDeltaAcknowledged", w, "-", n)
  BY AcknowledgedIs
<1>3. IsAcknowledged(L[k]) /\ L[k].epoch = n
  BY <1>2 DEF IsAcknowledged, SharedEvent
<1>4. PICK j \in 1..(k - 1) : IsDeclared(L[j]) /\ L[j].epoch = n
  BY <1>1, <1>3 DEF AcknowledgedIsDeclared
<1>5. j \in DOMAIN L
  <2>1. DOMAIN L = 1..Len(L) /\ Len(L) \in Nat
    BY <1>1, LogIs
  <2> QED
    BY <2>1
<1>6. n \in DOMAIN deltas /\ deltas[n] = [run |-> sharedRun, id |-> L[j].ref]
  BY <1>1, <1>4, <1>5, Zenon DEF DeclaredIsPublished
<1> QED
  BY <1>6

\* A row of the queue builds on what was read as long as the logs grow.
LEMMA RowsStay ==
  ASSUME Typed, SubmissionBuildsOnRead,
         \A p \in DOMAIN queue : \A i \in DOMAIN log[queue[p].run] :
           i \in DOMAIN log'[queue[p].run] /\ log'[queue[p].run][i] = log[queue[p].run][i],
         \A q \in DOMAIN queue' : \/ queue'[q].module = 0
                                  \/ BuildsOnRead(queue'[q], log'[queue'[q].run])
                                  \/ \E p \in DOMAIN queue : Follows(queue'[q], queue[p])
  PROVE  SubmissionBuildsOnRead'
<1> SUFFICES ASSUME NEW q \in DOMAIN queue', queue'[q].module # 0,
                    NEW p \in DOMAIN queue, Follows(queue'[q], queue[p])
             PROVE  BuildsOnRead(queue'[q], log'[queue'[q].run])
  BY DEF SubmissionBuildsOnRead
<1> DEFINE row == queue'[q]
           old == queue[p]
           events == log[old.run]
           more == log'[old.run]
<1>1. /\ row.run = old.run /\ row.by = old.by /\ row.module = old.module
      /\ \/ row.id = old.id /\ row.epoch = old.epoch
         \/ row.id = "rebased" /\ row.epoch \in Nat /\ row.epoch >= old.epoch
  BY DEF Follows
<1>2. BuildsOnRead(old, events)
  BY <1>1 DEF SubmissionBuildsOnRead
<1>3. old.module \in Nat /\ old.epoch \in Nat
  <2>1. old \in QueueEntry
    BY DEF Typed
  <2> QED
    BY <2>1 DEF QueueEntry
<1>4. \A i \in DOMAIN events : i \in DOMAIN more /\ more[i] = events[i]
  OBVIOUS
<1> HIDE DEF row, old, events, more
<1>5. row.module <= row.epoch
  BY <1>1, <1>2, <1>3 DEF BuildsOnRead
<1>6. PICK i \in DOMAIN events, j \in DOMAIN events :
        /\ i < j /\ events[i] = SharedEvent("KnowledgeDeltaAcknowledged", old.by, "-", old.module)
        /\ IsSubmissionOf(events[j], old)
  BY <1>2 DEF BuildsOnRead
<1>7. IsSubmissionOf(events[j], row)
  BY <1>1, <1>6 DEF IsSubmissionOf
<1>8. \E k, l \in DOMAIN more :
        /\ k < l /\ more[k] = SharedEvent("KnowledgeDeltaAcknowledged", row.by, "-", row.module)
        /\ IsSubmissionOf(more[l], row)
  BY <1>1, <1>4, <1>6, <1>7
<1>9. BuildsOnRead(row, more)
  BY <1>5, <1>8 DEF BuildsOnRead
<1> QED
  BY <1>1, <1>9 DEF row, old, more

\* The logs of the rows grow with the others.
LEMMA RowsGrow ==
  ASSUME SharedIInv, Forms, ~CreateRun,
         \A q \in DOMAIN queue' : \/ queue'[q].module = 0
                                  \/ BuildsOnRead(queue'[q], log'[queue'[q].run])
                                  \/ \E p \in DOMAIN queue : Follows(queue'[q], queue[p])
  PROVE  SubmissionBuildsOnRead'
<1>1. Typed /\ SubmissionBuildsOnRead
  BY DEF SharedIInv, ImportInv
<1>2. \A p \in DOMAIN queue : queue[p].run \in 1..SharedMaxRuns
  BY <1>1, ElementsAre DEF QueueEntry
<1>3. \A p \in DOMAIN queue : \A i \in DOMAIN log[queue[p].run] :
           i \in DOMAIN log'[queue[p].run] /\ log'[queue[p].run][i] = log[queue[p].run][i]
  BY <1>2, LogGrows DEF Grown
<1> QED
  BY <1>1, <1>3, RowsStay

\* The documents and the leases stay, and nobody reads anything.
LEMMA ImportStays ==
  ASSUME ImportInv, NothingIsRead, UNCHANGED document,
         work'["b"].round = work["b"].round, work'["b"].epoch = work["b"].epoch,
         document["a"].text = "sorry" =>
           /\ \A n \in DOMAIN deltas' : deltas'[n].run < sharedRun
           /\ \A q \in DOMAIN queue' : queue'[q].run < sharedRun
  PROVE  AppliedFirst' /\ ReadIsCounted' /\ ImportIsRead'
<1>1. AppliedFirst'
  BY DEF ImportInv, AppliedFirst, NothingIsRead
<1>2. ReadIsCounted'
  BY DEF ImportInv, ReadIsCounted, NothingIsRead, IsAcknowledged
<1>3. \A n : Acknowledged("b", n) => Acknowledged("b", n)'
  BY DEF NothingIsRead, Acknowledged, L
<1>4. ImportIsRead'
  BY <1>3 DEF ImportInv, ImportIsRead
<1> QED
  BY <1>1, <1>2, <1>4

\* A step that is quiet reads nothing.
LEMMA QuietReads ==
  ASSUME Quiet
  PROVE  NothingIsRead
  BY DEF Quiet, NothingIsRead, HistoryEvents, IsAcknowledged

\* The executions, the runner and the claims change no document.
LEMMA OthersImport ==
  ASSUME SharedIInv, Forms, ~CreateRun, UNCHANGED <<deltas, document>>,
         \/ BookStep \/ PhaseStep \/ WorkStep \/ QueueStep
         \/ (\E w \in SharedWorkers : EndStep(w)),
         work'["b"].round = work["b"].round, work'["b"].epoch = work["b"].epoch,
         \A q \in DOMAIN queue' : \E p \in DOMAIN queue : Follows(queue'[q], queue[p])
  PROVE  ImportInv'
<1>1. ImportInv /\ sharedRun # 0 /\ UNCHANGED sharedRun
  BY NotIdle DEF SharedIInv
<1>2. NothingIsRead
  BY <1>1, OthersAreQuiet, QuietReads
<1>3. document["a"].text = "sorry" =>
           /\ \A n \in DOMAIN deltas' : deltas'[n].run < sharedRun
           /\ \A q \in DOMAIN queue' : queue'[q].run < sharedRun
  BY <1>1 DEF ImportInv, AppliedFirst, Follows
<1>4. AppliedFirst' /\ ReadIsCounted' /\ ImportIsRead'
  BY <1>1, <1>2, <1>3, ImportStays
<1>5. SubmissionBuildsOnRead'
  BY RowsGrow
<1> QED
  BY <1>4, <1>5 DEF ImportInv

\* A new run begins with documents that import nothing.
LEMMA CreateRunImport ==
  ASSUME SharedIInv, CreateRun
  PROVE  ImportInv'
<1>1. Typed /\ DeltaInv /\ SubmissionBuildsOnRead
  BY DEF SharedIInv, ImportInv
<1>2. /\ sharedRun' = sharedRun + 1 /\ UNCHANGED <<deltas, queue>>
      /\ work' = [w \in SharedWorkers |-> SharedRest]
      /\ document' = [w \in SharedWorkers |-> Blank]
      /\ log' = [log EXCEPT ![sharedRun + 1] = <<Plain("RunCreated")>>]
      /\ sharedRun + 1 \in 1..SharedMaxRuns
  BY <1>1, RunAssumption DEF CreateRun, Typed, knowledge
<1>3. /\ \A n \in DOMAIN deltas : deltas[n].run < sharedRun + 1
      /\ \A q \in DOMAIN queue : queue[q].run < sharedRun + 1 /\ queue[q].run # sharedRun + 1
  BY <1>1, DeltaFields DEF DeltaInv
<1>4. document'["a"] = Blank /\ document'["b"] = Blank /\ work'["b"].round = 0 /\ Blank.module = 0
  BY <1>2 DEF SharedWorkers, SharedRest, Blank
<1>5. AppliedFirst' /\ ReadIsCounted' /\ ImportIsRead'
  BY <1>2, <1>3, <1>4 DEF AppliedFirst, ReadIsCounted, ImportIsRead
<1>6. \A p \in DOMAIN queue : \A i \in DOMAIN log[queue[p].run] :
        i \in DOMAIN log'[queue[p].run] /\ log'[queue[p].run][i] = log[queue[p].run][i]
  <2>1. \A p \in DOMAIN queue : queue[p].run \in 1..SharedMaxRuns
    BY <1>1, ElementsAre DEF QueueEntry
  <2>2. \A r \in 1..SharedMaxRuns : r # sharedRun + 1 => log'[r] = log[r]
    BY <1>1, <1>2 DEF Typed
  <2> QED
    BY <1>3, <2>1, <2>2
<1>7. \A q \in DOMAIN queue' : \E p \in DOMAIN queue : Follows(queue'[q], queue[p])
  BY <1>2 DEF Follows
<1>8. SubmissionBuildsOnRead'
  BY <1>1, <1>6, <1>7, RowsStay
<1> QED
  BY <1>5, <1>8 DEF ImportInv

\* A lease begins with a blank document, and prover-b's second one counts all
\* that there is.
LEMMA StartStepImport ==
  ASSUME SharedIInv, Forms, ~CreateRun,
         NEW S \in SUBSET SharedWorkers, NEW round \in 0..1, StartStep(S, round)
  PROVE  ImportInv'
<1>1. Typed /\ DeltaInv /\ Bounded /\ ImportInv /\ sharedRun # 0 /\ sharedRun \in Nat
  BY NotIdle DEF SharedIInv, Typed
<1>2. /\ UNCHANGED <<sharedRun, sharedStart, deltas, queue>>
      /\ \A w \in SharedWorkers : work'[w] = IF w \in S
                THEN [at |-> "slot", round |-> round, epoch |-> Len(deltas), ends |-> "-"]
                ELSE work[w]
      /\ \A w \in SharedWorkers : document'[w] = IF w \in S THEN Blank ELSE document[w]
      /\ \/ sharedPhase = "prewarm" /\ round = 0
         \/ /\ sharedPhase = "round0" /\ round = 1 /\ S = {"b"} /\ Len(deltas) > sharedStart
            /\ deltas[sharedStart + 1].run = sharedRun
  BY DEF StartStep, SharedStarted, StartedFrom, knowledge
<1>3. NothingIsRead
  BY <1>1, OthersAreQuiet, QuietReads
<1>4. "a" \in SharedWorkers /\ "b" \in SharedWorkers /\ Blank.module = 0 /\ Blank.text = "sorry"
  BY DEF SharedWorkers, Blank
<1>5. SubmissionBuildsOnRead'
  <2>1. \A q \in DOMAIN queue' : \E p \in DOMAIN queue : Follows(queue'[q], queue[p])
    BY <1>2 DEF Follows
  <2> QED
    BY <2>1, RowsGrow
<1>6. CASE sharedPhase = "prewarm" /\ round = 0
  <2>1. work'["b"].round = 0
    BY <1>1, <1>2, <1>4, <1>6 DEF DeltaInv
  <2>2. AppliedFirst'
    <3>1. /\ \A n \in DOMAIN deltas : deltas[n].run < sharedRun
          /\ \A q \in DOMAIN queue : queue[q].run < sharedRun
      BY <1>1, <1>6 DEF DeltaInv
    <3>2. document'["a"].module = 0
      BY <1>1, <1>2, <1>4 DEF ImportInv, AppliedFirst
    <3> QED
      BY <1>2, <2>1, <3>1, <3>2 DEF AppliedFirst
  <2>3. ReadIsCounted'
    BY <2>1 DEF ReadIsCounted
  <2>4. ImportIsRead'
    <3>1. CASE "b" \in S
      BY <1>2, <1>4, <3>1 DEF ImportIsRead
    <3>2. CASE "b" \notin S
      <4>1. document'["b"] = document["b"] /\ work'["b"] = work["b"]
        BY <1>2, <1>4, <3>2
      <4>2. \A n : Acknowledged("b", n) => Acknowledged("b", n)'
        BY <1>3 DEF NothingIsRead, Acknowledged, L
      <4> QED
        BY <1>1, <4>1, <4>2 DEF ImportInv, ImportIsRead
    <3> QED
      BY <3>1, <3>2
  <2> QED
    BY <1>5, <2>2, <2>3, <2>4 DEF ImportInv
<1>7. CASE round = 1 /\ S = {"b"} /\ Len(deltas) > sharedStart /\ deltas[sharedStart + 1].run = sharedRun
  <2>1. document'["a"] = document["a"] /\ document'["b"] = Blank /\ work'["b"].epoch = Len(deltas)
    BY <1>2, <1>4, <1>7
  <2>2. document["a"].text # "sorry"
    <3>1. sharedStart + 1 \in DOMAIN deltas
      BY <1>1, <1>7, DeltaFields
    <3> QED
      BY <1>1, <1>7, <3>1 DEF ImportInv, AppliedFirst
  <2>3. AppliedFirst'
    BY <1>1, <2>1, <2>2 DEF ImportInv, AppliedFirst
  <2>4. ReadIsCounted'
    <3>1. \A i \in DOMAIN L : L[i].epoch <= Len(deltas)
      <4>1. sharedRun \in 1..SharedMaxRuns
        BY <1>1, LogIs
      <4> QED
        BY <1>1, <4>1 DEF Bounded, L
    <3>2. \A i \in DOMAIN L' : IsAcknowledged(L'[i]) => L'[i].epoch <= Len(deltas)
      BY <1>3, <3>1 DEF NothingIsRead
    <3> QED
      BY <2>1, <3>2 DEF ReadIsCounted, IsAcknowledged
  <2>5. ImportIsRead'
    BY <1>4, <2>1 DEF ImportIsRead
  <2> QED
    BY <1>5, <2>3, <2>4, <2>5 DEF ImportInv
<1> QED
  BY <1>2, <1>6, <1>7

\* prover-b reads in its first round only.
LEMMA ReadStepImport ==
  ASSUME SharedIInv, Forms, ~CreateRun, NEW w \in SharedWorkers, NEW after \in Nat, ReadStep(w, after)
  PROVE  ImportInv'
<1>1. /\ Typed /\ ImportInv /\ UNCHANGED <<sharedRun, deltas, work, document, queue>>
      /\ \A i \in DOMAIN L : i \in DOMAIN L' /\ L'[i] = L[i]
      /\ \A i \in DOMAIN L' : (i \in DOMAIN L /\ L'[i] = L[i]) \/ L'[i].who = w
  BY ReadStepIs DEF SharedIInv
<1>2. w = "b" => work["b"].round # 1
  <2>1. "knowledge_read" \in Tools(w, work[w].round)
    BY DEF ReadStep, SharedCalls
  <2> QED
    BY <2>1 DEF Tools
<1>3. AppliedFirst'
  BY <1>1 DEF ImportInv, AppliedFirst
<1>4. ReadIsCounted'
  BY <1>1, <1>2 DEF ImportInv, ReadIsCounted, IsAcknowledged
<1>5. ImportIsRead'
  <2>1. \A n : Acknowledged("b", n) => Acknowledged("b", n)'
    BY <1>1 DEF Acknowledged, L
  <2> QED
    BY <1>1, <2>1 DEF ImportInv, ImportIsRead
<1>6. SubmissionBuildsOnRead'
  <2>1. \A q \in DOMAIN queue' : \E p \in DOMAIN queue : Follows(queue'[q], queue[p])
    BY <1>1 DEF Follows
  <2> QED
    BY <2>1, RowsGrow
<1> QED
  BY <1>3, <1>4, <1>5, <1>6 DEF ImportInv

\* An import was acknowledged by the worker that applies it, which prover-a
\* cannot have done yet.
LEMMA ApplyStepImport ==
  ASSUME SharedIInv, Forms, ~CreateRun, NEW w \in SharedWorkers, NEW text \in Snippets, NEW module \in Nat,
         ApplyStep(w, text, module)
  PROVE  ImportInv'
<1>1. Typed /\ ImportInv /\ sharedRun # 0 /\ "a" \in SharedWorkers /\ "b" \in SharedWorkers
  BY NotIdle DEF SharedIInv, SharedWorkers
<1>2. /\ UNCHANGED <<sharedRun, sharedStart, log, work, deltas, queue>>
      /\ document' = [document EXCEPT ![w] = [text |-> text, module |-> module]]
      /\ document[w].text = "sorry" /\ (module # 0 => Acknowledged(w, module))
      /\ "document_apply" \in Tools(w, work[w].round)
  BY DEF ApplyStep, Applicable, SharedCalls, knowledge
<1>3. /\ document'[w].text = text /\ document'[w].module = module /\ text # "sorry"
      /\ \A u \in SharedWorkers : u # w => document'[u] = document[u]
  BY <1>1, <1>2 DEF Typed, Snippets
<1>4. SubmissionBuildsOnRead'
  <2>1. \A q \in DOMAIN queue' : \E p \in DOMAIN queue : Follows(queue'[q], queue[p])
    BY <1>2 DEF Follows
  <2> QED
    BY <2>1, RowsGrow
<1>5. ReadIsCounted'
  BY <1>1, <1>2 DEF ImportInv, ReadIsCounted, L, IsAcknowledged
<1>6. \A n : Acknowledged("b", n) => Acknowledged("b", n)'
  BY <1>2 DEF Acknowledged
<1>7. CASE w = "a"
  <2>1. module = 0
    <3> SUFFICES ASSUME module # 0
                 PROVE  FALSE
      OBVIOUS
    <3>1. module \in DOMAIN deltas /\ deltas[module].run = sharedRun
      BY <1>1, <1>2, AcknowledgedOfRun
    <3>2. deltas[module].run < sharedRun /\ sharedRun \in Nat
      BY <1>1, <1>2, <1>7, <3>1 DEF ImportInv, AppliedFirst, Typed
    <3> QED
      BY <3>1, <3>2
  <2>2. AppliedFirst'
    BY <1>3, <1>7, <2>1 DEF AppliedFirst
  <2>3. ImportIsRead'
    BY <1>1, <1>2, <1>3, <1>6, <1>7 DEF ImportInv, ImportIsRead
  <2> QED
    BY <1>4, <1>5, <2>2, <2>3 DEF ImportInv
<1>8. CASE w = "b"
  <2>1. work["b"].round = 1
    BY <1>1, <1>2, <1>8, DeltaFields DEF Tools
  <2>2. AppliedFirst'
    BY <1>1, <1>2, <1>3, <1>8 DEF ImportInv, AppliedFirst
  <2>3. module # 0 => module <= work["b"].epoch
    <3> SUFFICES ASSUME module # 0
                 PROVE  module <= work["b"].epoch
      OBVIOUS
    <3>1. PICK k \in DOMAIN L : L[k] = SharedEvent("KnowledgeDeltaAcknowledged", "b", "-", module)
      BY <1>2, <1>8, AcknowledgedIs
    <3>2. IsAcknowledged(L[k]) /\ L[k].who = "b" /\ L[k].epoch = module
      BY <3>1 DEF IsAcknowledged, SharedEvent
    <3> QED
      BY <1>1, <2>1, <3>2 DEF ImportInv, ReadIsCounted
  <2>4. ImportIsRead'
    BY <1>2, <1>3, <1>6, <1>8, <2>3 DEF ImportIsRead
  <2> QED
    BY <1>4, <1>5, <2>2, <2>4 DEF ImportInv
<1> QED
  BY <1>7, <1>8 DEF SharedWorkers

\* The submission of a document that imports a module comes after the reading of
\* that module.
LEMMA SubmitStepImport ==
  ASSUME SharedIInv, Forms, ~CreateRun, NEW w \in SharedWorkers, NEW id \in SharedIds, ContributionSubmit(w, id)
  PROVE  ImportInv'
<1>1. /\ Typed /\ ImportInv /\ sharedRun # 0 /\ UNCHANGED sharedRun /\ sharedRun \in 1..SharedMaxRuns
      /\ "a" \in SharedWorkers /\ "b" \in SharedWorkers
  BY NotIdle DEF SharedIInv, SharedWorkers
<1>2. /\ UNCHANGED <<work, deltas, document>> /\ document[w].text # "sorry"
      /\ "contribution_submit" \in Tools(w, work[w].round)
  BY DEF ContributionSubmit, SharedCalls
<1>3. PICK event \in EventRecord, e \in Seq(EventRecord) :
              /\ event = SharedEvent("ContributionSubmitted", w, id, work[w].epoch)
              /\ e = <<event>> /\ RecordAll(e)
  BY SubmitStepTyped
<1>4. event.type = "ContributionSubmitted" /\ event.who = w /\ event.ref = id /\ event.epoch = work[w].epoch
  BY <1>3 DEF SharedEvent
<1>5. /\ Len(L) \in Nat /\ DOMAIN L = 1..Len(L) /\ DOMAIN L' = 1..Len(L) + 1
      /\ \A i \in 1..Len(L) : L'[i] = L[i]
      /\ L'[Len(L) + 1] = event
  <2>1. RecordAll(e) /\ Len(e) = 1 /\ e[1] = event
    BY <1>3
  <2>2. /\ L \in Seq(EventRecord) /\ L' \in Seq(EventRecord) /\ Len(L) \in Nat /\ Len(L') = Len(L) + Len(e)
        /\ \A i \in 1..Len(L) : L'[i] = L[i]
        /\ \A i \in 1..Len(e) : L'[Len(L) + i] = e[i]
    BY <1>1, <2>1, Appended
  <2> QED
    BY <2>1, <2>2
<1>6. /\ \A i \in DOMAIN L : i \in DOMAIN L' /\ L'[i] = L[i] /\ i < Len(L) + 1
      /\ \A i \in DOMAIN L' : i \in DOMAIN L \/ i = Len(L) + 1
      /\ Len(L) + 1 \in DOMAIN L'
  BY <1>5
<1>7. NothingIsRead
  BY <1>1, <1>4, <1>5, <1>6 DEF NothingIsRead, IsAcknowledged
<1>8. PICK entry \in QueueEntry :
        /\ entry.run = sharedRun /\ entry.by = w /\ entry.id = id /\ entry.epoch = work[w].epoch
        /\ entry.module = document[w].module /\ queue' = Append(queue, entry)
  <2> DEFINE row == [run |-> sharedRun, by |-> w, id |-> id, epoch |-> work[w].epoch,
                     text |-> document[w].text, module |-> document[w].module,
                     claimed |-> FALSE]
  <2>1. row \in QueueEntry
    BY <1>1 DEF QueueEntry, Ids, Typed, Execution, ContributionSubmit
  <2> QED
    BY <2>1 DEF ContributionSubmit
<1>9. document["a"].text # "sorry"
  <2>1. CASE w = "a"
    BY <1>2, <2>1
  <2>2. CASE w = "b"
    <3>1. work["b"].round = 1
      BY <1>1, <1>2, <2>2, DeltaFields DEF Tools
    <3> QED
      BY <1>1, <3>1 DEF ImportInv, AppliedFirst
  <2> QED
    BY <2>1, <2>2 DEF SharedWorkers
<1>10. AppliedFirst' /\ ReadIsCounted' /\ ImportIsRead'
  BY <1>1, <1>2, <1>7, <1>9, ImportStays
<1>11. entry.module = 0 \/ BuildsOnRead(entry, L')
  <2> SUFFICES ASSUME entry.module # 0
               PROVE  BuildsOnRead(entry, L')
    OBVIOUS
  <2>1. w = "b"
    BY <1>1, <1>8 DEF ImportInv, AppliedFirst, SharedWorkers
  <2>2. entry.module <= entry.epoch /\ Acknowledged("b", entry.module)
    BY <1>1, <1>8, <2>1 DEF ImportInv, ImportIsRead
  <2>3. PICK i \in DOMAIN L : L[i] = SharedEvent("KnowledgeDeltaAcknowledged", entry.by, "-", entry.module)
    BY <1>8, <2>1, <2>2, AcknowledgedIs
  <2>4. IsSubmissionOf(L'[Len(L) + 1], entry)
    BY <1>4, <1>5, <1>8 DEF IsSubmissionOf
  <2>5. i \in DOMAIN L' /\ i < Len(L) + 1 /\ L'[i] = L[i] /\ Len(L) + 1 \in DOMAIN L'
    BY <1>6
  <2> QED
    BY <2>2, <2>3, <2>4, <2>5 DEF BuildsOnRead
<1>12. \A q \in DOMAIN queue' : \/ queue'[q].module = 0
                               \/ BuildsOnRead(queue'[q], log'[queue'[q].run])
                               \/ \E p \in DOMAIN queue : Follows(queue'[q], queue[p])
  <2>1. queue \in Seq(QueueEntry)
    BY <1>1 DEF Typed
  <2>2. /\ DOMAIN queue' = 1..Len(queue) + 1 /\ queue'[Len(queue) + 1] = entry
        /\ \A q \in 1..Len(queue) : queue'[q] = queue[q] /\ q \in DOMAIN queue
        /\ \A n \in 1..Len(queue) + 1 : n \in 1..Len(queue) \/ n = Len(queue) + 1
    BY <1>8, <2>1
  <2>3. \A row : Follows(row, row)
    BY DEF Follows
  <2>4. L' = log'[entry.run]
    BY <1>1, <1>8 DEF L
  <2> QED
    BY <1>11, <2>2, <2>3, <2>4
<1>13. SubmissionBuildsOnRead'
  BY <1>12, RowsGrow
<1> QED
  BY <1>10, <1>13 DEF ImportInv

\* What is published was in the queue.
LEMMA PublishImport ==
  ASSUME SharedIInv, Forms, ~CreateRun, Publish
  PROVE  ImportInv'
<1>1. /\ Typed /\ Bounded /\ ImportInv /\ UNCHANGED <<sharedRun, work, document>> /\ queue' = Tail(queue)
  BY PublishLogIs DEF SharedIInv
<1>2. PICK event \in EventRecord : Declares(event)
  BY PublishLogIs
<1>3. NothingIsRead
  <2>1. ~IsAcknowledged(event)
    BY <1>2 DEF Declares, IsAcknowledged, SharedEvent
  <2> QED
    BY <1>1, <1>2, <2>1 DEF Declares, NothingIsRead
<1>4. /\ 1 \in DOMAIN queue /\ Len(deltas) \in Nat
      /\ \A q \in DOMAIN Tail(queue) : Tail(queue)[q] = queue[q + 1] /\ q + 1 \in DOMAIN queue
      /\ \A n \in 1..Len(deltas) : deltas'[n] = deltas[n]
      /\ deltas'[Len(deltas) + 1].run = queue[1].run
  BY <1>1, PublishIs
<1>5. DOMAIN deltas = 1..Len(deltas) /\ \A n \in DOMAIN deltas' : n \in DOMAIN deltas \/ n = Len(deltas) + 1
  <2>1. deltas' \in Seq(Delta) /\ Len(deltas') = Len(deltas) + 1
    BY <1>1, PublishIs
  <2> QED
    BY <1>1, <1>4, <2>1, DeltaFields
<1>6. document["a"].text = "sorry" =>
           /\ \A n \in DOMAIN deltas' : deltas'[n].run < sharedRun
           /\ \A q \in DOMAIN queue' : queue'[q].run < sharedRun
  BY <1>1, <1>4, <1>5 DEF ImportInv, AppliedFirst
<1>7. AppliedFirst' /\ ReadIsCounted' /\ ImportIsRead'
  BY <1>1, <1>3, <1>6, ImportStays
<1>8. \A q \in DOMAIN queue' : \E p \in DOMAIN queue : Follows(queue'[q], queue[p])
  BY <1>1, <1>4 DEF Follows
<1>9. SubmissionBuildsOnRead'
  BY <1>8, RowsGrow
<1> QED
  BY <1>7, <1>9 DEF ImportInv

\* Every step keeps what imports rest on.
LEMMA ImportKeeps ==
  ASSUME SharedIInv, SharedNext
  PROVE  ImportInv'
<1>1. Typed /\ Bounded /\ VerdictInv /\ Forms
  BY StepForms DEF SharedIInv
<1>2. CASE CreateRun
  BY <1>2, CreateRunImport
<1>3. ASSUME UNCHANGED queue
      PROVE  \A q \in DOMAIN queue' : \E p \in DOMAIN queue : Follows(queue'[q], queue[p])
  BY <1>3 DEF Follows
<1>4. CASE ~CreateRun /\ (BookStep \/ PhaseStep)
  <2>1. UNCHANGED <<deltas, document, work, queue>>
    BY <1>1, <1>4, NotIdle, BookStepIs, PhaseStepTyped DEF workers, knowledge
  <2> QED
    BY <1>1, <1>3, <1>4, <2>1, OthersImport
<1>5. CASE ~CreateRun /\ QueueStep
  <2>1. UNCHANGED <<deltas, document, work>>
    BY <1>5, QueueStepTyped DEF workers
  <2>2. \A q \in DOMAIN queue' : \E p \in DOMAIN queue : Follows(queue'[q], queue[p])
    BY <1>1, <1>5, QueueStepIs
  <2> QED
    BY <1>1, <1>5, <2>1, <2>2, OthersImport
<1>6. ASSUME ~CreateRun, NEW w \in SharedWorkers,
             TakeSlot(w) \/ SharedReleaseLease(w) \/ MultiAttempt(w) \/ EndStep(w)
      PROVE  ImportInv'
  <2>1. UNCHANGED <<deltas, queue>> /\ work'["b"].round = work["b"].round /\ work'["b"].epoch = work["b"].epoch
    BY <1>1, <1>6, WorkStays, DeltaFields
  <2>2. UNCHANGED document
    BY <1>6 DEF TakeSlot, SharedReleaseLease, MultiAttempt, EndStep
  <2>3. WorkStep \/ EndStep(w)
    BY <1>6 DEF WorkStep
  <2> QED
    BY <1>1, <1>3, <1>6, <2>1, <2>2, <2>3, OthersImport
<1>7. ASSUME ~CreateRun, NEW w \in SharedWorkers, NEW text \in Snippets, NEW module \in Nat, ApplyStep(w, text, module)
      PROVE  ImportInv'
  BY <1>1, <1>7, ApplyStepImport
<1>8. CASE ~CreateRun /\ SubmitStep
  BY <1>1, <1>8, SubmitStepImport DEF SubmitStep
<1>9. CASE ~CreateRun /\ Publish
  BY <1>1, <1>9, PublishImport
<1>10. ASSUME ~CreateRun, NEW w \in SharedWorkers, NEW after \in Nat, ReadStep(w, after)
       PROVE  ImportInv'
  BY <1>1, <1>10, ReadStepImport
<1>11. ASSUME ~CreateRun, NEW S \in SUBSET SharedWorkers, NEW round \in 0..1, StartStep(S, round)
       PROVE  ImportInv'
  BY <1>1, <1>11, StartStepImport
<1> QED
  BY <1>1, <1>2, <1>4, <1>5, <1>6, <1>7, <1>8, <1>9, <1>10, <1>11, Zenon DEF Forms, WorkStep
-----------------------------------------------------------------------------
(* A completed run is earned.                                              *)

\* An event is made of its four fields.
LEMMA EventIs ==
  ASSUME NEW event \in EventRecord
  PROVE  event = SharedEvent(event.type, event.who, event.ref, event.epoch)
  BY DEF EventRecord, SharedEvent

\* What stands in the log of the current run stays at its place.
LEMMA AtStays ==
  ASSUME Typed, sharedRun # 0, Grown, UNCHANGED sharedRun
  PROVE  /\ \A i \in DOMAIN L : i \in DOMAIN L' /\ L'[i] = L[i]
         /\ \A type, who, ref, n : \A i \in SharedAt(type, who, ref, n) :
              i \in DOMAIN L' /\ L'[i] = SharedEvent(type, who, ref, n)
<1>1. sharedRun \in 1..SharedMaxRuns
  BY LogIs
<1>2. \A i \in DOMAIN L : i \in DOMAIN L' /\ L'[i] = L[i]
  BY <1>1 DEF Grown, L
<1> QED
  BY <1>2 DEF SharedAt, L

\* What was published in turn stays so.
LEMMA InTurnStays ==
  ASSUME Typed, sharedRun # 0, Grown, UNCHANGED <<sharedRun, sharedStart>>, PublishedInTurn
  PROVE  PublishedInTurn'
<1>1. PICK i \in SharedAt("ContributionSubmitted", "a", "a", sharedStart),
           j \in SharedAt("DeclarationPublished", "-", "a", sharedStart + 1),
           k \in SharedAt("KnowledgeDeltaAcknowledged", "b", "-", sharedStart + 1),
           l \in SharedAt("ContributionSubmitted", "b", "b", sharedStart + 1),
           m \in SharedAt("DeclarationPublished", "-", "b", sharedStart + 2) :
             i < j /\ j < k /\ k < l /\ l < m
  BY DEF PublishedInTurn
<1>2. /\ i \in DOMAIN L' /\ L'[i] = SharedEvent("ContributionSubmitted", "a", "a", sharedStart)
      /\ j \in DOMAIN L' /\ L'[j] = SharedEvent("DeclarationPublished", "-", "a", sharedStart + 1)
      /\ k \in DOMAIN L' /\ L'[k] = SharedEvent("KnowledgeDeltaAcknowledged", "b", "-", sharedStart + 1)
      /\ l \in DOMAIN L' /\ L'[l] = SharedEvent("ContributionSubmitted", "b", "b", sharedStart + 1)
      /\ m \in DOMAIN L' /\ L'[m] = SharedEvent("DeclarationPublished", "-", "b", sharedStart + 2)
  BY <1>1, AtStays
<1>3. /\ i \in SharedAt("ContributionSubmitted", "a", "a", sharedStart)'
      /\ j \in SharedAt("DeclarationPublished", "-", "a", sharedStart + 1)'
      /\ k \in SharedAt("KnowledgeDeltaAcknowledged", "b", "-", sharedStart + 1)'
      /\ l \in SharedAt("ContributionSubmitted", "b", "b", sharedStart + 1)'
      /\ m \in SharedAt("DeclarationPublished", "-", "b", sharedStart + 2)'
  BY <1>2 DEF SharedAt, L
<1> QED
  BY <1>1, <1>3 DEF PublishedInTurn

\* The history and what validate_shared_completion looks at give the order.
LEMMA ValidIsInTurn ==
  ASSUME SharedIInv, sharedRun # 0, CompletionValid
  PROVE  PublishedInTurn
<1>1. Typed /\ DeltaInv
  BY DEF SharedIInv
<1>2. /\ DeclaredIsPublished /\ DeclaredInOrder /\ SubmissionEpochs /\ AcknowledgedIsDeclared /\ AcknowledgedFirst
  BY DEF HistoryInv, Typed, SharedIInv
<1>3. /\ L \in Seq(EventRecord) /\ Len(L) \in Nat /\ DOMAIN L = 1..Len(L)
      /\ \A i \in 1..Len(L) : L[i] \in EventRecord /\ L[i].epoch \in Nat
  BY <1>1, LogIs
<1>4. PICK i \in DOMAIN L, j \in DOMAIN L :
        /\ i < j /\ Declarations = {i, j} /\ IsDeclared(L[i]) /\ IsDeclared(L[j])
        /\ L[i].ref = "a" /\ L[j].ref = "b"
  BY DEF CompletionValid, Declarations, IsDeclared, L
<1>5. Len(deltas) = sharedStart + 2 /\ DOMAIN deltas = 1..sharedStart + 2 /\ sharedStart \in Nat
  BY <1>1, DeltaFields DEF CompletionValid
<1>6. /\ L[i].epoch \in 1..sharedStart + 2 /\ deltas[L[i].epoch].run = sharedRun /\ L[i].who = "-"
      /\ L[j].epoch \in 1..sharedStart + 2 /\ deltas[L[j].epoch].run = sharedRun /\ L[j].who = "-"
  <2>1. \A d \in DOMAIN L : IsDeclared(L[d]) =>
          /\ L[d].epoch \in DOMAIN deltas /\ L[d].who = "-"
          /\ deltas[L[d].epoch] = [run |-> sharedRun, id |-> L[d].ref]
    BY <1>2 DEF DeclaredIsPublished
  <2>2. ASSUME NEW d \in DOMAIN L, IsDeclared(L[d])
        PROVE  deltas[L[d].epoch].run = sharedRun
    <3>1. deltas[L[d].epoch] = [run |-> sharedRun, id |-> L[d].ref]
      BY <2>1, <2>2
    <3> QED
      BY <3>1
  <2> QED
    BY <1>4, <1>5, <2>1, <2>2
<1>7. L[i].epoch > sharedStart /\ L[j].epoch > sharedStart
  BY <1>1, <1>5, <1>6, DeltaFields DEF DeltaInv
<1>8. L[i].epoch = sharedStart + 1 /\ L[j].epoch = sharedStart + 2
  <2>1. L[i].epoch < L[j].epoch
    BY <1>2, <1>4 DEF DeclaredInOrder
  <2> QED
    BY <1>5, <1>6, <1>7, <2>1
<1>9. /\ L[i] = SharedEvent("DeclarationPublished", "-", "a", sharedStart + 1)
      /\ L[j] = SharedEvent("DeclarationPublished", "-", "b", sharedStart + 2)
  BY <1>3, <1>4, <1>6, <1>8, EventIs DEF IsDeclared
<1>10. PICK s \in 1..(i - 1) : L[s] = SharedEvent("ContributionSubmitted", "a", "a", sharedStart)
  <2>1. L[i].ref # "rebased" /\ L[i].epoch - 1 = sharedStart
    BY <1>4, <1>5, <1>8
  <2>2. PICK s \in 1..(i - 1), w \in SharedWorkers : L[s] = SharedEvent("ContributionSubmitted", w, "a", sharedStart)
    BY <1>2, <1>4, <2>1 DEF DeclaredIsPublished
  <2>3. s \in DOMAIN L /\ IsSubmission(L[s]) /\ L[s].who = w /\ L[s].epoch = sharedStart
    BY <1>3, <2>2 DEF IsSubmission, SharedEvent
  <2>4. w # "b"
    BY <1>2, <1>5, <2>3 DEF SubmissionEpochs
  <2>5. w = "a"
    BY <2>4 DEF SharedWorkers
  <2> QED
    BY <2>2, <2>5
<1>11. PICK l \in 1..(j - 1) : L[l] = SharedEvent("ContributionSubmitted", "b", "b", sharedStart + 1)
  <2>1. L[j].ref # "rebased" /\ L[j].epoch - 1 = sharedStart + 1
    BY <1>4, <1>5, <1>8
  <2>2. PICK l \in 1..(j - 1), w \in SharedWorkers : L[l] = SharedEvent("ContributionSubmitted", w, "b", sharedStart + 1)
    BY <1>2, <1>4, <2>1 DEF DeclaredIsPublished
  <2>3. l \in DOMAIN L /\ IsSubmission(L[l]) /\ L[l].who = w /\ L[l].epoch = sharedStart + 1
    BY <1>3, <2>2 DEF IsSubmission, SharedEvent
  <2>4. w # "a"
    <3>1. deltas[sharedStart + 1].run = sharedRun /\ sharedStart + 1 \in 1..sharedStart + 1
      BY <1>5, <1>6, <1>8
    <3>2. sharedRun \in Nat
      BY <1>1, DeltaFields
    <3>3. w = "a" => deltas[sharedStart + 1].run < sharedRun
      BY <1>2, <2>3, <3>1 DEF SubmissionEpochs
    <3> QED
      BY <3>1, <3>2, <3>3
  <2>5. w = "b"
    BY <2>4 DEF SharedWorkers
  <2> QED
    BY <2>2, <2>5
<1>12. PICK k \in DOMAIN L : L[k] = SharedEvent("KnowledgeDeltaAcknowledged", "b", "-", sharedStart + 1)
  BY DEF CompletionValid, Acknowledged, L
<1>13. IsAcknowledged(L[k]) /\ L[k].who = "b" /\ L[k].epoch = sharedStart + 1
  BY <1>12 DEF IsAcknowledged, SharedEvent
<1>14. i < k
  <2>1. PICK d \in 1..(k - 1) : IsDeclared(L[d]) /\ L[d].epoch = sharedStart + 1
    BY <1>2, <1>13 DEF AcknowledgedIsDeclared
  <2>2. d \in Declarations
    BY <1>3, <2>1 DEF Declarations, IsDeclared, L
  <2>3. d = i
    BY <1>4, <1>5, <1>8, <2>1, <2>2
  <2> QED
    BY <1>3, <2>1, <2>3
<1>15. k < l
  <2>1. l \in DOMAIN L /\ IsSubmission(L[l]) /\ L[l].who = "b"
    BY <1>3, <1>11 DEF IsSubmission, SharedEvent
  <2> QED
    BY <1>2, <1>13, <2>1 DEF AcknowledgedFirst
<1>16. /\ s \in SharedAt("ContributionSubmitted", "a", "a", sharedStart)
       /\ i \in SharedAt("DeclarationPublished", "-", "a", sharedStart + 1)
       /\ k \in SharedAt("KnowledgeDeltaAcknowledged", "b", "-", sharedStart + 1)
       /\ l \in SharedAt("ContributionSubmitted", "b", "b", sharedStart + 1)
       /\ j \in SharedAt("DeclarationPublished", "-", "b", sharedStart + 2)
  BY <1>3, <1>9, <1>10, <1>11, <1>12, SMTT(30) DEF SharedAt, L
<1>17. s < i /\ l < j
  BY <1>3, <1>10, <1>11
<1> QED
  BY <1>14, <1>15, <1>16, <1>17 DEF PublishedInTurn

\* Only a valid completion brings a run to its review.
LEMMA ReviewIsEarned ==
  ASSUME SharedIInv, Forms, ~CreateRun,
         sharedPhase' = "review" \/ (sharedPhase' = "closing" /\ error' = "none")
  PROVE  PublishedInTurn
<1>1. Typed /\ DeltaInv /\ WorkerInv /\ VerdictInv /\ Bounded /\ EarnedInv /\ sharedRun # 0
  BY NotIdle DEF SharedIInv
<1>2. CASE UNCHANGED <<sharedPhase, error>>
  BY <1>1, <1>2 DEF EarnedInv
<1>3. CASE SubmitStep \/ Publish \/ WorkStep \/ QueueStep
           \/ (\E w \in SharedWorkers : EndStep(w) \/ \E after \in Nat : ReadStep(w, after))
  <2>1. QueueStep => UNCHANGED <<sharedPhase, error>>
    BY QueueStepTyped
  <2> QED
    BY <1>2, <1>3, <2>1 DEF SubmitStep, ContributionSubmit, Publish, WorkStep, TakeSlot, SharedReleaseLease, MultiAttempt,
       ApplyStep, EndStep, ReadStep
<1>4. CASE BookStep
  <2>1. CASE AbortRun
    BY <1>1, <2>1 DEF AbortRun, WorkerInv
  <2>2. CASE RecordPart
    BY <2>2 DEF RecordPart
  <2> QED
    BY <1>4, <2>1, <2>2 DEF BookStep, SharedOpenHostFails, FakeReview, AuditAlignment, AuditFails, Conclude
<1>5. CASE WaitForEpoch
  BY <1>1, <1>5, ValidIsInTurn DEF WaitForEpoch, SharedFail
<1>6. CASE CloseHost
  BY <1>1, <1>6 DEF CloseHost, EarnedInv
<1>7. CASE PhaseStep /\ ~WaitForEpoch /\ ~CloseHost
  BY <1>7 DEF PhaseStep, GovernorRefuses, SharedOpenHost, PrewarmFails, ConsumerFails, Interrupt, WorkerFails,
         RoundEnds, SecondRoundFails, SecondRoundEnds, EpochTimesOut, WriteFails, SharedFinish, SharedFail
<1>8. CASE \E S \in SUBSET SharedWorkers, round \in 0..1 : StartStep(S, round)
  BY <1>8 DEF StartStep
<1> QED
  BY <1>3, <1>4, <1>5, <1>6, <1>7, <1>8 DEF Forms

\* No step takes the completion away or adds an abort to it.
LEMMA EarnedStays ==
  ASSUME SharedIInv, sharedRun # 0, Grown, UNCHANGED <<sharedRun, sharedStart>>,
         Completed' => Completed, Completed /\ Aborted' => Aborted
  PROVE  CompletedIsEarned'
<1>1. Typed /\ CompletedIsEarned
  BY DEF SharedIInv, EarnedInv
<1>2. sharedRun \in 1..SharedMaxRuns /\ sharedRun > 0
  BY <1>1, LogIs
<1> SUFFICES ASSUME Completed'
             PROVE  CompletedIsEarned'
  BY DEF CompletedIsEarned, Completed, L
<1>3. Completed /\ ~Aborted /\ ~Aborted'
  BY <1>1, <1>2 DEF CompletedIsEarned, Completed, Aborted, L
<1>4. PICK i \in SharedAt("ContributionSubmitted", "a", "a", sharedStart),
           j \in SharedAt("DeclarationPublished", "-", "a", sharedStart + 1),
           k \in SharedAt("KnowledgeDeltaAcknowledged", "b", "-", sharedStart + 1),
           l \in SharedAt("ContributionSubmitted", "b", "b", sharedStart + 1),
           m \in SharedAt("DeclarationPublished", "-", "b", sharedStart + 2),
           n \in SharedAt("AlignmentReviewed", "-", "aligned", 0),
           o \in SharedAt("RunCompleted", "-", "-", 0) :
             i < j /\ j < k /\ k < l /\ l < m /\ m < n /\ n < o
  BY <1>1, <1>2, <1>3 DEF CompletedIsEarned, Completed, L
<1>5. \A type, who, ref, n1 : SharedAt(type, who, ref, n1) \subseteq
         {i1 \in DOMAIN L' : L'[i1] = SharedEvent(type, who, ref, n1)}
  BY <1>1, AtStays
<1>6. /\ i \in SharedAt("ContributionSubmitted", "a", "a", sharedStart)'
      /\ j \in SharedAt("DeclarationPublished", "-", "a", sharedStart + 1)'
      /\ k \in SharedAt("KnowledgeDeltaAcknowledged", "b", "-", sharedStart + 1)'
      /\ l \in SharedAt("ContributionSubmitted", "b", "b", sharedStart + 1)'
      /\ m \in SharedAt("DeclarationPublished", "-", "b", sharedStart + 2)'
      /\ n \in SharedAt("AlignmentReviewed", "-", "aligned", 0)'
      /\ o \in SharedAt("RunCompleted", "-", "-", 0)'
  BY <1>4, <1>5 DEF SharedAt, L
<1> QED
  BY <1>3, <1>4, <1>6 DEF CompletedIsEarned, Completed, Aborted, L

\* The aligned review and the completion follow what was published in turn.
LEMMA ConcludeIsEarned ==
  ASSUME SharedIInv, VerdictInv', sharedPhase = "review", error' = "none",
         Conclude(<<Reviewed("aligned"), Plain("RunCompleted")>>)
  PROVE  CompletedIsEarned'
<1>1. Typed /\ PublishedInTurn /\ sharedRun # 0 /\ UNCHANGED <<sharedRun, sharedStart>> /\ sharedPhase' = "artifacts"
  BY DEF SharedIInv, EarnedInv, Typed, Conclude
<1>2. PICK e \in Seq(EventRecord) : /\ e = <<Reviewed("aligned"), Plain("RunCompleted")>> /\ RecordAll(e)
  <2>1. <<Reviewed("aligned"), Plain("RunCompleted")>> \in Seq(Booked)
    BY BookedAre DEF Verdicts
  <2>2. <<Reviewed("aligned"), Plain("RunCompleted")>> \in Seq(EventRecord)
    BY <2>1 DEF Booked
  <2> QED
    BY <2>2 DEF Conclude
<1>3. /\ L \in Seq(EventRecord) /\ L' \in Seq(EventRecord) /\ Len(L) \in Nat /\ Len(e) = 2
      /\ Len(L') = Len(L) + 2
      /\ L'[Len(L) + 1] = Reviewed("aligned") /\ L'[Len(L) + 2] = Plain("RunCompleted")
  <2>1. Len(e) = 2 /\ e[1] = Reviewed("aligned") /\ e[2] = Plain("RunCompleted")
    BY <1>2
  <2>2. /\ L \in Seq(EventRecord) /\ L' \in Seq(EventRecord) /\ Len(L) \in Nat /\ Len(L') = Len(L) + Len(e)
        /\ \A i \in 1..Len(e) : L'[Len(L) + i] = e[i]
    BY <1>1, <1>2, Appended
  <2> QED
    BY <2>1, <2>2
<1>4. Grown
  BY <1>1, <1>2, AppendGrows
<1>5. ~Aborted'
  <2>1. (error' = "none" <=> Completed') /\ (Completed' <=> ~Aborted')
    BY <1>1 DEF VerdictInv
  <2> QED
    BY <2>1
<1>6. PICK i \in SharedAt("ContributionSubmitted", "a", "a", sharedStart)',
           j \in SharedAt("DeclarationPublished", "-", "a", sharedStart + 1)',
           k \in SharedAt("KnowledgeDeltaAcknowledged", "b", "-", sharedStart + 1)',
           l \in SharedAt("ContributionSubmitted", "b", "b", sharedStart + 1)',
           m \in SharedAt("DeclarationPublished", "-", "b", sharedStart + 2) :
             i < j /\ j < k /\ k < l /\ l < m
  <2>1. PICK i \in SharedAt("ContributionSubmitted", "a", "a", sharedStart),
             j \in SharedAt("DeclarationPublished", "-", "a", sharedStart + 1),
             k \in SharedAt("KnowledgeDeltaAcknowledged", "b", "-", sharedStart + 1),
             l \in SharedAt("ContributionSubmitted", "b", "b", sharedStart + 1),
             m \in SharedAt("DeclarationPublished", "-", "b", sharedStart + 2) :
               i < j /\ j < k /\ k < l /\ l < m
    BY <1>1 DEF PublishedInTurn
  <2>2. \A type, who, ref, n1 : SharedAt(type, who, ref, n1) \subseteq
           {i1 \in DOMAIN L' : L'[i1] = SharedEvent(type, who, ref, n1)}
    BY <1>1, <1>4, AtStays
  <2>3. /\ i \in SharedAt("ContributionSubmitted", "a", "a", sharedStart)'
        /\ j \in SharedAt("DeclarationPublished", "-", "a", sharedStart + 1)'
        /\ k \in SharedAt("KnowledgeDeltaAcknowledged", "b", "-", sharedStart + 1)'
        /\ l \in SharedAt("ContributionSubmitted", "b", "b", sharedStart + 1)'
    <3>1. sharedStart' = sharedStart
      BY <1>1
    <3>2. /\ i \in DOMAIN L' /\ L'[i] = SharedEvent("ContributionSubmitted", "a", "a", sharedStart')
          /\ j \in DOMAIN L' /\ L'[j] = SharedEvent("DeclarationPublished", "-", "a", sharedStart' + 1)
          /\ k \in DOMAIN L' /\ L'[k] = SharedEvent("KnowledgeDeltaAcknowledged", "b", "-", sharedStart' + 1)
          /\ l \in DOMAIN L' /\ L'[l] = SharedEvent("ContributionSubmitted", "b", "b", sharedStart' + 1)
      BY <2>1, <2>2, <3>1
    <3> QED
      BY <3>2 DEF SharedAt, L
  <2> QED
    BY <2>1, <2>3
<1>7. /\ m \in SharedAt("DeclarationPublished", "-", "b", sharedStart + 2)' /\ m \in 1..Len(L)
      /\ Len(L) + 1 \in SharedAt("AlignmentReviewed", "-", "aligned", 0)'
      /\ Len(L) + 2 \in SharedAt("RunCompleted", "-", "-", 0)'
  <2>1. m \in DOMAIN L' /\ L'[m] = SharedEvent("DeclarationPublished", "-", "b", sharedStart + 2)
    BY <1>1, <1>4, AtStays
  <2>2. m \in 1..Len(L)
    <3>1. m \in DOMAIN L
      BY Zenon DEF SharedAt, L
    <3>2. DOMAIN L = 1..Len(L)
      BY <1>3
    <3> QED
      BY <3>1, <3>2, Zenon
  <2>3. Len(L) + 1 \in DOMAIN L' /\ Len(L) + 2 \in DOMAIN L'
    BY <1>3
  <2> QED
    BY <1>1, <1>3, <2>1, <2>2, <2>3 DEF SharedAt, L, Reviewed, Plain
<1>8. m < Len(L) + 1 /\ Len(L) + 1 < Len(L) + 2
  BY <1>3, <1>7
<1> QED
  BY <1>5, <1>6, <1>7, <1>8 DEF CompletedIsEarned, Aborted, L

\* A run is completed only when its review finds what was published in turn.
LEMMA EarnedKeeps ==
  ASSUME SharedIInv, SharedNext
  PROVE  EarnedInv'
<1>1. Typed /\ Typed' /\ VerdictInv /\ VerdictInv' /\ Forms /\ WorkerInv /\ WorkerInv' /\ Bounded
  BY StepForms, TypedKeeps, VerdictKeeps, WorkersKeep DEF SharedIInv
<1>2. CASE CreateRun
  <2>1. sharedPhase' = "created"
    BY <1>2 DEF CreateRun
  <2>2. ~Has(L, "RunCompleted")'
    BY <1>1, <2>1 DEF VerdictInv
  <2> QED
    BY <2>1, <2>2 DEF EarnedInv, CompletedIsEarned, L
<1>3. CASE ~CreateRun
  <2>1. sharedRun # 0 /\ UNCHANGED sharedRun /\ Grown
    BY <1>1, <1>3, NotIdle, LogGrows
  <2>2. UNCHANGED sharedStart
    <3>1. BookStep \/ PhaseStep \/ QueueStep => UNCHANGED sharedStart
      BY <1>1, BookStepIs, PhaseStepTyped, QueueStepTyped
    <3> QED
      BY <1>1, <1>3, <3>1 DEF Forms, SubmitStep, ContributionSubmit, Publish, WorkStep, TakeSlot, SharedReleaseLease,
         MultiAttempt, ApplyStep, EndStep, ReadStep, StartStep
  <2>3. sharedPhase' = "review" \/ (sharedPhase' = "closing" /\ error' = "none") => PublishedInTurn'
    BY <1>1, <1>3, <2>1, <2>2, ReviewIsEarned, InTurnStays
  <2>4. CASE ~BookStep
    <3>1. Neutral
      BY <1>1, <1>3, <2>1, <2>4, OthersAreNeutral DEF Forms
    <3>2. (Completed' <=> Completed) /\ (Aborted' <=> Aborted)
      BY <1>1, <2>1, <3>1, NeutralMeans DEF Completed, Aborted, Bookkeeping
    <3> QED
      BY <2>1, <2>2, <2>3, <3>2, EarnedStays DEF EarnedInv
  <2>5. CASE sharedPhase' = "artifacts" /\ error' = "none" /\ BookStep /\ ~RecordPart
    <3>1. sharedPhase = "review" /\ Conclude(<<Reviewed("aligned"), Plain("RunCompleted")>>)
      BY <1>1, <2>5 DEF BookStep, SharedOpenHostFails, AbortRun, FakeReview, AuditAlignment, AuditFails
    <3>2. CompletedIsEarned'
      BY <1>1, <2>5, <3>1, ConcludeIsEarned
    <3> QED
      BY <2>3, <3>2 DEF EarnedInv
  <2>6. CASE sharedPhase' = "artifacts" /\ error' # "none" /\ BookStep /\ ~RecordPart
    <3>1. ~Completed'
      BY <1>1, <2>6 DEF VerdictInv
    <3> QED
      BY <2>3, <3>1 DEF EarnedInv, CompletedIsEarned, Completed, L
  <2>7. CASE SharedOpenHostFails \/ AbortRun
    <3>1. ~Completed'
      <4>1. CASE SharedOpenHostFails
        <5>1. PICK e \in Seq(EventRecord) : e = <<Plain("RunAborted")>> /\ RecordAll(e)
          <6>1. PICK event \in EventRecord : event = Plain("RunAborted")
            BY BookedAre DEF Booked
          <6> QED
            BY <1>1, <2>1, <4>1, <6>1, OneAppended DEF SharedOpenHostFails
        <5>2. ~Has(e, "RunCompleted")
          BY <5>1 DEF Has, Plain, SharedEvent
        <5>3. ~Has(L, "RunCompleted")
          BY <1>1, <4>1 DEF VerdictInv, SharedOpenHostFails
        <5> QED
          BY <1>1, <2>1, <5>1, <5>2, <5>3, BookedLog DEF Completed
      <4>2. CASE AbortRun
        BY <1>1, <4>2 DEF VerdictInv, AbortRun, Completed
      <4> QED
        BY <2>7, <4>1, <4>2
    <3> QED
      BY <2>3, <3>1 DEF EarnedInv, CompletedIsEarned, Completed, L
  <2>8. CASE RecordPart
    <3>1. sharedPhase = "artifacts" /\ sharedPhase' = "artifacts" /\ UNCHANGED error
      BY <2>8 DEF RecordPart
    <3>2. (Completed' <=> Completed) /\ (Aborted' <=> Aborted)
      BY <1>1, <3>1 DEF VerdictInv
    <3> QED
      BY <2>1, <2>2, <2>3, <3>2, EarnedStays DEF EarnedInv
  <2> QED
    BY <2>4, <2>5, <2>6, <2>7, <2>8 DEF BookStep, FakeReview, AuditAlignment, AuditFails, Conclude
<1> QED
  BY <1>2, <1>3
-----------------------------------------------------------------------------
(* The theorems.                                                           *)

\* A project without runs.
LEMMA InitIsInvariant ==
  ASSUME SharedInit
  PROVE  SharedIInv
<1> USE DEF SharedInit
<1>1. \A r \in 1..SharedMaxRuns : log[r] = <<>>
  OBVIOUS
<1>2. Typed
  <2>1. log \in [1..SharedMaxRuns -> Seq(EventRecord)] /\ deltas \in Seq(Delta) /\ queue \in Seq(QueueEntry)
        /\ trace \in Seq(EventRecord)
    OBVIOUS
  <2>2. work \in [SharedWorkers -> Execution]
    BY DEF SharedRest, Execution, Ats
  <2>3. document \in [SharedWorkers -> [text : {"sorry", "good", "bad"}, module : Nat]]
    BY DEF Blank
  <2> QED
    BY <2>1, <2>2, <2>3, RunAssumption DEF Typed, Phases
<1>3. Bounded
  BY <1>1 DEF Bounded, SharedRest, Blank
<1>4. WorkerInv
  BY DEF WorkerInv, SharedRest, Hosted
<1>5. CountInv /\ HistoryInv /\ EarnedInv
  BY DEF CountInv, HistoryInv, EarnedInv, CompletedIsEarned
<1>6. VerdictInv
  BY <1>1 DEF VerdictInv, Terminal
<1>7. InUse <= Slots
  <2>1. {w \in SharedWorkers : work[w].at = "running"} = {}
    BY DEF SharedRest
  <2>2. InUse = 0
    BY <2>1, FS_EmptySet DEF InUse
  <2> QED
    BY <2>2, RunAssumption
<1>8. DeltaInv
  BY DEF DeltaInv, SharedRest, SharedWorkers
<1>9. ImportInv
  BY DEF ImportInv, AppliedFirst, ReadIsCounted, ImportIsRead, SubmissionBuildsOnRead, Blank, SharedRest, SharedWorkers
<1> QED
  BY <1>2, <1>3, <1>4, <1>5, <1>6, <1>7, <1>8, <1>9 DEF SharedIInv

\* A step of something else.
LEMMA StutterKeeps ==
  ASSUME SharedIInv, UNCHANGED sharedVars
  PROVE  SharedIInv'
<1>1. UNCHANGED <<sharedRun, sharedPhase, sharedStart, log, work, document, accepted, lease, cursor, script,
                  queue, deltas, consumer, error, exit, part, labels, trace, sharedFaults>>
  BY DEF sharedVars, workers, knowledge, evidence
<1>2. Typed' /\ Bounded' /\ WorkerInv'
  BY <1>1 DEF SharedIInv, Typed, Bounded, WorkerInv, Returned
<1>3. CountInv' /\ VerdictInv'
  BY <1>1 DEF SharedIInv, CountInv, StartsOf, StopsOf, L, VerdictInv, Terminal, Completed, Aborted, InLog, AllRegistered, Has
<1>4. (InUse <= Slots)' /\ DeltaInv' /\ ImportInv'
  BY <1>1 DEF SharedIInv, InUse, DeltaInv, L, ImportInv, AppliedFirst, ReadIsCounted, ImportIsRead,
     SubmissionBuildsOnRead, Acknowledged
<1>5. HistoryInv'
  BY <1>1 DEF SharedIInv, HistoryInv, DeclaredIsPublished, DeclaredInOrder, PublishedIsDeclared, QueuedIsSubmitted,
     SubmissionEpochs, AcknowledgedIsDeclared, AcknowledgedFirst, InLog, L
<1>6. EarnedInv'
  BY <1>1 DEF SharedIInv, EarnedInv, PublishedInTurn, CompletedIsEarned, SharedAt
<1> QED
  BY <1>2, <1>3, <1>4, <1>5, <1>6 DEF SharedIInv

\* The invariant of a run (orchestration/runner.py, conductor.py, worker.py,
\* worker_gateway.py, run_validation.py and the promotion consumer).
THEOREM SharedRunInvariant == SharedSpec => []SharedIInv
<1>1. SharedInit => SharedIInv
  BY InitIsInvariant
<1>2. SharedIInv /\ [SharedNext]_sharedVars => SharedIInv'
  <2> SUFFICES ASSUME SharedIInv, [SharedNext]_sharedVars
               PROVE  SharedIInv'
    OBVIOUS
  <2>1. CASE SharedNext
    BY <2>1, TypedKeeps, BoundedKeeps, WorkersKeep, CountsKeep, VerdictKeeps, SlotsKeep, DeltasKeep, HistoryKeeps,
       EarnedKeeps, ImportKeeps DEF SharedIInv
  <2>2. CASE UNCHANGED sharedVars
    BY <2>2, StutterKeeps
  <2> QED
    BY <2>1, <2>2
<1> QED
  BY <1>1, <1>2, PTL DEF SharedSpec

\* For any number of runs, slots and failures, and for the fixtures as for a
\* model: a run is completed only if prover-b built on what prover-a had
\* published (validate_shared_completion, audit_alignment).
THEOREM CompletionIsEarned == SharedSpec => []CompletedIsEarned
<1>1. SharedIInv => CompletedIsEarned
  BY DEF SharedIInv, EarnedInv
<1> QED
  BY <1>1, SharedRunInvariant, PTL

\* For any number of runs, slots and failures: what was submitted on top of a
\* module was written by a worker that had read of it, under a lease that counts it
\* (document_apply, contribution_submit, knowledge_read).
THEOREM ImportsWereRead == SharedSpec => []SubmissionBuildsOnRead
<1>1. SharedIInv => SubmissionBuildsOnRead
  BY DEF SharedIInv, ImportInv
<1> QED
  BY <1>1, SharedRunInvariant, PTL

\* The types of a run's state.
LEMMA SharedTypes ==
  ASSUME SharedIInv
  PROVE  SharedTypeOK
<1>1. Typed /\ Bounded /\ InUse <= Slots
  BY DEF SharedIInv
<1>2. Len(deltas) \in Nat
  BY <1>1 DEF Typed
<1>3. \A r \in 1..SharedMaxRuns : \A i \in DOMAIN log[r] : log[r][i].epoch \in 0..Len(deltas)
  BY <1>1, <1>2, ElementsAre DEF Bounded
<1>4. work \in [SharedWorkers -> [at : {"idle", "slot", "running", "releasing", "returned", "failed"},
                           round : 0..1, epoch : 0..Len(deltas),
                           ends : {"-", "returned", "failed"}]]
  <2>1. \A w \in SharedWorkers : work[w] \in Execution /\ work[w].epoch <= Len(deltas)
    BY <1>1 DEF Typed, Bounded
  <2>2. \A w \in SharedWorkers : work[w] \in [at : {"idle", "slot", "running", "releasing", "returned", "failed"},
                           round : 0..1, epoch : 0..Len(deltas), ends : {"-", "returned", "failed"}]
    BY <1>2, <2>1 DEF Execution, Ats
  <2> QED
    BY <1>1, <2>2 DEF Typed
<1>5. document \in [SharedWorkers -> [text : {"sorry", "good", "bad"}, module : 0..Len(deltas)]]
  <2>1. \A w \in SharedWorkers : /\ document[w] \in [text : {"sorry", "good", "bad"}, module : Nat]
                                 /\ document[w].module <= Len(deltas)
    BY <1>1 DEF Typed, Bounded
  <2>2. \A w \in SharedWorkers : document[w] \in [text : {"sorry", "good", "bad"}, module : 0..Len(deltas)]
    BY <1>2, <2>1
  <2> QED
    BY <1>1, <2>2 DEF Typed
<1> QED
  BY <1>1, <1>2, <1>3, <1>4, <1>5 DEF SharedTypeOK, Typed, Bounded, Phases, Categories

\* One verdict, no execution under way, no lease after a success.
LEMMA SettledRuns ==
  ASSUME SharedIInv
  PROVE  OneTerminalEvent /\ WorkersAreSettled /\ SuccessLeavesNoLease
<1>1. Typed /\ WorkerInv /\ VerdictInv /\ CountInv
  BY DEF SharedIInv
<1>2. OneTerminalEvent
  <2> SUFFICES ASSUME NEW r \in 1..SharedMaxRuns
               PROVE  Cardinality(Terminal(r)) <= 1
    BY DEF OneTerminalEvent, Terminal
  <2>1. \A i, j \in Terminal(r) : i = j
    BY <1>1 DEF VerdictInv
  <2>2. Terminal(r) = {} \/ \E i : Terminal(r) = {i}
    BY <2>1
  <2> QED
    BY <2>2, FS_EmptySet, FS_Singleton
<1>3. WorkersAreSettled
  <2> SUFFICES ASSUME sharedRun > 0, Completed \/ Aborted, NEW w \in SharedWorkers
               PROVE  /\ work[w].at \notin {"slot", "running", "releasing"}
                      /\ cursor[w] # "live"
                      /\ Cardinality(StartsOf(w)) = Cardinality(StopsOf(w))
    BY DEF WorkersAreSettled, Completed, Aborted, StartsOf, StopsOf, L
  <2>1. Terminal(sharedRun) # {}
    BY DEF Completed, Aborted, Has, Terminal, L
  <2>2. sharedPhase \in {"closing", "artifacts", "exited"}
    BY <1>1, <2>1, RunAssumption DEF VerdictInv, Typed, Phases, Hosted
  <2>3. work[w].at \notin {"slot", "running", "releasing"} /\ cursor[w] # "live"
    BY <1>1, <2>2 DEF WorkerInv
  <2>4. Cardinality(StartsOf(w)) = Cardinality(StopsOf(w)) + 0
    BY <1>1, <2>3 DEF CountInv
  <2>5. Cardinality(StopsOf(w)) \in Nat
    <3>1. L \in Seq(EventRecord)
      BY <1>1, LogIs DEF Typed
    <3>2. Cardinality(StopsIn(L, w)) \in Nat
      BY <3>1, CountsAreFinite
    <3> QED
      BY <3>2 DEF StopsOf, StopsIn
  <2> QED
    BY <2>3, <2>4, <2>5
<1>4. SuccessLeavesNoLease
  BY <1>1 DEF SuccessLeavesNoLease, WorkerInv, Returned
<1> QED
  BY <1>2, <1>3, <1>4

\* The exit code and the artifacts tell what the log does.
LEMMA TruthfulRuns ==
  ASSUME SharedIInv
  PROVE  ExitTellsTheTruth /\ EvidenceAgrees
<1>1. VerdictInv
  BY DEF SharedIInv
<1>2. AllRegistered => InLog(Report)
  BY DEF AllRegistered, Names, InLog, Report, L
<1>3. ExitTellsTheTruth
  BY <1>1, <1>2 DEF ExitTellsTheTruth, VerdictInv, Completed, L
<1>4. EvidenceAgrees
  BY <1>1 DEF EvidenceAgrees, Sealing, VerdictInv, L
<1> QED
  BY <1>3, <1>4

\* For any number of runs, slots and failures, whichever step fails: what a run
\* leaves behind tells how it went (_run_shared_lean, _finish).
THEOREM RunsAreSettled == SharedSpec => []RunIsSettled
<1>1. SharedIInv => RunIsSettled
  BY SharedTypes, SettledRuns, TruthfulRuns DEF RunIsSettled
<1> QED
  BY <1>1, SharedRunInvariant, PTL
=============================================================================
