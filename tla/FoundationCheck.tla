-------------------------- MODULE FoundationCheck --------------------------
(***************************************************************************)
(* The evidence of an evaluated run and its three writers and readers:     *)
(* the security gate, which probes the sandbox before a run; `aizim run`,  *)
(* which records the run and registers its artifacts; and the acceptance   *)
(* checker, which reads the event log, the projections and the artifacts   *)
(* and accepts a run or not.  They are processes that own the state one    *)
(* after the other; a controller may own it too, publish what a run left   *)
(* in the queue and answer the checker's three queries meanwhile.          *)
(*                                                                         *)
(* Sources: security_gate.py, gateway/authority_probe.py,                  *)
(* agents/{probe_execution,sandbox}.py, foundation_*.py,                   *)
(* modes/formal_trace.py.  How a run comes to its events is SharedRun.     *)
(***************************************************************************)
EXTENDS Naturals, Sequences, FiniteSets, SequencesExt

CONSTANTS
  DeniedOps, AllowedOps,  \* the operations a probe attempts
  Policies,               \* hashes of the compiled sandbox policy
  Backends,               \* "codex", pinned as the manifest must be, "unpinned", "fake"
  Asks,                   \* the runs a checker is asked for, 0 for latest-real
  MaxGates, MaxRuns,      \* bounds: gates and runs of the project
  MaxFaults               \* bound: failures, deaths and altered files

\* The last event of a gate that passes; it is not one of the operations, whose
\* names are not kinds of trace records either.
Completion == "gate_b_complete"

ASSUME FoundationAssumption ==
  /\ IsFiniteSet(DeniedOps) /\ IsFiniteSet(AllowedOps)
  /\ DeniedOps # {} /\ AllowedOps # {} /\ DeniedOps \cap AllowedOps = {}
  /\ {Completion, "terminal"} \cap (DeniedOps \cup AllowedOps) = {}
  /\ Policies # {} /\ Backends \subseteq {"codex", "unpinned", "fake"}
  /\ Asks \subseteq 0..MaxRuns
  /\ MaxGates \in Nat /\ MaxRuns \in Nat \ {0} /\ MaxFaults \in Nat

VARIABLES
  log,       \* the event log, of all runs
  owner,     \* the process that holds the state lock
  gate,      \* the security gate in progress
  gates,     \* what became of every gate: "open", "passed" or "failed"
  run,       \* the run in progress
  left,      \* the contributions left in the publication queue: run and epoch
  altered,   \* the registered artifacts whose file was changed since
  trace,     \* per run: the records written to formal-trace.jsonl
  check,     \* the checker
  faults

foundationVars == <<log, owner, gate, gates, run, left, altered, trace, check, faults>>

FoundationRuns == 1..MaxRuns
GateRun(g) == <<"gate", g>>      \* the run id of a gate
RealRun(r) == <<"run", r>>

FoundationEvent(id, type, ref, n, policy) ==
  [run |-> id, type |-> type, ref |-> ref, n |-> n, policy |-> policy]
Plain(id, type, ref) == FoundationEvent(id, type, ref, 0, "-")

\* The sequence numbers of the events of one type of one run, up to n.
Of(n, id, type) == {i \in 1..n : log[i].run = id /\ log[i].type = type}
Maximum(S) == CHOOSE i \in S : \A j \in S : j <= i
Minimum(S) == CHOOSE i \in S : \A j \in S : i <= j

\* Sequence numbers in their order.
Sorted(S) == FlattenSeq([i \in DOMAIN log |-> IF i \in S THEN <<i>> ELSE <<>>])

\* current_epoch: the number of published deltas.
Epoch == Cardinality({i \in DOMAIN log : log[i].type = "KnowledgeDeltaPublished"})

ProbeTypes == {"SandboxProbeDenied", "SandboxProbeFailed", "SandboxProbePassed"}

\* logical_digest leaves out what is only audited.
FoundationAuditTypes == ProbeTypes \cup {"CapabilityDenied"}
FoundationLogicalDigest == {i \in DOMAIN log : log[i].type \notin FoundationAuditTypes}

\* ProbeOperation: the operations to be denied, then the allowed ones.
Operations == SetToSeq(DeniedOps) \o SetToSeq(AllowedOps)

Fault == faults < MaxFaults /\ faults' = faults + 1

NoGate == [at |-> "idle", id |-> 0, policy |-> "-", digest |-> {}, done |-> 0]
FoundationNoRun == [at |-> "idle", id |-> 0, backend |-> "-", step |-> 0]
NoCheck == [at |-> "idle", asked |-> 0, events |-> 0, artifacts |-> 0,
            run |-> 0, verdict |-> "none"]

FoundationInit ==
  /\ log = <<>> /\ owner = "none"
  /\ gate = NoGate /\ gates = <<>>
  /\ run = FoundationNoRun /\ left = {}
  /\ altered = {} /\ trace = [r \in FoundationRuns |-> <<>>]
  /\ check = NoCheck /\ faults = 0

-----------------------------------------------------------------------------
(* run_security_gate.                                                      *)

Reasons == <<"MISSING_TOKEN", "UNKNOWN_TOKEN", "ROLE_MISMATCH", "UNADVERTISED_OPERATION">>
GateVars == <<run, left, altered, trace, check>>

\* run_authority_probe mints a capability and has four calls denied.
GateStarts ==
  /\ gate.at = "idle" /\ Len(gates) < MaxGates
  /\ owner = "none" /\ owner' = "gate"
  /\ gates' = Append(gates, "open")
  /\ LET id == GateRun(Len(gates) + 1)
     IN  /\ log' = log \o <<Plain(id, "CapabilityMinted", "-")>>
                       \o [i \in DOMAIN Reasons |-> Plain(id, "CapabilityDenied", Reasons[i])]
         /\ gate' = [NoGate EXCEPT !.at = "authority", !.id = Len(gates) + 1]
  /\ UNCHANGED <<GateVars, faults>>

\* _run_live_gate compiles the policy after it has taken the digest.
GateCompiles(p) ==
  /\ gate.at = "authority"
  /\ gate' = [gate EXCEPT !.at = "probing", !.policy = p, !.digest = FoundationLogicalDigest]
  /\ UNCHANGED <<log, owner, gates, GateVars, faults>>

\* Every failure closes the state; the gate has not passed.
GateFails ==
  /\ gate' = NoGate
  /\ gates' = [gates EXCEPT ![gate.id] = "failed"]
  /\ owner' = IF owner = "gate" THEN "none" ELSE owner

\* The sandbox cannot be compiled, or the probe times out or fails to answer
\* with an attempt for every operation: nothing is recorded of it.
ProbeRaises ==
  /\ gate.at \in {"authority", "probing"} /\ gate.done = 0
  /\ Fault /\ GateFails
  /\ UNCHANGED <<log, GateVars>>

\* append_probe_event, in the order of the attempts; the sandbox does what it
\* should, or denies a control or lets something through.
Expected(op) == IF op \in DeniedOps THEN "SandboxProbeDenied" ELSE "SandboxProbePassed"
Attempt(type) ==
  /\ gate.at = "probing" /\ gate.done < Len(Operations)
  /\ LET op == Operations[gate.done + 1]
     IN  /\ log' = Append(log, FoundationEvent(GateRun(gate.id), type, op, 0, gate.policy))
         /\ IF type = Expected(op) THEN UNCHANGED faults ELSE Fault
  /\ gate' = [gate EXCEPT !.done = @ + 1]
  /\ UNCHANGED <<owner, gates, GateVars>>

\* ProbeReport.passed: every verdict is the expected one.
Enforced(g) ==
  \A i \in DOMAIN log :
    log[i].run = GateRun(g) /\ log[i].type \in ProbeTypes => log[i].type = Expected(log[i].ref)

\* The live service is closed when its evidence closed.
GateLiveEnds ==
  /\ gate.at = "probing" /\ gate.done = Len(Operations)
  /\ IF Enforced(gate.id) /\ FoundationLogicalDigest = gate.digest
     THEN /\ owner' = "none" /\ gate' = [gate EXCEPT !.at = "probed"]
          /\ UNCHANGED gates
     ELSE GateFails
  /\ UNCHANGED <<log, GateVars, faults>>

Passes ==
  /\ log' = Append(log, FoundationEvent(GateRun(gate.id), "SandboxProbePassed", Completion, 0,
                              gate.policy))
  /\ gates' = [gates EXCEPT ![gate.id] = "passed"]
  /\ gate' = NoGate
  /\ UNCHANGED owner

\* The service is opened again: another process may own the state, or may
\* have owned it meanwhile and changed it.
GateReplays ==
  /\ gate.at = "probed"
  /\ IF owner = "none" /\ FoundationLogicalDigest = gate.digest
     THEN Passes ELSE GateFails /\ UNCHANGED log
  /\ UNCHANGED <<GateVars, faults>>

GateDies ==
  /\ gate.at # "idle"
  /\ Fault /\ GateFails
  /\ UNCHANGED <<log, GateVars>>

-----------------------------------------------------------------------------
(* `aizim run` by the events it records, and the controller.               *)

Artifacts == <<"run-manifest.json", "alignment-review.json", "formal-trace.jsonl",
               "formal-trace.sha256", "acceptance-report.json">>
FoundationNames == ToSet(Artifacts)
RunVars == <<gate, gates, altered, check>>

\* The events of a completed run between RunCreated and its review; an
\* event that carries an epoch has the number of deltas it adds.
Worker(w) == <<<<"ScheduleProposed", w, 0>>, <<"LeaseGranted", w, 0>>, <<"WorkerStarted", w, 0>>>>
Done(w) == <<<<"AgentRunCompleted", w, 0>>, <<"WorkerStopped", w, 0>>, <<"LeaseReleased", w, 0>>>>
Action(kind) == <<"FormalActionRecorded", kind, 0>>
Proves(w) == <<Action("goal"), Action("trial"), <<"DocumentEdited", w, 0>>,
               Action("diagnostics"), <<"ContributionSubmitted", w, 0>>>>
Published(w, n) == <<<<"PromotionVerificationRecorded", w, 0>>, <<"DeclarationPublished", w, n>>,
                     <<"KnowledgeDeltaPublished", w, n>>>>
Steps == <<
  <<<<"LeanRuntimeStarted", "-", 0>>>> \o Worker("prover-a") \o Worker("prover-b"),
  Proves("prover-a"),
  Published("prover-a", 1),
  <<<<"KnowledgeDeltaAcknowledged", "prover-b", 1>>>> \o Done("prover-a") \o Done("prover-b"),
  Worker("prover-b") \o Proves("prover-b"),
  Published("prover-b", 2),
  Done("prover-b") \o <<<<"LeanRuntimeStopped", "-", 0>>>> >>
Submits == {2, 5}
\* The review, the verdict, the artifacts up to the seal, the trace, the report.
Review == Len(Steps) + 1
Sealing == Len(Steps) + 2
Tracing == Len(Steps) + 3
Reporting == Len(Steps) + 4

\* The start epoch of the manifest, the n of RunCreated.
StartOf(r) == log[Minimum(Of(Len(log), RealRun(r), "RunCreated"))].n

Recorded(events, p) ==
  LET start == StartOf(run.id)
      policy == IF run.backend = "fake" THEN "-" ELSE p
  IN  [i \in DOMAIN events |->
         LET e == events[i]
         IN  FoundationEvent(RealRun(run.id), e[1], e[2], IF e[3] = 0 THEN 0 ELSE start + e[3],
                   IF e[1] = "AgentRunCompleted" THEN policy ELSE "-")]
Records(events, p) == log' = log \o Recorded(events, p)

\* A run that finds a contribution left in the queue publishes that one too
\* and is aborted: SharedRun has that case, and no such run is created here.
CreateRun(backend) ==
  /\ run.at = "idle" /\ run.id < MaxRuns /\ left = {}
  /\ owner = "none" /\ owner' = "run"
  /\ run' = [at |-> "running", id |-> run.id + 1, backend |-> backend, step |-> 1]
  /\ LET initialized == \E i \in DOMAIN log : log[i].type = "ProjectInitialized"
         first == IF initialized THEN <<>> ELSE <<Plain(<<"project", 0>>, "ProjectInitialized", "-")>>
     IN  log' = log \o first \o <<FoundationEvent(RealRun(run.id + 1), "RunCreated", backend, Epoch, "-")>>
  /\ UNCHANGED <<RunVars, left, trace, faults>>

\* An agent runs under the policy its sandbox is compiled to at the time.
RunStep(p) ==
  /\ run.at = "running" /\ run.step <= Len(Steps)
  /\ Records(Steps[run.step], p)
  /\ run' = [run EXCEPT !.step = @ + 1]
  /\ UNCHANGED <<RunVars, owner, left, trace, faults>>

\* A second contribution of prover-b, not promoted before the host closes.
SubmitsTwice(p) ==
  /\ run.at = "running" /\ run.step = 5 /\ run.backend # "fake"
  /\ Records(Steps[5] \o <<<<"ContributionSubmitted", "other", 0>>>>, p)
  /\ left' = left \cup {<<run.id, Epoch>>}
  /\ run' = [run EXCEPT !.step = @ + 1]
  /\ UNCHANGED <<RunVars, owner, trace, faults>>

\* audit_alignment; a run that is not aligned is aborted and registered.
Audit(verdict, p) ==
  /\ run.at = "running" /\ run.step = Review
  /\ run.backend = "fake" => verdict = "aligned"
  /\ LET auditor == IF run.backend # "fake"
                    THEN <<<<"AgentRunCompleted", "alignment-auditor", 0>>>> ELSE <<>>
         end == IF verdict = "aligned" THEN "RunCompleted" ELSE "RunAborted"
     IN  Records(auditor \o <<<<"AlignmentReviewed", verdict, 0>>, <<end, "-", 0>>>>, p)
  /\ run' = [run EXCEPT !.step = Sealing]
  /\ UNCHANGED <<RunVars, owner, left, trace, faults>>

\* An auditor that fails leaves no review; the run is aborted all the same.
AuditFails ==
  /\ run.at = "running" /\ run.step = Review /\ run.backend # "fake"
  /\ Fault
  /\ Records(<<<<"RunAborted", "-", 0>>>>, "-")
  /\ run' = [run EXCEPT !.step = Sealing]
  /\ UNCHANGED <<RunVars, owner, left, trace>>

Registers(names) == [i \in DOMAIN names |-> <<"ArtifactRegistered", names[i], 0>>]

-----------------------------------------------------------------------------
(* build_formal_trace_sources.                                             *)

\* _EVENT_KINDS and _event_kinds.
FoundationKinds(e) ==
  CASE e.type = "RunCreated" -> <<"run">>
    [] e.type = "ScheduleProposed" -> <<"directive">>
    [] e.type \in {"WorkerStarted", "WorkerStopped", "WorkerCrashed"} -> <<"worker">>
    [] e.type \in {"LeaseGranted", "LeaseReleased"} -> <<"lease">>
    [] e.type = "DocumentEdited" -> <<"accepted_document_action">>
    [] e.type = "ContributionSubmitted" -> <<"contribution">>
    [] e.type = "PromotionVerificationRecorded" ->
         <<"diagnostics", "build", "source_scan", "axiom_verification">>
    [] e.type = "DeclarationPublished" -> <<"publication">>
    [] e.type = "KnowledgeDeltaPublished" -> <<"epoch", "delta">>
    [] e.type = "KnowledgeDeltaAcknowledged" -> <<"delta_consumption">>
    [] e.type = "AlignmentReviewed" -> <<"alignment_review">>
    [] e.type \in {"RunCompleted", "RunAborted"} -> <<"terminal">>
    [] e.type = "FormalTraceSealed" -> <<"trace_seal">>
    [] e.type = "FormalActionRecorded" -> <<e.ref>>
    [] OTHER -> <<"event">>

\* A record names its source and its kind.  Its ordinal is its place and its
\* previous hash, of a hash without collisions, the records before it.
TraceOf(n, id) ==
  LET sources == Sorted({i \in 1..n : log[i].run = id})
      records == [j \in DOMAIN sources |->
                    LET kinds == FoundationKinds(log[sources[j]])
                    IN  [k \in DOMAIN kinds |-> [sequence |-> sources[j], kind |-> kinds[k]]]]
  IN  FlattenSeq(records)

\* Manifest and review are registered, then the trace is sealed.
Seal ==
  /\ run.at = "running" /\ run.step = Sealing
  /\ Records(Registers(SubSeq(Artifacts, 1, 2)) \o <<<<"FormalTraceSealed", "-", 0>>>>, "-")
  /\ run' = [run EXCEPT !.step = Tracing]
  /\ UNCHANGED <<RunVars, owner, left, trace, faults>>

WriteTrace ==
  /\ run.at = "running" /\ run.step = Tracing
  /\ trace' = [trace EXCEPT ![run.id] = TraceOf(Len(log), RealRun(run.id))]
  /\ Records(Registers(SubSeq(Artifacts, 3, 4)), "-")
  /\ run' = [run EXCEPT !.step = Reporting]
  /\ UNCHANGED <<RunVars, owner, left, faults>>

Ended == [run EXCEPT !.at = "idle"]

WriteReport ==
  /\ run.at = "running" /\ run.step = Reporting
  /\ Records(Registers(SubSeq(Artifacts, 5, 5)), "-")
  /\ run' = Ended /\ owner' = "none"
  /\ UNCHANGED <<RunVars, left, trace, faults>>

\* What was submitted and not published stays in the queue.
LeftBehind == IF run.step - 1 \in Submits THEN left \cup {<<run.id, Epoch>>} ELSE left

\* What the closing host still records is of no use to an aborted run.
RunFails ==
  /\ run.at = "running" /\ run.step <= Len(Steps)
  /\ Fault
  /\ Records(<<<<"RunAborted", "-", 0>>>>, "-")
  /\ run' = Ended /\ owner' = "none" /\ left' = LeftBehind
  /\ UNCHANGED <<RunVars, trace>>

RunDies ==
  /\ run.at = "running"
  /\ Fault
  /\ run' = Ended /\ owner' = "none" /\ left' = LeftBehind
  /\ UNCHANGED <<RunVars, log, trace>>

ControllerStarts ==
  /\ owner = "none" /\ owner' = "controller"
  /\ UNCHANGED <<log, RunVars, run, left, trace, faults>>

ControllerStops ==
  /\ owner = "controller" /\ owner' = "none"
  /\ check.at # "reading"
  /\ UNCHANGED <<log, RunVars, run, left, trace, faults>>

\* Its promotion consumer claims what a run left behind: it is rebased when
\* the epoch has moved on, and published under its own run.
RebaseLeft(r, epoch) ==
  /\ owner = "controller" /\ <<r, epoch>> \in left /\ epoch # Epoch
  /\ left' = (left \ {<<r, epoch>>}) \cup {<<r, Epoch>>}
  /\ log' = log \o << Plain(RealRun(r), "ContributionSubmitted", "other"),
                      Plain(RealRun(r), "ContributionRebased", "other") >>
  /\ UNCHANGED <<RunVars, owner, run, trace, faults>>

PublishLeft(r) ==
  /\ owner = "controller" /\ <<r, Epoch>> \in left
  /\ left' = left \ {<<r, Epoch>>}
  /\ log' = log \o << Plain(RealRun(r), "PromotionVerificationRecorded", "other"),
                      FoundationEvent(RealRun(r), "DeclarationPublished", "other", Epoch + 1, "-"),
                      FoundationEvent(RealRun(r), "KnowledgeDeltaPublished", "other", Epoch + 1, "-") >>
  /\ UNCHANGED <<RunVars, owner, run, trace, faults>>

\* A registered file is changed behind Aizim's back.
AlterFile(r, name) ==
  /\ Fault
  /\ \E i \in DOMAIN log : log[i] = Plain(RealRun(r), "ArtifactRegistered", name)
  /\ altered' = altered \cup {<<r, name>>}
  /\ UNCHANGED <<log, owner, gate, gates, run, left, trace, check>>

-----------------------------------------------------------------------------
(* check_foundation: the evidence of run r in the first n events.          *)

\* gate_policy: the probes before the run that were recorded last.
GatesOf(n) == {g \in DOMAIN gates : \E i \in 1..n : log[i].run = GateRun(g)
                                                    /\ log[i].type \in ProbeTypes}
ProbesOf(n, g) == {i \in 1..n : log[i].run = GateRun(g) /\ log[i].type \in ProbeTypes}
LatestGate(n) == CHOOSE g \in GatesOf(n) :
                   \A h \in GatesOf(n) : Maximum(ProbesOf(n, h)) <= Maximum(ProbesOf(n, g))

\* Mutant: any gate that ever completed is as good.
AnyGatePolicy(n, before) ==
  {log[i].policy : i \in {i \in 1..n : log[i].ref = Completion}}

GatePolicy(n, before) ==
  IF GatesOf(before) = {} THEN {}
  ELSE LET g == LatestGate(before)
           probes == ProbesOf(before, g)
           attempts == {i \in probes : log[i].ref \in DeniedOps \cup AllowedOps}
           refs(type) == {log[i].ref : i \in {i \in attempts : log[i].type = type}}
           hashes == {log[i].policy : i \in probes}
       IN  IF /\ Cardinality(attempts) = Cardinality(DeniedOps \cup AllowedOps)
              /\ Cardinality(probes) = Cardinality(attempts) + 1
              /\ log[Maximum(probes)].ref = Completion
              /\ log[Maximum(probes)].type = "SandboxProbePassed"
              /\ refs("SandboxProbeDenied") = DeniedOps
              /\ refs("SandboxProbePassed") = AllowedOps
              /\ Cardinality(hashes) = 1
           THEN hashes ELSE {}

\* The refs of some events as often as each occurs.
Times(S, ref) == Cardinality({i \in S : log[i].ref = ref})
Executions(S) == /\ Cardinality(S) = 3
                 /\ Times(S, "prover-a") = 1 /\ Times(S, "prover-b") = 2

CompletionPolicy(n, r, hashes) ==
  LET done == Of(n, RealRun(r), "AgentRunCompleted")
  IN  /\ Cardinality(done) = 4
      /\ Times(done, "alignment-auditor") = 1
      /\ Times(done, "prover-a") = 1 /\ Times(done, "prover-b") = 2
      /\ \A i \in done : log[i].policy \in hashes

WorkersHold(n, r) ==
  /\ Cardinality(Of(n, RealRun(r), "LeanRuntimeStarted")) = 1
  /\ Executions(Of(n, RealRun(r), "WorkerStarted"))

ShutdownHolds(n, r) ==
  /\ Executions(Of(n, RealRun(r), "WorkerStopped"))
  /\ Cardinality(Of(n, RealRun(r), "LeaseReleased")) = 3
  /\ Cardinality(Of(n, RealRun(r), "LeanRuntimeStopped")) = 1

PublicationsHold(n, r) ==
  LET published == Of(n, RealRun(r), "DeclarationPublished")
      verified == Of(n, RealRun(r), "PromotionVerificationRecorded")
  IN  /\ Cardinality(published) = 2 /\ Cardinality(verified) = 2
      /\ \A p \in published :
           Cardinality({v \in verified : v < p /\ log[v].ref = log[p].ref}) = 1

\* durable_start: the chain of deltas before the run leads to its manifest.
DurableStart(before, r) ==
  LET history == Sorted({i \in 1..before : log[i].type \in {"ProjectInitialized",
                                                            "KnowledgeDeltaPublished"}})
  IN  /\ history # <<>> /\ log[history[1]].type = "ProjectInitialized"
      /\ \A k \in 2..Len(history) : log[history[k]].type = "KnowledgeDeltaPublished"
                                    /\ log[history[k]].n = k - 1
      /\ StartOf(r) = Len(history) - 1

\* _epochs and _publication_order.
EpochsHold(n, r) ==
  LET deltas == Sorted(Of(n, RealRun(r), "KnowledgeDeltaPublished"))
      published == Sorted(Of(n, RealRun(r), "DeclarationPublished"))
  IN  /\ Len(deltas) = 2 /\ Len(published) = 2
      /\ \A k \in 1..2 : /\ published[k] < deltas[k]
                         /\ log[published[k]].ref = log[deltas[k]].ref
                         /\ log[published[k]].n = log[deltas[k]].n
                         /\ log[deltas[k]].n = StartOf(r) + k

Acknowledgement(n, r) ==
  LET deltas == Sorted(Of(n, RealRun(r), "KnowledgeDeltaPublished"))
      published == Sorted(Of(n, RealRun(r), "DeclarationPublished"))
  IN  /\ Len(deltas) = 2 /\ Len(published) = 2
      /\ \E i \in Of(n, RealRun(r), "KnowledgeDeltaAcknowledged") :
           /\ deltas[1] < i /\ i < published[2]
           /\ log[i].ref = "prover-b" /\ log[i].n = log[deltas[1]].n

FailureTypes == {"PromotionFailed", "RunAborted", "WorkerCrashed", "WorkerTimedOut",
                 "LeanRuntimeCrashed", "InterventionRecorded", "EvaluationTransitionRejected"}

FailureFree(n, r) ==
  LET completed == Of(n, RealRun(r), "RunCompleted")
  IN  /\ \A type \in FailureTypes : Of(n, RealRun(r), type) = {}
      /\ Cardinality(completed) = 1
      /\ ShutdownHolds(n, r)
      /\ \A i \in Of(n, RealRun(r), "DeclarationPublished") : \A c \in completed : i < c

AlignmentHolds(n, r) ==
  LET reviews == Of(n, RealRun(r), "AlignmentReviewed")
  IN  Cardinality(reviews) = 1 /\ \A i \in reviews : log[i].ref = "aligned"

\* trace_complete: one seal, exactly three registrations after it, and the
\* trace on disk is the one the log gives.
TraceKinds == {"accepted_document_action", "alignment_review", "axiom_verification", "build",
               "contribution", "delta", "delta_consumption", "diagnostics", "directive", "epoch",
               "goal", "lease", "publication", "run", "source_scan", "terminal", "trace_seal",
               "trial", "worker"}

TraceComplete(n, r) ==
  LET seals == Of(n, RealRun(r), "FormalTraceSealed")
      tail == Sorted({i \in 1..n : log[i].run = RealRun(r) /\ i > Maximum(seals)})
  IN  /\ Cardinality(seals) = 1
      /\ [k \in DOMAIN tail |-> <<log[tail[k]].type, log[tail[k]].ref>>]
           = [k \in 1..3 |-> <<"ArtifactRegistered", Artifacts[k + 2]>>]
      /\ trace[r] = TraceOf(Maximum(seals), RealRun(r))
      /\ TraceKinds \subseteq {trace[r][k].kind : k \in DOMAIN trace[r]}

\* _stable_manifest, _pins, _codex and _report.
ManifestHolds(n, r) == \A i \in Of(n, RealRun(r), "RunCreated") : log[i].ref = "codex"

\* _artifacts: the five names, from the projection after m events.
ArtifactSet(m, r) ==
  {log[i].ref : i \in Of(m, RealRun(r), "ArtifactRegistered")} = FoundationNames

\* Mutant: the registered digest is not compared with the file.
FilesAreThere(r) == TRUE

\* read_registered_artifact.
FilesMatch(r) == \A name \in FoundationNames : <<r, name>> \notin altered

\* load_evidence and evaluate, the selection made.
Accepts(n, m, r) ==
  LET before == Minimum(Of(n, RealRun(r), "RunCreated")) - 1
      hashes == GatePolicy(n, before)
  IN  /\ ArtifactSet(m, r) /\ FilesMatch(r)
      /\ ManifestHolds(n, r) /\ hashes # {}
      /\ CompletionPolicy(n, r, hashes)
      /\ WorkersHold(n, r) /\ PublicationsHold(n, r)
      /\ DurableStart(before, r) /\ EpochsHold(n, r) /\ Acknowledgement(n, r)
      /\ FailureFree(n, r) /\ AlignmentHolds(n, r)
      /\ TraceComplete(n, r)

-----------------------------------------------------------------------------
(* check_foundation.main.                                                  *)

CheckVars == <<log, gate, gates, run, left, altered, trace, faults>>

\* Without a live service the checker opens the
\* state itself, which fails at once while another process owns it.
CheckStarts(asked) ==
  /\ check.at = "idle"
  /\ owner \in {"none", "controller"}
  /\ owner' = IF owner = "none" THEN "checker" ELSE owner
  /\ check' = [NoCheck EXCEPT !.at = "reading", !.asked = asked]
  /\ UNCHANGED CheckVars

\* The queries are under way at once and answered in any order; that the
\* third, replay_verify, matches is a property of EventStore.
ReadEvents ==
  /\ check.at = "reading" /\ check.events = 0 /\ log # <<>>
  /\ check' = [check EXCEPT !.events = Len(log)]
  /\ UNCHANGED <<CheckVars, owner>>
ReadArtifacts ==
  /\ check.at = "reading" /\ check.artifacts = 0 /\ log # <<>>
  /\ check' = [check EXCEPT !.artifacts = Len(log)]
  /\ UNCHANGED <<CheckVars, owner>>
\* _select.
FoundationCandidates(n) == {r \in FoundationRuns : \E i \in Of(n, RealRun(r), "RunCreated") : log[i].ref # "fake"}
Selection(n, asked) ==
  IF asked = 0 THEN {r \in FoundationCandidates(n) : \A q \in FoundationCandidates(n) : q <= r}
  ELSE FoundationCandidates(n) \cap {asked}

\* PASS or FAIL is printed; nothing is kept of a failed check.
CheckEnds ==
  /\ check.at = "reading"
  /\ log = <<>> \/ (check.events > 0 /\ check.artifacts > 0)
  /\ owner' = IF owner = "checker" THEN "none" ELSE owner
  /\ LET passing == {r \in Selection(check.events, check.asked) :
                        Accepts(check.events, check.artifacts, r)}
     IN  check' = IF passing = {} THEN NoCheck
                  ELSE [NoCheck EXCEPT !.verdict = "pass", !.run = CHOOSE r \in passing : TRUE]
  /\ UNCHANGED CheckVars

-----------------------------------------------------------------------------
GateNext ==
  \/ GateStarts \/ (\E p \in Policies : GateCompiles(p)) \/ ProbeRaises
  \/ (\E type \in {"SandboxProbeDenied", "SandboxProbePassed"} : Attempt(type))
  \/ GateLiveEnds \/ GateReplays \/ GateDies

RunNext ==
  \/ (\E backend \in Backends : CreateRun(backend))
  \/ (\E p \in Policies : RunStep(p) \/ SubmitsTwice(p)
                          \/ \E v \in {"aligned", "misaligned"} : Audit(v, p))
  \/ AuditFails \/ Seal \/ WriteTrace \/ WriteReport \/ RunFails \/ RunDies

ControllerNext ==
  \/ ControllerStarts \/ ControllerStops \/ (\E r \in FoundationRuns : PublishLeft(r))
  \/ \E r \in FoundationRuns, epoch \in 0..2 * MaxRuns : RebaseLeft(r, epoch)

CheckNext ==
  \/ (\E asked \in Asks : CheckStarts(asked))
  \/ ReadEvents \/ ReadArtifacts \/ CheckEnds

FoundationNext ==
  \/ GateNext \/ RunNext \/ ControllerNext \/ CheckNext
  \/ \E r \in FoundationRuns, name \in FoundationNames : AlterFile(r, name)

FoundationSpec == FoundationInit /\ [][FoundationNext]_foundationVars

-----------------------------------------------------------------------------
(* Properties.                                                             *)

\* Every variable has its type; the events of a run carry its epochs and a
\* process other than the gate never holds the state while it probes.
FoundationTypeOK ==
  /\ owner \in {"none", "gate", "run", "controller", "checker"}
  /\ gate.at \in {"authority", "probing"} <=> owner = "gate"
  /\ run.at = "running" <=> owner = "run"
  /\ gates \in Seq({"open", "passed", "failed"})
  /\ \A l \in left : l[1] \in 1..run.id /\ l[2] <= Epoch
  /\ altered \subseteq FoundationRuns \X FoundationNames
  /\ check.verdict \in {"none", "pass"} /\ check.run \in 0..MaxRuns
  /\ {log[i].n : i \in DOMAIN log} \subseteq 0..Epoch + 1

CreatedAt(r) == Minimum(Of(Len(log), RealRun(r), "RunCreated"))

\* A run that is accepted was gated: a gate passed before it was created,
\* every agent of the run had exactly the policy that gate probed, and no
\* later probe came between the two.
AcceptedRunWasGated ==
  check.verdict = "pass" =>
    \E g \in DOMAIN gates, c \in DOMAIN log :
      /\ gates[g] = "passed"
      /\ log[c].run = GateRun(g) /\ log[c].ref = Completion
      /\ c < CreatedAt(check.run)
      /\ \A i \in Of(Len(log), RealRun(check.run), "AgentRunCompleted") :
           log[i].policy = log[c].policy
      /\ \A i \in c + 1..CreatedAt(check.run) : log[i].type \notin ProbeTypes

\* A gate that passed had the state to itself: nothing but its own probes
\* was recorded from the first of them to its completion, although the
\* state was closed and opened again in between.
GatePassIsUndisturbed ==
  \A g \in DOMAIN gates : gates[g] = "passed" =>
    \A i \in Minimum(ProbesOf(Len(log), g))..Maximum(ProbesOf(Len(log), g)) :
      log[i].run = GateRun(g)

\* The verdict on a run depends on what was known when it was created and
\* on its own events: it is the one its last event gave, whatever gates,
\* runs and deltas came later.
VerdictIsStable ==
  \A r \in 1..run.id : log[Len(log)].run # RealRun(r) =>
    LET last == Maximum({i \in DOMAIN log : log[i].run = RealRun(r)})
    IN  Accepts(last, last, r) <=> Accepts(Len(log), Len(log), r)

\* PASS is printed only for a run whose five files are the registered ones
\* and whose trace shows its completion and no abort.
PassIsGenuine ==
  [][check.at = "reading" /\ check'.verdict = "pass" =>
       LET r == check'.run
           terminals == {log[trace[r][k].sequence].type :
                           k \in {k \in DOMAIN trace[r] : trace[r][k].kind = "terminal"}}
       IN  terminals = {"RunCompleted"} /\ \A name \in FoundationNames : <<r, name>> \notin altered]_foundationVars

\* The verdict of verify_foundation rests on a gate that had the state to itself and
\* cannot be changed by what is recorded later.
VerdictRestsOnGate ==
  FoundationTypeOK /\ AcceptedRunWasGated /\ GatePassIsUndisturbed /\ VerdictIsStable
=============================================================================
