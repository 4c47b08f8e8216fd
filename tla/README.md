# Verification of Aizim

Aizim runs language-model workers against a Lean project. A controller or a
research loop hands out tasks, workers edit leased documents through a gateway,
and what they submit is verified by Lean and published, one contribution after
the other, as modules that everybody else may import. All durable facts are
events of one SQLite store with projections; one process at a time owns it.

This directory models the parts of that program where order, crashes and
waiting decide correctness. Everything is translated from `src/aizim/`
(paths below are relative to it).

## The system and its parts

| Part | State | Operations | Talks to |
|---|---|---|---|
| Controller supervisor and dispatcher (`orchestration/controller_*.py`, `supervisor_cleanup.py`) | `controller_runtime` and `worker_executions` projections; stop and wake events; the claim in flight | start, recover, claim, plan, dispatch, complete/fail/interrupt, stop | control operations wake it; it opens a worker host |
| Control operations (`state/control_operations.py`) | `controller`, `worker_roster`, `worker_assignments` projections | configure, register, assign | served over the state socket at any await of the owner |
| Worker host and runner (`orchestration/worker_host.py`, `worker.py`) | active workers, consumer task, document leases | open, run, race with the consumer's failure, close | broker, gateway, consumer |
| Publication queue (`state/store_publication*.py`, `publications.py`) | table `publication_queue`, promotion events, `epochs` projection | enqueue, claim, heartbeat, advance, prepare, publish, fail, rebase, recover | one transaction each |
| Promotion service (`knowledge/promotion*.py`, `lean_verifier.py`) | queue entry and epoch in local variables | verify, materialize, activate, publish | queue, Lean runtime |
| Promotion consumer (`orchestration/promotion_consumer.py`) | wake, published and failed events | run, notify_submission, wait_for_epoch, wait_for_failure | gateway, conductor, host |
| Knowledge stream (`orchestration/knowledge_stream.py`, `knowledge/deltas.py`) | a condition; published deltas | blocking read, notify | workers |
| Research engine (`research/engine.py`, `records.py`, `runner.py`) | `research` projection: tasks and attempts; active rounds | define, pause, resume, begin, finish, recover, stop | worker host, promotion events |
| Document broker (`lean/documents.py`, `broker_storage.py`, `state/store_documents.py`) | documents and leases projections, files of the run's project, content-addressed snapshots | create, edit (compare-and-swap), release, recover | workers, promotion |
| Event store (`state/store.py`, `reducers.py`, `projections*.py`) | events and projections | append, replay, verify | everybody |
| State ownership (`runtime/state_process.py`, `state/rpc.py`) | pid record, socket | acquire, reclaim, serve, close | every process |
| Gateway (`gateway/`) | sessions, capability tokens, rate windows, budgets; the sidecar's connection | register, redeem, authorise, call, revoke, close | workers, store |
| Lean runtime (`lean/runtime.py`, `mcp_client.py`) | one MCP client and its server, opened documents, lifecycle lock | start, call, restart, check, prepare, build, close | workers, verifier |
| Run project (`lean/project.py`, `source_layout.py`, `knowledge/lean_verifier.py`) | manifest and generated modules of a run's copy of the project | sync, stage, materialize, activate, restore | broker, promotion |
| Shared run (`orchestration/runner.py`, `conductor.py`, `worker*.py`, `modes/`) | a run's log, two workers, artifacts, exit code | create, work, validate, review, complete, seal | everything above |
| Security gate and acceptance checker (`security_gate.py`, `foundation_*.py`, `gateway/authority_probe.py`) | probe events, evidence of a run | probe, record, select, evaluate | store, artifacts |
| Launchers (`agents/launcher.py`, `*_process*.py`) | a child, its group and its pipes | start, exchange, time out, kill, reap | controllers, workers, probe |
| Research search and reports, configuration, Rust launcher, packaging | – | parsing, rendering, provisioning | – |

What is hard here: control requests arrive at every await; a signal cancels
whatever runs; the process may die between two transactions that belong
together; a promotion claim can expire under a service that is still working;
events are waited for after a look that may already be stale; and a publication
may come after the round that asked for it was given up; two processes reclaim
one record; a close meets calls in flight; a child fills a pipe, ignores a
signal or leaves a descendant. The list with line numbers is `hazards` in
`PROJECT.json`.

What makes each part correct: an assignment is executed at most once and one at
a time; a lease is not left behind for two workers; the queue is served in order
and each contribution published at most once; the epoch every reader compares
against counts exactly the published log; nobody waits for a wake-up that was
lost; a research target is verified only by a publication, its rounds are
bounded through crashes, and a run ends; one process serves the state and the
next start is accepted; the log alone determines the projections; a token is
redeemed once and does not outlive its lease or its broker; a reply reaches the
call it answers; one Lean server at a time, with a history that says so; a run
is completed only with the evidence for it and accepted only behind a gate that
passed; no process group survives its launcher, and output is complete.

## Modules

| Module | Models |
|---|---|
| `TaskLedger` | abstract: assignments are opened, executed and closed at most once, one at a time |
| `ControllerExecution` | the foreground controller, its operator and its crashes; implements `TaskLedger` |
| `ControllerExecutionProofs` | theorems about `ControllerExecution` |
| `KnowledgeLog` | abstract: one log of published rows and the epoch it determines |
| `Promotion` | the publication queue and the services that work on it; implements `KnowledgeLog` |
| `PromotionProofs` | theorems about `Promotion` and `PromotionConsumer` |
| `PromotionConsumer` | composes `Promotion` with the host, the consumer, a conductor that waits and workers that read |
| `ResearchEngine`, `ResearchProofs` | the research loop, its records and its recovery; theorems |
| `DocumentBroker` | leased documents: creation, edits, compensation and recovery |
| `DocumentBrokerProofs` | theorems about `DocumentBroker` |
| `StateOwnership` | pid record, lock and socket; servers, batch programs and control commands that start, stop and are killed |
| `StateRpc` | the RPC server: connections, dispatch, and the close that precedes the store's |
| `EventSchema` | the tables of the reducer: required fields, projections, entities, allowed transitions |
| `EventStore` | append, batches, duplicates, refusals, artifacts, token revocation, reopening and replay (uses `EventSchema`) |
| `GatewaySessions` | registration, redemption, authorisation, limits and the close of the broker |
| `GatewayChannel` | the sidecar's transport: concurrent calls on one connection whose replies carry no number |
| `StateProofs` | theorems about `StateOwnership`, `StateRpc`, `EventStore`, `GatewaySessions` and `GatewayChannel` |
| `LeanRuntime`, `RuntimeProofs` | the shared MCP client, its server, restart, and the jobs that hold the lifecycle lock; theorems |
| `RunProject` | manifest and modules of a run's project under promotion and worker access |
| `SharedRun`, `SharedRunProofs` | `aizim run`: two provers, promotion, validation, completion, artifacts, exit code; theorems |
| `FoundationCheck` | security gate, evidence of a run and acceptance checker |
| `ProcessLaunch` | the four launchers and a child that does as it likes |
| `ToolProofs` | theorems about `ProcessLaunch`, `RunProject`, `PatchApply` and `FoundationCheck` |
| `PatchApply` | `PatchPayload.apply` against a reference definition |
| `MCController`, `MCConsumer`, `MCResearch`, `MCDocuments` | instances of one component for TLC |
| `MCControl`, `MCRecords`, `MCServices`, `MCTools`, `MCRecovery`, `MCRuntime` | instances of several components, one behaviour of one of them at a time |

Where several components meet in one instance, the operators of a component
carry its name (`ResearchInit`, `OwnerNext`, `sharedPhase`); the constants they
share (`Workers`, `Contributions`, `MaxRuns`) mean the same in each.

Definitions whose comment starts with "Mutant:" are wrong on
purpose: each is a plausible slip in the definition that follows it, and the
property it belongs to must notice the exchange.

### ControllerExecution

The durable variables are the projections; the rest is the memory of the one
process that owns the state. `phase` is the program counter of that process:
`boot`, `recover`, `interrupt` and `preflight` are `ControllerSupervisor.run`
before `start_controller`; `loop` and `idle` are `_loop` before and in the wait
for the wake event; `plan`, `open`, `document`, `work` and `close` are the
awaits of `plan_and_execute` and `_dispatch`; `finalize` is
`finalize_controller`. One action is what runs between two awaits, and control
operations come in at awaits (`Serving`). `Settle` is `_append_terminal` with
the checks of `_validate_claim`: a claim whose worker has been reassigned or
whose controller has been reconfigured cannot be settled, and the error ends
the supervisor. `RequestStop` sets the stop event; the cancellation it causes is
the `~stop` guard of the steps it replaces. Execution ids are fresh numbers,
assignment ids pairs of worker and task version.

### Promotion

`queue` is the table by enqueue sequence, with the epoch and the kind of the
submission; `pc` and `entry` are a service inside `_promote` and the entry and
epoch it keeps in local variables. Services share an event loop: `Turn` lets
another one run only where this one awaits. `fresh` is whether the claim's last
heartbeat is recent; it may become stale at any time, so no assumption about
clocks is made. `state_version` is left out: every update reads and writes it in
one `BEGIN IMMEDIATE` transaction. The base epoch, a hash over the project's
modules, is the set of published modules. What Lean says is a free choice:
`Fail` may replace every successful step. A duplicate submission returns the
existing row and changes nothing. A patch may be found stale even
in the current epoch, because its document may have moved: both outcomes are
possible.

### PromotionConsumer

One owner id, no heartbeats and no expiry: nothing in a host ever looks at the
age of a claim. The host opens, closes (telling the consumer to stop and then
cancelling it) and crashes; submissions are snapshots, as
`WorkerGatewayActions.contribution_submit` makes them.

### ResearchEngine

`phase` is where `run_research` and `ResearchEngine.run` stand. `recover` and
the filling of free slots never await, so nothing else runs there but a crash
may happen between any two writes; `doing` is the write such a crash would
separate from the one before. `active` and `begun` distinguish a round that was
created from one that has had its first step, because a cancellation of the
former reaches no handler. `promo` is what the promotion events say about a
round's contribution; it changes on its own, also after the round is over.
Feedback, usage, inbox and memory records carry no control and are left out, as
are the configured per-task limits, which are constants.

### DocumentBroker

A document is a projection (`docs`, with its lease), a file of the run's project
(`file`) and snapshots by content (`snapshot`). Once the broker has recovered,
none of its operations suspends: an uncontended `asyncio.Lock` is taken without
waiting and everything below it is synchronous. Hence the version and hash that
`document_apply` compares are always those it has just read, and they are left
out; what can come between two effects is a failure, the end of a lease and a
crash. `doing` is the effect that comes next. A failed effect takes the exception
path of the code: before the replace only the preparation is ended, from the
replace on the file is restored first, and a compensation that fails leaves the
document prepared. `valid` stands for both the time and the epoch of a lease.
A run belongs to one process, so runs are counted by crashes, and a path is a
run and a worker. `snapshot` is `twice` while, or because, the temporary name of
a snapshot has not been removed; `read_relative` refuses files with two links.

### StateOwnership and StateRpc

`pidfile`, `socket` and `lock` are the three files of a project's state. A
process is a program and the number of its start; no pid is used twice, so that
"the pid is alive" is "that start is running". A server's `phase` is the system
call of `acquire_state_process` or `service_ownership.py` that comes next, and it
may be killed at each. A record is its own file identity. Control commands read
both files, call or stand in for the owner, and compare the files again
(`state_client.py`); a command whose connection breaks after the request does not
know whether it was committed, and both outcomes are steps.

`StateRpc` is inside one such server: `conn` is where the handler of each
connection stands, `phase` where `_cleanup` does. A frame is whole, malformed or
missing. What the store answers is a free choice among the codes of
`operations.py`; only that an append needs the service session is kept.

### EventSchema and EventStore

`store` is the whole database: log, projections with their versions, artifacts,
capability rows. A transaction is one action, since SQLite commits it whole;
what it may contain is modelled in full: duplicate event ids (same or different
content), the reducer's refusals, batches of a publication, the artifact and
token effects. Replay feeds the stored log to the reducer in a fresh database.
Of a payload only the field names and equality of values are kept.

### GatewaySessions and GatewayChannel

`GatewaySessions` is the broker's side: a session is registered with its token,
redeemed by the first genuine peer, and every request is checked in the order of
`CapabilityGateway` (token, claims, lease, rate, budget) with a
`CapabilityDenied` event for each refusal. Time is two things: a window of the
rate limit may end, a token may lapse. `GatewayChannel` is the sidecar's side:
calls take the transport's lock, a cancelled call leaves its reply on the wire,
and `_read_responses` hands the next frame to whoever waits.

### LeanRuntime

`lock` is the lifecycle lock. Calls of workers use the client without it and take
it only to start or restart; the promotion check, the preparation and the
activation build hold it throughout. `server` is the process of each client:
alive, dead, closed, or lost when a start was cancelled. `rooted` and `runtimeId`
are set and cleared by `_start` and `_restart` exactly as the code does, so that after a
restart calls are refused as a project mismatch until the next start.

### RunProject

The base epoch is a hash over sources and modules; here it is the pair of them.
The source project (`projectSource`, a version per file, 0 for none) is recorded
once, when the project is initialized, and the operator may edit it at any time
(`EditSource`). A run works in a copy: every access copies what is not in it yet,
up to a file that differs, which stops it (`Copied`, `RunProjectMatches`). After a
crash the operator goes on with the same copy or begins a new run, whose copy takes
the source as it is then, while the recorded epoch stays (`Restart`). `Access` is
`_run_project`, which every worker access runs between two steps of a
promotion. The candidate's staged module and its published one have different
names, as in `lean_verifier.py`; `original` and `created` are what the verifier's
`finally` restores, and a crash loses them.

### SharedRun

`phase` is where `run_two_worker` and the runner stand, `work` where each worker
stands; a promotion is one claim and one outcome. The codex backend calls the
gateway in any order, the fake one replays its fixture (`script`). `log` holds
the events of every run; runs of one project follow each other and share queue
and deltas, so that a run meets what an earlier one left. A fault is a refusal,
a failed write, a signal or an exception at the places that can raise one.

### FoundationCheck

Gate, run, controller and checker own the state one after the other. The gate
closes the state for its probes and reopens it, which lets another process in.
The checker's queries and its evaluation are translated check by check; an
artifact's contents are what they say of the log, and a file may be altered
afterwards.

### ProcessLaunch

One launch with one of the four launchers. A chunk of data stands for what a
pipe holds in one piece; a blocked writer waits, a closed reader raises a broken
pipe. The child may do anything a program may: write, read, fork, ignore
SIGTERM, exit at any moment. `why` is the exception a launcher is handling, and
`await_cleanup` with its shielded task and remembered cancellation is part of
`Cancel`.

### PatchApply

Bytes are those of one-byte and two-byte characters, so that an offset may lie
inside a character. `AllReplaced` and `SoundPatch` define the meaning of a patch
without a cursor.

## Runs

TLC checks the components side by side. An instance such as `MCControl` extends
several modules and adds one variable, `component`, chosen initially: a behaviour
is then a behaviour of that component while the others keep their initial state.
The states of such a run are the sum and not the product of its components'
states, and every invariant is checked in all of them. Where the components do
interact, the interaction is inside one module (the operator and the controller,
services and queue, host and consumer, servers and commands, gate and log).
Fairness stays true to this: a component that does not run has no fair step
enabled in the state it keeps, so its fairness asks for nothing.
`MCControl` and `MCRecords` name the actions one by one, so that the coverage TLC
reports is that of each action; what cannot happen there (batches and tokens in
the records of tasks, the fixtures' review in a codex run) is left to the instance
in which it can.

A property of a run is often a conjunction of what its module states part by part
(`RunIsSettled`, `RoundsAgree`, `TablesFollowLog`, `ApplyIsExact`,
`VerdictRestsOnGate`, `OneRuntime`, and the temporal `EachEnds`,
`CallsAndLaunchesEnd`, `ControllerSettles`, `WaitersAnswered`); the parts are named and
commented where they are defined, and the type invariant of a module is the first
of them. Invariants that are theorems (see Proofs) are run as well only where they
are the property a reader would ask for.

| Run | Components and bounds | Shows |
|---|---|---|
| `control` | `ControllerExecution`: 2 workers, two tasks for the one that is scanned first and one for the other (`ThreeTasks`), 2 configurations, 2 processes; `SharedRun`: one codex run, 1 slot, 1 fault; `EventStore`: logs of 4 controller and task events | one execution per worker and one lease (`OneActiveExecution`, `OneLease`), the task ledger is implemented (`LedgerSpec`); a completed run has earned it, a submission on top of a published module builds on what its worker had read, and exit code, evidence and terminal event agree (`CompletedIsEarned`, `SubmissionBuildsOnRead`, `RunIsSettled`); every log of tasks reads as a history (`OrchestrationHistory`) |
| `records` | `Promotion`: 2 contributions, 2 services, 3 rows; `EventStore`: logs of 3 events of leases, documents, artifacts, publications and tokens | a contribution is one version and a preparation stays valid (`OneVersionCounts`, `PreparationStaysValid`), the knowledge log is implemented (`LogSpec`); replay gives the tables, versions count events, artifacts are kept as long as named (`TablesFollowLog`); a token does not outlive its lease (`TokenDiesWithLease`) |
| `services` | `DocumentBroker`: 2 workers, 2 contents, 2 documents, 1 crash, 1 failure; `ResearchEngine`: 2 targets, 2 rounds, 2 failures, 1 slot, 2 watching processes; `StateOwnership`: 2 servers, one started twice (`SecondStartsOnce`), 1 command, 1 batch program; `GatewaySessions`: 2 sessions, 2 genuine peers, limits of 2, 3 calls; `SharedRun`: two runs of the fixtures, 1 slot, 1 fault | `UsableIsOnDisk`; `RoundsAgree`, `VerifiedByEvidence`; `AnswerFromSeenOwner`; `RedeemedOnce`, `SecretsCleared`, `NoCallAfterLease`; `RunIsSettled` |
| `tools` | `ProcessLaunch`: all launchers and descendants, 2 chunks each way, pipes of 1, 2 cancellations; `RunProject`: 3 candidates, 1 crash, a source file and one that may be added, 2 versions; `PatchApply`: all texts of up to 4 bytes, all patches of up to 2 edits; `LeanRuntime`: 1 call and all three jobs, 3 clients, 1 crash; `FoundationCheck`: 2 gates, 1 run, 2 policies, 1 fault | `GroupReaped`; `EpochTracksProject`; `ApplyIsExact`; the verdict on a run rests on a gate that passed undisturbed, and does not change later (`VerdictRestsOnGate`, `PassIsGenuine`); every action of the runtime's locked jobs happens |
| `recovery` | `DocumentBroker`: 1 worker, 2 documents, 2 crashes, no failure; `ResearchEngine`: 2 targets, 2 rounds, 2 slots, 1 process, with and without `--watch`; `StateRpc`: 2 connections; `GatewaySessions`: 1 session, a genuine peer and a stranger; `GatewayChannel`: 3 calls; `ProcessLaunch`: no timeout, a child that writes before it reads; `StateOwnership`: 1 server started six times, killed outside two windows | `PreparedIsRestored`; `RunEnds`; the closes of socket and broker, a hung-up sidecar and an exchange end (`EachEnds`); `NoHandlerOutlivesStore`; `ReplyIsOwn`; `NextStartIsPossible` |
| `runtime` | `LeanRuntime`: 2 calls, 5 clients, 2 crashes; `SharedRun`: one run of the fixtures, 2 slots, 2 faults; `ProcessLaunch`: all launchers and descendants, 1 cancellation | one server at a time, a history that says so, and nothing left after `aclose` (`OneRuntime`), one record per call (`RecordedOnce`); calls end unless a start of Lean hangs, launches unless a descendant outside the group holds a pipe (`CallsAndLaunchesEnd`), shared runs unless the prewarm hangs (`SharedRunEnds`) |
| `ControllerLiveness` | `ControllerExecution`: 2 workers with 2 tasks each, 1 configuration, 2 processes | no lost wake-up (`PendingIsTaken`); a stop ends the process and an active execution is settled (`ControllerSettles`); no deadlock |
| `ConsumerLiveness` | `PromotionConsumer`: 2 contributions, 1 reader, 2 hosts, 2 rows | `SubmissionServed`; conductor and workers are woken (`WaitersAnswered`); `FailureStopsWorker`; no deadlock |
| `ControllerCancel` | as in `control` | **violated**: finding 1 |
| `ConsumerRecovery` | as `ConsumerLiveness`, hosts and submissions keep coming | **violated**: finding 2 |
| `ResearchRestart` | 2 targets, 2 slots, 2 processes | **violated**: finding 3 |
| `DocumentsStuck` | 1 worker, 2 documents, 1 crash, 1 failure | **violated**: finding 4 |

Bounds. Two of everything that competes: two workers so that one is scanned
before the other; two task versions so that a reassignment meets an execution (of one worker in
`control`, where the other one only has to compete);
two configurations so that a reconfiguration does; two processes or hosts so
that a restart meets what a crash left. Three rows of the queue hold two
submissions and a rebase; a third takeover repeats the second because a row has
one owner. Two rounds let a failure be followed by a success, a second failure
and an interruption. A watching research run can do everything one that does not
watch can except end when idle, which has the effect of its time limit; so the
safety run watches. One slot is enough there, because targets are independent
but for the slot; the run that asks whether a run ends has two. Two documents
let a path be used twice or by two workers; an expiring lease already fails an
edit, so one failure more spoils its compensation; the second crash, in
`recovery`, comes during recovery. Without failures only one document is ever
prepared, so one worker is enough there.

Two servers suffice for ownership because every step looks at one other
process; a second start meets what the first left and a server that has not, and six starts of a
single one show that nothing accumulates. Three calls on a channel are one that
is given up, one behind it and one that comes when the late reply is there. Three
requests pass limits of two. Three Lean clients are the first, its replacement
and the replacement's; with two crashes, starts that fail can use up to five.
Three events are a grant, an effect of it and its
end; four are a claim, a plan, a terminal event and one that must be refused;
every event type of the schema with an effect on a projection is in one of the
two vocabularies. Three candidates are one published, one failed or left behind,
and one verified after both. One source file is there from the start and one is not,
so that files are edited, removed and added; one crash lets a new copy meet them. Two runs let the second meet what the first left. The checker
judges one run behind up to two gates: the first gate starts at any time, before
the run, during it or after it, the second only before the run
(`SecondGateIsEarly`), where it decides which of the two the run has to show.
One fault is enough to spoil either of them, the run or a file.
With pipes of one chunk and two chunks to write, a pipe fills and the limit can
be passed.
Two edits touch, overlap or insert at one place; four bytes hold a two-byte
character with something on either side.

`CHECK_DEADLOCK FALSE` is set for all runs but those of the controller and of
the consumer alone: in the others there are components in which targets settle,
leases are released, starts, calls, clients, runs and events are bounded, or a
launch or a patch ends; nothing happens any more afterwards. The controller and
the consumer never stop, since processes may be started, or requests keep coming.

Fairness. `ControllerExecution`, `ResearchEngine` and `DocumentBroker` assume that a process that
is not killed goes on: one weak fairness condition on all its own steps. Every
await of theirs is bounded by a timeout (planning, worker, host, a call to Lean) or is the
wake event itself, whose wait is enabled only when the event is set; the one exception is
the start of Lean before the rounds of a research run, of which `RunEnds` assumes that it
ends. A start of Lean has no timeout: `LeanMcpClient.start` awaits the process, `initialize`
and `list_tools` under the lifecycle lock. Crashes,
signals, operators, submissions and publications are never assumed to happen.
`PromotionConsumer` has one condition for each task of the event loop: the
consumer, the failure race, the close of a host, the conductor and the readers;
asyncio runs every ready task. A promotion is assumed to end, and with it a start of
Lean that it needs. Only `ConsumerRecovery` also assumes that the
operator opens a host again, that workers run and that they submit again: the
recovery it refutes would otherwise fail for want of an occasion. A higher worker
id may wait as long as lower ones are reassigned again and again; the bound on
task versions excludes that, and `PendingIsTaken` therefore says nothing about it.

`StateRpc`: the close and every handler go on; a peer reads what it is sent or goes
away, for the code puts no limit on a reply that nobody reads, but it owes no request. `GatewaySessions`: the
close, and a handler that was cancelled or whose peer has gone; targets owe no
answer. `GatewayChannel`: the reader, the closing task, the sidecar and the calls
that can go on; the gateway owes no reply. `LeanRuntime`: each call and the
holder of the lock, strongly, because `asyncio.Lock` wakes its waiters in turn
and a call that finds it taken again and again still gets it. Steps of a job that is
starting a server are left out of it: a start need not end, and `CallsEnd` then asks only
that nothing else keeps a call waiting. `SharedRun`: the conductor once the host is warm,
timers, cancellation and release; the prewarm waits for a start of Lean and is not
bounded (`PrewarmHangs`), the backends are not fair, since a model may stop calling, and
neither are promotions, for which the workers' and the epoch's timeouts stand in. `ProcessLaunch`: the launcher's steps, its
timers and SIGKILL; nothing is asked of the child, except for `ExchangeEnds`,
where the child is a program that does its work. `StateOwnership`, `EventStore`,
`RunProject`, `FoundationCheck` and `PatchApply` are checked for safety only.

## Where the code and its documents differ

1. `ControllerCancel`: the design document promises a `WorkerTaskInterrupted`
   record for a cancelled task. After a reassignment or reconfiguration during
   the execution, the record is refused and the execution stays claimed or
   planned until the next start.
2. `ConsumerRecovery`: the operations guide promises that a staged row is
   verified again after its claim has expired. `recover_next` has no caller in
   the package; the row stays, and every later one waits behind it.
3. `ResearchRestart`: the workflow guide promises that a restart settles
   already-published work. Recovery looks only at what is still running; a proof
   published after its round was recorded as failed or interrupted is not
   credited, and the target is worked on again.

4. `DocumentsStuck`: recovery has to restore prepared documents. After a failed
   compensation the document stays prepared while its lease is released; the
   worker's next document in the run discards the file of the path, and a crash
   before the new file exists leaves nothing that `replace_relative` would
   replace. Every later recovery fails there, and with it every host and
   controller.

What follows was met while modelling as well. The modules' actions do what the
code does there; no run asks for it.

- `runtime/state_process.py:91`: a pid record is compared and then unlinked by
  path. Two processes that reclaim the same dead record can remove each other's,
  although a test expects that a record that replaced the compared one is kept.
- `runtime/state_process.py:124`: a start that removes the dead owner's record
  and then fails takes its own record with it; the socket stays, and without a
  record no later start is accepted. `NextStartIsPossible` therefore excludes
  kills in the two windows `Spared` names.
- `lean/mcp_client.py:101`: a start of Lean has no timeout and is awaited under the
  lifecycle lock. A server that hangs in `initialize` keeps the prewarm, and with it the
  run, waiting, and every call that needs a start or restart until its worker's timeout.
- `orchestration/runner.py:155`: the base epoch of a project is recorded once. A source
  file that is edited or removed before a new run begins its copy, or added at any time,
  makes the copy's hash another one, and every later promotion is refused with
  `EPOCH_PROJECT_MISMATCH` (`knowledge/lean_verifier.py:76`); `RefusedForItsSource`
  says that nothing else is.
- `orchestration/promotion_consumer.py:44`: an error of the store that escapes
  `promote_next` ends the consumer without a failure being set; who waits for one, or for
  a publication, is left to its timeout, and `FailureStopsWorker` says nothing of it.
- `lean/runtime.py:252`: `_restart` clears `_project_root` and does not set it
  again, so that later calls are refused as a project mismatch.
- `lean/runtime.py:269`: a restart reopens every document under the lease it was
  opened with; one ended lease of another worker makes the restart fail.
- `lean/runtime.py:240`: a call cancelled while it closes the failing client
  leaves the closed client in place.
- `lean/broker_storage.py:178`: a worker's access between staging and build takes
  the staged import out of the manifest.
- `orchestration/conductor.py:95`: a governor that refuses, or a host that fails
  to close, lies outside of the handler its comment calls a durable abort
  boundary; the run has no terminal event.
- `knowledge/deltas.py:67`: workers read a delta of an interrupted run that is
  published during theirs and cannot acknowledge it.
- `orchestration/runner.py:143`: a run is completed before the first of its
  artifacts is written.
- `orchestration/worker.py:92`: only a timeout records `WorkerStopped` after
  `WorkerCrashed`.
- `agents/probe_execution.py:70`: a gate that fails before its sandbox probe has
  answered leaves no probe event, and the acceptance checker uses an older gate.
- `agents/launcher.py:268`: `_finish_reaping` drops an interruption, and a
  cancelled host command returns its output.
- `agents/launcher.py:250`: after a timeout the launcher waits for the pipes to
  end, which a descendant outside the group can keep open; `LaunchEnds` is
  checked with such descendants, and finds nothing else that can keep a launch from
  its end.

## Proofs

All theorems hold for any sets of workers, services, servers, connections, calls
and contributions and any bounds; the only assumptions are those named in the
modules (worker ids are numbers, bounds are natural numbers, documents and replacements are
texts over the bytes of `PatchApply`, null values such as
`NoOwner`, `NoFile`, `NoSession`, `NoClient` and `Nobody` are not among the values
they stand beside, pipes hold at least one chunk, genuine peers are peers, a pid
of a server is not the pid of a command or a batch program, the runtime's three
jobs are three, the operations of a probe are none of `gate_b_complete` and
`terminal`).

Each component has one inductive invariant, the conjunction of its types, of the
properties and of the facts without which they are not inductive. It is proved
action by action; the theorems named in `PROJECT.json` follow from it.

`ControllerExecutionProofs`. `RuntimeInv`: a live loop is the session the
projection names, and a loop that ends for a signal has nothing unsettled; this
carries `SignalledStopSettled` over `finalize`. `TaskInv`: the status of the claimed
execution and its worker calls follow `phase`; this is what makes a second call
impossible. `LeaseInv`: no lease when a document is created and only the own one
while the worker runs. `OneActive`, `SingleLease`, `SignalledStop`, `CallsMatch` and
the types (`ControllerTypes`) follow, and `ImplementsLedger` shows that every step is
a step of `TaskLedger` or a stutter.

`PromotionProofs`. `QueueInv` (rows beyond `enqueued` are unused, only live and
settled rows have owners), `FamilyInv` (every rebased row descends from a
submission of the same contribution), `HolderInv` (a service that still holds its
row read the epoch that is current now) and `EventInv` (prepared rows were
claimed, published deltas belong to published rows). `HolderInv` is the heart: by
`ServedInOrder` at most one row is live, only the holder of a live row publishes,
so the epoch cannot move under a service that holds one, and a service that does
not hold its row is refused by every transaction. `SettledFinal`, `ImplementsLog`
and `QueueTypes` are proved from it.

`PromotionProofs`, consumer. `ConsumerStep`: whatever the host, the consumer, the
conductor, a reader or a kill does to the queue is a step of `Promotion` or a
stutter, taken by one of the hosts' services. The queue's invariant then holds of the
composition without a second proof (`ConsumerServesQueue`), and so do the abstract log
and the action property (`ConsumerImplementsLog`, `ConsumerKeepsQueue`). `TaskInv` ties
the consumer's task to the row its service holds; `OrphansStay` follows: a row that was
claimed when its host ended stays live for ever. It is the safety side of finding 2,
for any number of hosts.

`DocumentBrokerProofs`. What an operation has established when it comes to its
next effect (`CreatingInv`, `EditingInv`, `RecoveringInv`), `OneLeasePerPath`, which
is why an edit cannot write the file of another usable document, and `OnDisk`,
which is `UsableIsOnDisk` without the restriction to moments of rest. That recovery
ends is not among the theorems: it does not always (finding 4).

`ToolProofs`, launchers. The invariant follows the data: `ChunksAgree` (what was read
and what is in a pipe is what was written, as long as nothing is thrown away),
`EndedIsEmpty` (an end is read only when the pipe is empty and nobody holds it),
`WithinLimit` (the two launchers that count while reading) and `LeavesWithReason` (a
launcher leaves the exchange with an exception or with everything read and the
child reaped). `OutputsComplete` needs all four; `GroupsEnd` is inductive with the
types.

`ToolProofs`, run project. What a promoter carries across its awaits: `ResultIsCurrent`
(the epoch it will publish belongs to what is published now), `RestoreIsClean`
(before a crash, what it will put back contains nothing staged and its list names
every staged file), `PublicationNames` and `DecisionsOK`. Worker accesses change the
manifest by generated imports only, which are put back to what is published before the
hash is taken; what is left of a comparison with the recorded epoch is the copied
source. `RefusalsAreOfTheSource`, an action property, says so in both directions: a
promotion is refused only where the copy is not the recorded source, and goes on only
where it is. `TypesOfProject` needs that only finitely many modules are
published, so that the next has a number.

`ToolProofs`, patches. `CheckedInv`: the edits that passed the checks are in range, in
order and apart, and each boundary is the start of a character. `OutputInv`: the output so
far, followed by what the remaining edits make of the rest of the document, is the
reference result. `ApplyIsExact` is both together with the verdict. The reference
applies edits from the last to the first while the code walks forwards; the lemma that
the later ones leave what precedes them alone goes by the least pass that would not.

`ToolProofs`, foundation. `WritersInv` says who may have written an event: only gates
record what is audited, no number is ahead of the next epoch, and the completion of a
gate is recorded only when it passes. `GateInv` follows the gate in progress: from its
first probe on, what others record is not in the digest it started with, so that equal
digests, once when the live service is closed and once when it is opened again, mean that
nobody recorded anything in between (`PassedInv`, from which the undisturbed pass
follows). `CheckInv`: no agent runs while the checker reads, because reader and run
exclude each other through the ownership of the state. The policy that counts is the one
of the gate that probed last (`GateThatCounts`). That a verdict does not change is not an
invariant of a step: it looks only at the events of the run and at what precedes its
creation (`SameEventsSameVerdict`). `PassIsGenuine` rests on `FlattenedType`: a flattened
sequence has no elements but those of its parts, hence a terminal record of the trace
stands for a completion or an abort of the run, and the checker refuses aborts.

`StateProofs`, ownership. Two arguments. From the lock to the end of its close a
server holds the lock (`LockInv`), and every step that reclaims, binds or removes
the socket lies in between, so that a serving server is reached through the
socket (`ServingIsReachable`). And a process binds its socket once (`PastInv`): a
socket that was replaced does not come back, so a command that sees the same one
before and after its call was answered by that owner
(`AnswersComeFromSeenOwner`). A pid record has no such protection: see below what
was met in `state_process.py`.

`StateProofs`, event store. Replay is a recursion over the log, and a transaction that
appends several events runs the reducer over them. Both are described without the
recursion, as a sequence of states each of which follows from the one before
(`IsRun`); that two such runs agree as long as their events do is shown through
the least number at which they would not. `IsStore` and `Replays` say that the tables are
the last state of the run over the log. `VersionInv` and `HistoryInv` relate the version
and the status of a row to the events of its entity, so that a controller session or an
execution moves along its allowed transitions from its opening on (`HistoriesAreKept`).
`ArtifactInv` and `AgreeInv` say that each registered artifact has its rows and that two
registrations never contradict each other, `TokenInv` that the end of a lease in the log
revokes the capabilities minted before it (`TokensDieWithLease`). `TablesAlwaysFollowLog`
is the reason for which a reopened store serves what the closed one did.

`StateProofs`, connections, has three parts. The RPC server: after the second turn of the
event loop no accepted connection is left that could start a handler (`LateInv`),
so that the store closes after the last one (`StoreClosesLast`), and events are
appended only over a connection that presented the service session
(`AppendsAreAuthorized`). The gateway: a session is registered once, and taken by
one handler (`OnceInv`), which is the genuine peer's when it grants the token
(`GivenInv`), and token bytes are always in reach of somebody who will wipe them
(`HeldInv`); calls are counted request by request (`CallsAccounted`), and the
capability record is read at every call (`RevokedIsRefused`, an action property).
The channel: while it is open there is one frame, the lock holder's, either on its
way, in the gateway or on its way back, and a call that gives up while a reply is
due closes the channel; hence `RepliesAreOwn` although replies carry no number.

`RuntimeProofs`. The lock is held by exactly the job that works under it
(`LockInv`). While a server starts there is no client, one that is up is the client
(`ServerInv`, `MineInv`), and while there is no client, or documents are reopened, no
runtime is announced (`EventInv`). `RuntimeIsOne` follows: starting under the lock
and comparing `_client` before a restart are both needed. `CallsRecordedOnce` holds
because every path out of `_execute` ends the call with one record.

`ResearchProofs`. The engine writes a round twice, the attempt and then its task, and
may be killed in between. `RoundInv` says what the first write leaves (an attempt is at
most one ahead of its task, only the last one is running), `DoingInv` what the second
one will find, `FailureInv` counts the failed attempts of a task with the one that is
between its writes, and `ActiveInv` ties the coroutines to the last attempts.
`RoundsAgree` restricted to moments of rest is not inductive; with these four it is,
and `VerifiedByEvidence` needs from `DoingInv` that a round that ends as verified was
published.

`SharedRunProofs`. A completion needs seven events in one order, and no action looks at
that order: `validate_shared_completion` checks a few events and epochs. `HistoryInv`
says for each event of a log who may have written it and when: a submission carries the
epoch of its lease, a declaration the next one after its submission's, an
acknowledgement follows its declaration. `DeltaInv` puts the lease of prover-a before
the first delta of the run and the second one of prover-b after it, `WorkerInv` ties
executions, cursors and leases to the phase, `CountInv` says that a worker was stopped
as often as it was started, and `VerdictInv` when the terminal event, the labels and the
artifacts are there. `EarnedInv` is
what remains of the check once the events are ordered; `CompletedIsEarned` follows.
`SubmissionBuildsOnRead` needs to know who can import at all. Nothing of a run is published
before prover-a has a text, which it therefore wrote without an import, and a delta of
another run is never acknowledged (`AppliedFirst`). In its first round prover-b may only
read, also what its lease does not count; its second lease, the only one under which it
writes, begins at the epoch that is current then and counts all of it (`ReadIsCounted`,
`ImportIsRead`).
`RunIsSettled` needs for its artifacts that the trace is the log up to its seal and that
what is appended afterwards changes neither.

Only model-checked:

- everything under fairness, and `NextStartIsPossible`, whose kills are confined to
  what `Spared` allows: liveness is out of the prover's reach. This includes the
  temporal part of `PromotionConsumer`.

The induction theorems of the library take an operator as a parameter and cannot be
instantiated here. Where a recursion had to be reasoned about (replay, the passes
of a patch, the parts of a trace), the proof looks at the least number at which the
claim would fail, which a well-founded order provides for sets (`LeastNumber`).

## Plan

1. Done: controller, promotion queue, consumer, research loop, documents, and
   their proofs.
2. Done: ownership and RPC, event store, gateway, Lean runtime, run project,
   shared run, foundation check, launchers, patches.
3. Done: proofs of launchers, run project, patches, ownership, RPC, event store,
   gateway, channel, Lean runtime, research loop, shared run and the consumer that
   serves the promotion queue, and the foundation check.
4. Left to model: the scanner of candidate sources (`validate_candidate_source`
   and `_strip_comments_and_strings`) against a grammar of Lean comments; the lock
   and rename protocol of the Rust launcher's cache; the composition of
   `DocumentBroker` with `ControllerExecution`'s leases.

## What is not modelled

Text: prompts, rendering, logging, formatting of records, encodings of frames
and artifacts, validators of single values, the scanner of candidate sources.
Operating system: what a sandbox profile says and what is enforced of it; how a
peer's identity is found out; links, devices and permissions of paths. Lean
itself: whether a source is accepted is a free choice. Evidence and lifecycle
events that nothing reads back. Research search, index and reports only read.
Configuration and domain types check static values. Argument parsing, the Rust
launcher, the packaging and release scripts are tools around the program.
