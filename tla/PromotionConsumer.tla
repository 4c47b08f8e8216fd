-------------------------- MODULE PromotionConsumer --------------------------
(***************************************************************************)
(* The shared promotion consumer inside a worker execution host            *)
(* (promotion_consumer.py, worker_host.py) working on the queue of         *)
(* Promotion, with the two kinds of clients that wait for it: the          *)
(* conductor in wait_for_epoch and workers in a blocking knowledge read    *)
(* (knowledge_stream.py).  There is one consumer at a time, every host     *)
(* uses the same owner id, and nothing in a host calls recover_next.  No   *)
(* step of a host looks at the age of a claim, so heartbeats, expiry and   *)
(* takeover, which Promotion has, are no steps of this module.             *)
(***************************************************************************)
EXTENDS Promotion

CONSTANTS
  Shared,     \* the owner id "shared-promotion-consumer"
  Readers,    \* workers that may block in knowledge_read
  MaxHosts    \* bound on the hosts ever opened; the last one stays open

ASSUME SharedAssumption == Owners = {Shared}
ASSUME MaxHostsAssumption == MaxHosts \in Nat

VARIABLES
  host,       \* "closed", "open" or "closing"
  opened,     \* how many hosts there have been
  lenient,    \* continue_on_failure of the open host
  worker,     \* a task in _active_workers runs
  task,       \* where PromotionConsumer.run stands
  wake,       \* PromotionConsumer._wake
  published,  \* PromotionConsumer._published
  failure,    \* PromotionConsumer.failure and _failed
  waiter,     \* the epoch wait_for_epoch waits for, or 0
  readers,    \* KnowledgeStream.read of each worker, and the epoch it is after
  backlog     \* history: the rows there were when the host was opened

hosting == <<host, opened, lenient, worker, backlog>>
events == <<wake, published, failure>>
clients == <<waiter, readers>>
allVars == <<vars, hosting, task, events, clients>>

Tasks == {"none", "waiting", "serving", "promoting", "notify", "ended"}
NoRead == [at |-> "none", after |-> 0]
Reads == [at : {"none", "reading", "locking", "waiting"}, after : {0} \cup Rows]

ConsumerInit ==
  /\ Init
  /\ host = "closed" /\ opened = 0 /\ lenient = FALSE /\ worker = FALSE /\ backlog = 0
  /\ task = "none"
  /\ wake = FALSE /\ published = FALSE /\ failure = FALSE
  /\ waiter = 0
  /\ readers = [r \in Readers |-> NoRead]

-----------------------------------------------------------------------------
(* The host.                                                               *)

\* The research runner opens a lenient host, the controller a strict one.
OpenHost ==
  /\ host = "closed"
  /\ opened < MaxHosts
  /\ host' = "open"
  /\ opened' = opened + 1
  /\ lenient' \in BOOLEAN
  /\ backlog' = enqueued
  /\ task' = "waiting"
  /\ wake' = FALSE /\ published' = FALSE /\ failure' = FALSE
  /\ UNCHANGED <<vars, worker, clients>>

RunWorker ==
  /\ host = "open"
  /\ ~worker
  /\ worker' = TRUE
  /\ UNCHANGED <<vars, host, opened, lenient, backlog, task, events, clients>>

WorkerReturns ==
  /\ worker
  /\ worker' = FALSE
  /\ UNCHANGED <<vars, host, opened, lenient, backlog, task, events, clients>>

\* Mutant: host.run awaits the worker alone.
RaceNothing ==
  /\ worker /\ failure /\ host = "closing"
  /\ worker' = FALSE
  /\ UNCHANGED <<vars, host, opened, lenient, backlog, task, events, clients>>

\* _race_failure: wait_for_failure wins and the worker is cancelled.
RaceFailure ==
  /\ worker
  /\ failure
  /\ worker' = FALSE
  /\ UNCHANGED <<vars, host, opened, lenient, backlog, task, events, clients>>

\* _cleanup up to its sleep: workers are cancelled, then the consumer is
\* told to stop.  The conductor has left wait_for_epoch when it closes.
CloseHost ==
  /\ host = "open"
  /\ opened < MaxHosts
  /\ host' = "closing"
  /\ worker' = FALSE
  /\ wake' = TRUE
  /\ waiter' = 0
  /\ UNCHANGED <<vars, opened, lenient, backlog, task, published, failure, readers>>

Stopping == host = "closing"

\* Memory of a host that is gone.
HostGone ==
  /\ host' = "closed"
  /\ worker' = FALSE
  /\ task' = "none"
  /\ wake' = FALSE /\ published' = FALSE /\ failure' = FALSE
  /\ waiter' = 0
  /\ readers' = [r \in Readers |-> NoRead]
  /\ UNCHANGED <<opened, lenient, backlog>>

\* The rest of _cleanup: a consumer that has not ended by itself is
\* cancelled, and a promotion it was in is abandoned where it stands.
CancelConsumer ==
  /\ Stopping
  /\ HostGone
  /\ \/ pc[Shared] # "idle" /\ Abandon(Shared)
     \/ pc[Shared] = "idle" /\ UNCHANGED vars

HostCrash ==
  /\ host # "closed"
  /\ opened < MaxHosts
  /\ Crash
  /\ HostGone

-----------------------------------------------------------------------------
(* Submissions through the gateway; each one notifies the consumer.        *)

\* Mutant: contribution_submit returns without notifying.
NotifyNobody == UNCHANGED wake

notify_submission == wake' = TRUE

\* The gateway submits snapshots of a document, never patches.
ContributionSubmit(c, e) ==
  /\ worker
  /\ Submit(c, FALSE, e)
  /\ notify_submission
  /\ UNCHANGED <<hosting, task, published, failure, clients>>

\* enqueue returns the row a contribution already has.
SubmitAgain(c) ==
  /\ worker
  /\ \E i \in 1..enqueued : queue[i].source = c
  /\ notify_submission
  /\ UNCHANGED <<vars, hosting, task, published, failure, clients>>

-----------------------------------------------------------------------------
(* PromotionConsumer.run.                                                  *)

WakeConsumer ==
  /\ task = "waiting"
  /\ wake
  /\ wake' = FALSE
  /\ task' = IF Stopping THEN "ended" ELSE "serving"
  /\ UNCHANGED <<vars, hosting, published, failure, clients>>

PromoteNext ==
  /\ task = "serving"
  /\ ~Stopping
  /\ ClaimNext(Shared)
  /\ task' = "promoting"
  /\ UNCHANGED <<hosting, events, clients>>

\* promote_next returns None: nothing is queued, or a row is still claimed.
PromoteNone ==
  /\ task = "serving"
  /\ \/ Stopping
     \/ \E i \in Rows : Claimed(i)
     \/ \A i \in Rows : queue[i].state # "queued"
  /\ task' = IF Stopping THEN "ended" ELSE "waiting"
  /\ UNCHANGED <<vars, hosting, events, clients>>

\* The steps of _promote before its outcome.
PromotionStep ==
  /\ task = "promoting"
  /\ \/ BeginVerify(Shared) \/ VerifyAccepts(Shared) \/ StoreModule(Shared)
     \/ Materialize(Shared) \/ Prepare(Shared)
  /\ UNCHANGED <<hosting, task, events, clients>>

OutcomePublished ==
  /\ task = "promoting"
  /\ Publish(Shared)
  /\ published' = TRUE
  /\ task' = "notify"
  /\ UNCHANGED <<hosting, wake, failure, clients>>

\* The row was quarantined or rebased.  A strict consumer ends.
OutcomeFailed ==
  /\ task = "promoting"
  /\ Rebase(Shared) \/ Fail(Shared)
  /\ published' = TRUE
  /\ task' = IF lenient THEN "serving" ELSE "ended"
  /\ failure' = (failure \/ ~lenient)
  /\ UNCHANGED <<hosting, wake, clients>>

\* An error of the store escapes promote_next: run ends, failure stays None.
RunRaises ==
  /\ task \in {"serving", "promoting"}
  /\ \/ pc[Shared] # "idle" /\ Abandon(Shared)
     \/ pc[Shared] = "idle" /\ UNCHANGED vars
  /\ task' = "ended"
  /\ UNCHANGED <<hosting, events, clients>>

\* KnowledgeStream.notify_published, under the condition's lock.
NotifyPublished ==
  /\ task = "notify"
  /\ readers' = [r \in Readers |-> IF readers[r].at = "waiting"
                                   THEN [readers[r] EXCEPT !.at = "reading"]
                                   ELSE readers[r]]
  /\ task' = IF Stopping THEN "ended" ELSE "serving"
  /\ UNCHANGED <<vars, hosting, events, waiter>>

-----------------------------------------------------------------------------
(* The clients.                                                            *)

\* KnowledgeReader.read(after) is not empty.
Delivered(after) == \E n \in 1..Len(deltas) : deltas[n].epoch.knowledge > after

\* One turn of the loop in wait_for_epoch: no await between the read, the
\* clear and the wait.
AwaitEpoch(n) ==
  /\ \/ Delivered(n - 1) /\ waiter' = 0 /\ UNCHANGED published
     \/ ~Delivered(n - 1) /\ published' = FALSE /\ waiter' = IF failure THEN 0 ELSE n
  /\ UNCHANGED <<vars, hosting, task, wake, failure, readers>>

WaitForEpoch(n) == host = "open" /\ waiter = 0 /\ AwaitEpoch(n)

EpochEvent == waiter # 0 /\ published /\ AwaitEpoch(waiter)

\* asyncio.wait_for gives up.
WaitTimesOut ==
  /\ waiter # 0
  /\ waiter' = 0
  /\ UNCHANGED <<vars, hosting, task, events, readers>>

ReadAt(r, where) == readers' = [readers EXCEPT ![r].at = where]

StartRead(r, n) ==
  /\ worker
  /\ readers[r].at = "none"
  /\ readers' = [readers EXCEPT ![r] = [at |-> "reading", after |-> n]]
  /\ UNCHANGED <<vars, hosting, task, events, waiter>>

ReadDeltas(r) ==
  /\ readers[r].at = "reading"
  /\ ReadAt(r, IF Delivered(readers[r].after) THEN "none" ELSE "locking")
  /\ UNCHANGED <<vars, hosting, task, events, waiter>>

\* Mutant: the deltas are not read again under the lock.
LockAndWait(r) ==
  /\ readers[r].at = "locking"
  /\ ReadAt(r, "waiting")
  /\ UNCHANGED <<vars, hosting, task, events, waiter>>

\* The condition's lock is obtained; read again before waiting.
LockCondition(r) ==
  /\ readers[r].at = "locking"
  /\ ReadAt(r, IF Delivered(readers[r].after) THEN "reading" ELSE "waiting")
  /\ UNCHANGED <<vars, hosting, task, events, waiter>>

-----------------------------------------------------------------------------
HostSteps == CloseHost \/ HostCrash \/ WorkerReturns

Submissions ==
  \E c \in Contributions :
    \/ \E e \in KnownEpochs : ContributionSubmit(c, e)
    \/ SubmitAgain(c)

ConsumerRun ==
  \/ WakeConsumer \/ PromoteNext \/ PromoteNone \/ PromotionStep \/ OutcomePublished
  \/ OutcomeFailed \/ NotifyPublished

ClientRequests ==
  \/ WaitTimesOut
  \/ \E n \in Rows : WaitForEpoch(n) \/ \E r \in Readers : StartRead(r, n)

ReaderSteps == \E r \in Readers : ReadDeltas(r) \/ LockCondition(r)

ConsumerNext ==
  \/ OpenHost \/ RunWorker \/ HostSteps \/ RaceFailure \/ CancelConsumer \/ Submissions
  \/ ConsumerRun \/ RunRaises
  \/ ClientRequests \/ EpochEvent \/ ReaderSteps

(* The tasks of one event loop all get their turn.  A call to Lean is      *)
(* bounded by its timeout, while the start of a server is not              *)
(* (lean/mcp_client.py:101): that it comes up or fails is an assumption of *)
(* WF(ConsumerRun).                                                        *)
ConsumerSpec ==
  /\ ConsumerInit
  /\ [][ConsumerNext]_allVars
  /\ WF_allVars(ConsumerRun)
  /\ WF_allVars(RaceFailure)
  /\ WF_allVars(CancelConsumer)
  /\ WF_allVars(EpochEvent)
  /\ WF_allVars(ReaderSteps)

(* In addition the operator opens hosts again, runs workers in them, and   *)
(* they keep submitting.                                                   *)
OperatedSpec ==
  /\ ConsumerSpec
  /\ WF_allVars(OpenHost)
  /\ WF_allVars(RunWorker)
  /\ SF_allVars(\E c \in Contributions : SubmitAgain(c))

-----------------------------------------------------------------------------
(* Properties.                                                             *)

\* Every variable of the host, the consumer and its clients has its type.
ConsumerTypeOK ==
  /\ TypeOK
  /\ host \in {"closed", "open", "closing"}
  /\ opened \in 0..MaxHosts /\ backlog \in 0..MaxRows
  /\ {lenient, worker, wake, published, failure} \subseteq BOOLEAN
  /\ task \in Tasks
  /\ waiter \in {0} \cup Rows
  /\ readers \in [Readers -> Reads]

\* A claim that no running promotion stands behind.
Orphaned(i) == Claimed(i) /\ pc[Shared] = "idle"

\* What is submitted or rebased in a host is settled by its consumer unless
\* that ends first: no submission slips in between the look at the queue and
\* the wait.  A row orphaned by an earlier host is the exception.
SubmissionServed ==
  \A i \in Rows :
    ( /\ i > backlog
      /\ queue[i].state = "queued"
      /\ task \notin {"none", "ended"}
      /\ \A j \in Rows : ~Orphaned(j) )
      ~> (queue[i].state \in Settled \/ task \in {"none", "ended"})

\* A conductor in wait_for_epoch gets its answer once the epoch is
\* published or the consumer has failed: the cleared event is set again.
EpochAnswered ==
  (waiter # 0 /\ (failure \/ Delivered(waiter - 1))) ~> waiter = 0

\* A worker that blocks in a knowledge read is woken by a publication that
\* comes after its first look and before it waits.
ReadAnswered ==
  \A r \in Readers :
    (readers[r].at # "none" /\ Delivered(readers[r].after))
      ~> (readers[r].at = "none" \/ host # "open")

\* A strict consumer that fails takes the running worker down with it.
FailureStopsWorker == (failure /\ worker) ~> ~worker

\* The recovery table of the operations guide: a staged row whose promotion
\* was interrupted is verified again, and so published or quarantined, by a
\* later host, as long as the consumer of that host runs.
InterruptedIsRecovered ==
  \A i \in Rows :
    (queue[i].state = "staged" /\ Orphaned(i) /\ task = "waiting")
      ~> (queue[i].state \in Settled \/ task \in {"none", "ended"})

\* Whoever waits for a publication is woken, the conductor and the workers, and they wait
\* only for rows and positions that there are (wait_for_epoch, knowledge_read).
WaitersAnswered == []ConsumerTypeOK /\ EpochAnswered /\ ReadAnswered
=============================================================================
