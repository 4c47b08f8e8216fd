------------------------- MODULE ControllerExecution -------------------------
(***************************************************************************)
(* The foreground controller: the supervisor's startup, loop and shutdown  *)
(* (controller_supervisor.py, supervisor_cleanup.py, controller_lifecycle  *)
(* .py), the dispatcher that plans and executes one claimed assignment     *)
(* (controller_dispatcher.py, controller_execution.py, worker_host.py,     *)
(* worker.py) and the operator's control operations that other processes   *)
(* send over the state socket (control_operations.py) whenever the event   *)
(* loop is at an await.  The process may die at any point; the projections *)
(* of the event store survive.                                             *)
(***************************************************************************)
EXTENDS Naturals, FiniteSets

CONSTANTS
  Workers,               \* worker ids; their order is the stable id order
  MaxTaskVersion,        \* bound on the versions of one worker's assignment
  MaxControllerVersion,  \* bound on controller configurations
  MaxSessions            \* bound on controller processes ever started

ASSUME WorkersAssumption == Workers \subseteq Nat
ASSUME BoundsAssumption ==
  /\ MaxTaskVersion \in Nat
  /\ MaxControllerVersion \in Nat
  /\ MaxSessions \in Nat

VARIABLES
  \* Durable projections of the event store.
  configured,  \* version of the "controller" projection, 0 when absent
  roster,      \* workers in "worker_roster"
  assigned,    \* version of each worker's "worker_assignments" record, or 0
  runtime,     \* "controller_runtime": status, session, version, reason
  execs,       \* "worker_executions", keyed by assignment
  leases,      \* workers that hold an active document lease
  \* The one process that owns the state, and its memory.
  phase,       \* where the process stands, "down" when there is none
  stop,        \* ControllerSupervisor._stop
  wake,        \* ControllerSupervisor._wake
  session,     \* id of the newest controller process
  identity,    \* the controller version that process started with
  claim,       \* the ClaimedAssignment in flight, or NoClaim
  outcome,     \* how the worker's task ended, or why the loop did
  drawn,       \* execution ids drawn so far (each one is fresh)
  \* History.
  calls        \* calls[a]: how often the worker model was run for a

durable == <<configured, roster, assigned, runtime, execs, leases>>
memory == <<phase, stop, wake, session, identity, claim, outcome, drawn>>
vars == <<durable, memory, calls>>

-----------------------------------------------------------------------------
(* An assignment id is a hash of the worker, the task and its version; the *)
(* versions of one worker never repeat, so the pair identifies it.         *)
Assignments == Workers \X (1..MaxTaskVersion)

NonTerminal == {"claimed", "planned"}
Terminal == {"completed", "failed", "interrupted"}
Statuses == {"none"} \cup NonTerminal \cup Terminal

Reasons == {"none", "UNCLEAN_SHUTDOWN", "OPERATOR_SIGNAL", "CONTROLLER_FAILED"}
Outcomes == {"none", "submitted", "failed", "cancelled", "OPERATOR_SIGNAL",
             "CONTROLLER_FAILED"}

NoExecution == [status |-> "none", session |-> 0, version |-> 0, id |-> 0]
NoClaim == [worker |-> 0, task |-> 0, version |-> 0, id |-> 0]

Active(a) == execs[a].status \in NonTerminal

ServePhases == {"serve"}
StartPhases == {"boot", "recover", "interrupt", "preflight"}
WaitPhases == {"loop", "idle"}
TaskPhases == {"plan", "open", "document", "work", "close"}
LivePhases == WaitPhases \cup TaskPhases \cup {"finalize"}
Phases == {"down"} \cup ServePhases \cup StartPhases \cup LivePhases

(* A control request is served at an await of the owning process.  The     *)
(* recovery of a starting controller has none.                             *)
Serving == phase \notin {"down", "recover", "interrupt"}

Init ==
  /\ configured = 0
  /\ roster = {}
  /\ assigned = [w \in Workers |-> 0]
  /\ runtime = [status |-> "none", session |-> 0, version |-> 0, reason |-> "none"]
  /\ execs = [a \in Assignments |-> NoExecution]
  /\ leases = {}
  /\ phase = "down"
  /\ stop = FALSE
  /\ wake = FALSE
  /\ session = 0
  /\ identity = 0
  /\ claim = NoClaim
  /\ outcome = "none"
  /\ drawn = 0
  /\ calls = [a \in Assignments |-> 0]

-----------------------------------------------------------------------------
(* Control operations.  The commit of each is followed, in the same        *)
(* request, by control_committed, which sets the supervisor's wake event.  *)

\* Mutant: the commit is not followed by control_committed.
ControlNotCommitted == UNCHANGED wake

ControlCommitted == wake' = (phase # "serve")

ConfigureController ==
  /\ Serving
  /\ configured < MaxControllerVersion
  /\ configured' = configured + 1
  /\ ControlCommitted
  /\ UNCHANGED <<roster, assigned, runtime, execs, leases, phase, stop, session,
                 identity, claim, outcome, drawn, calls>>

RegisterWorker(w) ==
  /\ Serving
  /\ w \notin roster
  /\ roster' = roster \cup {w}
  /\ ControlCommitted
  /\ UNCHANGED <<configured, assigned, runtime, execs, leases, phase, stop, session,
                 identity, claim, outcome, drawn, calls>>

AssignTask(w) ==
  /\ Serving
  /\ configured # 0
  /\ w \in roster
  /\ assigned[w] < MaxTaskVersion
  /\ assigned' = [assigned EXCEPT ![w] = @ + 1]
  /\ ControlCommitted
  /\ UNCHANGED <<configured, roster, runtime, execs, leases, phase, stop, session,
                 identity, claim, outcome, drawn, calls>>

-----------------------------------------------------------------------------
(* Processes.  "aizim state serve" only answers requests.  The owner of    *)
(* the state process record is the only one (state_process.py).            *)

StartServe ==
  /\ phase = "down"
  /\ phase' = "serve"
  /\ UNCHANGED <<durable, stop, wake, session, identity, claim, outcome, drawn, calls>>

StopServe ==
  /\ phase = "serve"
  /\ phase' = "down"
  /\ UNCHANGED <<durable, stop, wake, session, identity, claim, outcome, drawn, calls>>

\* A new ControllerSupervisor with a fresh session id, its state service started.
StartProcess ==
  /\ phase = "down"
  /\ session < MaxSessions
  /\ session' = session + 1
  /\ phase' = "boot"
  /\ UNCHANGED <<durable, stop, wake, identity, claim, outcome, drawn, calls>>

\* What is left of a process that is gone.
ProcessGone ==
  /\ phase' = "down"
  /\ stop' = FALSE
  /\ wake' = FALSE
  /\ identity' = 0
  /\ claim' = NoClaim
  /\ outcome' = "none"
  /\ UNCHANGED <<session, drawn>>

Crash ==
  /\ phase # "down"
  /\ ProcessGone
  /\ UNCHANGED <<durable, calls>>

\* SIGINT or SIGTERM.  An active task is cancelled: see the ~stop guards.
RequestStop ==
  /\ phase \in StartPhases \cup LivePhases
  /\ ~stop
  /\ stop' = TRUE
  /\ wake' = TRUE
  /\ UNCHANGED <<durable, phase, session, identity, claim, outcome, drawn, calls>>

-----------------------------------------------------------------------------
(* Startup.                                                                *)

\* DocumentBroker.recover ends every lease a dead process left behind.
RecoverDocuments ==
  /\ phase = "boot"
  /\ leases' = {}
  /\ phase' = "recover"
  /\ UNCHANGED <<configured, roster, assigned, runtime, execs, stop, wake, session,
                 identity, claim, outcome, drawn, calls>>

RecoverUncleanController ==
  /\ phase = "recover"
  /\ runtime' = IF runtime.status = "running"
                THEN [runtime EXCEPT !.status = "crashed", !.reason = "UNCLEAN_SHUTDOWN"]
                ELSE runtime
  /\ phase' = "interrupt"
  /\ UNCHANGED <<configured, roster, assigned, execs, leases, stop, wake, session,
                 identity, claim, outcome, drawn, calls>>

\* One transaction of interrupt_nonterminal_executions.
InterruptNonterminal(a) ==
  /\ phase = "interrupt"
  /\ Active(a)
  /\ execs' = [execs EXCEPT ![a].status = "interrupted"]
  /\ UNCHANGED <<configured, roster, assigned, runtime, leases, memory, calls>>

\* The startup goes on once no execution is left to interrupt.
NoneLeft == \A a \in Assignments : ~Active(a)

\* Mutant: the startup does not interrupt what a dead process left.
ReadConfigurationAtOnce ==
  /\ phase = "interrupt"
  /\ configured # 0
  /\ identity' = configured
  /\ phase' = "preflight"
  /\ UNCHANGED <<durable, stop, wake, session, claim, outcome, drawn, calls>>

ReadConfiguration ==
  /\ phase = "interrupt"
  /\ NoneLeft
  /\ configured # 0
  /\ identity' = configured
  /\ phase' = "preflight"
  /\ UNCHANGED <<durable, stop, wake, session, claim, outcome, drawn, calls>>

\* No configuration, no usable runtime, a failed preflight or a stale
\* configuration: the process ends before ControllerStarted is recorded.
AbortStartup ==
  /\ \/ phase = "boot"
     \/ phase = "interrupt" /\ NoneLeft
     \/ phase = "preflight"
  /\ ProcessGone
  /\ UNCHANGED <<durable, calls>>

StartController ==
  /\ phase = "preflight"
  /\ configured = identity
  /\ runtime.status # "running"
  /\ runtime' = [status |-> "running", session |-> session, version |-> identity,
                 reason |-> "none"]
  /\ phase' = "loop"
  /\ UNCHANGED <<configured, roster, assigned, execs, leases, stop, wake, session,
                 identity, claim, outcome, drawn, calls>>

-----------------------------------------------------------------------------
(* The loop: clear the wake event, then claim the first pending            *)
(* assignment in worker order or wait.                                     *)

Current(w) == <<w, assigned[w]>>

\* Mutant: an interrupted assignment is executed again.
PendingAgain ==
  {w \in roster : assigned[w] # 0 /\ execs[Current(w)].status \in {"none", "interrupted"}}

Pending == {w \in roster : assigned[w] # 0 /\ execs[Current(w)].status = "none"}

First(w) == w \in Pending /\ \A v \in Pending : w <= v

\* The checks of claim_assignment that prepare_next has not already made.
Claimable(w) ==
  /\ runtime.status = "running"
  /\ runtime.session = session
  /\ runtime.version = identity
  /\ \A a \in Assignments : a[1] = w => ~Active(a)
  /\ w \notin leases

Claim(w) ==
  /\ phase = "loop"
  /\ ~stop
  /\ configured = identity
  /\ First(w)
  /\ Claimable(w)
  /\ wake' = FALSE
  /\ drawn' = drawn + 1
  /\ execs' = [execs EXCEPT ![Current(w)] =
                 [status |-> "claimed", session |-> session, version |-> identity,
                  id |-> drawn + 1]]
  /\ claim' = [worker |-> w, task |-> assigned[w], version |-> identity, id |-> drawn + 1]
  /\ phase' = "plan"
  /\ UNCHANGED <<configured, roster, assigned, runtime, leases, stop, session, identity,
                 outcome, calls>>

\* prepare_next raises and the exception ends the supervisor.
ScanRaises ==
  /\ phase = "loop"
  /\ ~stop
  /\ \/ configured # identity
     \/ \E w \in roster : First(w) /\ ~Claimable(w)
  /\ wake' = FALSE
  /\ outcome' = "CONTROLLER_FAILED"
  /\ phase' = "finalize"
  /\ UNCHANGED <<durable, stop, session, identity, claim, drawn, calls>>

Wait ==
  /\ phase = "loop"
  /\ ~stop
  /\ configured = identity
  /\ Pending = {}
  /\ wake' = FALSE
  /\ phase' = "idle"
  /\ UNCHANGED <<durable, stop, session, identity, claim, outcome, drawn, calls>>

WakeUp ==
  /\ phase = "idle"
  /\ wake
  /\ phase' = "loop"
  /\ UNCHANGED <<durable, stop, wake, session, identity, claim, outcome, drawn, calls>>

LeaveLoop ==
  /\ phase = "loop"
  /\ stop
  /\ outcome' = "OPERATOR_SIGNAL"
  /\ phase' = "finalize"
  /\ UNCHANGED <<durable, stop, wake, session, identity, claim, drawn, calls>>

\* record_controller_stop; the projection only accepts it from the running session.
FinalizeController ==
  /\ phase = "finalize"
  /\ runtime' = IF runtime.status = "running" /\ runtime.session = session
                THEN [runtime EXCEPT !.status = "stopped", !.reason = outcome]
                ELSE runtime
  /\ ProcessGone
  /\ UNCHANGED <<configured, roster, assigned, execs, leases, calls>>

-----------------------------------------------------------------------------
(* Planning and executing the claimed assignment.                          *)

Claimed == <<claim.worker, claim.task>>

\* _validate_claim: the claim is still the latest assignment of its worker,
\* the configuration has not changed and this session is the running one.
ValidClaim(allowed) ==
  /\ assigned[claim.worker] = claim.task
  /\ execs[Claimed].id = claim.id
  /\ configured = claim.version
  /\ runtime.status = "running"
  /\ execs[Claimed].session = runtime.session
  /\ execs[Claimed].version = configured
  /\ runtime.version = configured
  /\ execs[Claimed].status \in allowed

\* plan_and_execute ends by recording a terminal status; when the claim is
\* no longer valid the error escapes it and ends the supervisor.
Settle(status, allowed) ==
  /\ claim' = NoClaim
  /\ \/ /\ ValidClaim(allowed)
        /\ execs' = [execs EXCEPT ![Claimed].status = status]
        /\ outcome' = "none"
        /\ phase' = "loop"
     \/ /\ ~ValidClaim(allowed)
        /\ outcome' = "CONTROLLER_FAILED"
        /\ phase' = "finalize"
        /\ UNCHANGED execs

\* Blocked, rejected, timed out, malformed or out-of-bounds decision,
\* unsupported role, no formal target.
DecisionFails ==
  /\ phase = "plan"
  /\ ~stop
  /\ Settle("failed", NonTerminal)
  /\ UNCHANGED <<configured, roster, assigned, runtime, leases, stop, wake, session,
                 identity, drawn, calls>>

\* An exception no handler of plan_and_execute names, such as a failed
\* write of the directive artifact.
DecisionRaises ==
  /\ phase = "plan"
  /\ ~stop
  /\ claim' = NoClaim
  /\ outcome' = "CONTROLLER_FAILED"
  /\ phase' = "finalize"
  /\ UNCHANGED <<durable, stop, wake, session, identity, drawn, calls>>

RecordDispatchPlanned ==
  /\ phase = "plan"
  /\ ~stop
  /\ \/ /\ ValidClaim({"claimed"})
        /\ execs' = [execs EXCEPT ![Claimed].status = "planned"]
        /\ phase' = "open"
        /\ UNCHANGED <<claim, outcome>>
     \/ /\ ~ValidClaim({"claimed"})
        /\ claim' = NoClaim
        /\ outcome' = "CONTROLLER_FAILED"
        /\ phase' = "finalize"
        /\ UNCHANGED execs
  /\ UNCHANGED <<configured, roster, assigned, runtime, leases, stop, wake, session,
                 identity, drawn, calls>>

\* Mutant: a cancellation while the host opens is not handled.
CancelPlanOnly ==
  /\ phase = "plan"
  /\ stop
  /\ Settle("interrupted", NonTerminal)
  /\ UNCHANGED <<configured, roster, assigned, runtime, leases, stop, wake, session,
                 identity, drawn, calls>>

\* CancelledError at the planning await or while the host opens.
CancelBeforeRun ==
  /\ phase \in {"plan", "open"}
  /\ stop
  /\ Settle("interrupted", NonTerminal)
  /\ UNCHANGED <<configured, roster, assigned, runtime, leases, stop, wake, session,
                 identity, drawn, calls>>

\* Mutant: the host's broker keeps the leases it finds.
OpenHostUnrecovered ==
  /\ phase = "open"
  /\ ~stop
  /\ phase' = "document"
  /\ UNCHANGED <<durable, stop, wake, session, identity, claim, outcome, drawn, calls>>

\* WorkerExecutionHost.open recovers documents with a broker of its own.
OpenHost ==
  /\ phase = "open"
  /\ ~stop
  /\ leases' = {}
  /\ phase' = "document"
  /\ UNCHANGED <<configured, roster, assigned, runtime, execs, stop, wake, session,
                 identity, claim, outcome, drawn, calls>>

OpenHostFails ==
  /\ phase = "open"
  /\ ~stop
  /\ Settle("failed", NonTerminal)
  /\ UNCHANGED <<configured, roster, assigned, runtime, leases, stop, wake, session,
                 identity, drawn, calls>>

\* WorkerRunner.run: the document and its lease, then the worker model.
RunWorker ==
  /\ phase = "document"
  /\ ~stop
  /\ leases' = leases \cup {claim.worker}
  /\ calls' = [calls EXCEPT ![Claimed] = @ + 1]
  /\ phase' = "work"
  /\ UNCHANGED <<configured, roster, assigned, runtime, execs, stop, wake, session,
                 identity, claim, outcome, drawn>>

\* No document, or an error between the grant and the try block that
\* releases the lease; or the cancellation of a task that has not begun.
RunWorkerFails ==
  /\ phase = "document"
  /\ leases' \in IF stop THEN {leases} ELSE {leases, leases \cup {claim.worker}}
  /\ outcome' = IF stop THEN "cancelled" ELSE "failed"
  /\ phase' = "close"
  /\ UNCHANGED <<configured, roster, assigned, runtime, execs, stop, wake, session,
                 identity, claim, drawn, calls>>

\* The worker model returns, fails, times out or is cancelled, and the
\* lease is released.  A failing release loses a submission and the lease
\* stays active.
WorkerEnds ==
  /\ phase = "work"
  /\ \/ /\ leases' = leases \ {claim.worker}
        /\ outcome' \in IF stop THEN {"cancelled"} ELSE {"submitted", "failed"}
     \/ /\ leases' = leases
        /\ outcome' = IF stop THEN "cancelled" ELSE "failed"
  /\ phase' = "close"
  /\ UNCHANGED <<configured, roster, assigned, runtime, execs, stop, wake, session,
                 identity, claim, drawn, calls>>

\* WorkerExecutionHost.aclose, then the terminal record.  A cancellation
\* that arrives during a clean close interrupts a submitted task.
CompleteAssignment ==
  /\ phase = "close"
  /\ outcome = "submitted"
  /\ ~stop
  /\ Settle("completed", {"planned"})
  /\ UNCHANGED <<configured, roster, assigned, runtime, leases, stop, wake, session,
                 identity, drawn, calls>>

FailAssignment ==
  /\ phase = "close"
  /\ outcome \in {"submitted", "failed"}
  /\ Settle("failed", NonTerminal)
  /\ UNCHANGED <<configured, roster, assigned, runtime, leases, stop, wake, session,
                 identity, drawn, calls>>

InterruptAssignment ==
  /\ phase = "close"
  /\ \/ outcome = "cancelled"
     \/ outcome = "submitted" /\ stop
  /\ Settle("interrupted", NonTerminal)
  /\ UNCHANGED <<configured, roster, assigned, runtime, leases, stop, wake, session,
                 identity, drawn, calls>>

-----------------------------------------------------------------------------
Operator ==
  \/ ConfigureController
  \/ \E w \in Workers : RegisterWorker(w) \/ AssignTask(w)
  \/ StartServe \/ StopServe \/ StartProcess \/ RequestStop

Startup ==
  \/ RecoverDocuments \/ RecoverUncleanController
  \/ \E a \in Assignments : InterruptNonterminal(a)
  \/ ReadConfiguration \/ StartController \/ AbortStartup

Loop ==
  \/ \E w \in Workers : Claim(w)
  \/ ScanRaises \/ Wait \/ WakeUp \/ LeaveLoop \/ FinalizeController

Task ==
  \/ DecisionFails \/ DecisionRaises \/ RecordDispatchPlanned \/ CancelBeforeRun
  \/ OpenHost \/ OpenHostFails \/ RunWorker \/ RunWorkerFails \/ WorkerEnds
  \/ CompleteAssignment \/ FailAssignment \/ InterruptAssignment

Controller == Startup \/ Loop \/ Task

Next == Operator \/ Controller \/ Crash

Spec == Init /\ [][Next]_vars

(* A live process keeps running: every await of the startup, the loop and  *)
(* the task is bounded by a timeout or is the wake event.                  *)
FairSpec == Spec /\ WF_vars(Controller)

-----------------------------------------------------------------------------
(* Properties.                                                             *)

\* Every variable has the type of the projection or field it stands for.
TypeOK ==
  /\ configured \in Nat
  /\ roster \subseteq Workers
  /\ assigned \in [Workers -> 0..MaxTaskVersion]
  /\ runtime \in [status : {"none", "running", "stopped", "crashed"}, session : Nat,
                  version : Nat, reason : Reasons]
  /\ execs \in [Assignments -> [status : Statuses, session : Nat, version : Nat, id : Nat]]
  /\ leases \subseteq Workers
  /\ phase \in Phases
  /\ stop \in BOOLEAN
  /\ wake \in BOOLEAN
  /\ session \in Nat
  /\ identity \in Nat
  /\ claim \in [worker : Nat, task : Nat, version : Nat, id : Nat]
  /\ outcome \in Outcomes
  /\ drawn \in Nat
  /\ calls \in [Assignments -> Nat]

\* At most one execution in the whole store is claimed or planned, through
\* every crash, restart, reassignment and reconfiguration; it is the one in
\* flight, or nobody scans for work until a startup has interrupted it.
OneActiveExecution ==
  /\ \A a, b \in Assignments : Active(a) /\ Active(b) => a = b
  /\ phase \in {"preflight"} \cup WaitPhases => NoneLeft
  /\ phase \in TaskPhases => Claimed \in Assignments /\ Active(Claimed)

\* A lease leaked by a failed release or a crash never coexists with the
\* lease of another worker: the claim or the next host's recovery comes first.
OneLease == \A v, w \in leases : v = w

\* A controller that reports OPERATOR_SIGNAL as the reason of its stop has
\* settled every execution, and they stay settled until the next start.
SignalledStopSettled ==
  runtime.status = "stopped" /\ runtime.reason = "OPERATOR_SIGNAL" => NoneLeft

\* A completed assignment has had its one worker call, and an assignment
\* that was never planned has had none, whatever happened in between.
CallsMatchStatus ==
  \A a \in Assignments :
    /\ execs[a].status = "completed" => calls[a] = 1
    /\ execs[a].status \in {"none", "claimed"} => calls[a] = 0

\* The projection the README describes: each durable assignment is executed
\* at most once, one at a time, and a terminal one never again.
LedgerState(a) ==
  CASE execs[a].status = "none" -> "open"
    [] Active(a) -> "active"
    [] OTHER -> "done"

Ledger == INSTANCE TaskLedger WITH
  Tasks <- Assignments,
  ledger <- [a \in Assignments |-> LedgerState(a)]

LedgerSpec == Ledger!Spec

-----------------------------------------------------------------------------
(* The inductive strengthening: which session the projection names, where  *)
(* the execution in flight stands, and what a finished loop leaves behind. *)

RuntimeInv ==
  /\ phase \in LivePhases => /\ runtime.status = "running"
                             /\ runtime.session = session
                             /\ runtime.version = identity
  /\ phase \in {"interrupt", "preflight"} => runtime.status # "running"
  /\ phase = "finalize" => outcome \in {"OPERATOR_SIGNAL", "CONTROLLER_FAILED"}
  /\ phase = "finalize" /\ outcome = "OPERATOR_SIGNAL" => NoneLeft

TaskInv ==
  /\ phase = "plan" => execs[Claimed].status = "claimed"
  /\ phase \in TaskPhases \ {"plan"} => execs[Claimed].status = "planned"
  /\ phase \in {"open", "document"} => calls[Claimed] = 0
  /\ phase = "work" => calls[Claimed] = 1
  /\ phase = "close" /\ outcome = "submitted" => calls[Claimed] = 1

LeaseInv ==
  /\ phase = "document" => leases = {}
  /\ phase = "work" => leases = {claim.worker}

\* Everything above, as one inductive invariant of the controller.
IInv ==
  /\ TypeOK
  /\ OneActiveExecution
  /\ RuntimeInv
  /\ TaskInv
  /\ LeaseInv
  /\ OneLease
  /\ SignalledStopSettled
  /\ CallsMatchStatus

-----------------------------------------------------------------------------
\* The design document's claim about cancellation: when a signal cancels the
\* task in flight, its execution is interrupted before the controller stops.
CancellationRecorded ==
  [][stop /\ phase \in TaskPhases /\ phase' \in {"loop", "finalize"} => NoneLeft']_vars

\* While the controller loops, a pending assignment is taken up unless the
\* controller leaves the loop: no wake-up is lost.
PendingIsTaken ==
  \A w \in Workers :
    (phase \in WaitPhases /\ w \in Pending)
      ~> (w \notin Pending \/ phase \in {"finalize", "down"})

\* A signal ends the process, whatever it was doing.
StopEndsProcess == stop ~> phase = "down"

\* An execution the live controller has claimed gets a terminal status or
\* the controller ends.
ActiveSettles ==
  \A a \in Assignments :
    (phase \in TaskPhases /\ Active(a)) ~> (~Active(a) \/ phase = "down")

\* A signal and a claim both come to an end.
ControllerSettles == StopEndsProcess /\ ActiveSettles
=============================================================================
