---------------------- MODULE ControllerExecutionProofs ----------------------
(***************************************************************************)
(* The safety theorems of ControllerExecution, for every set of workers    *)
(* and every bound.  One inductive invariant, IInv, carries them; it is    *)
(* shown to be preserved group of actions by group of actions.             *)
(***************************************************************************)
EXTENDS ControllerExecution, TLAPS

\* The initial state satisfies the invariant.
LEMMA InitIInv == Init => IInv
<1> SUFFICES ASSUME Init PROVE IInv
  OBVIOUS
<1>1. TypeOK
  <2>1. assigned \in [Workers -> 0..MaxTaskVersion]
    BY BoundsAssumption DEF Init
  <2>2. runtime \in [status : {"none", "running", "stopped", "crashed"}, session : Nat,
                    version : Nat, reason : Reasons]
    BY DEF Init, Reasons
  <2>3. NoExecution \in [status : Statuses, session : Nat, version : Nat, id : Nat]
    BY DEF NoExecution, Statuses
  <2>4. execs \in [Assignments -> [status : Statuses, session : Nat, version : Nat, id : Nat]]
    BY <2>3 DEF Init
  <2>5. claim \in [worker : Nat, task : Nat, version : Nat, id : Nat]
    BY DEF Init, NoClaim
  <2>6. phase \in Phases /\ outcome \in Outcomes
    BY DEF Init, Phases, Outcomes
  <2>7. stop \in BOOLEAN /\ wake \in BOOLEAN
    BY DEF Init
  <2>8. calls \in [Assignments -> Nat]
    BY DEF Init
  <2>9. configured \in Nat /\ session \in Nat /\ identity \in Nat /\ drawn \in Nat
    BY DEF Init
  <2>10. roster \subseteq Workers /\ leases \subseteq Workers
    BY DEF Init
  <2>11. QED
    BY <2>1, <2>2, <2>4, <2>5, <2>6, <2>7, <2>8, <2>9, <2>10 DEF TypeOK
<1>2. \A a \in Assignments : ~Active(a) /\ execs[a].status = "none" /\ calls[a] = 0
  BY DEF Init, NoExecution, Active, NonTerminal
<1>3. QED
  BY <1>1, <1>2 DEF Init, IInv, OneActiveExecution, RuntimeInv, TaskInv, LeaseInv,
     OneLease, SignalledStopSettled, CallsMatchStatus, NoneLeft,
     LivePhases, WaitPhases, TaskPhases

-----------------------------------------------------------------------------
(* Frames: steps that touch neither the executions, the calls, the leases  *)
(* nor the runtime record.                                                 *)

\* A control request or a signal, served while the process stays where it is.
LEMMA SamePhase ==
  ASSUME IInv, TypeOK', phase' = phase,
         UNCHANGED <<runtime, execs, leases, session, identity, claim, outcome, calls>>
  PROVE  IInv'
BY DEF IInv, OneActiveExecution, RuntimeInv, TaskInv, LeaseInv, OneLease,
       SignalledStopSettled, CallsMatchStatus, NoneLeft, Active, Claimed

\* A process ends, or one that has yet to recover begins.
LEMMA OutsidePhase ==
  ASSUME IInv, TypeOK', phase' \in {"down", "serve", "boot"},
         UNCHANGED <<runtime, execs, leases, calls>>
  PROVE  IInv'
BY DEF IInv, OneActiveExecution, RuntimeInv, TaskInv, LeaseInv, OneLease,
       SignalledStopSettled, CallsMatchStatus, NoneLeft, Active, Claimed,
       LivePhases, WaitPhases, TaskPhases

\* The phases a step may name are phases.
LEMMA PhaseTypes ==
  {"down", "serve", "boot", "recover", "interrupt", "preflight", "loop", "idle",
   "plan", "open", "document", "work", "close", "finalize"} = Phases
BY DEF Phases, LivePhases, WaitPhases, TaskPhases, StartPhases, ServePhases

\* Operator requests, process starts and crashes preserve the invariant.
LEMMA OperatorStep == ASSUME IInv, Operator \/ Crash PROVE IInv'
<1> USE PhaseTypes DEF durable, memory
<1>1. CASE ConfigureController
  BY <1>1, SamePhase DEF IInv, TypeOK, ConfigureController, ControlCommitted
<1>2. ASSUME NEW w \in Workers, RegisterWorker(w) PROVE IInv'
  BY <1>2, SamePhase DEF IInv, TypeOK, RegisterWorker, ControlCommitted
<1>3. ASSUME NEW w \in Workers, AssignTask(w) PROVE IInv'
  <2>1. assigned' \in [Workers -> 0..MaxTaskVersion]
    BY <1>3, BoundsAssumption DEF IInv, TypeOK, AssignTask
  <2>2. QED
    BY <1>3, <2>1, SamePhase DEF IInv, TypeOK, AssignTask, ControlCommitted
<1>4. CASE StartServe
  BY <1>4, OutsidePhase DEF IInv, TypeOK, StartServe
<1>5. CASE StopServe
  BY <1>5, OutsidePhase DEF IInv, TypeOK, StopServe
<1>6. CASE StartProcess
  BY <1>6, OutsidePhase DEF IInv, TypeOK, StartProcess
<1>7. CASE RequestStop
  BY <1>7, SamePhase DEF IInv, TypeOK, RequestStop
<1>8. CASE Crash
  BY <1>8, OutsidePhase DEF IInv, TypeOK, Crash, ProcessGone, NoClaim, Outcomes
<1>9. QED
  BY <1>1, <1>2, <1>3, <1>4, <1>5, <1>6, <1>7, <1>8 DEF Operator

-----------------------------------------------------------------------------
\* A change of one execution's status leaves every other one as it is.
LEMMA StatusUpdate ==
  ASSUME TypeOK, NEW c \in Assignments, NEW s \in Statuses,
         execs' = [execs EXCEPT ![c].status = s]
  PROVE  /\ execs' \in [Assignments -> [status : Statuses, session : Nat, version : Nat, id : Nat]]
         /\ execs'[c].status = s
         /\ execs'[c].id = execs[c].id
         /\ \A a \in Assignments : a # c => execs'[a] = execs[a]
BY DEF TypeOK

\* Startup: leases are recovered, the dead session is recorded as crashed
\* and leftover executions are interrupted before the loop is entered.
LEMMA StartupStep == ASSUME IInv, Startup PROVE IInv'
<1> USE PhaseTypes DEF durable, memory
<1>1. CASE RecoverDocuments
  <2>1. TypeOK'
    BY <1>1 DEF IInv, TypeOK, RecoverDocuments
  <2>2. QED
    BY <1>1, <2>1 DEF RecoverDocuments, IInv, OneActiveExecution, RuntimeInv, TaskInv,
       LeaseInv, OneLease, SignalledStopSettled, CallsMatchStatus, NoneLeft, Active,
       LivePhases, WaitPhases, TaskPhases
<1>2. CASE RecoverUncleanController
  <2>1. TypeOK'
    BY <1>2 DEF IInv, TypeOK, RecoverUncleanController, Reasons
  <2>2. RuntimeInv' /\ SignalledStopSettled'
    BY <1>2 DEF RecoverUncleanController, IInv, TypeOK, RuntimeInv, SignalledStopSettled,
       NoneLeft, Active, LivePhases, WaitPhases, TaskPhases
  <2>3. QED
    BY <1>2, <2>1, <2>2 DEF RecoverUncleanController, IInv, OneActiveExecution, TaskInv,
       LeaseInv, OneLease, CallsMatchStatus, NoneLeft, Active, WaitPhases, TaskPhases
<1>3. ASSUME NEW a \in Assignments, InterruptNonterminal(a) PROVE IInv'
  <2>1. /\ execs' \in [Assignments -> [status : Statuses, session : Nat, version : Nat, id : Nat]]
        /\ execs'[a].status = "interrupted"
        /\ \A b \in Assignments : b # a => execs'[b] = execs[b]
    BY <1>3, StatusUpdate DEF InterruptNonterminal, IInv, Statuses, Terminal
  <2>2. TypeOK'
    BY <1>3, <2>1 DEF IInv, TypeOK, InterruptNonterminal
  <2>3. \A b \in Assignments : Active(b)' => Active(b)
    BY <2>1 DEF Active, NonTerminal
  <2>4. OneActiveExecution' /\ SignalledStopSettled'
    BY <1>3, <2>3 DEF InterruptNonterminal, IInv, OneActiveExecution, SignalledStopSettled,
       NoneLeft, WaitPhases, TaskPhases
  <2>5. RuntimeInv' /\ TaskInv' /\ LeaseInv' /\ OneLease'
    BY <1>3 DEF InterruptNonterminal, IInv, RuntimeInv, TaskInv, LeaseInv, OneLease,
       LivePhases, WaitPhases, TaskPhases
  <2>6. CallsMatchStatus'
    BY <1>3, <2>1 DEF InterruptNonterminal, IInv, CallsMatchStatus
  <2>7. QED
    BY <2>2, <2>4, <2>5, <2>6 DEF IInv
<1>4. CASE ReadConfiguration
  <2>1. TypeOK'
    BY <1>4 DEF IInv, TypeOK, ReadConfiguration
  <2>2. QED
    BY <1>4, <2>1 DEF ReadConfiguration, IInv, OneActiveExecution, RuntimeInv, TaskInv,
       LeaseInv, OneLease, SignalledStopSettled, CallsMatchStatus, NoneLeft, Active,
       LivePhases, WaitPhases, TaskPhases
<1>5. CASE StartController
  <2>1. TypeOK'
    BY <1>5 DEF IInv, TypeOK, StartController, Reasons
  <2>2. RuntimeInv' /\ SignalledStopSettled'
    BY <1>5 DEF StartController, RuntimeInv, SignalledStopSettled
  <2>3. QED
    BY <1>5, <2>1, <2>2 DEF StartController, IInv, OneActiveExecution, TaskInv, LeaseInv,
       OneLease, CallsMatchStatus, NoneLeft, Active, WaitPhases, TaskPhases
<1>6. CASE AbortStartup
  BY <1>6, OutsidePhase DEF IInv, TypeOK, AbortStartup, ProcessGone, NoClaim, Outcomes
<1>7. QED
  BY <1>1, <1>2, <1>3, <1>4, <1>5, <1>6 DEF Startup

-----------------------------------------------------------------------------
\* The loop: a claim is made only when nothing is active, and the loop is
\* only left for a clean stop when nothing is active.
LEMMA LoopStep == ASSUME IInv, Loop PROVE IInv'
<1> USE PhaseTypes DEF durable, memory
<1>1. ASSUME NEW w \in Workers, Claim(w) PROVE IInv'
  <2> DEFINE c == <<w, assigned[w]>>
             e == [status |-> "claimed", session |-> session, version |-> identity,
                   id |-> drawn + 1]
  <2>1. c \in Assignments /\ execs[c].status = "none"
    BY <1>1, BoundsAssumption DEF Claim, First, Pending, Current, Assignments, IInv, TypeOK
  <2>2. e \in [status : Statuses, session : Nat, version : Nat, id : Nat]
    BY DEF IInv, TypeOK, Statuses, NonTerminal
  <2>3. execs' = [execs EXCEPT ![c] = e]
    BY <1>1 DEF Claim, Current
  <2>4. /\ execs' \in [Assignments -> [status : Statuses, session : Nat, version : Nat, id : Nat]]
        /\ execs'[c] = e
        /\ \A b \in Assignments : b # c => execs'[b] = execs[b]
    BY <2>1, <2>2, <2>3 DEF IInv, TypeOK
  <2>5. /\ claim' = [worker |-> w, task |-> assigned[w], version |-> identity,
                     id |-> drawn + 1]
        /\ Claimed' = c
    BY <1>1 DEF Claim, Claimed
  <2>6. TypeOK'
    <3>1. claim' \in [worker : Nat, task : Nat, version : Nat, id : Nat]
      BY <2>5, WorkersAssumption, BoundsAssumption DEF IInv, TypeOK
    <3>2. drawn' \in Nat
      BY <1>1 DEF Claim, IInv, TypeOK
    <3>3. phase' \in Phases /\ wake' \in BOOLEAN
      BY <1>1 DEF Claim
    <3>4. UNCHANGED <<configured, roster, assigned, runtime, leases, stop, session, identity,
                      outcome, calls>>
      BY <1>1 DEF Claim
    <3>5. QED
      BY <2>4, <3>1, <3>2, <3>3, <3>4 DEF IInv, TypeOK
  <2>7. \A b \in Assignments : Active(b)' <=> b = c
    BY <1>1, <2>4 DEF Claim, IInv, OneActiveExecution, NoneLeft, Active, WaitPhases,
       NonTerminal
  <2>8. OneActiveExecution'
    BY <1>1, <2>1, <2>5, <2>7 DEF Claim, OneActiveExecution, WaitPhases
  <2>9. RuntimeInv' /\ SignalledStopSettled'
    BY <1>1 DEF Claim, IInv, RuntimeInv, SignalledStopSettled, LivePhases, WaitPhases,
       TaskPhases
  <2>10. TaskInv' /\ LeaseInv' /\ OneLease'
    BY <1>1, <2>4, <2>5 DEF Claim, IInv, TaskInv, LeaseInv, OneLease, TaskPhases
  <2>11. CallsMatchStatus'
    BY <1>1, <2>1, <2>4 DEF Claim, IInv, CallsMatchStatus
  <2>12. QED
    BY <2>6, <2>8, <2>9, <2>10, <2>11 DEF IInv
<1>2. CASE ScanRaises \/ LeaveLoop
  <2>1. TypeOK'
    BY <1>2 DEF IInv, TypeOK, ScanRaises, LeaveLoop, Outcomes
  <2>2. QED
    BY <1>2, <2>1 DEF ScanRaises, LeaveLoop, IInv, OneActiveExecution, RuntimeInv, TaskInv,
       LeaseInv, OneLease, SignalledStopSettled, CallsMatchStatus, NoneLeft, Active,
       LivePhases, WaitPhases, TaskPhases
<1>3. CASE Wait \/ WakeUp
  <2>1. TypeOK'
    BY <1>3 DEF IInv, TypeOK, Wait, WakeUp
  <2>2. QED
    BY <1>3, <2>1 DEF Wait, WakeUp, IInv, OneActiveExecution, RuntimeInv, TaskInv,
       LeaseInv, OneLease, SignalledStopSettled, CallsMatchStatus, NoneLeft, Active,
       LivePhases, WaitPhases, TaskPhases
<1>4. CASE FinalizeController
  <2>1. runtime' = [runtime EXCEPT !.status = "stopped", !.reason = outcome]
    BY <1>4 DEF FinalizeController, IInv, RuntimeInv, LivePhases
  <2>2. outcome \in {"OPERATOR_SIGNAL", "CONTROLLER_FAILED"}
    BY <1>4 DEF FinalizeController, IInv, RuntimeInv, LivePhases
  <2>3. TypeOK'
    BY <1>4, <2>1, <2>2 DEF FinalizeController, ProcessGone, IInv, TypeOK, NoClaim, Outcomes,
       Reasons
  <2>4. SignalledStopSettled'
    BY <1>4, <2>1 DEF FinalizeController, IInv, TypeOK, RuntimeInv, SignalledStopSettled,
       NoneLeft, Active
  <2>5. QED
    BY <1>4, <2>3, <2>4 DEF FinalizeController, ProcessGone, IInv, OneActiveExecution,
       RuntimeInv, TaskInv, LeaseInv, OneLease, CallsMatchStatus, NoneLeft, Active,
       LivePhases, WaitPhases, TaskPhases
<1>5. QED
  BY <1>1, <1>2, <1>3, <1>4 DEF Loop

-----------------------------------------------------------------------------
\* plan_and_execute ends: with a terminal record when the claim is still
\* valid, by raising when it is not.
LEMMA SettleStep ==
  ASSUME IInv, phase \in TaskPhases, NEW s \in Terminal, NEW allowed,
         Settle(s, allowed),
         s = "completed" => calls[Claimed] = 1,
         UNCHANGED <<configured, roster, assigned, runtime, leases, stop, wake, session,
                     identity, drawn, calls>>
  PROVE  IInv'
<1> USE PhaseTypes
<1>1. Claimed \in Assignments /\ Active(Claimed)
  BY DEF IInv, OneActiveExecution
<1>2. claim' = NoClaim /\ claim' \in [worker : Nat, task : Nat, version : Nat, id : Nat]
  BY DEF Settle, NoClaim
<1>3. CASE ValidClaim(allowed)
  <2>1. execs' = [execs EXCEPT ![Claimed].status = s] /\ phase' = "loop" /\ outcome' = "none"
    BY <1>3 DEF Settle
  <2>2. /\ execs' \in [Assignments -> [status : Statuses, session : Nat, version : Nat, id : Nat]]
        /\ execs'[Claimed].status = s
        /\ \A b \in Assignments : b # Claimed => execs'[b] = execs[b]
    BY <1>1, <2>1, StatusUpdate DEF IInv, Statuses
  <2>3. TypeOK'
    BY <1>2, <2>1, <2>2 DEF IInv, TypeOK, Outcomes
  <2>4. NoneLeft'
    BY <1>1, <2>2 DEF IInv, OneActiveExecution, NoneLeft, Active, NonTerminal, Terminal
  <2>5. OneActiveExecution' /\ SignalledStopSettled'
    BY <2>1, <2>4 DEF OneActiveExecution, SignalledStopSettled, NoneLeft, TaskPhases
  <2>6. RuntimeInv' /\ TaskInv' /\ LeaseInv' /\ OneLease'
    BY <2>1 DEF IInv, RuntimeInv, TaskInv, LeaseInv, OneLease, LivePhases, WaitPhases,
       TaskPhases
  <2>7. CallsMatchStatus'
    BY <1>1, <2>2 DEF IInv, CallsMatchStatus, Terminal
  <2>8. QED
    BY <2>3, <2>5, <2>6, <2>7 DEF IInv
<1>4. CASE ~ValidClaim(allowed)
  <2>1. UNCHANGED execs /\ phase' = "finalize" /\ outcome' = "CONTROLLER_FAILED"
    BY <1>4 DEF Settle
  <2>2. TypeOK'
    BY <1>2, <2>1 DEF IInv, TypeOK, Outcomes
  <2>3. QED
    BY <2>1, <2>2 DEF IInv, OneActiveExecution, RuntimeInv, TaskInv, LeaseInv, OneLease,
       SignalledStopSettled, CallsMatchStatus, NoneLeft, Active, LivePhases, WaitPhases,
       TaskPhases
<1>5. QED
  BY <1>3, <1>4

\* The phases of one task, from the decision to the terminal record.
LEMMA TaskStep == ASSUME IInv, Task PROVE IInv'
<1> USE PhaseTypes DEF durable, memory
<1> "failed" \in Terminal /\ "interrupted" \in Terminal /\ "completed" \in Terminal
  BY DEF Terminal
<1>1. CASE DecisionFails \/ CancelBeforeRun \/ OpenHostFails
  BY <1>1, SettleStep DEF DecisionFails, CancelBeforeRun, OpenHostFails, TaskPhases
<1>2. CASE CompleteAssignment
  <2>1. calls[Claimed] = 1
    BY <1>2 DEF CompleteAssignment, IInv, TaskInv
  <2>2. QED
    BY <1>2, <2>1, SettleStep DEF CompleteAssignment, TaskPhases
<1>3. CASE FailAssignment \/ InterruptAssignment
  BY <1>3, SettleStep DEF FailAssignment, InterruptAssignment, TaskPhases
<1>4. CASE DecisionRaises
  <2>1. TypeOK'
    BY <1>4 DEF DecisionRaises, IInv, TypeOK, NoClaim, Outcomes
  <2>2. QED
    BY <1>4, <2>1 DEF DecisionRaises, IInv, OneActiveExecution, RuntimeInv, TaskInv,
       LeaseInv, OneLease, SignalledStopSettled, CallsMatchStatus, NoneLeft, Active,
       LivePhases, WaitPhases, TaskPhases
<1>5. CASE RecordDispatchPlanned /\ ~ValidClaim({"claimed"})
  <2>1. TypeOK'
    BY <1>5 DEF RecordDispatchPlanned, IInv, TypeOK, NoClaim, Outcomes
  <2>2. QED
    BY <1>5, <2>1 DEF RecordDispatchPlanned, IInv, OneActiveExecution, RuntimeInv, TaskInv,
       LeaseInv, OneLease, SignalledStopSettled, CallsMatchStatus, NoneLeft, Active,
       LivePhases, WaitPhases, TaskPhases
<1>6. CASE RecordDispatchPlanned /\ ValidClaim({"claimed"})
  <2>1. Claimed \in Assignments /\ Active(Claimed) /\ execs[Claimed].status = "claimed"
    BY <1>6 DEF RecordDispatchPlanned, IInv, OneActiveExecution, TaskInv, TaskPhases
  <2>2. /\ execs' \in [Assignments -> [status : Statuses, session : Nat, version : Nat, id : Nat]]
        /\ execs'[Claimed].status = "planned"
        /\ \A b \in Assignments : b # Claimed => execs'[b] = execs[b]
    BY <1>6, <2>1, StatusUpdate DEF RecordDispatchPlanned, IInv, Statuses, NonTerminal
  <2>3. UNCHANGED <<claim, outcome, runtime, session, identity, leases, calls>> /\ phase' = "open"
    BY <1>6 DEF RecordDispatchPlanned
  <2>4. TypeOK'
    BY <1>6, <2>2, <2>3 DEF RecordDispatchPlanned, IInv, TypeOK
  <2>5. Claimed' = Claimed /\ \A b \in Assignments : Active(b)' <=> Active(b)
    BY <2>1, <2>2, <2>3 DEF Active, NonTerminal, Claimed
  <2>6. OneActiveExecution' /\ SignalledStopSettled'
    BY <2>1, <2>3, <2>5 DEF IInv, OneActiveExecution, SignalledStopSettled, NoneLeft, WaitPhases
  <2>7. RuntimeInv' /\ LeaseInv' /\ OneLease'
    BY <1>6, <2>3 DEF RecordDispatchPlanned, IInv, RuntimeInv, LeaseInv, OneLease, LivePhases,
       WaitPhases, TaskPhases
  <2>8. TaskInv'
    BY <2>1, <2>2, <2>3, <2>5 DEF IInv, TaskInv, CallsMatchStatus
  <2>9. CallsMatchStatus'
    BY <2>1, <2>2, <2>3 DEF IInv, CallsMatchStatus
  <2>10. QED
    BY <2>4, <2>6, <2>7, <2>8, <2>9 DEF IInv
<1>7. CASE OpenHost
  <2>1. TypeOK'
    BY <1>7 DEF OpenHost, IInv, TypeOK
  <2>2. QED
    BY <1>7, <2>1 DEF OpenHost, IInv, OneActiveExecution, RuntimeInv, TaskInv,
       LeaseInv, OneLease, SignalledStopSettled, CallsMatchStatus, NoneLeft, Active, Claimed,
       LivePhases, WaitPhases, TaskPhases
<1>8. CASE RunWorker
  <2>1. Claimed \in Assignments /\ claim.worker \in Workers /\ calls[Claimed] = 0
    BY <1>8 DEF RunWorker, IInv, OneActiveExecution, TaskInv, TaskPhases, Claimed, Assignments
  <2>2. /\ calls' \in [Assignments -> Nat]
        /\ calls'[Claimed] = 1
        /\ \A b \in Assignments : b # Claimed => calls'[b] = calls[b]
    BY <1>8, <2>1 DEF RunWorker, IInv, TypeOK
  <2>3. leases' = {claim.worker}
    BY <1>8 DEF RunWorker, IInv, LeaseInv
  <2>4. TypeOK'
    BY <1>8, <2>1, <2>2, <2>3 DEF RunWorker, IInv, TypeOK
  <2>5. execs[Claimed].status = "planned"
    BY <1>8 DEF RunWorker, IInv, TaskInv, TaskPhases
  <2>6. OneActiveExecution' /\ SignalledStopSettled'
    BY <1>8 DEF RunWorker, IInv, OneActiveExecution, SignalledStopSettled, NoneLeft, Active,
       Claimed, WaitPhases, TaskPhases
  <2>7. RuntimeInv' /\ LeaseInv' /\ OneLease'
    BY <1>8, <2>3 DEF RunWorker, IInv, RuntimeInv, LeaseInv, OneLease, LivePhases,
       WaitPhases, TaskPhases
  <2>8. TaskInv'
    BY <1>8, <2>2, <2>5 DEF RunWorker, TaskInv, Claimed, TaskPhases
  <2>9. CallsMatchStatus'
    BY <1>8, <2>2, <2>5 DEF RunWorker, IInv, CallsMatchStatus
  <2>10. QED
    BY <2>4, <2>6, <2>7, <2>8, <2>9 DEF IInv
<1>9. CASE RunWorkerFails \/ WorkerEnds
  <2>1. Claimed \in Assignments /\ claim.worker \in Workers
    BY <1>9 DEF RunWorkerFails, WorkerEnds, IInv, OneActiveExecution, TaskPhases, Claimed,
       Assignments
  <2>2. leases \subseteq {claim.worker} /\ leases' \subseteq {claim.worker}
    BY <1>9 DEF RunWorkerFails, WorkerEnds, IInv, LeaseInv
  <2>3. outcome' \in Outcomes /\ (outcome' = "submitted" => phase = "work")
    BY <1>9 DEF RunWorkerFails, WorkerEnds, Outcomes
  <2>4. /\ UNCHANGED <<configured, roster, assigned, runtime, execs, stop, wake, session,
                       identity, claim, drawn, calls>>
        /\ phase \in {"document", "work"} /\ phase' = "close"
    BY <1>9 DEF RunWorkerFails, WorkerEnds
  <2>5. TypeOK'
    BY <2>1, <2>2, <2>3, <2>4 DEF IInv, TypeOK
  <2>6. QED
    BY <2>2, <2>3, <2>4, <2>5 DEF IInv, OneActiveExecution, RuntimeInv, TaskInv,
       LeaseInv, OneLease, SignalledStopSettled, CallsMatchStatus, NoneLeft, Active, Claimed,
       LivePhases, WaitPhases, TaskPhases
<1>10. QED
  BY <1>1, <1>2, <1>3, <1>4, <1>5, <1>6, <1>7, <1>8, <1>9 DEF Task

-----------------------------------------------------------------------------
\* IInv is an invariant of the controller, for every set of workers.
THEOREM Safety == Spec => []IInv
<1>1. Init => IInv
  BY InitIInv
<1>2. IInv /\ [Next]_vars => IInv'
  <2> SUFFICES ASSUME IInv, [Next]_vars PROVE IInv'
    OBVIOUS
  <2>1. CASE UNCHANGED vars
    <3>1. TypeOK'
      BY <2>1 DEF vars, durable, memory, IInv, TypeOK
    <3>2. QED
      BY <2>1, <3>1, SamePhase DEF vars, durable, memory
  <2>2. QED
    BY <2>1, OperatorStep, StartupStep, LoopStep, TaskStep DEF Next, Controller
<1>3. QED
  BY <1>1, <1>2, PTL DEF Spec

\* Projections, the process and its claim keep their types, through stale
\* configurations, reassignments and crashes.
THEOREM ControllerTypes == Spec => []TypeOK
<1>1. IInv => TypeOK
  BY DEF IInv
<1>2. QED
  BY <1>1, Safety, PTL

\* One execution is claimed or planned at any time in the whole store, and
\* no assignment is looked for while one is.
THEOREM OneActive == Spec => []OneActiveExecution
<1>1. IInv => OneActiveExecution
  BY DEF IInv
<1>2. QED
  BY <1>1, Safety, PTL

\* Two workers never hold a document lease at the same time.
THEOREM SingleLease == Spec => []OneLease
<1>1. IInv => OneLease
  BY DEF IInv
<1>2. QED
  BY <1>1, Safety, PTL

\* A stop recorded as OPERATOR_SIGNAL leaves no execution unsettled.
THEOREM SignalledStop == Spec => []SignalledStopSettled
<1>1. IInv => SignalledStopSettled
  BY DEF IInv
<1>2. QED
  BY <1>1, Safety, PTL

\* Worker calls agree with the recorded status of every assignment.
THEOREM CallsMatch == Spec => []CallsMatchStatus
<1>1. IInv => CallsMatchStatus
  BY DEF IInv
<1>2. QED
  BY <1>1, Safety, PTL

-----------------------------------------------------------------------------
(* The refinement: every step of the controller is a step of TaskLedger    *)
(* under the mapping of Ledger, or leaves the ledger as it is.             *)

\* The mapping reads nothing but the executions.
LEMMA LedgerFrame ==
  ASSUME \A a \in Assignments : LedgerState(a)' = LedgerState(a), UNCHANGED calls
  PROVE  [Ledger!Next]_<<[a \in Assignments |-> LedgerState(a)], calls>>
BY DEF LedgerState

\* Equal executions and calls are the same ledger.
LEMMA LedgerSame ==
  ASSUME UNCHANGED <<execs, calls>>
  PROVE  [Ledger!Next]_<<[a \in Assignments |-> LedgerState(a)], calls>>
BY LedgerFrame DEF LedgerState, Active

\* A terminal record closes an active assignment.
LEMMA LedgerFinish ==
  ASSUME TypeOK, NEW c \in Assignments, Active(c), NEW s \in Terminal,
         execs' = [execs EXCEPT ![c].status = s], UNCHANGED calls
  PROVE  Ledger!Finish(c)
<1>1. /\ execs'[c].status = s
      /\ \A a \in Assignments : a # c => execs'[a] = execs[a]
  BY StatusUpdate DEF Statuses
<1>2. LedgerState(c) = "active" /\ LedgerState(c)' = "done"
  BY <1>1 DEF LedgerState, Active, NonTerminal, Terminal
<1>3. \A a \in Assignments : a # c => LedgerState(a)' = LedgerState(a)
  BY <1>1 DEF LedgerState, Active
<1>4. QED
  BY <1>2, <1>3 DEF Ledger!Finish

\* The end of plan_and_execute closes the assignment or leaves the ledger.
LEMMA LedgerSettle ==
  ASSUME IInv, phase \in TaskPhases, NEW s \in Terminal, NEW allowed,
         Settle(s, allowed), UNCHANGED calls
  PROVE  [Ledger!Next]_<<[a \in Assignments |-> LedgerState(a)], calls>>
<1>1. Claimed \in Assignments /\ Active(Claimed)
  BY DEF IInv, OneActiveExecution
<1>2. CASE execs' = [execs EXCEPT ![Claimed].status = s]
  <2>1. Ledger!Finish(Claimed)
    BY <1>1, <1>2, LedgerFinish DEF IInv
  <2>2. QED
    BY <1>1, <2>1 DEF Ledger!Next
<1>3. CASE UNCHANGED execs
  BY <1>3, LedgerSame
<1>4. QED
  BY <1>2, <1>3 DEF Settle

\* Only the claim of an idle controller opens an assignment.
LEMMA LedgerClaim ==
  ASSUME IInv, NEW w \in Workers, Claim(w)
  PROVE  [Ledger!Next]_<<[a \in Assignments |-> LedgerState(a)], calls>>
<1>1. Current(w) \in Assignments /\ execs[Current(w)].status = "none" /\ UNCHANGED calls
  BY BoundsAssumption DEF Claim, First, Pending, Current, Assignments, IInv, TypeOK
<1> PICK c \in Assignments : c = Current(w)
  BY <1>1
<1>2. /\ execs'[c].status = "claimed"
      /\ \A a \in Assignments : a # c => execs'[a] = execs[a]
  BY <1>1 DEF Claim, IInv, TypeOK
<1>3. \A a \in Assignments : ~Active(a)
  BY DEF Claim, IInv, OneActiveExecution, NoneLeft, WaitPhases
<1>4. LedgerState(c) = "open" /\ LedgerState(c)' = "active"
  BY <1>1, <1>2 DEF LedgerState, Active, NonTerminal
<1>5. \A a \in Assignments : a # c => LedgerState(a)' = LedgerState(a)
  BY <1>2 DEF LedgerState, Active
<1>6. \A a \in Assignments : LedgerState(a) # "active"
  BY <1>3 DEF LedgerState
<1>7. Ledger!Begin(c)
  BY <1>1, <1>4, <1>5, <1>6 DEF Ledger!Begin
<1>8. QED
  BY <1>1, <1>7 DEF Ledger!Next

\* The controller implements TaskLedger: every assignment is opened, called
\* and closed at most once, one at a time.
THEOREM ImplementsLedger == Spec => LedgerSpec
<1>1. Init => Ledger!Init
  BY DEF Init, Ledger!Init, LedgerState, NoExecution, Active, NonTerminal
<1>2. IInv /\ [Next]_vars => [Ledger!Next]_<<[a \in Assignments |-> LedgerState(a)], calls>>
  <2> SUFFICES ASSUME IInv, [Next]_vars
               PROVE  [Ledger!Next]_<<[a \in Assignments |-> LedgerState(a)], calls>>
    OBVIOUS
  <2> USE DEF durable, memory
  <2> "failed" \in Terminal /\ "interrupted" \in Terminal /\ "completed" \in Terminal
    BY DEF Terminal
  <2>1. CASE UNCHANGED vars
    BY <2>1, LedgerSame DEF vars
  <2>2. CASE Operator \/ Crash
    BY <2>2, LedgerSame DEF Operator, ConfigureController, RegisterWorker, AssignTask,
       StartServe, StopServe, StartProcess, RequestStop, Crash
  <2>3. CASE Startup
    <3>1. ASSUME NEW a \in Assignments, InterruptNonterminal(a) PROVE Ledger!Finish(a)
      BY <3>1, LedgerFinish DEF InterruptNonterminal, IInv
    <3>2. CASE RecoverDocuments \/ RecoverUncleanController \/ ReadConfiguration
               \/ StartController \/ AbortStartup
      BY <3>2, LedgerSame DEF RecoverDocuments, RecoverUncleanController, ReadConfiguration,
         StartController, AbortStartup
    <3>3. QED
      BY <2>3, <3>1, <3>2 DEF Startup, Ledger!Next
  <2>4. CASE Loop
    <3>1. CASE ScanRaises \/ Wait \/ WakeUp \/ LeaveLoop \/ FinalizeController
      BY <3>1, LedgerSame DEF ScanRaises, Wait, WakeUp, LeaveLoop, FinalizeController
    <3>2. QED
      BY <2>4, <3>1, LedgerClaim DEF Loop
  <2>5. CASE Task
    <3>1. CASE DecisionFails \/ CancelBeforeRun \/ OpenHostFails
      BY <3>1, LedgerSettle DEF DecisionFails, CancelBeforeRun, OpenHostFails, TaskPhases
    <3>2. CASE CompleteAssignment \/ FailAssignment \/ InterruptAssignment
      BY <3>2, LedgerSettle DEF CompleteAssignment, FailAssignment, InterruptAssignment,
         TaskPhases
    <3>3. CASE DecisionRaises \/ OpenHost \/ RunWorkerFails \/ WorkerEnds
      BY <3>3, LedgerSame DEF DecisionRaises, OpenHost, RunWorkerFails, WorkerEnds
    <3>4. CASE RecordDispatchPlanned
      <4>1. Claimed \in Assignments /\ Active(Claimed) /\ UNCHANGED calls
        BY <3>4 DEF RecordDispatchPlanned, IInv, OneActiveExecution, TaskPhases
      <4>2. CASE execs' = [execs EXCEPT ![Claimed].status = "planned"]
        <5>1. /\ execs'[Claimed].status = "planned"
              /\ \A b \in Assignments : b # Claimed => execs'[b] = execs[b]
          BY <4>1, <4>2, StatusUpdate DEF IInv, Statuses, NonTerminal
        <5>2. \A a \in Assignments : LedgerState(a)' = LedgerState(a)
          BY <4>1, <5>1 DEF LedgerState, Active, NonTerminal
        <5>3. QED
          BY <4>1, <5>2, LedgerFrame
      <4>3. QED
        BY <3>4, <4>1, <4>2, LedgerSame DEF RecordDispatchPlanned
    <3>5. CASE RunWorker
      <4>1. Claimed \in Assignments /\ Active(Claimed) /\ calls[Claimed] = 0
        BY <3>5 DEF RunWorker, IInv, OneActiveExecution, TaskInv, TaskPhases
      <4>2. \A a \in Assignments : LedgerState(a)' = LedgerState(a)
        BY <3>5 DEF RunWorker, LedgerState, Active
      <4>3. calls' = [calls EXCEPT ![Claimed] = 1]
        BY <3>5, <4>1 DEF RunWorker
      <4>4. LedgerState(Claimed) = "active"
        BY <4>1 DEF LedgerState, Active, NonTerminal
      <4>5. Ledger!Call(Claimed)
        BY <4>1, <4>2, <4>3, <4>4 DEF Ledger!Call
      <4>6. QED
        BY <4>1, <4>5 DEF Ledger!Next
    <3>6. QED
      BY <2>5, <3>1, <3>2, <3>3, <3>4, <3>5 DEF Task
  <2>6. QED
    BY <2>1, <2>2, <2>3, <2>4, <2>5 DEF Next, Controller
<1>3. QED
  BY <1>1, <1>2, Safety, PTL DEF Spec, LedgerSpec, Ledger!Spec
=============================================================================
