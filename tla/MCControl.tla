------------------------------ MODULE MCControl ------------------------------
(* The controller with its workers' tasks, the runner of a shared run, and   *)
(* the records of the controller and its tasks in the event store.  They are *)
(* checked side by side: a behaviour is a behaviour of one component, while  *)
(* the others keep their initial states, so that the run has the sum of      *)
(* their states and not the product.                                         *)
EXTENDS ControllerExecution, SharedRun, EventStore, TLC

CONSTANTS e1, x1, x2, r1

\* Two workers whose ids are ordered, so that one is always scanned first.
MCWorkers == {1, 2}

\* The events of a controller and of a task, with two ids of sessions and of
\* executions.
MCTypes == {"ControllerStarted", "ControllerStopped", "ControllerCrashed",
            "WorkerTaskClaimed", "WorkerTaskDispatchPlanned", "WorkerTaskCompleted",
            "WorkerTaskFailed", "WorkerTaskInterrupted"}
MCEntities == {e1}
MCValues == {x1, x2}
MCRuns == {r1}
None == {}

Symmetry == Permutations(MCValues)

VARIABLE component

MCVars == <<component, vars, sharedVars, storeVars>>

MCInit ==
  /\ component \in {"controller", "shared", "store"}
  /\ Init /\ SharedInit /\ StoreInit
  /\ component # "store" => userVersion = 0

\* The other components keep their states while one of them takes a step.
Controlling == component = "controller" /\ UNCHANGED <<component, sharedVars, storeVars>>
Sharing == component = "shared" /\ UNCHANGED <<component, vars, storeVars>>
Storing == component = "store" /\ UNCHANGED <<component, vars, sharedVars>>

\* Bound: the worker that is scanned first gets two tasks, the other one a single task.
ThreeTasks(w) == w = 1 \/ assigned[w] = 0

\* Action by action, so that TLC counts each of them.  The fake backend's review is in
\* MCServices, batches of events and the tokens of the store are in MCRecords.
MCNext ==
  \/ (ConfigureController /\ Controlling) \/ (StartServe /\ Controlling)
  \/ (StopServe /\ Controlling) \/ (StartProcess /\ Controlling) \/ (RequestStop /\ Controlling)
  \/ (RecoverDocuments /\ Controlling) \/ (RecoverUncleanController /\ Controlling)
  \/ (ReadConfiguration /\ Controlling) \/ (StartController /\ Controlling)
  \/ (AbortStartup /\ Controlling) \/ (ScanRaises /\ Controlling) \/ (Wait /\ Controlling)
  \/ (WakeUp /\ Controlling) \/ (LeaveLoop /\ Controlling)
  \/ (FinalizeController /\ Controlling) \/ (DecisionFails /\ Controlling)
  \/ (DecisionRaises /\ Controlling) \/ (RecordDispatchPlanned /\ Controlling)
  \/ (CancelBeforeRun /\ Controlling) \/ (OpenHost /\ Controlling)
  \/ (OpenHostFails /\ Controlling) \/ (RunWorker /\ Controlling)
  \/ (RunWorkerFails /\ Controlling) \/ (WorkerEnds /\ Controlling)
  \/ (CompleteAssignment /\ Controlling) \/ (FailAssignment /\ Controlling)
  \/ (InterruptAssignment /\ Controlling) \/ (Crash /\ Controlling)
  \/ \E w \in Workers :
       \/ (RegisterWorker(w) /\ Controlling) \/ (Claim(w) /\ Controlling)
       \/ (AssignTask(w) /\ ThreeTasks(w) /\ Controlling)
  \/ \E i \in Assignments :
       InterruptNonterminal(i) /\ Controlling
  \/ (CreateRun /\ Sharing) \/ (SharedOpenHost /\ Sharing) \/ (StartRounds /\ Sharing)
  \/ (ConsumerFails /\ Sharing) \/ (RoundEnds /\ Sharing) \/ (SecondRoundFails /\ Sharing) \/ (SecondRoundEnds /\ Sharing)
  \/ (WaitForEpoch /\ Sharing) \/ (EpochTimesOut /\ Sharing) \/ (AbortRun /\ Sharing)
  \/ (CloseHost /\ Sharing) \/ (RecordPart /\ Sharing)
  \/ (SharedFinish /\ Sharing) \/ (GovernorRefuses /\ Sharing)
  \/ (SharedOpenHostFails /\ Sharing) \/ (PrewarmFails /\ Sharing) \/ (Interrupt /\ Sharing)
  \/ (AuditFails /\ Sharing) \/ (WriteFails /\ Sharing) \/ (ClaimNext /\ Sharing)
  \/ (Publish /\ Sharing) \/ (Quarantine /\ Sharing)
  \/ \E w \in SharedWorkers :
       \/ (WorkerFails(w) /\ Sharing) \/ (CreateDocumentFails(w) /\ Sharing)
       \/ (TakeSlot(w) /\ Sharing) \/ (BackendSubmits(w) /\ Sharing)
       \/ (BackendFails(w) /\ Sharing) \/ (BackendRaises(w) /\ Sharing)
       \/ (WorkerTimesOut(w) /\ Sharing) \/ (CancelWorker(w) /\ Sharing)
       \/ (SharedReleaseLease(w) /\ Sharing) \/ (MultiAttempt(w) /\ Sharing)
  \/ \E w \in SharedWorkers, text \in Snippets : \E module \in Modules(w) :
       DocumentApply(w, text, module) /\ Sharing
  \/ \E w \in SharedWorkers, id \in SharedIds :
       ContributionSubmit(w, id) /\ Sharing
  \/ \E w \in SharedWorkers : \E after \in ReadFrom(w) :
       KnowledgeRead(w, after) /\ Sharing
  \/ \E v \in Verdicts :
       AuditAlignment(v) /\ Sharing
  \/ (Open /\ Storing) \/ (FailToOpen /\ Storing) \/ (Close /\ Storing)
  \/ (AppendEvent /\ Storing) \/ (AppendMalformed /\ Storing)

MCSpec == MCInit /\ [][MCNext]_MCVars
=============================================================================
