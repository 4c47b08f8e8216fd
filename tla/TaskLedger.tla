----------------------------- MODULE TaskLedger -----------------------------
(***************************************************************************)
(* What the foreground controller promises about durable assignments: an   *)
(* assignment is opened, executed and closed at most once, one assignment  *)
(* executes at a time, and the worker model is called at most once for it. *)
(* ControllerExecution is shown to implement this specification.           *)
(***************************************************************************)
EXTENDS Naturals

CONSTANT Tasks  \* the assignments an operator may ever create

VARIABLES ledger,  \* ledger[t]: "open", "active" or "done"
          calls    \* calls[t]: how often the worker model was called for t

TypeOK ==
  /\ ledger \in [Tasks -> {"open", "active", "done"}]
  /\ calls \in [Tasks -> Nat]

Init ==
  /\ ledger = [t \in Tasks |-> "open"]
  /\ calls = [t \in Tasks |-> 0]

\* An open assignment becomes active; nothing else is active.
Begin(t) ==
  /\ ledger[t] = "open"
  /\ \A u \in Tasks : ledger[u] # "active"
  /\ ledger' = [ledger EXCEPT ![t] = "active"]
  /\ UNCHANGED calls

\* The worker model is called for the active assignment, for the first time.
Call(t) ==
  /\ ledger[t] = "active"
  /\ calls[t] = 0
  /\ calls' = [calls EXCEPT ![t] = 1]
  /\ UNCHANGED ledger

\* The active assignment is closed for good.
Finish(t) ==
  /\ ledger[t] = "active"
  /\ ledger' = [ledger EXCEPT ![t] = "done"]
  /\ UNCHANGED calls

Next == \E t \in Tasks : Begin(t) \/ Call(t) \/ Finish(t)

Spec == Init /\ [][Next]_<<ledger, calls>>
=============================================================================
