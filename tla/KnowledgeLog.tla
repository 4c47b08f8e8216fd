---------------------------- MODULE KnowledgeLog ----------------------------
(***************************************************************************)
(* What promotion promises its readers: verified contributions form one    *)
(* log, no contribution is in it twice, and the epoch pair every worker    *)
(* and document is checked against is always the one this log determines.  *)
(* Promotion is shown to implement this specification.                     *)
(***************************************************************************)
EXTENDS Naturals, Sequences

CONSTANT Entries  \* the queue rows a contribution may occupy

VARIABLES log,    \* published rows, oldest first
          epoch   \* base: the published modules; knowledge: how many there are

Init ==
  /\ log = <<>>
  /\ epoch = [base |-> {}, knowledge |-> 0]

\* A row that is not in the log yet is published with the next epoch number.
Publish(r) ==
  /\ \A n \in 1..Len(log) : log[n] # r
  /\ log' = Append(log, r)
  /\ epoch' = [base |-> epoch.base \cup {<<epoch.knowledge + 1, r>>},
               knowledge |-> epoch.knowledge + 1]

Next == \E r \in Entries : Publish(r)

Spec == Init /\ [][Next]_<<log, epoch>>
=============================================================================
