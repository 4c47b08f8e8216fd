------------------------------ MODULE MCRuntime ------------------------------
(* What a run waits for, side by side (see MCControl): the calls of workers  *)
(* at the Lean runtime, the launches of commands, and a shared run with the   *)
(* fake backend in which two things fail.                                    *)
EXTENDS LeanRuntime, SharedRun, ProcessLaunch

CONSTANTS a1, b1, da, db

\* Two workers with a document each; MCTools has the jobs of the project.
MCCalls == {a1, b1}
NoJob == {}
MCDocuments == {da, db}
MCDocumentOf == [c \in Calls |-> IF c = b1 THEN db ELSE da]

VARIABLE component

MCVars == <<component, leanVars, sharedVars, launchVars>>

\* What is left of a launch that has returned, where no launch is looked at.
LaunchOver ==
  /\ kind = "host" /\ at = "returned" /\ why = "none" /\ outcome = "output" /\ asked = 0
  /\ child = "reaped" /\ code = "zero" /\ kid = "none" /\ signal = "none"
  /\ stdin = [todo |-> 0, pipe |-> 0, open |-> FALSE] /\ heard = Input
  /\ wrote = [s \in Streams |-> 0] /\ pipe = [s \in Streams |-> 0]
  /\ got = [s \in Streams |-> 0] /\ ended = Streams

MCInit ==
  /\ component \in {"lean", "shared", "launch"}
  /\ LeanInit /\ SharedInit
  /\ IF component = "launch" THEN LaunchInit ELSE LaunchOver

\* A call at the runtime and a launch of a command end, whatever fails.
CallsAndLaunchesEnd == CallsEnd /\ LaunchEnds

MCNext ==
  \/ component = "lean" /\ LeanNext /\ UNCHANGED <<component, sharedVars, launchVars>>
  \/ component = "shared" /\ SharedNext /\ UNCHANGED <<component, leanVars, launchVars>>
  \/ component = "launch" /\ LaunchNext /\ UNCHANGED <<component, leanVars, sharedVars>>

\* No component has a fair step in its initial state, so the fairness of those
\* that keep theirs asks for nothing.
MCSpec ==
  MCInit /\ [][MCNext]_MCVars /\ LeanFairness /\ SharedFairness /\ LaunchFairness
=============================================================================
