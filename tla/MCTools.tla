------------------------------- MODULE MCTools -------------------------------
(* The tools a run works with, side by side (see MCControl): the launcher of *)
(* processes, the run's Lean project, the patches of documents, the Lean     *)
(* runtime with its jobs, and the security gate with the check of its        *)
(* evidence.                                                                 *)
EXTENDS ProcessLaunch, RunProject, PatchApply, LeanRuntime, FoundationCheck

CONSTANTS k1, k2, k3, a1, da, db, d1, allowed, p1, p2

\* Three candidates: one can be published, fail or be left behind before the
\* others are verified.
MCCandidates == {k1, k2, k3}

\* A source file that is there from the start and one that is not.
MCFirstSource == <<1, 0>>

\* All texts of up to four bytes and all patches of up to two edits that put
\* in nothing, a character or a character of two bytes.
MCSources == {s \in UNION {[1..n -> {Char, First, Second}] : n \in 0..4} : Utf8(s)}
MCReplacements == {<<>>, <<Char>>, <<First, Second>>}

\* A worker's call beside all the jobs of the project.
MCCalls == {a1}
MCJobs == {Check, Prepare, Build}
MCDocuments == {da, db}
MCDocumentOf == [c \in Calls |-> da]

\* An operation to be denied and one that is allowed.
MCDenied == {d1}
MCAllowed == {allowed}
MCPolicies == {p1, p2}

\* bound: a second gate starts before the run; with one gate it may also come
\* during the run or after it.
SecondGateIsEarly == Len(gates') = 2 => Len(gates) = 2 \/ run.id = 0

VARIABLE component

MCVars == <<component, launchVars, runProjectVars, patchVars, leanVars, foundationVars>>

MCInit ==
  /\ component \in {"launch", "project", "patch", "lean", "foundation"}
  /\ LaunchInit /\ (component # "launch" => kind = "host")
  /\ ProjectInit /\ LeanInit /\ FoundationInit
  /\ IF component = "patch"
     THEN PatchInit
     ELSE /\ source = <<>> /\ edits = <<CHOOSE e \in Edits(<<>>) : TRUE>> /\ stale = FALSE
          /\ index = 1 /\ cursor = 0 /\ output = <<>> /\ verdict = "running"

MCNext ==
  \/ component = "launch" /\ LaunchNext
     /\ UNCHANGED <<component, runProjectVars, patchVars, leanVars, foundationVars>>
  \/ component = "project" /\ ProjectNext
     /\ UNCHANGED <<component, launchVars, patchVars, leanVars, foundationVars>>
  \/ component = "patch" /\ PatchNext
     /\ UNCHANGED <<component, launchVars, runProjectVars, leanVars, foundationVars>>
  \/ component = "lean" /\ LeanNext
     /\ UNCHANGED <<component, launchVars, runProjectVars, patchVars, foundationVars>>
  \/ component = "foundation" /\ FoundationNext /\ SecondGateIsEarly
     /\ UNCHANGED <<component, launchVars, runProjectVars, patchVars, leanVars>>

MCSpec == MCInit /\ [][MCNext]_MCVars
=============================================================================
