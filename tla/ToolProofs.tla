----------------------------- MODULE ToolProofs -----------------------------
(***************************************************************************)
(* The processes that are launched, and the Lean project that promotions   *)
(* build in, for every set of launchers, candidates and crashes.           *)
(*                                                                         *)
(* Launching: types, the end of the process group and the completeness of  *)
(* returned output.  The invariant follows the chunks (what is read, in    *)
(* the pipe and written) and the reason a launcher has for leaving the     *)
(* exchange.                                                               *)
(*                                                                         *)
(* The project: the epoch of the last delta is the hash of the recorded    *)
(* source with the published modules, a promotion is refused for an epoch  *)
(* mismatch exactly where the copy has another source, and without a crash *)
(* nothing staged stays in the project.  The invariant says what a         *)
(* promoter carries across its awaits: an epoch computed for what is       *)
(* published now, a manifest without staged imports to put back, and every *)
(* staged file on its list.                                                *)
(*                                                                         *)
(* Patches: one pass with a cursor over any number of edits gives what the *)
(* edits give one by one.  Its invariant says that the output, followed by *)
(* what the remaining edits make of the rest, is the result.               *)
(*                                                                         *)
(* Foundation: a verdict rests on a gate that passed before the run, that  *)
(* had the state to itself from its first probe to its last, and under     *)
(* whose policy every agent of the run completed; and nothing recorded     *)
(* after the run changes the verdict.  PASS needs a trace whose only       *)
(* terminal is the completion.  The invariant says who may have            *)
(* written an event, what the digest of a gate in progress holds, and that *)
(* no agent runs while the checker reads.                                  *)
(***************************************************************************)
EXTENDS ProcessLaunch, RunProject, PatchApply, FoundationCheck, FiniteSetTheorems, SequenceTheorems,
        WellFoundedInduction, TLAPS

-----------------------------------------------------------------------------
(* A launched process.                                                     *)

(* What the launcher has read and what the pipe holds was written; while it *)
(* is reading nothing has been thrown away.                                 *)
ChunksAgree ==
    \A s \in Streams :
        /\ got[s] + pipe[s] <= wrote[s]
        /\ (at = "communicating" \/ why = "none") => got[s] + pipe[s] = wrote[s]

(* A stream whose end was read is empty, and nobody is left to write to it. *)
EndedIsEmpty == \A s \in ended : pipe[s] = 0 /\ ~PipesHeld

(* The limits that are kept while reading.                                  *)
WithinLimit ==
    why = "none" =>
        /\ kind = "sync" => got["stdout"] + got["stderr"] <= Limit
        /\ kind = "probe" => \A s \in Streams : got[s] <= Limit

(* A launcher leaves the exchange with an exception or with everything read *)
(* and the child reaped; its caller gets output only in the second case.    *)
LeavesWithReason ==
    /\ at = "communicating" => why = "none"
    /\ at # "returned" => outcome = "none"
    /\ (at # "communicating" /\ why = "none") =>
           /\ ended = Streams /\ child = "reaped"
           /\ kind = "host" => got["stdout"] + got["stderr"] <= Limit
    /\ outcome = "output" => why = "none"

LaunchIInv == LaunchTypeOK /\ ChunksAgree /\ EndedIsEmpty /\ WithinLimit /\ LeavesWithReason /\ GroupReaped

(* Nothing is read, written or left behind yet in the initial state.        *)
LEMMA InitLaunchIInv == LaunchInit => LaunchIInv
<1> SUFFICES ASSUME LaunchInit PROVE LaunchIInv OBVIOUS
<1> USE LaunchAssumption DEF LaunchInit, Streams
<1>1. LaunchTypeOK BY DEF LaunchTypeOK, Errors
<1>2. ChunksAgree BY DEF ChunksAgree
<1>3. EndedIsEmpty BY DEF EndedIsEmpty
<1>4. WithinLimit BY DEF WithinLimit
<1>5. LeavesWithReason BY DEF LeavesWithReason
<1>6. GroupReaped BY DEF GroupReaped
<1> QED BY <1>1, <1>2, <1>3, <1>4, <1>5, <1>6 DEF LaunchIInv

(* Writing moves a chunk from the future into the pipe of an open stream.   *)
LEMMA ChildWritesKeeps ==
  ASSUME LaunchIInv, NEW s \in Streams, ChildWrites(s)
  PROVE  LaunchIInv'
<1> USE LaunchAssumption DEF LaunchIInv, LaunchTypeOK, ChildWrites, childVars, ioVars, Streams, PipesHeld
<1>1. LaunchTypeOK'
  BY DEF Errors
<1>2. ChunksAgree' /\ EndedIsEmpty'
  BY DEF ChunksAgree, EndedIsEmpty, PipesHeld, LeavesWithReason
<1>3. WithinLimit' /\ LeavesWithReason' /\ GroupReaped'
  BY DEF WithinLimit, LeavesWithReason, GroupReaped, GroupExists
<1> QED
  BY <1>1, <1>2, <1>3

(* Reading its input the child touches nothing the launcher counts.         *)
LEMMA ChildReadsKeeps ==
  ASSUME LaunchIInv, ChildReads
  PROVE  LaunchIInv'
<1> USE LaunchAssumption DEF LaunchIInv, LaunchTypeOK, ChildReads, childVars, ioVars, Streams
<1>1. LaunchTypeOK'
  <2>1. stdin' \in [todo : 0..Input, pipe : 0..Capacity, open : BOOLEAN]
    OBVIOUS
  <2>2. heard' + stdin'.pipe + stdin'.todo <= Input
    OBVIOUS
  <2> QED
    BY <2>1, <2>2 DEF Errors
<1>2. ChunksAgree' /\ EndedIsEmpty' /\ WithinLimit' /\ LeavesWithReason' /\ GroupReaped'
  BY DEF ChunksAgree, EndedIsEmpty, WithinLimit, LeavesWithReason,
         GroupReaped, PipesHeld, GroupExists
<1> QED
  BY <1>1, <1>2

(* Only a running child leaves a descendant, so no launcher has answered.   *)
LEMMA ChildForksKeeps ==
  ASSUME LaunchIInv, ChildForks
  PROVE  LaunchIInv'
<1> USE LaunchAssumption DEF LaunchIInv, LaunchTypeOK, ChildForks, childVars, ioVars, Streams
<1>1. LaunchTypeOK'
  BY DEF Errors
<1>2. ChunksAgree' /\ EndedIsEmpty' /\ WithinLimit' /\ LeavesWithReason' /\ GroupReaped'
  BY DEF ChunksAgree, EndedIsEmpty, WithinLimit, LeavesWithReason,
         GroupReaped, PipesHeld, GroupExists
<1> QED
  BY <1>1, <1>2

(* The exit of the child only takes holders from the pipes.                 *)
LEMMA ChildExitsKeeps ==
  ASSUME LaunchIInv, ChildExits
  PROVE  LaunchIInv'
<1> USE LaunchAssumption DEF LaunchIInv, LaunchTypeOK, ChildExits, childVars, ioVars, Streams
<1>1. LaunchTypeOK'
  BY DEF Errors
<1>2. ChunksAgree' /\ EndedIsEmpty' /\ WithinLimit' /\ LeavesWithReason' /\ GroupReaped'
  BY DEF ChunksAgree, EndedIsEmpty, WithinLimit, LeavesWithReason,
         GroupReaped, PipesHeld, GroupExists
<1> QED
  BY <1>1, <1>2

(* So does its death of a signal.                                           *)
LEMMA ChildDiesKeeps ==
  ASSUME LaunchIInv, ChildDies
  PROVE  LaunchIInv'
<1> USE LaunchAssumption DEF LaunchIInv, LaunchTypeOK, ChildDies, childVars, ioVars, Streams
<1>1. LaunchTypeOK'
  BY DEF Errors
<1>2. ChunksAgree' /\ EndedIsEmpty' /\ WithinLimit' /\ LeavesWithReason' /\ GroupReaped'
  BY DEF ChunksAgree, EndedIsEmpty, WithinLimit, LeavesWithReason,
         GroupReaped, PipesHeld, GroupExists
<1> QED
  BY <1>1, <1>2

(* And the end of a descendant.                                             *)
LEMMA KidEndsKeeps ==
  ASSUME LaunchIInv, KidEnds
  PROVE  LaunchIInv'
<1> USE LaunchAssumption DEF LaunchIInv, LaunchTypeOK, KidEnds, childVars, ioVars, Streams
<1>1. LaunchTypeOK'
  BY DEF Errors
<1>2. ChunksAgree' /\ EndedIsEmpty' /\ WithinLimit' /\ LeavesWithReason' /\ GroupReaped'
  BY DEF ChunksAgree, EndedIsEmpty, WithinLimit, LeavesWithReason,
         GroupReaped, PipesHeld, GroupExists
<1> QED
  BY <1>1, <1>2

(* Reaping an exited child changes no pipe.                                 *)
LEMMA ReapKeeps ==
  ASSUME LaunchIInv, Reap
  PROVE  LaunchIInv'
<1> USE LaunchAssumption DEF LaunchIInv, LaunchTypeOK, Reap, childVars, ioVars, Streams
<1>1. LaunchTypeOK'
  BY DEF Errors
<1>2. ChunksAgree' /\ EndedIsEmpty' /\ WithinLimit' /\ LeavesWithReason' /\ GroupReaped'
  BY DEF ChunksAgree, EndedIsEmpty, WithinLimit, LeavesWithReason,
         GroupReaped, PipesHeld, GroupExists
<1> QED
  BY <1>1, <1>2

(* A chunk of input is pending, in the pipe or read.                        *)
LEMMA WriteInputKeeps ==
  ASSUME LaunchIInv, WriteInput
  PROVE  LaunchIInv'
<1> USE LaunchAssumption DEF LaunchIInv, LaunchTypeOK, WriteInput, childVars, ioVars, Streams
<1>1. LaunchTypeOK'
  <2>1. stdin' = [todo |-> stdin.todo - 1, pipe |-> stdin.pipe + 1, open |-> stdin.open]
    BY DEF LaunchTypeOK, WriteInput
  <2>2. stdin.todo - 1 \in 0..Input /\ stdin.pipe + 1 \in 0..Capacity /\ stdin.open \in BOOLEAN
    OBVIOUS
  <2>3. stdin' \in [todo : 0..Input, pipe : 0..Capacity, open : BOOLEAN]
    BY ONLY <2>1, <2>2, Zenon
  <2>4. heard' + stdin'.pipe + stdin'.todo <= Input
    BY <2>1
  <2> QED
    BY <2>3, <2>4 DEF Errors
<1>2. ChunksAgree' /\ EndedIsEmpty' /\ WithinLimit' /\ LeavesWithReason' /\ GroupReaped'
  BY DEF ChunksAgree, EndedIsEmpty, WithinLimit, LeavesWithReason,
         GroupReaped, PipesHeld, GroupExists
<1> QED
  BY <1>1, <1>2

(* Closing the writer moves nothing.                                        *)
LEMMA CloseInputKeeps ==
  ASSUME LaunchIInv, CloseInput
  PROVE  LaunchIInv'
<1> USE LaunchAssumption DEF LaunchIInv, LaunchTypeOK, CloseInput, childVars, ioVars, Streams
<1>1. LaunchTypeOK'
  <2>1. stdin' \in [todo : 0..Input, pipe : 0..Capacity, open : BOOLEAN]
    OBVIOUS
  <2>2. heard' + stdin'.pipe + stdin'.todo <= Input
    OBVIOUS
  <2> QED
    BY <2>1, <2>2 DEF Errors
<1>2. ChunksAgree' /\ EndedIsEmpty' /\ WithinLimit' /\ LeavesWithReason' /\ GroupReaped'
  BY DEF ChunksAgree, EndedIsEmpty, WithinLimit, LeavesWithReason,
         GroupReaped, PipesHeld, GroupExists
<1> QED
  BY <1>1, <1>2

(* The rest of the input is given up; "sync" fails.                         *)
LEMMA InputBreaksKeeps ==
  ASSUME LaunchIInv, InputBreaks
  PROVE  LaunchIInv'
<1> USE LaunchAssumption DEF LaunchIInv, LaunchTypeOK, InputBreaks, childVars, ioVars, Streams, Fail
<1>1. LaunchTypeOK'
  <2>1. stdin' = [todo |-> 0, pipe |-> stdin.pipe, open |-> FALSE]
    BY DEF LaunchTypeOK, InputBreaks
  <2>2. 0 \in 0..Input /\ stdin.pipe \in 0..Capacity /\ FALSE \in BOOLEAN
    OBVIOUS
  <2>3. stdin' \in [todo : 0..Input, pipe : 0..Capacity, open : BOOLEAN]
    BY ONLY <2>1, <2>2, Zenon
  <2>4. heard' + stdin'.pipe + stdin'.todo <= Input
    BY <2>1
  <2> QED
    BY <2>3, <2>4 DEF Errors
<1>2. ChunksAgree' /\ EndedIsEmpty'
  BY DEF ChunksAgree, EndedIsEmpty, PipesHeld, LeavesWithReason
<1>3. WithinLimit' /\ LeavesWithReason' /\ GroupReaped'
  BY DEF WithinLimit, LeavesWithReason, GroupReaped, GroupExists
<1> QED
  BY <1>1, <1>2, <1>3

(* Reading moves a chunk from the pipe to the launcher, or ends the exchange. *)
LEMMA ReadKeeps ==
  ASSUME LaunchIInv, NEW s \in Streams, Read(s)
  PROVE  LaunchIInv'
<1> USE LaunchAssumption DEF LaunchIInv, LaunchTypeOK, Read, childVars, ioVars, Streams, OverLimit, Fail
<1>1. LaunchTypeOK'
  BY DEF Errors, ChunksAgree
<1>2. ChunksAgree' /\ EndedIsEmpty'
  BY DEF ChunksAgree, EndedIsEmpty, PipesHeld, LeavesWithReason
<1>3. WithinLimit' /\ LeavesWithReason' /\ GroupReaped'
  BY DEF WithinLimit, LeavesWithReason, GroupReaped, GroupExists
<1> QED
  BY <1>1, <1>2, <1>3

(* The end of a stream is read when it is empty and nobody holds it.        *)
LEMMA ReadEndsKeeps ==
  ASSUME LaunchIInv, NEW s \in Streams, ReadEnds(s)
  PROVE  LaunchIInv'
<1> USE LaunchAssumption DEF LaunchIInv, LaunchTypeOK, ReadEnds, childVars, ioVars, Streams
<1>1. LaunchTypeOK'
  BY DEF Errors
<1>2. ChunksAgree' /\ EndedIsEmpty'
  BY DEF ChunksAgree, EndedIsEmpty, PipesHeld, LeavesWithReason
<1>3. WithinLimit' /\ LeavesWithReason' /\ GroupReaped'
  BY DEF WithinLimit, LeavesWithReason, GroupReaped, GroupExists
<1> QED
  BY <1>1, <1>2, <1>3

(* A bad line ends the exchange.                                            *)
LEMMA BadLineKeeps ==
  ASSUME LaunchIInv, BadLine
  PROVE  LaunchIInv'
<1> USE LaunchAssumption DEF LaunchIInv, LaunchTypeOK, BadLine, childVars, ioVars, Streams, Fail
<1>1. LaunchTypeOK'
  BY DEF Errors
<1>2. ChunksAgree' /\ EndedIsEmpty'
  BY DEF ChunksAgree, EndedIsEmpty, PipesHeld, LeavesWithReason
<1>3. WithinLimit' /\ LeavesWithReason' /\ GroupReaped'
  BY DEF WithinLimit, LeavesWithReason, GroupReaped, GroupExists
<1> QED
  BY <1>1, <1>2, <1>3

(* The end of the exchange: everything was read.                            *)
LEMMA ExchangedKeeps ==
  ASSUME LaunchIInv, Exchanged
  PROVE  LaunchIInv'
<1> USE LaunchAssumption DEF LaunchIInv, LaunchTypeOK, Exchanged, childVars, ioVars, Streams
<1>1. LaunchTypeOK'
  BY DEF Errors
<1>2. ChunksAgree' /\ EndedIsEmpty'
  BY DEF ChunksAgree, EndedIsEmpty, PipesHeld, LeavesWithReason
<1>3. WithinLimit' /\ LeavesWithReason' /\ GroupReaped'
  BY DEF WithinLimit, LeavesWithReason, GroupReaped, GroupExists
<1> QED
  BY <1>1, <1>2, <1>3

(* A timeout ends the exchange.                                             *)
LEMMA TimesOutKeeps ==
  ASSUME LaunchIInv, TimesOut
  PROVE  LaunchIInv'
<1> USE LaunchAssumption DEF LaunchIInv, LaunchTypeOK, TimesOut, childVars, ioVars, Streams, Fail
<1>1. LaunchTypeOK'
  BY DEF Errors
<1>2. ChunksAgree' /\ EndedIsEmpty'
  BY DEF ChunksAgree, EndedIsEmpty, PipesHeld, LeavesWithReason
<1>3. WithinLimit' /\ LeavesWithReason' /\ GroupReaped'
  BY DEF WithinLimit, LeavesWithReason, GroupReaped, GroupExists
<1> QED
  BY <1>1, <1>2, <1>3

(* What is thrown away was written during a failure.                        *)
LEMMA DiscardKeeps ==
  ASSUME LaunchIInv, NEW s \in Streams, LaunchDiscard(s)
  PROVE  LaunchIInv'
<1> USE LaunchAssumption DEF LaunchIInv, LaunchTypeOK, LaunchDiscard, childVars, ioVars, Streams
<1>1. LaunchTypeOK'
  BY DEF Errors
<1>2. ChunksAgree' /\ EndedIsEmpty'
  BY DEF ChunksAgree, EndedIsEmpty, PipesHeld, LeavesWithReason
<1>3. WithinLimit' /\ LeavesWithReason' /\ GroupReaped'
  BY DEF WithinLimit, LeavesWithReason, GroupReaped, GroupExists
<1> QED
  BY <1>1, <1>2, <1>3

(* The end of the grace period sends the second signal.                     *)
LEMMA GraceEndsKeeps ==
  ASSUME LaunchIInv, GraceEnds
  PROVE  LaunchIInv'
<1> USE LaunchAssumption DEF LaunchIInv, LaunchTypeOK, GraceEnds, childVars, ioVars, Streams
<1>1. LaunchTypeOK'
  BY DEF Errors
<1>2. ChunksAgree' /\ EndedIsEmpty' /\ WithinLimit' /\ LeavesWithReason' /\ GroupReaped'
  BY DEF ChunksAgree, EndedIsEmpty, WithinLimit, LeavesWithReason,
         GroupReaped, PipesHeld, GroupExists
<1> QED
  BY <1>1, <1>2

(* A launcher answers when the clean-up has seen what it waits for.         *)
LEMMA DrainedKeeps ==
  ASSUME LaunchIInv, Drained
  PROVE  LaunchIInv'
<1> USE LaunchAssumption DEF LaunchIInv, LaunchTypeOK, Drained, childVars, ioVars, Streams, GroupExists
<1>1. LaunchTypeOK'
  BY DEF Errors
<1>2. ChunksAgree' /\ EndedIsEmpty'
  BY DEF ChunksAgree, EndedIsEmpty, PipesHeld, LeavesWithReason
<1>3. WithinLimit' /\ LeavesWithReason' /\ GroupReaped'
  BY DEF WithinLimit, LeavesWithReason, GroupReaped, Errors
<1> QED
  BY <1>1, <1>2, <1>3

(* A cancellation ends the exchange or, but for a probe, changes nothing.   *)
LEMMA CancelKeeps ==
  ASSUME LaunchIInv, Cancel
  PROVE  LaunchIInv'
<1> USE LaunchAssumption DEF LaunchIInv, LaunchTypeOK, Cancel, childVars, ioVars, Streams, Fail
<1>1. LaunchTypeOK'
  BY DEF Errors
<1>2. ChunksAgree' /\ EndedIsEmpty'
  BY DEF ChunksAgree, EndedIsEmpty, PipesHeld, LeavesWithReason
<1>3. WithinLimit' /\ LeavesWithReason' /\ GroupReaped'
  BY DEF WithinLimit, LeavesWithReason, GroupReaped, GroupExists
<1> QED
  BY <1>1, <1>2, <1>3

(* The invariant reads the state only.                                      *)
LEMMA StutterKeeps == ASSUME LaunchIInv, UNCHANGED launchVars PROVE LaunchIInv'
BY DEF LaunchIInv, LaunchTypeOK, ChunksAgree, EndedIsEmpty, WithinLimit, LeavesWithReason, GroupReaped,
       PipesHeld, GroupExists, launchVars, childVars, ioVars

(* Every step of the launcher and of the program keeps the invariant.       *)
LEMMA NextKeeps == ASSUME LaunchIInv, LaunchNext PROVE LaunchIInv'
<1>1. CASE Launcher
  <2>1. ASSUME NEW s \in Streams, Read(s) \/ ReadEnds(s) \/ LaunchDiscard(s) PROVE LaunchIInv'
    BY <2>1, ReadKeeps, ReadEndsKeeps, DiscardKeeps
  <2> QED
    BY <1>1, <2>1, WriteInputKeeps, CloseInputKeeps, InputBreaksKeeps, BadLineKeeps,
       ExchangedKeeps, TimesOutKeeps, GraceEndsKeeps, DrainedKeeps, ReapKeeps, CancelKeeps
       DEF Launcher
<1>2. CASE Program
  <2>1. ASSUME NEW s \in Streams, ChildWrites(s) PROVE LaunchIInv'
    BY <2>1, ChildWritesKeeps
  <2> QED
    BY <1>2, <2>1, ChildReadsKeeps, ChildForksKeeps, ChildExitsKeeps, ChildDiesKeeps,
       KidEndsKeeps DEF Program
<1> QED
  BY <1>1, <1>2 DEF LaunchNext

(* LaunchIInv is an invariant of the specification.                               *)
THEOREM LaunchInvariance == LaunchSpec => []LaunchIInv
<1>1. LaunchIInv /\ [LaunchNext]_launchVars => LaunchIInv'
  BY NextKeeps, StutterKeeps
<1> QED
  BY <1>1, InitLaunchIInv, PTL DEF LaunchSpec

(* Types of the state of a launch.                                          *)
THEOREM TypeCorrect == LaunchSpec => []LaunchTypeOK
BY LaunchInvariance, PTL DEF LaunchIInv

(* For all sizes of input, output, pipes and limits: once a host check has  *)
(* answered, or a worker's launch has failed, its process group is empty.   *)
THEOREM GroupsEnd == LaunchSpec => []GroupReaped
BY LaunchInvariance, PTL DEF LaunchIInv

(* For all sizes: the output a launcher returns is everything that was      *)
(* written to the pipes, within its limit.                                  *)
THEOREM OutputsComplete == LaunchSpec => []OutputIsComplete
<1>1. LaunchIInv => OutputIsComplete
  <2> SUFFICES ASSUME LaunchIInv, at = "returned", outcome = "output" PROVE OutputIsComplete
    BY DEF OutputIsComplete
  <2>1. why = "none" /\ ended = Streams
    BY DEF LaunchIInv, LeavesWithReason
  <2>2. ~PipesHeld /\ \A s \in Streams : got[s] = wrote[s]
    BY <2>1 DEF LaunchIInv, LaunchTypeOK, EndedIsEmpty, ChunksAgree, Streams
  <2>3. got = wrote
    BY <2>2 DEF LaunchIInv, LaunchTypeOK
  <2> QED
    BY <2>1, <2>2, <2>3 DEF OutputIsComplete, LaunchIInv, WithinLimit, LeavesWithReason
<1> QED
  BY <1>1, LaunchInvariance, PTL

-----------------------------------------------------------------------------
(* The project of a run.                                                   *)

Staging == {"diagnostics", "build", "verify"}
Publishing == {"materialized", "activating", "activated"}

(* Modules by the kind of their name.                                      *)
NoStaged(S) == \A c \in Candidates : Staged(c) \notin S

(* The names a promoter and the events carry are those of publications.    *)
PublicationNames ==
  /\ NoStaged(published)
  /\ pc \in Publishing => NoStaged({result.module})

(* The epoch a promoter will publish is that of the recorded source, of    *)
(* what is published, and of its own module.                               *)
ResultIsCurrent ==
  pc \in Publishing => result.epoch = Hash(FirstSource, published \cup {result.module})

(* While a verification stages, what it will do restores the project.      *)
RestoreIsClean ==
  (crashes = 0 /\ pc \in Staging) =>
    /\ NoStaged(original)
    /\ \A c \in Candidates : Staged(c) \in files => Staged(c) \in created

CrashesCounted == crashes \in Nat /\ (pc = "down" => crashes # 0)

ProjectIInv ==
  /\ EpochTracksProject /\ PublicationNames /\ ResultIsCurrent
  /\ RestoreIsClean /\ CrashesCounted /\ NothingStaged

(* The name of a publication is never the name of a staged module.         *)
LEMMA PublicationIsNotStaged ==
  ASSUME NEW c
  PROVE  NoStaged({Publication(c)})
<1> SUFFICES ASSUME NEW d \in Candidates, Staged(d) = Publication(c) PROVE FALSE
  BY DEF NoStaged
<1>1. Staged(d)[1] = "Promotion"
  BY DEF Staged
<1>2. Publication(c)[1] = "K"
  BY DEF Publication
<1> QED
  BY <1>1, <1>2

(* The run's copy starts without generated modules.                        *)
LEMMA InitProjectIInv == ProjectInit => ProjectIInv
BY ProjectAssumption DEF ProjectInit, ProjectIInv, EpochTracksProject, PublicationNames, ResultIsCurrent,
   RestoreIsClean, CrashesCounted, NothingStaged, NoStaged, Publishing, Staging

(* A worker's access leaves the published modules in the manifest.         *)
LEMMA AccessKeeps == ASSUME ProjectIInv, Access PROVE ProjectIInv'
<1> USE DEF ProjectIInv, Access, stateVars, promoterVars, SyncedManifest, SyncedFiles, PublishedModules
<1>1. EpochTracksProject' /\ PublicationNames' /\ ResultIsCurrent' /\ CrashesCounted'
  BY DEF EpochTracksProject, PublicationNames, ResultIsCurrent, CrashesCounted, NoStaged
<1>2. CASE RunProjectMatches
  <2>1. RestoreIsClean'
    BY <1>2 DEF RestoreIsClean, PublicationNames, NoStaged
  <2>2. NothingStaged'
    BY <1>2 DEF NothingStaged, Staging, PublicationNames, NoStaged
  <2> QED
    BY <1>1, <2>1, <2>2
<1>3. CASE ~RunProjectMatches
  BY <1>1, <1>3 DEF RestoreIsClean, NothingStaged, projectVars
<1> QED
  BY <1>2, <1>3

(* Staging begins on a project without staged modules, unless there was a  *)
(* crash.                                                                  *)
LEMMA VerifyBeginKeeps == ASSUME ProjectIInv, NEW c \in Candidates, VerifyBegin(c) PROVE ProjectIInv'
<1> USE DEF ProjectIInv, VerifyBegin, stateVars, SyncedManifest, SyncedFiles, PublishedModules
<1>1. EpochTracksProject' /\ PublicationNames' /\ ResultIsCurrent' /\ CrashesCounted'
  BY DEF EpochTracksProject, PublicationNames, ResultIsCurrent, CrashesCounted, NoStaged,
         Publishing
<1>2. RestoreIsClean'
  <2> SUFFICES ASSUME crashes = 0
               PROVE  /\ NoStaged(original')
                      /\ \A d \in Candidates : Staged(d) \in files' => Staged(d) \in created'
    BY DEF RestoreIsClean
  <2>1. NoStaged(files) /\ NoStaged(published)
    BY DEF NothingStaged, PublicationNames, NoStaged
  <2> QED
    BY <2>1 DEF NoStaged
<1>3. NothingStaged'
  BY DEF NothingStaged
<1> QED
  BY <1>1, <1>2, <1>3

(* The clean-up of a verification, however it ends.                        *)
LEMMA RestoreKeeps ==
  ASSUME ProjectIInv, pc \in Staging, Restore, pc' \in {"idle", "verified"},
         UNCHANGED <<published, epoch, crashes>>
  PROVE  ProjectIInv'
<1> USE DEF ProjectIInv, Restore
<1>1. EpochTracksProject' /\ PublicationNames' /\ ResultIsCurrent' /\ RestoreIsClean' /\ CrashesCounted'
  BY DEF EpochTracksProject, PublicationNames, ResultIsCurrent, RestoreIsClean, CrashesCounted, NoStaged,
         Publishing, Staging
<1>2. NothingStaged'
  BY DEF NothingStaged, RestoreIsClean, NoStaged
<1> QED
  BY <1>1, <1>2

(* Both ends of a verification clean up and decide or go on.               *)
LEMMA VerifyEndKeeps == ASSUME ProjectIInv, VerifyEnd \/ VerifyRaises PROVE ProjectIInv'
<1>1. pc \in Staging /\ Restore /\ UNCHANGED <<published, epoch, crashes>>
  BY DEF VerifyEnd, VerifyRaises, Staging
<1>2. pc' \in {"idle", "verified"}
  BY DEF VerifyEnd, VerifyRaises, Decide
<1> QED
  BY <1>1, <1>2, RestoreKeeps

(* A step after the verification that leaves the manifest with the         *)
(* published modules and adds no staged file.                              *)
LEMMA CleanStep ==
  ASSUME ProjectIInv, pc \notin Staging, pc' \notin Staging \cup {"down"}, NoStaged(manifest') \/ manifest' = manifest,
         \A c \in Candidates : Staged(c) \in files' => Staged(c) \in files,
         crashes' = crashes
  PROVE  RestoreIsClean' /\ NothingStaged' /\ CrashesCounted'
BY DEF ProjectIInv, RestoreIsClean, NothingStaged, CrashesCounted, Staging, NoStaged

(* The hash of a copy with the published modules is the recorded epoch     *)
(* just where the copy is the recorded source.                             *)
LEMMA EpochsAgree ==
  ASSUME EpochTracksProject, NEW content
  PROVE  ProjectEpoch(content, published, {}) = epoch <=> content = FirstSource
BY DEF EpochTracksProject, ProjectEpoch, Hash

(* What is materialized is hashed with the recorded source, for it has the *)
(* epoch of the last delta; what is refused is only decided.               *)
LEMMA MaterializeKeeps == ASSUME ProjectIInv, Materialize PROVE ProjectIInv'
<1> USE DEF ProjectIInv, Materialize, SyncedManifest, SyncedFiles, PublishedModules
<1>1. manifest' = published /\ UNCHANGED <<published, epoch, crashes>> /\ NoStaged(published)
  BY DEF PublicationNames
<1>2. CASE ProjectEpoch(copy', manifest', {}) = epoch
  <2>1. copy' = FirstSource
    BY <1>1, <1>2, EpochsAgree
  <2>2. /\ files' = files \cup published \cup {Publication(cand)} /\ pc' = "materialized"
        /\ result' = [module |-> Publication(cand), epoch |-> Hash(FirstSource, published \cup {Publication(cand)})]
    BY <1>1, <1>2, <2>1 DEF ProjectEpoch
  <2>3. EpochTracksProject' /\ PublicationNames' /\ ResultIsCurrent'
    BY <1>1, <2>2, PublicationIsNotStaged DEF EpochTracksProject, PublicationNames, ResultIsCurrent, NoStaged
  <2>4. RestoreIsClean' /\ NothingStaged' /\ CrashesCounted'
    BY <1>1, <2>2, PublicationIsNotStaged, CleanStep DEF Staging, NoStaged
  <2> QED
    BY <2>3, <2>4
<1>3. CASE ProjectEpoch(copy', manifest', {}) # epoch
  <2>1. pc' = "idle" /\ files' = files \cup published
    BY <1>3 DEF Decide
  <2>2. EpochTracksProject' /\ PublicationNames' /\ ResultIsCurrent'
    BY <1>1, <2>1 DEF EpochTracksProject, PublicationNames, ResultIsCurrent, NoStaged, Publishing
  <2>3. RestoreIsClean' /\ NothingStaged' /\ CrashesCounted'
    BY <1>1, <2>1, CleanStep DEF Staging, NoStaged
  <2> QED
    BY <2>2, <2>3
<1> QED
  BY <1>2, <1>3

(* Activation imports the module that was materialized.                    *)
LEMMA ActivateKeeps == ASSUME ProjectIInv, Activate PROVE ProjectIInv'
<1> USE DEF ProjectIInv, Activate, SyncedManifest, SyncedFiles, PublishedModules, stateVars
<1>1. EpochTracksProject' /\ PublicationNames' /\ ResultIsCurrent'
  BY DEF EpochTracksProject, PublicationNames, ResultIsCurrent, Publishing, NoStaged
<1>2. NoStaged(manifest') /\ NoStaged(published)
  BY DEF PublicationNames, Publishing, NoStaged
<1>3. RestoreIsClean' /\ NothingStaged' /\ CrashesCounted'
  BY <1>2, CleanStep DEF Staging, NoStaged
<1> QED
  BY <1>1, <1>3

(* A decision that publishes nothing.                                      *)
LEMMA FailureKeeps ==
  ASSUME ProjectIInv, pc \notin Staging, Decide("failed"),
         UNCHANGED <<manifest, files, published, epoch, crashes>>
  PROVE  ProjectIInv'
<1>1. pc' = "idle"
  BY DEF Decide
<1>2. RestoreIsClean' /\ NothingStaged' /\ CrashesCounted'
  BY <1>1, CleanStep DEF Staging
<1> QED
  BY <1>1, <1>2 DEF ProjectIInv, EpochTracksProject, PublicationNames, ResultIsCurrent, NoStaged, Publishing

(* The activation's build goes on with the same result, or fails.          *)
LEMMA ActivationBuildKeeps == ASSUME ProjectIInv, ActivationBuild PROVE ProjectIInv'
<1> USE DEF ActivationBuild, projectVars
<1>1. CASE Decide("failed")
  BY <1>1, FailureKeeps DEF Staging
<1>2. CASE pc' = "activated" /\ UNCHANGED <<cand, original, created, result, done>>
  <2>1. RestoreIsClean' /\ NothingStaged' /\ CrashesCounted'
    BY <1>2, CleanStep DEF Staging
  <2> QED
    BY <1>2, <2>1 DEF ProjectIInv, EpochTracksProject, PublicationNames, ResultIsCurrent,
       NoStaged, Publishing
<1> QED
  BY <1>1, <1>2

(* A publication adds the module and moves the epoch to what was hashed.   *)
LEMMA PublishKeeps == ASSUME ProjectIInv, Publish PROVE ProjectIInv'
<1> USE DEF Publish, projectVars
<1>1. CASE Decide("failed") /\ UNCHANGED <<published, epoch>>
  BY <1>1, FailureKeeps DEF Staging
<1>2. CASE /\ published' = published \cup {result.module}
           /\ epoch' = result.epoch /\ Decide("published")
  <2>1. pc' = "idle"
    BY <1>2 DEF Decide
  <2>2. EpochTracksProject' /\ PublicationNames' /\ ResultIsCurrent'
    BY <1>2, <2>1 DEF ProjectIInv, EpochTracksProject, PublicationNames, ResultIsCurrent, NoStaged, Publishing
  <2>3. RestoreIsClean' /\ NothingStaged' /\ CrashesCounted'
    BY <2>1, CleanStep DEF Staging
  <2> QED
    BY <2>1, <2>2, <2>3 DEF ProjectIInv
<1> QED
  BY <1>1, <1>2

(* A promotion that is refused its project fails.                          *)
LEMMA DeniedKeeps ==
  ASSUME ProjectIInv, AccessDenied \/ \E c \in Candidates : VerifyDenied(c)
  PROVE  ProjectIInv'
<1>1. CASE AccessDenied
  BY <1>1, FailureKeeps DEF AccessDenied, projectVars, Staging
<1>2. ASSUME NEW c \in Candidates, VerifyDenied(c) PROVE ProjectIInv'
  BY <1>2 DEF VerifyDenied, projectVars, promoterVars, ProjectIInv, EpochTracksProject,
     PublicationNames, ResultIsCurrent, RestoreIsClean, CrashesCounted, NothingStaged, NoStaged
<1> QED
  BY <1>1, <1>2

(* Steps of a verification that touch nothing of the project, and edits of *)
(* the source.                                                             *)
LEMMA WaitKeeps ==
  ASSUME ProjectIInv, UNCHANGED <<projectVars, stateVars, original, created, result, crashes>>,
         pc' = pc \/ (pc \in Staging /\ pc' \in Staging)
  PROVE  ProjectIInv'
BY DEF projectVars, stateVars, ProjectIInv, EpochTracksProject, PublicationNames, ResultIsCurrent,
   RestoreIsClean, CrashesCounted, NothingStaged, NoStaged, Staging, Publishing

(* A crash leaves the project as it is; the counter remembers it.          *)
LEMMA CrashKeeps == ASSUME ProjectIInv, Crash \/ Restart PROVE ProjectIInv'
BY DEF Crash, Restart, projectVars, stateVars, ProjectIInv, EpochTracksProject, PublicationNames,
   ResultIsCurrent, RestoreIsClean, CrashesCounted, NothingStaged, NoStaged, Staging, Publishing

(* ProjectIInv is an invariant of the specification.                              *)
THEOREM ProjectInvariance == ProjectSpec => []ProjectIInv
<1>1. ASSUME ProjectIInv, [ProjectNext]_runProjectVars PROVE ProjectIInv'
  <2>1. CASE EditSource \/ CheckDiagnostics \/ CheckBuild \/ UNCHANGED runProjectVars
    BY <1>1, <2>1, WaitKeeps DEF EditSource, CheckDiagnostics, CheckBuild, runProjectVars, promoterVars, Staging
  <2> QED
    BY <1>1, <2>1, AccessKeeps, VerifyBeginKeeps, VerifyEndKeeps, MaterializeKeeps, ActivateKeeps,
       ActivationBuildKeeps, PublishKeeps, DeniedKeeps, CrashKeeps DEF ProjectNext
<1> QED
  BY <1>1, InitProjectIInv, PTL DEF ProjectSpec

(* Whatever staged, activated or abandoned imports a crash or a failed     *)
(* build left in the manifest, the epoch of the last delta is the hash of  *)
(* the recorded source with exactly the published modules.                 *)
THEOREM EpochIsPublished == ProjectSpec => []EpochTracksProject
BY ProjectInvariance, PTL DEF ProjectIInv

(* The step to a mismatch and the step to a materialized module are those  *)
(* of materialize.                                                         *)
LEMMA RefusalIsMaterialize ==
  ASSUME ProjectNext,
         \/ \E c \in Candidates : done[c] # "mismatch" /\ done'[c] = "mismatch"
         \/ pc # "materialized" /\ pc' = "materialized"
  PROVE  Materialize
<1>1. ASSUME Access \/ EditSource \/ CheckDiagnostics \/ CheckBuild \/ Activate \/ Crash \/ Restart
      PROVE  FALSE
  BY <1>1 DEF Access, EditSource, CheckDiagnostics, CheckBuild, Activate, Crash, Restart, stateVars, promoterVars
<1>2. ASSUME NEW how \in {"failed", "published"}, Decide(how)
      PROVE  FALSE
  BY <1>2 DEF Decide
<1>3. ASSUME NEW c \in Candidates, VerifyBegin(c) \/ VerifyDenied(c)
      PROVE  FALSE
  <2>1. CASE VerifyBegin(c)
    BY <2>1 DEF VerifyBegin, stateVars
  <2>2. CASE VerifyDenied(c)
    <3>1. UNCHANGED pc /\ done' = [done EXCEPT ![c] = "failed"]
      BY <2>2 DEF VerifyDenied, promoterVars
    <3>2. \A d \in Candidates : done'[d] = done[d] \/ done'[d] = "failed"
      BY <3>1
    <3> QED
      BY <3>1, <3>2
  <2> QED
    BY <1>3, <2>1, <2>2
<1>4. ASSUME AccessDenied \/ VerifyEnd \/ VerifyRaises \/ ActivationBuild \/ Publish
      PROVE  FALSE
  BY <1>2, <1>4 DEF AccessDenied, VerifyEnd, VerifyRaises, ActivationBuild, Publish
<1> QED
  BY <1>1, <1>3, <1>4 DEF ProjectNext

(* For all sources, candidates, edits and crashes: a promotion is refused  *)
(* with EPOCH_PROJECT_MISMATCH exactly where its copy has another source   *)
(* than was recorded with the project, never for what crashes and other    *)
(* promotions left in the manifest (RuntimePromotionVerifier.materialize). *)
THEOREM RefusalsAreOfTheSource == ProjectSpec => RefusedForItsSource
<1>1. ASSUME ProjectIInv, ProjectNext,
             \/ \E c \in Candidates : done[c] # "mismatch" /\ done'[c] = "mismatch"
             \/ pc # "materialized" /\ pc' = "materialized"
      PROVE  /\ (\E c \in Candidates : done[c] # "mismatch" /\ done'[c] = "mismatch") => copy' # FirstSource
             /\ (pc # "materialized" /\ pc' = "materialized") => copy' = FirstSource
  <2>1. Materialize
    BY <1>1, RefusalIsMaterialize
  <2>2. manifest' = published
    BY <2>1 DEF Materialize, SyncedManifest, PublishedModules
  <2>3. ProjectEpoch(copy', published, {}) = epoch <=> copy' = FirstSource
    BY <1>1, EpochsAgree DEF ProjectIInv
  <2>4. ProjectEpoch(copy', published, {}) = epoch => UNCHANGED done
    BY <2>1, <2>2 DEF Materialize
  <2>5. ProjectEpoch(copy', published, {}) # epoch => pc' = "idle"
    BY <2>1, <2>2 DEF Materialize, Decide
  <2> QED
    BY <2>3, <2>4, <2>5
<1>2. ASSUME ProjectIInv, [ProjectNext]_runProjectVars
      PROVE  [/\ (\E c \in Candidates : done[c] # "mismatch" /\ done'[c] = "mismatch") => copy' # FirstSource
              /\ (pc # "materialized" /\ pc' = "materialized") => copy' = FirstSource]_runProjectVars
  BY <1>1, <1>2
<1> QED
  BY <1>2, ProjectInvariance, PTL DEF ProjectSpec, RefusedForItsSource

(* Without a crash a finished verification leaves no staged file or import. *)
THEOREM StagingIsUndone == ProjectSpec => []NothingStaged
BY ProjectInvariance, PTL DEF ProjectIInv

-----------------------------------------------------------------------------
(* Types                                                                   *)

(* There are finitely many published modules, so that the next has a       *)
(* number, and a process that is down has nothing to unlink.               *)
ProjectTypes ==
  ProjectTypeOK /\ IsFiniteSet(published) /\ (pc = "down" => created = {} /\ original = {})

(* The names given to a module are names.                                  *)
LEMMA NamesAreGiven ==
  ASSUME NEW c \in Candidates, IsFiniteSet(published)
  PROVE  /\ Staged(c) \in Names /\ Publication(c) \in Names
         /\ NoResult.module \in Names
<1>1. Cardinality(published) + 1 \in Nat \ {0}
  BY FS_CardinalityType
<1> QED
  BY <1>1 DEF Names, Staged, Publication, NoResult

(* The sources and the hashes that there are.                              *)
LEMMA HashesAre ==
  /\ FirstSource \in Contents /\ NoCopy \in Contents
  /\ \A content \in Contents, modules \in SUBSET Names : Hash(content, modules) \in Hashes
  /\ NoResult.epoch \in Hashes
<1>1. FirstSource \in Seq(0..MaxVersion) /\ 0 \in 0..MaxVersion
  BY ProjectAssumption
<1>2. FirstSource \in Contents
  <2>1. FirstSource \in [1..Len(FirstSource) -> 0..MaxVersion] /\ DOMAIN FirstSource = 1..Len(FirstSource)
    BY <1>1, LenProperties, ElementOfSeq
  <2> QED
    BY <2>1 DEF Contents
<1>3. NoCopy \in Contents
  BY <1>1 DEF Contents, NoCopy
<1>4. \A content \in Contents, modules \in SUBSET Names : Hash(content, modules) \in Hashes
  BY DEF Hash, Hashes
<1> QED
  BY <1>2, <1>3, <1>4 DEF NoResult

(* What is copied of a source is a copy.                                   *)
LEMMA CopiesAreCopies ==
  ASSUME ProjectTypes, Copies
  PROVE  copy' \in Contents /\ projectSource' \in Contents
BY DEF ProjectTypes, ProjectTypeOK, Copies, Copied, Contents

LEMMA ProjectTypesInit == ProjectInit => ProjectTypes
<1> SUFFICES ASSUME ProjectInit
             PROVE  ProjectTypes
  OBVIOUS
<1>1. crashes \in 0..MaxCrashes
  BY ProjectAssumption DEF ProjectInit
<1>2. done \in [Candidates -> {"no", "published", "failed", "mismatch"}]
  BY DEF ProjectInit
<1>3. ProjectTypeOK
  BY <1>1, <1>2, HashesAre DEF ProjectInit, ProjectTypeOK
<1> QED
  BY <1>3, FS_EmptySet DEF ProjectInit, ProjectTypes

(* A decision is typed, and ends the promotion.                            *)
LEMMA DecideTypes ==
  ASSUME ProjectTypes, NEW how \in {"published", "failed", "mismatch"}, Decide(how),
         manifest' \subseteq Names, files' \subseteq Names, published' \subseteq Names,
         epoch' \in Hashes, IsFiniteSet(published'), UNCHANGED sourceVars \/ Copies, UNCHANGED crashes
  PROVE  ProjectTypes'
<1>1. copy' \in Contents /\ projectSource' \in Contents
  BY CopiesAreCopies DEF sourceVars, ProjectTypes, ProjectTypeOK
<1> QED
  BY <1>1, HashesAre DEF Decide, ProjectTypes, ProjectTypeOK

LEMMA ProjectTypesNext == ProjectTypes /\ [ProjectNext]_runProjectVars => ProjectTypes'
<1> SUFFICES ASSUME ProjectTypes, [ProjectNext]_runProjectVars
             PROVE  ProjectTypes'
  OBVIOUS
<1> DEFINE ContentsOK == copy' \in Contents /\ projectSource' \in Contents
<1>0. Copies \/ UNCHANGED sourceVars => ContentsOK
  BY CopiesAreCopies DEF sourceVars, ProjectTypes, ProjectTypeOK
<1>1. ASSUME Access \/ EditSource
      PROVE  ProjectTypes'
  <2>1. CASE Access
    <3>1. ContentsOK
      BY <1>0, <2>1 DEF Access
    <3> QED
      BY <2>1, <3>1
      DEF Access, SyncedManifest, SyncedFiles, PublishedModules, projectVars, stateVars, promoterVars,
          ProjectTypes, ProjectTypeOK
  <2>2. CASE EditSource
    BY <2>2 DEF EditSource, Contents, projectVars, stateVars, promoterVars, ProjectTypes, ProjectTypeOK
  <2> QED
    BY <1>1, <2>1, <2>2
<1>2. ASSUME AccessDenied
      PROVE  ProjectTypes'
  BY <1>2, DecideTypes DEF AccessDenied, projectVars, ProjectTypes, ProjectTypeOK
<1>3. ASSUME NEW c \in Candidates, VerifyBegin(c)
      PROVE  ProjectTypes'
  <2>1. c # NoCandidate /\ Staged(c) \in Names
    BY NamesAreGiven, ProjectAssumption DEF ProjectTypes
  <2> QED
    BY <1>0, <1>3, <2>1
    DEF VerifyBegin, SyncedManifest, SyncedFiles, PublishedModules, stateVars, ProjectTypes,
        ProjectTypeOK
<1>4. ASSUME NEW c \in Candidates, VerifyDenied(c)
      PROVE  ProjectTypes'
  BY <1>0, <1>4 DEF VerifyDenied, projectVars, promoterVars, ProjectTypes, ProjectTypeOK
<1>5. ASSUME CheckDiagnostics \/ CheckBuild
      PROVE  ProjectTypes'
  BY <1>0, <1>5 DEF CheckDiagnostics, CheckBuild, projectVars, stateVars, ProjectTypes, ProjectTypeOK
<1>6. ASSUME VerifyEnd \/ VerifyRaises
      PROVE  ProjectTypes'
  <2>1. /\ manifest' \subseteq Names /\ files' \subseteq Names
        /\ UNCHANGED <<published, epoch, sourceVars, crashes>>
    BY <1>6 DEF VerifyEnd, VerifyRaises, Restore, ProjectTypes, ProjectTypeOK
  <2>2. CASE Decide("failed")
    BY <2>1, <2>2, DecideTypes DEF ProjectTypes, ProjectTypeOK
  <2>3. CASE /\ pc = "verify" /\ pc' = "verified" /\ original' = {} /\ created' = {}
             /\ UNCHANGED <<cand, result, done>>
    BY <1>0, <2>1, <2>3 DEF ProjectTypes, ProjectTypeOK
  <2> QED
    BY <1>6, <2>2, <2>3 DEF VerifyEnd, VerifyRaises
<1>7. ASSUME Materialize
      PROVE  ProjectTypes'
  <2>1. cand \in Candidates /\ Publication(cand) \in Names
    BY <1>7, NamesAreGiven DEF Materialize, ProjectTypes, ProjectTypeOK
  <2>2. ContentsOK /\ manifest' \subseteq Names
    BY <1>0, <1>7 DEF Materialize, SyncedManifest, PublishedModules, ProjectTypes, ProjectTypeOK
  <2>3. CASE ProjectEpoch(copy', manifest', {}) = epoch
    <3>1. Hash(copy', manifest' \cup {Publication(cand)}) \in Hashes
      BY <2>1, <2>2, HashesAre
    <3> QED
      BY <1>7, <2>1, <2>2, <2>3, <3>1
      DEF Materialize, SyncedManifest, SyncedFiles, PublishedModules, ProjectEpoch, ProjectTypes,
          ProjectTypeOK
  <2>4. CASE ProjectEpoch(copy', manifest', {}) # epoch
    BY <1>7, <2>4, DecideTypes
    DEF Materialize, SyncedManifest, SyncedFiles, PublishedModules, ProjectTypes, ProjectTypeOK
  <2> QED
    BY <2>3, <2>4
<1>8. ASSUME Activate
      PROVE  ProjectTypes'
  BY <1>0, <1>8
  DEF Activate, SyncedManifest, SyncedFiles, PublishedModules, stateVars, ProjectTypes,
      ProjectTypeOK
<1>9. ASSUME ActivationBuild
      PROVE  ProjectTypes'
  BY <1>0, <1>9, DecideTypes DEF ActivationBuild, projectVars, ProjectTypes, ProjectTypeOK
<1>10. ASSUME Publish
       PROVE  ProjectTypes'
  <2>1. cand \in Candidates
    BY <1>10 DEF Publish, ProjectTypes, ProjectTypeOK
  <2>2. result.module \in Names /\ result.epoch \in Hashes
    BY <2>1, NamesAreGiven DEF ProjectTypes, ProjectTypeOK
  <2>3. IsFiniteSet(published \cup {result.module})
    BY FS_AddElement DEF ProjectTypes
  <2>4. IsFiniteSet(published') /\ published' \subseteq Names /\ epoch' \in Hashes
    BY <1>10, <2>2, <2>3 DEF Publish, ProjectTypes, ProjectTypeOK
  <2> QED
    BY <1>10, <2>4, DecideTypes DEF Publish, projectVars, ProjectTypes, ProjectTypeOK
<1>11. ASSUME Crash \/ Restart
       PROVE  ProjectTypes'
  <2>1. crashes' \in 0..MaxCrashes
    BY <1>11, ProjectAssumption DEF Crash, Restart, ProjectTypes, ProjectTypeOK
  <2> QED
    BY <1>11, <2>1, HashesAre
    DEF Crash, Restart, projectVars, stateVars, sourceVars, ProjectTypes, ProjectTypeOK
<1>12. ASSUME UNCHANGED runProjectVars
       PROVE  ProjectTypes'
  BY <1>0, <1>12 DEF runProjectVars, projectVars, stateVars, promoterVars, ProjectTypes, ProjectTypeOK
<1> QED
  BY <1>1, <1>2, <1>3, <1>4, <1>5, <1>6, <1>7, <1>8, <1>9, <1>10, <1>11, <1>12 DEF ProjectNext

(* Type correctness of the run's project and its promoter: whatever it     *)
(* stages, materializes or restores is a generated module's name, and what *)
(* the clean-up of verify unlinks exists.                                  *)
THEOREM TypesOfProject == ProjectSpec => []ProjectTypeOK
<1>1. ProjectTypes => ProjectTypeOK
  BY DEF ProjectTypes
<1> QED
  BY <1>1, ProjectTypesInit, ProjectTypesNext, PTL DEF ProjectSpec

-----------------------------------------------------------------------------
(* Patches: the edits of a contribution, applied in one pass.               *)

\* A set of numbers that is not empty has a least one.
LEMMA LeastNumber ==
  ASSUME NEW T \in SUBSET Nat, T # {}
  PROVE  \E m \in T : \A n \in T : m <= n
<1> DEFINE R == OpToRel(<, Nat)
<1>1. IsWellFoundedOn(R, Nat)
  BY NatLessThanWellFounded, Zenon
<1>2. \A x, y \in Nat : y < x => <<y, x>> \in R
  BY DEF OpToRel
<1> HIDE DEF R
<1>3. PICK m \in T : \A y \in T : ~(<<y, m>> \in R)
  BY <1>1, WFMin, Zenon
<1>4. \A n \in T : ~(n < m)
  BY <1>2, <1>3, Zenon
<1>5. \A n \in T : m <= n
  BY <1>4
<1> QED
  BY <1>5

Bytes == {Char, First, Second}

\* What a slice of a text contains.
LEMMA SliceIs ==
  ASSUME NEW S, NEW s \in Seq(S), NEW a \in Nat, NEW b \in a..Len(s)
  PROVE  /\ SubSeq(s, a + 1, b) \in Seq(S)
         /\ Len(SubSeq(s, a + 1, b)) = b - a
         /\ \A i \in 1..(b - a) : SubSeq(s, a + 1, b)[i] = s[a + i]
<1>1. Len(s) \in Nat /\ \A i \in 1..Len(s) : s[i] \in S
  BY LenProperties, ElementOfSeq
<1>2. a + 1 \in Int /\ b \in Int /\ \A i \in (a + 1)..b : s[i] \in S
  BY <1>1
<1>3. /\ SubSeq(s, a + 1, b) \in Seq(S)
      /\ Len(SubSeq(s, a + 1, b)) = IF a + 1 <= b THEN b - (a + 1) + 1 ELSE 0
      /\ \A i \in 1..(b - (a + 1) + 1) : SubSeq(s, a + 1, b)[i] = s[a + 1 + i - 1]
  BY <1>2, SubSeqProperties
<1>4. /\ b - (a + 1) + 1 = b - a /\ (a + 1 <= b \/ b - a = 0)
      /\ \A i \in 1..(b - a) : a + 1 + i - 1 = a + i
  BY <1>1
<1>5. Len(SubSeq(s, a + 1, b)) = b - a
  <2>1. Len(SubSeq(s, a + 1, b)) = IF a + 1 <= b THEN b - (a + 1) + 1 ELSE 0
    BY <1>3, Zenon
  <2>2. CASE a + 1 <= b
    BY <1>4, <2>1, <2>2
  <2>3. CASE ~(a + 1 <= b)
    BY <1>4, <2>1, <2>3
  <2> QED
    BY <2>2, <2>3
<1>6. \A i \in 1..(b - a) : SubSeq(s, a + 1, b)[i] = s[a + i]
  BY <1>3, <1>4, Zenon
<1> QED
  BY <1>3, <1>5, <1>6, Zenon

\* The first part of a joined text.
LEMMA JoinedFirst ==
  ASSUME NEW S, NEW s \in Seq(S), NEW t \in Seq(S), NEW p \in 0..Len(s)
  PROVE  SubSeq(s \o t, 1, p) = SubSeq(s, 1, p)
<1>1. /\ s \o t \in Seq(S) /\ Len(s \o t) = Len(s) + Len(t) /\ Len(s) \in Nat /\ Len(t) \in Nat
      /\ \A i \in 1..(Len(s) + Len(t)) : (s \o t)[i] = IF i <= Len(s) THEN s[i] ELSE t[i - Len(s)]
  BY ConcatProperties, LenProperties
<1>2. p \in 0..Len(s \o t)
  BY <1>1
<1>3. /\ SubSeq(s, 1, p) \in Seq(S) /\ Len(SubSeq(s, 1, p)) = p
      /\ \A i \in 1..p : SubSeq(s, 1, p)[i] = s[i]
  BY <1>1, SliceIs, 0 \in Nat, 0 + 1 = 1, p - 0 = p, \A i \in 1..p : 0 + i = i
<1>4. /\ SubSeq(s \o t, 1, p) \in Seq(S) /\ Len(SubSeq(s \o t, 1, p)) = p
      /\ \A i \in 1..p : SubSeq(s \o t, 1, p)[i] = (s \o t)[i]
  BY <1>1, <1>2, SliceIs, 0 \in Nat, 0 + 1 = 1, p - 0 = p, \A i \in 1..p : 0 + i = i
<1>5. \A i \in 1..p : SubSeq(s \o t, 1, p)[i] = SubSeq(s, 1, p)[i]
  BY <1>1, <1>3, <1>4
<1> QED
  BY <1>3, <1>4, <1>5, SeqEqual

\* The rest of a joined text.
LEMMA JoinedRest ==
  ASSUME NEW S, NEW s \in Seq(S), NEW t \in Seq(S), NEW p \in 0..Len(s)
  PROVE  SubSeq(s \o t, p + 1, Len(s \o t)) = SubSeq(s, p + 1, Len(s)) \o t
<1>1. /\ s \o t \in Seq(S) /\ Len(s \o t) = Len(s) + Len(t) /\ Len(s) \in Nat /\ Len(t) \in Nat
      /\ \A i \in 1..(Len(s) + Len(t)) : (s \o t)[i] = IF i <= Len(s) THEN s[i] ELSE t[i - Len(s)]
  BY ConcatProperties, LenProperties
<1> DEFINE u == SubSeq(s \o t, p + 1, Len(s \o t))
           v == SubSeq(s, p + 1, Len(s))
<1>2. /\ v \in Seq(S) /\ Len(v) = Len(s) - p
      /\ \A i \in 1..(Len(s) - p) : v[i] = s[p + i]
  <2>1. p \in Nat /\ Len(s) \in p..Len(s)
    BY <1>1
  <2> QED
    BY <2>1, SliceIs
<1>3. /\ u \in Seq(S) /\ Len(u) = Len(s) + Len(t) - p
      /\ \A i \in 1..(Len(s) + Len(t) - p) : u[i] = (s \o t)[p + i]
  <2>1. p \in Nat /\ Len(s \o t) \in p..Len(s \o t)
    BY <1>1
  <2> QED
    BY <1>1, <2>1, SliceIs
<1>4. /\ v \o t \in Seq(S) /\ Len(v \o t) = Len(s) - p + Len(t)
      /\ \A i \in 1..(Len(s) - p + Len(t)) : (v \o t)[i] = IF i <= Len(s) - p THEN v[i] ELSE t[i - (Len(s) - p)]
  <2>1. Len(t) \in Nat
    BY <1>1
  <2> HIDE DEF u, v
  <2>2. /\ v \o t \in Seq(S) /\ Len(v \o t) = Len(v) + Len(t)
        /\ \A i \in 1..(Len(v) + Len(t)) : (v \o t)[i] = IF i <= Len(v) THEN v[i] ELSE t[i - Len(v)]
    BY <1>2, ConcatProperties
  <2> QED
    BY <1>2, <2>2
<1> HIDE DEF u, v
<1>5. ASSUME NEW i \in 1..(Len(s) + Len(t) - p) PROVE u[i] = (v \o t)[i]
  <2>1. p + i \in 1..(Len(s) + Len(t)) /\ i \in 1..(Len(s) - p + Len(t))
    BY <1>1
  <2>2. u[i] = IF p + i <= Len(s) THEN s[p + i] ELSE t[p + i - Len(s)]
    BY <1>1, <1>3, <2>1, SMTT(30)
  <2>3. (v \o t)[i] = IF i <= Len(s) - p THEN v[i] ELSE t[i - (Len(s) - p)]
    BY <1>4, <2>1
  <2>4. CASE p + i <= Len(s)
    <3>1. i \in 1..(Len(s) - p) /\ i <= Len(s) - p
      BY <1>1, <2>4
    <3> QED
      BY <1>2, <2>2, <2>3, <2>4, <3>1
  <2>5. CASE p + i > Len(s)
    <3>1. ~(i <= Len(s) - p) /\ ~(p + i <= Len(s)) /\ i - (Len(s) - p) = p + i - Len(s)
      BY <1>1, <2>5
    <3> QED
      BY <2>2, <2>3, <3>1
  <2>6. p + i <= Len(s) \/ p + i > Len(s)
    BY <1>1
  <2> QED
    BY <2>4, <2>5, <2>6
<1>6. Len(s) - p + Len(t) = Len(s) + Len(t) - p
  BY <1>1
<1>7. u = v \o t
  BY <1>3, <1>4, <1>5, <1>6, SeqEqual
<1> QED
  BY <1>7 DEF u, v

\* A text joined from two is one.
LEMMA JoinedText ==
  ASSUME NEW s \in Seq(Bytes), NEW t \in Seq(Bytes), Utf8(s), Utf8(t)
  PROVE  Utf8(s \o t)
<1>1. /\ s \o t \in Seq(Bytes) /\ Len(s \o t) = Len(s) + Len(t) /\ Len(s) \in Nat /\ Len(t) \in Nat
      /\ \A i \in 1..(Len(s) + Len(t)) : (s \o t)[i] = IF i <= Len(s) THEN s[i] ELSE t[i - Len(s)]
      /\ DOMAIN s = 1..Len(s) /\ DOMAIN t = 1..Len(t) /\ DOMAIN (s \o t) = 1..Len(s \o t)
  BY ConcatProperties, LenProperties
<1> DEFINE u == s \o t
<1> SUFFICES ASSUME NEW i \in 1..(Len(s) + Len(t))
             PROVE  /\ u[i] = First => i < Len(s) + Len(t) /\ u[i + 1] = Second
                    /\ u[i] = Second => i > 1 /\ u[i - 1] = First
  BY <1>1 DEF Utf8
<1>2. CASE i <= Len(s)
  <2>1. i \in 1..Len(s) /\ u[i] = s[i]
    BY <1>1, <1>2
  <2>2. /\ s[i] = First => i < Len(s) /\ s[i + 1] = Second
        /\ s[i] = Second => i > 1 /\ s[i - 1] = First
    BY <1>1, <2>1 DEF Utf8
  <2>3. i < Len(s) => i + 1 \in 1..(Len(s) + Len(t)) /\ i + 1 <= Len(s)
    BY <1>1
  <2>4. i > 1 => i - 1 \in 1..(Len(s) + Len(t)) /\ i - 1 <= Len(s)
    BY <1>1, <1>2
  <2>5. i < Len(s) => u[i + 1] = s[i + 1]
    BY <1>1, <2>3
  <2>6. i > 1 => u[i - 1] = s[i - 1]
    BY <1>1, <2>4
  <2> HIDE DEF u
  <2>7. i < Len(s) => i < Len(s) + Len(t)
    BY <1>1
  <2> QED
    BY <2>1, <2>2, <2>5, <2>6, <2>7
<1>3. CASE i > Len(s)
  <2> DEFINE j == i - Len(s)
  <2>1. j \in 1..Len(t) /\ u[i] = t[j]
    BY <1>1, <1>3
  <2>2. /\ t[j] = First => j < Len(t) /\ t[j + 1] = Second
        /\ t[j] = Second => j > 1 /\ t[j - 1] = First
    BY <1>1, <2>1 DEF Utf8
  <2>3. j < Len(t) => i + 1 \in 1..(Len(s) + Len(t)) /\ ~(i + 1 <= Len(s)) /\ i + 1 - Len(s) = j + 1
    BY <1>1, <1>3
  <2>4. j > 1 => i - 1 \in 1..(Len(s) + Len(t)) /\ ~(i - 1 <= Len(s)) /\ i - 1 - Len(s) = j - 1
    BY <1>1, <1>3
  <2>5. j < Len(t) => u[i + 1] = t[j + 1]
    BY <1>1, <2>3
  <2>6. j > 1 => u[i - 1] = t[j - 1]
    BY <1>1, <2>4
  <2>7. (j < Len(t) => i < Len(s) + Len(t)) /\ (j > 1 => i > 1)
    BY <1>1, <1>3
  <2> HIDE DEF u, j
  <2> QED
    BY <2>1, <2>2, <2>5, <2>6, <2>7
<1> QED
  BY <1>1, <1>2, <1>3

\* An offset of a text at which a character ends.
Clean(s, o) == ~(o \in 1..(Len(s) - 1) /\ s[o + 1] = Second)

\* Between two such offsets is a text.
LEMMA SliceIsText ==
  ASSUME NEW s \in Seq(Bytes), Utf8(s), NEW a \in Nat, NEW b \in a..Len(s), Clean(s, a), Clean(s, b)
  PROVE  Utf8(SubSeq(s, a + 1, b))
<1> DEFINE u == SubSeq(s, a + 1, b)
<1>1. /\ u \in Seq(Bytes) /\ Len(u) = b - a
      /\ \A i \in 1..(b - a) : u[i] = s[a + i]
  BY SliceIs
<1>2. Len(s) \in Nat /\ DOMAIN s = 1..Len(s) /\ DOMAIN u = 1..(b - a)
  BY <1>1, LenProperties
<1> HIDE DEF u
<1> SUFFICES ASSUME NEW i \in 1..(b - a)
             PROVE  /\ u[i] = First => i < b - a /\ u[i + 1] = Second
                    /\ u[i] = Second => i > 1 /\ u[i - 1] = First
  BY <1>1, <1>2 DEF Utf8, u
<1>3. a + i \in 1..Len(s)
  BY <1>2
<1>4. /\ s[a + i] = First => a + i < Len(s) /\ s[a + i + 1] = Second
      /\ s[a + i] = Second => a + i > 1 /\ s[a + i - 1] = First
  <2> DEFINE j == a + i
  <2>1. j \in DOMAIN s
    BY <1>2, <1>3
  <2> HIDE DEF j
  <2>2. /\ s[j] = First => j < Len(s) /\ s[j + 1] = Second
        /\ s[j] = Second => j > 1 /\ s[j - 1] = First
    BY <2>1 DEF Utf8
  <2> QED
    BY <2>2 DEF j
<1>5. First # Second
  BY DEF First, Second
<1>6. ASSUME u[i] = First PROVE i < b - a /\ u[i + 1] = Second
  <2>1. a + i < Len(s) /\ s[a + i + 1] = Second
    BY <1>1, <1>4, <1>6
  <2>2. i # b - a
    <3>1. a + i = b => b \in 1..(Len(s) - 1)
      BY <1>2, <2>1
    <3>2. a + i = b => s[b + 1] # Second
      BY <3>1 DEF Clean
    <3>3. i = b - a => a + i = b
      BY <1>2
    <3> QED
      BY <2>1, <3>2, <3>3
  <2>3. i + 1 \in 1..(b - a) /\ a + (i + 1) = a + i + 1
    BY <1>2, <2>2
  <2>4. u[i + 1] = s[a + i + 1]
    BY <1>1, <2>3
  <2> QED
    BY <1>2, <2>1, <2>2, <2>4
<1>7. ASSUME u[i] = Second PROVE i > 1 /\ u[i - 1] = First
  <2>1. a + i > 1 /\ s[a + i - 1] = First /\ s[a + i] = Second
    BY <1>1, <1>4, <1>7
  <2>2. i # 1
    <3>1. i = 1 => a \in 1..(Len(s) - 1)
      BY <1>2, <2>1
    <3>2. i = 1 => s[a + 1] # Second
      BY <3>1 DEF Clean
    <3> QED
      BY <2>1, <3>2
  <2>3. i - 1 \in 1..(b - a) /\ a + (i - 1) = a + i - 1
    BY <1>2, <2>2
  <2>4. u[i - 1] = s[a + i - 1]
    BY <1>1, <2>3
  <2> QED
    BY <1>2, <2>1, <2>2, <2>4
<1> QED
  BY <1>6, <1>7

\* _boundary finds exactly these offsets.
LEMMA BoundaryIsClean ==
  ASSUME source \in Seq(Bytes), Utf8(source), NEW o \in 0..Len(source)
  PROVE  Boundary(o) <=> Clean(source, o)
<1> DEFINE s == source
<1>1. Len(s) \in Nat /\ DOMAIN s = 1..Len(s)
  BY LenProperties
<1>2. ASSUME Clean(s, o) PROVE Boundary(o)
  <2>1. Clean(s, 0) /\ Clean(s, Len(s))
    BY <1>1 DEF Clean
  <2>2. 0 \in Nat /\ o \in 0..Len(s) /\ o \in Nat /\ Len(s) \in o..Len(s)
    BY <1>1
  <2>3. Utf8(SubSeq(s, 0 + 1, o)) /\ Utf8(SubSeq(s, o + 1, Len(s)))
    BY <1>2, <2>1, <2>2, SliceIsText
  <2> QED
    BY <2>3 DEF Boundary, Slice
<1>3. ASSUME Boundary(o), ~Clean(s, o) PROVE FALSE
  <2>1. o \in 1..(Len(s) - 1) /\ s[o + 1] = Second
    BY <1>3 DEF Clean
  <2> DEFINE u == SubSeq(s, o + 1, Len(s))
  <2>2. o \in Nat /\ Len(s) \in o..Len(s) /\ 1 \in 1..(Len(s) - o)
    BY <1>1, <2>1
  <2>3. /\ u \in Seq(Bytes) /\ Len(u) = Len(s) - o
        /\ \A i \in 1..(Len(s) - o) : u[i] = s[o + i]
    BY <2>2, SliceIs
  <2>4. DOMAIN u = 1..(Len(s) - o) /\ u[1] = Second
    BY <2>1, <2>2, <2>3, LenProperties
  <2>5. Utf8(u)
    BY <1>3 DEF Boundary, Slice
  <2> HIDE DEF u
  <2> QED
    BY <2>2, <2>4, <2>5 DEF Utf8
<1> QED
  BY <1>2, <1>3

\* The texts when the last n edits of a patch are made.
IsAfterEdits(s, es, n, f) ==
  f = [k \in 0..n |-> IF k = 0 THEN s ELSE PatchReplaced(f[k - 1], es[Len(es) + 1 - k])]

AfterEdits(s, es) == CHOOSE f : IsAfterEdits(s, es, Len(es), f)

\* n passes can be followed by one more.
LEMMA PassesGoOn ==
  ASSUME NEW s, NEW es, NEW n \in Nat, NEW h, IsAfterEdits(s, es, n, h)
  PROVE  \E g : IsAfterEdits(s, es, n + 1, g)
<1> DEFINE Next1 == PatchReplaced(h[n], es[Len(es) + 1 - (n + 1)])
           g == [k \in 0..(n + 1) |-> IF k <= n THEN h[k] ELSE Next1]
<1>1. \A k \in 0..n : h[k] = IF k = 0 THEN s ELSE PatchReplaced(h[k - 1], es[Len(es) + 1 - k])
  BY DEF IsAfterEdits
<1> HIDE DEF Next1
<1>2. (\A k \in 0..n : g[k] = h[k]) /\ g[n + 1] = Next1
  OBVIOUS
<1>3. ASSUME NEW k \in 0..(n + 1)
      PROVE  g[k] = IF k = 0 THEN s ELSE PatchReplaced(g[k - 1], es[Len(es) + 1 - k])
  <2> HIDE DEF g
  <2>1. CASE k = 0
    <3>1. 0 \in 0..n
      OBVIOUS
    <3> QED
      BY <1>1, <1>2, <2>1, <3>1
  <2>2. CASE k \in 0..n /\ k # 0
    <3>1. k - 1 \in 0..n
      BY <2>2
    <3> QED
      BY <1>1, <1>2, <2>2, <3>1
  <2>3. CASE k = n + 1
    <3>1. k - 1 = n /\ n \in 0..n /\ k # 0
      BY <2>3
    <3> QED
      BY <1>2, <2>3, <3>1 DEF Next1
  <2> QED
    BY <2>1, <2>2, <2>3
<1>4. IsAfterEdits(s, es, n + 1, g)
  BY <1>3 DEF IsAfterEdits
<1> QED
  BY <1>4

\* The passes are a function over the edits.
LEMMA PassesExist ==
  ASSUME NEW s, NEW es, Len(es) \in Nat
  PROVE  IsAfterEdits(s, es, Len(es), AfterEdits(s, es))
<1> DEFINE T == {n \in Nat : ~\E f : IsAfterEdits(s, es, n, f)}
<1>1. T = {}
  <2> SUFFICES ASSUME T # {} PROVE FALSE
    OBVIOUS
  <2>1. PICK m \in T : \A k \in T : m <= k
    <3> T \in SUBSET Nat
      OBVIOUS
    <3> HIDE DEF T
    <3> QED
      BY LeastNumber, Zenon
  <2>2. m # 0
    <3>1. IsAfterEdits(s, es, 0, [k \in 0..0 |-> s])
      BY DEF IsAfterEdits
    <3> QED
      BY <3>1
  <2>3. PICK n \in Nat : m = n + 1 /\ n \notin T
    <3>1. m - 1 \in Nat /\ m = (m - 1) + 1 /\ ~(m <= m - 1)
      BY <2>2
    <3> QED
      BY <2>1, <3>1
  <2>4. PICK h : IsAfterEdits(s, es, n, h)
    BY <2>3
  <2>5. \E g : IsAfterEdits(s, es, n + 1, g)
    BY <2>4, PassesGoOn
  <2> QED
    BY <2>3, <2>5
<1>2. \E f : IsAfterEdits(s, es, Len(es), f)
  BY <1>1
<1> QED
  BY <1>2, Zenon DEF AfterEdits

\* What one pass makes of the text before it.
LEMMA PassIs ==
  ASSUME NEW s, NEW es, Len(es) \in Nat, NEW k \in 0..Len(es)
  PROVE  AfterEdits(s, es)[k] = IF k = 0 THEN s ELSE PatchReplaced(AfterEdits(s, es)[k - 1], es[Len(es) + 1 - k])
<1> DEFINE f == AfterEdits(s, es)
<1>1. IsAfterEdits(s, es, Len(es), f)
  BY PassesExist
<1> HIDE DEF f
<1>2. f[k] = IF k = 0 THEN s ELSE PatchReplaced(f[k - 1], es[Len(es) + 1 - k])
  BY <1>1 DEF IsAfterEdits
<1> QED
  BY <1>2 DEF f

\* The reference is the text after the last pass.
LEMMA AllReplacedIs ==
  AllReplaced = AfterEdits(source, edits)[Len(edits)]
BY DEF AllReplaced, AfterEdits, IsAfterEdits

\* The text when the edits from the i-th on are made.
Rest(s, es, i) == AfterEdits(s, es)[Len(es) + 1 - i]

\* Edits that lie in a text, in their order.
InOrderIn(s, es) ==
  /\ \A i \in 1..Len(es) : es[i].end <= Len(s)
  /\ \A i, j \in 1..Len(es) : i < j => es[i].end <= es[j].start

\* Up to where these edits leave the text alone.
Untouched(s, es, i) == IF i = Len(es) + 1 THEN Len(s) ELSE es[i].start

\* The rest from an offset on.
Onward(s, o) == SubSeq(s, o + 1, Len(s))

\* One edit of a text that agrees with the source up to its end.
LEMMA ReplacedOnce ==
  ASSUME NEW s \in Seq(Bytes), NEW r \in Seq(Bytes), NEW e \in Edits(s), NEW q \in Nat,
         e.end <= q, q <= Len(s), q <= Len(r),
         \A p \in 0..q : SubSeq(r, 1, p) = SubSeq(s, 1, p)
  PROVE  /\ PatchReplaced(r, e) \in Seq(Bytes)
         /\ PatchReplaced(r, e) = (SubSeq(s, 1, e.start) \o e.new) \o Onward(r, e.end)
         /\ e.start <= Len(PatchReplaced(r, e))
         /\ \A p \in 0..e.start : SubSeq(PatchReplaced(r, e), 1, p) = SubSeq(s, 1, p)
<1>1. /\ e.start \in Nat /\ e.end \in Nat /\ e.start <= e.end /\ e.new \in Seq(Bytes)
      /\ Len(s) \in Nat /\ Len(r) \in Nat
  BY PatchAssumption, LenProperties DEF Edits, Bytes
<1> DEFINE a == SubSeq(s, 1, e.start)
           c == Onward(r, e.end)
<1>2. SubSeq(r, 1, e.start) = a
  <2>1. e.start \in 0..q
    BY <1>1
  <2> QED
    BY <2>1
<1>3. a \in Seq(Bytes) /\ Len(a) = e.start
  <2>1. 0 \in Nat /\ e.start \in 0..Len(s) /\ 0 + 1 = 1 /\ e.start - 0 = e.start
    BY <1>1
  <2> QED
    BY <2>1, SliceIs
<1>4. c \in Seq(Bytes)
  <2>1. Len(r) \in e.end..Len(r)
    BY <1>1
  <2> QED
    BY <1>1, <2>1, SliceIs DEF Onward
<1>5. PatchReplaced(r, e) = (a \o e.new) \o c
  BY <1>2 DEF PatchReplaced, Onward
<1>6. \A p \in 0..e.start : SubSeq(a, 1, p) = SubSeq(s, 1, p)
  <2> SUFFICES ASSUME NEW p \in 0..e.start PROVE SubSeq(a, 1, p) = SubSeq(s, 1, p)
    OBVIOUS
  <2>1. s = a \o Onward(s, e.start) /\ Onward(s, e.start) \in Seq(Bytes)
    <3>1. 1 \in 1..(Len(s) + 1) /\ e.start \in (1 - 1)..Len(s) /\ Len(s) \in e.start..Len(s)
      BY <1>1
    <3>2. a \o Onward(s, e.start) = SubSeq(s, 1, Len(s))
      BY <3>1, ConcatAdjacentSubSeq DEF Onward
    <3> QED
      BY <1>1, <3>1, <3>2, SubSeqFull, SliceIs DEF Onward
  <2>2. p \in 0..Len(a)
    BY <1>3
  <2> HIDE DEF a
  <2> QED
    BY <1>3, <2>1, <2>2, JoinedFirst
<1> HIDE DEF a, c
<1>7. /\ a \o e.new \in Seq(Bytes) /\ Len(a \o e.new) = e.start + Len(e.new) /\ Len(e.new) \in Nat
  BY <1>1, <1>3, ConcatProperties, LenProperties
<1>8. /\ (a \o e.new) \o c \in Seq(Bytes) /\ Len((a \o e.new) \o c) = e.start + Len(e.new) + Len(c)
      /\ Len(c) \in Nat
  BY <1>4, <1>7, ConcatProperties, LenProperties
<1>9. ASSUME NEW p \in 0..e.start
      PROVE  SubSeq((a \o e.new) \o c, 1, p) = SubSeq(s, 1, p)
  <2>1. p \in 0..Len(a \o e.new) /\ p \in 0..Len(a)
    BY <1>1, <1>3, <1>7
  <2>2. SubSeq((a \o e.new) \o c, 1, p) = SubSeq(a \o e.new, 1, p)
    BY <1>4, <1>7, <2>1, JoinedFirst
  <2>3. SubSeq(a \o e.new, 1, p) = SubSeq(a, 1, p)
    BY <1>1, <1>3, <2>1, JoinedFirst
  <2> QED
    BY <1>6, <2>2, <2>3
<1>10. e.start <= Len((a \o e.new) \o c)
  BY <1>1, <1>7, <1>8
<1> QED
  BY <1>5, <1>8, <1>9, <1>10 DEF a, c

\* The edits made so far leave the text before the next one alone.
LEMMA PassesLeaveFront ==
  ASSUME NEW s \in Seq(Bytes), NEW es \in Seq(Edits(s)), InOrderIn(s, es)
  PROVE  \A i \in 1..(Len(es) + 1) :
           /\ Rest(s, es, i) \in Seq(Bytes)
           /\ Untouched(s, es, i) \in 0..Len(s) /\ Untouched(s, es, i) <= Len(Rest(s, es, i))
           /\ \A p \in 0..Untouched(s, es, i) : SubSeq(Rest(s, es, i), 1, p) = SubSeq(s, 1, p)
<1> DEFINE n == Len(es)
           f == AfterEdits(s, es)
           Good(i) == /\ Rest(s, es, i) \in Seq(Bytes)
                      /\ Untouched(s, es, i) \in 0..Len(s) /\ Untouched(s, es, i) <= Len(Rest(s, es, i))
                      /\ \A p \in 0..Untouched(s, es, i) : SubSeq(Rest(s, es, i), 1, p) = SubSeq(s, 1, p)
           T == {k \in 0..n : ~Good(n + 1 - k)}
<1>1. n \in Nat /\ Len(s) \in Nat /\ \A i \in 1..n : es[i] \in Edits(s)
  BY LenProperties, ElementOfSeq
<1>2. \A k \in 0..n : f[k] = IF k = 0 THEN s ELSE PatchReplaced(f[k - 1], es[n + 1 - k])
  BY <1>1, PassIs
<1>3. \A k \in 0..n : Rest(s, es, n + 1 - k) = f[k]
  <2> SUFFICES ASSUME NEW k \in 0..n PROVE Rest(s, es, n + 1 - k) = f[k]
    OBVIOUS
  <2>1. n + 1 - (n + 1 - k) = k
    BY <1>1
  <2> QED
    BY <2>1 DEF Rest
<1> HIDE DEF f
<1>4. Good(n + 1)
  <2>1. f[0] = s /\ n + 1 - 0 = n + 1 /\ 0 \in 0..n
    BY <1>1, <1>2
  <2>2. Rest(s, es, n + 1) = s
    BY <1>3, <2>1
  <2>3. Untouched(s, es, n + 1) = Len(s)
    BY DEF Untouched
  <2> QED
    BY <1>1, <2>2, <2>3
<1>5. ASSUME NEW i \in 1..n, Good(i + 1) PROVE Good(i)
  <2> DEFINE e == es[i]
             r == Rest(s, es, i + 1)
             q == Untouched(s, es, i + 1)
             k == n + 1 - i
  <2>1. k \in 0..n /\ k - 1 \in 0..n /\ k # 0 /\ n + 1 - k = i /\ n + 1 - (k - 1) = i + 1
    BY <1>1
  <2>2. Rest(s, es, i) = PatchReplaced(r, e)
    <3>1. Rest(s, es, i) = f[k] /\ r = f[k - 1]
      BY <1>3, <2>1
    <3> HIDE DEF k
    <3> QED
      BY <1>2, <2>1, <3>1
  <2>3. e \in Edits(s) /\ e.start \in Nat /\ e.end \in Nat /\ e.start <= e.end /\ e.end <= Len(s)
    BY <1>1 DEF Edits, InOrderIn
  <2>4. e.end <= q
    <3>1. CASE i = n
      BY <2>3, <3>1 DEF Untouched
    <3>2. CASE i # n
      <4>1. i + 1 \in 1..n /\ i < i + 1 /\ i + 1 # n + 1
        BY <1>1, <3>2
      <4>2. e.end <= es[i + 1].start
        BY <4>1 DEF InOrderIn
      <4> QED
        BY <4>1, <4>2 DEF Untouched
    <3> QED
      BY <3>1, <3>2
  <2>5. r \in Seq(Bytes) /\ q \in Nat /\ q <= Len(s) /\ q <= Len(r)
        /\ \A p \in 0..q : SubSeq(r, 1, p) = SubSeq(s, 1, p)
    BY <1>1, <1>5
  <2>6. Untouched(s, es, i) = e.start
    <3>1. i # n + 1
      BY <1>1
    <3> QED
      BY <3>1 DEF Untouched
  <2>7. e.start \in 0..Len(s)
    BY <1>1, <2>3
  <2> HIDE DEF e, r, q, k
  <2>8. /\ PatchReplaced(r, e) \in Seq(Bytes)
        /\ e.start <= Len(PatchReplaced(r, e))
        /\ \A p \in 0..e.start : SubSeq(PatchReplaced(r, e), 1, p) = SubSeq(s, 1, p)
    BY <2>3, <2>4, <2>5, ReplacedOnce
  <2> QED
    BY <2>2, <2>6, <2>7, <2>8
<1> HIDE DEF Good
<1>6. T = {}
  <2> SUFFICES ASSUME T # {} PROVE FALSE
    OBVIOUS
  <2>1. PICK m \in T : \A k \in T : m <= k
    <3> T \in SUBSET Nat
      OBVIOUS
    <3> HIDE DEF T
    <3> QED
      BY LeastNumber, Zenon
  <2>2. m # 0
    <3>1. n + 1 - 0 = n + 1
      BY <1>1
    <3> QED
      BY <1>4, <3>1
  <2>3. m - 1 \in 0..n /\ m - 1 \notin T
    BY <1>1, <2>1, <2>2
  <2>4. n + 1 - m \in 1..n /\ n + 1 - (m - 1) = (n + 1 - m) + 1
    BY <1>1, <2>2
  <2> QED
    BY <1>5, <2>3, <2>4
<1>7. \A i \in 1..(n + 1) : Good(i)
  <2> SUFFICES ASSUME NEW i \in 1..(n + 1) PROVE Good(i)
    OBVIOUS
  <2>1. n + 1 - i \in 0..n /\ n + 1 - (n + 1 - i) = i
    BY <1>1
  <2> QED
    BY <1>6, <2>1
<1> QED
  BY <1>7 DEF Good

\* The text after the i-th edit is the source up to it, its replacement and what the later
\* edits make of the rest.
LEMMA RestSplits ==
  ASSUME NEW s \in Seq(Bytes), NEW es \in Seq(Edits(s)), InOrderIn(s, es), NEW i \in 1..Len(es)
  PROVE  /\ Rest(s, es, i) = (SubSeq(s, 1, es[i].start) \o es[i].new) \o Onward(Rest(s, es, i + 1), es[i].end)
         /\ Rest(s, es, i + 1) \in Seq(Bytes) /\ es[i].end <= Len(Rest(s, es, i + 1))
<1> DEFINE n == Len(es)
           e == es[i]
           r == Rest(s, es, i + 1)
           q == Untouched(s, es, i + 1)
           k == n + 1 - i
<1>1. n \in Nat /\ Len(s) \in Nat /\ es[i] \in Edits(s)
  BY LenProperties, ElementOfSeq
<1>2. i + 1 \in 1..(n + 1) /\ k \in 0..n /\ k - 1 \in 0..n /\ k # 0 /\ n + 1 - k = i
      /\ n + 1 - (i + 1) = k - 1
  BY <1>1
<1>3. /\ r \in Seq(Bytes) /\ q \in 0..Len(s) /\ q <= Len(r)
      /\ \A p \in 0..q : SubSeq(r, 1, p) = SubSeq(s, 1, p)
  BY <1>2, PassesLeaveFront
<1>4. Rest(s, es, i) = PatchReplaced(r, e)
  <2>1. AfterEdits(s, es)[k] = PatchReplaced(AfterEdits(s, es)[k - 1], es[n + 1 - k])
    BY <1>1, <1>2, PassIs
  <2>2. Rest(s, es, i) = AfterEdits(s, es)[k] /\ r = AfterEdits(s, es)[k - 1]
    BY <1>2 DEF Rest
  <2> QED
    BY <1>2, <2>1, <2>2
<1>5. e.start \in Nat /\ e.end \in Nat /\ e.start <= e.end /\ e.end <= Len(s)
  BY <1>1 DEF Edits, InOrderIn
<1>6. e.end <= q
  <2>1. CASE i = n
    BY <1>5, <2>1 DEF Untouched
  <2>2. CASE i # n
    <3>1. i + 1 \in 1..n /\ i < i + 1 /\ i + 1 # n + 1
      BY <1>1, <2>2
    <3>2. e.end <= es[i + 1].start
      BY <3>1 DEF InOrderIn
    <3> QED
      BY <3>1, <3>2 DEF Untouched
  <2> QED
    BY <2>1, <2>2
<1>7. q \in Nat /\ q <= Len(s) /\ e.end <= Len(r)
  <2>1. Len(r) \in Nat
    BY <1>3, LenProperties
  <2> QED
    BY <1>1, <1>3, <1>5, <1>6, <2>1
<1> HIDE DEF e, r, q, k
<1>8. PatchReplaced(r, e) = (SubSeq(s, 1, e.start) \o e.new) \o Onward(r, e.end)
  BY <1>1, <1>3, <1>6, <1>7, ReplacedOnce DEF e
<1> QED
  BY <1>3, <1>4, <1>7, <1>8 DEF e, r

\* A slice of the front of a text is a slice of the text.
LEMMA SliceOfFront ==
  ASSUME NEW S, NEW s \in Seq(S), NEW b \in 0..Len(s), NEW a \in 0..b
  PROVE  /\ SubSeq(s, 1, b) \in Seq(S) /\ Len(SubSeq(s, 1, b)) = b
         /\ SubSeq(s, a + 1, b) \in Seq(S)
         /\ Onward(SubSeq(s, 1, b), a) = SubSeq(s, a + 1, b)
<1> DEFINE u == SubSeq(s, 1, b)
           v == SubSeq(s, a + 1, b)
           w == SubSeq(u, a + 1, b)
<1>1. Len(s) \in Nat /\ a \in Nat /\ b \in Nat /\ b \in a..Len(s) /\ 0 + 1 = 1 /\ b - 0 = b
      /\ b \in 0..Len(s)
  BY LenProperties
<1>2. v \in Seq(S) /\ Len(v) = b - a /\ \A i \in 1..(b - a) : v[i] = s[a + i]
  BY <1>1, SliceIs
<1>3. u \in Seq(S) /\ Len(u) = b /\ \A i \in 1..b : u[i] = s[0 + i]
  BY <1>1, SliceIs
<1> HIDE DEF u, v
<1>4. b \in a..Len(u)
  BY <1>1, <1>3
<1>5. w \in Seq(S) /\ Len(w) = b - a /\ \A i \in 1..(b - a) : w[i] = u[a + i]
  BY <1>1, <1>3, <1>4, SliceIs
<1>6. ASSUME NEW i \in 1..(b - a) PROVE w[i] = v[i]
  <2>1. a + i \in 1..b /\ 0 + (a + i) = a + i
    BY <1>1
  <2> QED
    BY <1>2, <1>3, <1>5, <2>1
<1> HIDE DEF w
<1>7. w = v
  BY <1>2, <1>5, <1>6, SeqEqual
<1> QED
  BY <1>2, <1>3, <1>7 DEF u, v, w, Onward

\* Joining three texts, in either order.
LEMMA JoinThrice ==
  \A x, y, z \in Seq(Bytes) : (x \o y) \o z = x \o (y \o z)
<1> DEFINE Join(x, y) == x \o y
<1>1. \A S : \A x, y, z \in Seq(S) : Join(Join(x, y), z) = Join(x, Join(y, z))
  BY ConcatAssociative
<1>2. \A x, y, z \in Seq(Bytes) : Join(Join(x, y), z) = Join(x, Join(y, z))
  <2> HIDE DEF Join
  <2> QED
    BY <1>1
<1> QED
  BY <1>2

\* What one edit adds to the output is what it makes of the source between the cursor and
\* its end.
LEMMA EditSplices ==
  ASSUME NEW s \in Seq(Bytes), NEW es \in Seq(Edits(s)), InOrderIn(s, es), NEW i \in 1..Len(es),
         NEW c \in 0..es[i].start, NEW out \in Seq(Bytes)
  PROVE  ((out \o SubSeq(s, c + 1, es[i].start)) \o es[i].new) \o Onward(Rest(s, es, i + 1), es[i].end)
           = out \o Onward(Rest(s, es, i), c)
<1> DEFINE e == es[i]
           P == SubSeq(s, 1, e.start)
           D == SubSeq(s, c + 1, e.start)
           r == Rest(s, es, i + 1)
           Y == Onward(r, e.end)
           N == e.new
<1>1. Len(es) \in Nat /\ Len(s) \in Nat /\ e \in Edits(s)
  BY LenProperties, ElementOfSeq
<1>2. /\ e.start \in Nat /\ e.end \in Nat /\ e.start <= e.end /\ N \in Seq(Bytes) /\ e.end <= Len(s)
  <2>1. e.start \in Nat /\ e.end \in Nat /\ e.start <= e.end /\ e.new \in Replacements
    BY <1>1 DEF Edits
  <2>2. Replacements \subseteq Seq(Bytes)
    BY PatchAssumption DEF Bytes
  <2>3. e.end <= Len(s)
    BY DEF InOrderIn
  <2> QED
    BY <2>1, <2>2, <2>3
<1>3. Rest(s, es, i) = (P \o N) \o Y /\ r \in Seq(Bytes) /\ e.end <= Len(r)
  BY RestSplits
<1>4. Y \in Seq(Bytes)
  <2>1. Len(r) \in e.end..Len(r)
    <3>1. Len(r) \in Nat
      BY <1>3, LenProperties
    <3> QED
      BY <1>2, <1>3, <3>1
  <2> HIDE DEF r, e
  <2> QED
    BY <1>2, <1>3, <2>1, SliceIs DEF Onward
<1>5. /\ P \in Seq(Bytes) /\ Len(P) = e.start /\ D \in Seq(Bytes) /\ Onward(P, c) = D
  <2>1. e.start \in 0..Len(s)
    BY <1>1, <1>2
  <2> QED
    BY <2>1, SliceOfFront, ZenonT(30)
<1>6. c \in 0..e.start
  OBVIOUS
<1> HIDE DEF e, P, D, r, Y, N
<1>7. /\ P \o N \in Seq(Bytes) /\ Len(P \o N) = e.start + Len(N) /\ Len(N) \in Nat
  BY <1>2, <1>5, ConcatProperties, LenProperties, ZenonT(30)
<1>8. Onward((P \o N) \o Y, c) = Onward(P \o N, c) \o Y
  <2>1. c \in 0..Len(P \o N)
    BY <1>2, <1>6, <1>7
  <2> QED
    BY <1>4, <1>7, <2>1, JoinedRest DEF Onward
<1>9. Onward(P \o N, c) = D \o N
  <2>1. c \in 0..Len(P)
    BY <1>5, <1>6
  <2> QED
    BY <1>2, <1>5, <2>1, JoinedRest DEF Onward
<1>10. D \o N \in Seq(Bytes) /\ out \o D \in Seq(Bytes) /\ (out \o D) \o N \in Seq(Bytes)
  BY <1>2, <1>5, ConcatProperties
<1> DEFINE Join(x, y) == x \o y
<1>0. \A x, y, z \in Seq(Bytes) : Join(Join(x, y), z) = Join(x, Join(y, z))
  BY JoinThrice
<1>11. ((out \o D) \o N) \o Y = (out \o (D \o N)) \o Y
  <2>1. Join(Join(out, D), N) = Join(out, Join(D, N))
    <3> HIDE DEF Join
    <3> QED
      BY <1>0, <1>2, <1>5
  <2> QED
    BY <2>1
<1>12. (out \o (D \o N)) \o Y = out \o ((D \o N) \o Y)
  <2>1. Join(D, N) \in Seq(Bytes)
    BY <1>10
  <2>2. Join(Join(out, Join(D, N)), Y) = Join(out, Join(Join(D, N), Y))
    <3> HIDE DEF Join
    <3> QED
      BY <1>0, <1>4, <2>1
  <2> QED
    BY <2>2
<1>13. ((out \o D) \o N) \o Y = out \o Onward(Rest(s, es, i), c)
  BY <1>3, <1>8, <1>9, <1>11, <1>12
<1> QED
  BY <1>13 DEF D, N, Y, r, e

-----------------------------------------------------------------------------
\* The edits before the next one fit, and the cursor is at the end of the last of them.
CheckedInv ==
  /\ \A i \in 1..(index - 1) :
       edits[i].end <= Len(source) /\ Clean(source, edits[i].start) /\ Clean(source, edits[i].end)
  /\ \A i, j \in 1..(index - 1) : i < j => edits[i].end <= edits[j].start
  /\ cursor = IF index = 1 THEN 0 ELSE edits[index - 1].end

\* The output so far, and what the other edits make of the rest, are the result.
OutputInv ==
  verdict = "running" =>
    /\ output \in Seq(Bytes) /\ Utf8(output)
    /\ InOrderIn(source, edits) =>
         output \o Onward(Rest(source, edits, index), cursor) = AllReplaced

\* What is known when a patch has been applied or refused.
VerdictInv ==
  /\ verdict = "applied" =>
       index = Len(edits) + 1 /\ ~stale /\ (InOrderIn(source, edits) => output = AllReplaced)
  /\ verdict = "INVALID_BYTE_EDITS" => index <= Len(edits) /\ ~Fits(edits[index])
  /\ verdict # "INVALID_UTF8"

PatchIInv ==
  /\ source \in Seq(Bytes) /\ edits \in Seq(Edits(source)) /\ PatchTypeOK
  /\ CheckedInv /\ OutputInv /\ VerdictInv

\* Nothing is checked yet and everything is still to be made.
LEMMA InitPatchIInv == PatchInit => PatchIInv
<1> SUFFICES ASSUME PatchInit PROVE PatchIInv
  OBVIOUS
<1>1. /\ source \in Seq(Bytes) /\ Utf8(source) /\ stale \in BOOLEAN
      /\ index = 1 /\ cursor = 0 /\ output = <<>> /\ verdict = "running"
  BY PatchAssumption DEF PatchInit, Bytes
<1>2. PICK n \in 1..MaxEdits : edits \in [1..n -> Edits(source)]
  BY DEF PatchInit
<1>3. n \in Nat
  BY PatchAssumption
<1>4. edits \in Seq(Edits(source))
  BY <1>2, <1>3, SeqDef
<1>5. Len(edits) \in Nat /\ Len(source) \in Nat
  BY <1>1, <1>4, LenProperties
<1>6. PatchTypeOK
  BY <1>1, <1>5 DEF PatchTypeOK
<1>7. CheckedInv
  BY <1>1 DEF CheckedInv
<1>8. OutputInv
  <2>1. output \in Seq(Bytes) /\ Utf8(output)
    BY <1>1 DEF Utf8
  <2>2. ASSUME InOrderIn(source, edits)
        PROVE  output \o Onward(Rest(source, edits, index), cursor) = AllReplaced
    <3> DEFINE r == Rest(source, edits, 1)
    <3>1. 1 \in 1..(Len(edits) + 1) /\ Len(edits) + 1 - 1 = Len(edits)
      BY <1>5
    <3>2. r \in Seq(Bytes)
      BY <1>1, <1>4, <2>2, <3>1, PassesLeaveFront
    <3>3. r = AllReplaced
      BY <3>1, AllReplacedIs DEF Rest
    <3> HIDE DEF r
    <3>4. Onward(r, 0) = r
      BY <3>2, SubSeqFull DEF Onward
    <3>5. <<>> \o r = r
      BY <3>2, ConcatEmptySeq
    <3> QED
      BY <1>1, <3>3, <3>4, <3>5 DEF r
  <2> QED
    BY <2>1, <2>2 DEF OutputInv
<1>9. VerdictInv
  BY <1>1 DEF VerdictInv
<1> QED
  BY <1>1, <1>4, <1>6, <1>7, <1>8, <1>9 DEF PatchIInv

\* The edits before the next one end before the cursor, which is at a character.
LEMMA CursorIs ==
  ASSUME PatchIInv
  PROVE  /\ cursor \in 0..Len(source) /\ Clean(source, cursor) /\ Len(source) \in Nat /\ Len(edits) \in Nat
         /\ index \in 1..(Len(edits) + 1) /\ \A i \in 1..(index - 1) : edits[i].end <= cursor
         /\ \A i \in 1..Len(edits) :
              /\ edits[i].start \in Nat /\ edits[i].end \in Nat /\ edits[i].start <= edits[i].end
              /\ edits[i].new \in Seq(Bytes) /\ Utf8(edits[i].new)
<1>1. /\ source \in Seq(Bytes) /\ edits \in Seq(Edits(source)) /\ PatchTypeOK /\ CheckedInv
  BY DEF PatchIInv
<1>2. /\ Len(source) \in Nat /\ Len(edits) \in Nat /\ \A i \in 1..Len(edits) : edits[i] \in Edits(source)
  BY <1>1, LenProperties, ElementOfSeq
<1>3. /\ cursor \in 0..Len(source) /\ index \in 1..(Len(edits) + 1)
  BY <1>1 DEF PatchTypeOK
<1>4. \A i \in 1..Len(edits) :
              /\ edits[i].start \in Nat /\ edits[i].end \in Nat /\ edits[i].start <= edits[i].end
              /\ edits[i].new \in Seq(Bytes) /\ Utf8(edits[i].new)
  BY <1>2, PatchAssumption DEF Edits, Bytes
<1>5. CASE index = 1
  BY <1>1, <1>2, <1>3, <1>4, <1>5 DEF CheckedInv, Clean
<1>6. CASE index # 1
  <2>1. index - 1 \in 1..(index - 1) /\ index - 1 \in 1..Len(edits)
    BY <1>2, <1>3, <1>6
  <2>2. cursor = edits[index - 1].end /\ Clean(source, cursor)
    BY <1>1, <1>6, <2>1 DEF CheckedInv
  <2>3. ASSUME NEW i \in 1..(index - 1) PROVE edits[i].end <= cursor
    <3>1. i \in 1..Len(edits) /\ (i = index - 1 \/ i < index - 1)
      BY <1>2, <1>3
    <3>2. i < index - 1 => edits[i].end <= edits[index - 1].start
      BY <1>1, <2>1 DEF CheckedInv
    <3> QED
      BY <1>4, <2>1, <2>2, <3>1, <3>2
  <2> QED
    BY <1>2, <1>3, <1>4, <2>2, <2>3
<1> QED
  BY <1>5, <1>6

\* A sound patch fits at every edit.
LEMMA SoundFits ==
  ASSUME PatchIInv, SoundPatch, index <= Len(edits)
  PROVE  Fits(edits[index])
<1> DEFINE e == edits[index]
<1>1. /\ source \in Seq(Bytes) /\ Utf8(source) /\ edits \in Seq(Edits(source)) /\ CheckedInv
  BY DEF PatchIInv, PatchTypeOK
<1>2. /\ Len(source) \in Nat /\ Len(edits) \in Nat /\ index \in 1..Len(edits) /\ DOMAIN edits = 1..Len(edits)
      /\ e.start \in Nat /\ e.end \in Nat /\ e.start <= e.end
  BY <1>1, CursorIs, LenProperties
<1>3. /\ e.end <= Len(source) /\ Clean(source, e.start) /\ Clean(source, e.end)
  BY <1>2 DEF SoundPatch, CutsCharacter, Clean
<1>4. Boundary(e.start) /\ Boundary(e.end)
  BY <1>1, <1>2, <1>3, BoundaryIsClean
<1>5. e.start >= cursor
  <2>1. CASE index = 1
    BY <1>1, <1>2, <2>1 DEF CheckedInv
  <2>2. CASE index # 1
    <3>1. index - 1 \in 1..Len(edits) /\ index - 1 < index
      BY <1>2, <2>2
    <3>2. cursor = edits[index - 1].end /\ edits[index - 1].end <= e.start
      BY <1>1, <1>2, <2>2, <3>1 DEF CheckedInv, SoundPatch
    <3> QED
      BY <1>2, <3>1, <3>2, CursorIs
  <2> QED
    BY <2>1, <2>2
<1> QED
  BY <1>3, <1>4, <1>5 DEF Fits

\* When every edit fits, the patch is sound.
LEMMA AllFitSound ==
  ASSUME PatchIInv, index = Len(edits) + 1
  PROVE  SoundPatch /\ InOrderIn(source, edits)
<1>1. Len(edits) \in Nat /\ index - 1 = Len(edits) /\ DOMAIN edits = 1..Len(edits) /\ CheckedInv
  BY CursorIs, LenProperties DEF PatchIInv
<1> QED
  BY <1>1 DEF CheckedInv, SoundPatch, CutsCharacter, Clean, InOrderIn

\* A refusal changes the verdict only (CONTENT_HASH_MISMATCH, INVALID_BYTE_EDITS).
LEMMA RefusePreserves == PatchIInv /\ (CompareHash \/ RefuseEdit) => PatchIInv'
<1> SUFFICES ASSUME PatchIInv, CompareHash \/ RefuseEdit PROVE PatchIInv'
  OBVIOUS
<1> USE DEF PatchIInv
<1>1. UNCHANGED <<source, edits, stale, index, cursor, output>>
      /\ verdict' \in {"CONTENT_HASH_MISMATCH", "INVALID_BYTE_EDITS"}
  BY DEF CompareHash, RefuseEdit, Refuse
<1>2. PatchTypeOK'
  BY <1>1 DEF PatchTypeOK, Utf8
<1>3. CheckedInv'
  BY <1>1 DEF CheckedInv
<1>4. OutputInv'
  BY <1>1 DEF OutputInv
<1>5. VerdictInv'
  <2>1. verdict' = "INVALID_BYTE_EDITS" => index <= Len(edits) /\ ~Fits(edits[index])
    BY DEF CompareHash, RefuseEdit, Refuse
  <2>2. Fits(edits[index])' <=> Fits(edits[index])
    BY <1>1 DEF Fits, Boundary, Slice, Utf8
  <2> QED
    BY <1>1, <2>1, <2>2 DEF VerdictInv
<1> QED
  BY <1>1, <1>2, <1>3, <1>4, <1>5

\* The rest of the source is what no edit changes; the result is a text.
LEMMA FinishPreserves == PatchIInv /\ Finish => PatchIInv'
<1> SUFFICES ASSUME PatchIInv, Finish PROVE PatchIInv'
  OBVIOUS
<1> DEFINE rest == Slice(cursor, Len(source))
<1>1. /\ source \in Seq(Bytes) /\ edits \in Seq(Edits(source)) /\ PatchTypeOK /\ CheckedInv
      /\ output \in Seq(Bytes) /\ Utf8(output) /\ Utf8(source) /\ verdict = "running"
  BY DEF PatchIInv, PatchTypeOK, Finish, OutputInv
<1>2. /\ UNCHANGED <<source, edits, stale, index, cursor>> /\ ~stale /\ output' = output \o rest
      /\ verdict' = IF Utf8(output') THEN "applied" ELSE "INVALID_UTF8"
  BY DEF Finish
<1>3. index = Len(edits) + 1 /\ Len(edits) \in Nat /\ Len(source) \in Nat /\ cursor \in 0..Len(source)
      /\ Clean(source, cursor)
  BY CursorIs DEF Finish
<1>4. rest \in Seq(Bytes) /\ Utf8(rest)
  <2>1. cursor \in Nat /\ Len(source) \in cursor..Len(source) /\ Clean(source, Len(source))
    BY <1>3 DEF Clean
  <2> QED
    BY <1>1, <1>3, <2>1, SliceIs, SliceIsText DEF Slice
<1>5. Utf8(output \o rest)
  BY <1>1, <1>4, JoinedText
<1>6. verdict' = "applied"
  BY <1>2, <1>5
<1>7. ASSUME InOrderIn(source, edits) PROVE output \o rest = AllReplaced
  <2>1. output \o Onward(Rest(source, edits, index), cursor) = AllReplaced
    BY <1>1, <1>7 DEF PatchIInv, OutputInv
  <2>2. Rest(source, edits, index) = source
    <3>1. Len(edits) + 1 - index = 0 /\ 0 \in 0..Len(edits)
      BY <1>3
    <3>2. AfterEdits(source, edits)[0] = source
      BY <1>3, <3>1, PassIs
    <3> QED
      BY <3>1, <3>2 DEF Rest
  <2> QED
    BY <2>1, <2>2 DEF Onward, Slice
<1>8. AllReplaced' = AllReplaced
  BY <1>2 DEF AllReplaced
<1>9. PatchTypeOK'
  BY <1>1, <1>2, <1>6 DEF PatchTypeOK, Utf8
<1>10. CheckedInv'
  BY <1>1, <1>2 DEF CheckedInv
<1>11. OutputInv'
  BY <1>6 DEF OutputInv
<1>12. VerdictInv'
  <2>1. InOrderIn(source, edits)' <=> InOrderIn(source, edits)
    BY <1>2 DEF InOrderIn
  <2> QED
    BY <1>2, <1>3, <1>6, <1>7, <1>8, <2>1 DEF VerdictInv
<1> QED
  BY <1>1, <1>2, <1>9, <1>10, <1>11, <1>12 DEF PatchIInv

\* The skipped part of the source and the replacement are the next part of the result.
LEMMA ApplyPreserves == PatchIInv /\ ApplyEdit => PatchIInv'
<1> SUFFICES ASSUME PatchIInv, ApplyEdit PROVE PatchIInv'
  OBVIOUS
<1> DEFINE e == edits[index]
           skipped == Slice(cursor, e.start)
<1>1. /\ source \in Seq(Bytes) /\ edits \in Seq(Edits(source)) /\ PatchTypeOK /\ CheckedInv
      /\ output \in Seq(Bytes) /\ Utf8(output) /\ Utf8(source) /\ verdict = "running"
  BY DEF PatchIInv, PatchTypeOK, ApplyEdit, OutputInv
<1>2. /\ UNCHANGED <<source, edits, stale, verdict>> /\ index' = index + 1 /\ Fits(e)
      /\ output' = (output \o skipped) \o e.new /\ cursor' = e.end /\ index <= Len(edits)
  BY DEF ApplyEdit
<1>3. /\ index \in 1..Len(edits) /\ index + 1 \in 1..(Len(edits) + 1) /\ index + 1 - 1 = index
      /\ index + 1 # 1 /\ Len(edits) \in Nat /\ Len(source) \in Nat
      /\ cursor \in 0..Len(source) /\ Clean(source, cursor)
      /\ e.start \in Nat /\ e.end \in Nat /\ e.start <= e.end /\ e.new \in Seq(Bytes) /\ Utf8(e.new)
  BY <1>2, CursorIs, SMTT(30)
<1>4. /\ e.start >= cursor /\ e.end <= Len(source) /\ Clean(source, e.start) /\ Clean(source, e.end)
  <2>1. e.start \in 0..Len(source) /\ e.end \in 0..Len(source)
    BY <1>2, <1>3 DEF Fits
  <2> QED
    BY <1>1, <1>2, <2>1, BoundaryIsClean DEF Fits
<1>5. skipped \in Seq(Bytes) /\ Utf8(skipped)
  <2>1. /\ cursor \in Nat /\ e.start \in cursor..Len(source)
    BY <1>3, <1>4
  <2> QED
    BY <1>1, <1>3, <1>4, <2>1, SliceIs, SliceIsText DEF Slice
<1> HIDE DEF skipped
<1>6. output \o skipped \in Seq(Bytes) /\ Utf8(output \o skipped)
  BY <1>1, <1>5, ConcatProperties, JoinedText
<1>7. output' \in Seq(Bytes) /\ Utf8(output')
  <2>1. (output \o skipped) \o e.new \in Seq(Bytes) /\ Utf8((output \o skipped) \o e.new)
    <3> DEFINE o == output \o skipped
               new == e.new
    <3>1. o \in Seq(Bytes) /\ Utf8(o) /\ new \in Seq(Bytes) /\ Utf8(new)
      BY <1>3, <1>6
    <3> HIDE DEF o, new
    <3>2. o \o new \in Seq(Bytes) /\ Utf8(o \o new)
      BY <3>1, ConcatProperties, JoinedText
    <3> QED
      BY <3>2 DEF o, new
  <2> QED
    BY <1>2, <2>1
<1>8. ASSUME InOrderIn(source, edits)
      PROVE  ((output \o skipped) \o e.new) \o Onward(Rest(source, edits, index + 1), e.end) = AllReplaced
  <2>1. output \o Onward(Rest(source, edits, index), cursor) = AllReplaced
    BY <1>1, <1>8 DEF PatchIInv, OutputInv
  <2>2. cursor \in 0..e.start
    BY <1>3, <1>4
  <2>3. ((output \o SubSeq(source, cursor + 1, e.start)) \o e.new) \o Onward(Rest(source, edits, index + 1), e.end)
          = output \o Onward(Rest(source, edits, index), cursor)
    BY <1>1, <1>3, <1>8, <2>2, EditSplices, ZenonT(30)
  <2> QED
    BY <2>1, <2>3 DEF skipped, Slice
<1>9. AllReplaced' = AllReplaced
  BY <1>2 DEF AllReplaced
<1>10. InOrderIn(source, edits)' <=> InOrderIn(source, edits)
  BY <1>2 DEF InOrderIn
<1>11. PatchTypeOK'
  BY <1>1, <1>2, <1>3, <1>4 DEF PatchTypeOK, Utf8
<1>12. CheckedInv'
  <2>1. ASSUME NEW i \in 1..index
        PROVE  edits[i].end <= Len(source) /\ Clean(source, edits[i].start) /\ Clean(source, edits[i].end)
    <3>1. i = index \/ i \in 1..(index - 1)
      BY <1>3
    <3> QED
      BY <1>1, <1>4, <3>1 DEF CheckedInv
  <2>2. ASSUME NEW i \in 1..index, NEW j \in 1..index, i < j
        PROVE  edits[i].end <= edits[j].start
    <3>1. i \in 1..(index - 1) /\ (j = index \/ j \in 1..(index - 1)) /\ i \in 1..Len(edits)
      BY <1>3, <2>2, SMTT(30)
    <3>2. edits[i].end <= cursor /\ edits[i].end \in Nat /\ cursor \in Nat
      BY <1>3, <3>1, CursorIs
    <3>3. j = index => edits[i].end <= edits[j].start
      BY <1>3, <1>4, <3>2
    <3> QED
      BY <1>1, <2>2, <3>1, <3>3 DEF CheckedInv
  <2>3. cursor' = edits'[index' - 1].end /\ index' # 1 /\ index' - 1 = index
    BY <1>2, <1>3
  <2> HIDE DEF e
  <2> QED
    BY <1>2, <2>1, <2>2, <2>3 DEF CheckedInv
<1>13. OutputInv'
  BY <1>2, <1>7, <1>8, <1>9, <1>10 DEF OutputInv
<1>14. VerdictInv'
  BY <1>1, <1>2 DEF VerdictInv
<1> QED
  BY <1>1, <1>2, <1>11, <1>12, <1>13, <1>14 DEF PatchIInv

\* A patch that is not run any further keeps its arguments and its result.
LEMMA StutterPatch == PatchIInv /\ UNCHANGED patchVars => PatchIInv'
<1> SUFFICES ASSUME PatchIInv, UNCHANGED patchVars PROVE PatchIInv'
  OBVIOUS
<1>1. UNCHANGED <<source, edits, stale, index, cursor, output, verdict>>
  BY DEF patchVars
<1>2. PatchTypeOK'
  BY <1>1 DEF PatchIInv, PatchTypeOK, Utf8
<1>3. AllReplaced' = AllReplaced
  BY <1>1 DEF AllReplaced
<1>4. InOrderIn(source, edits)' <=> InOrderIn(source, edits)
  BY <1>1 DEF InOrderIn
<1>5. Fits(edits[index])' <=> Fits(edits[index])
  BY <1>1 DEF Fits, Boundary, Slice, Utf8
<1>6. CheckedInv'
  BY <1>1 DEF PatchIInv, CheckedInv
<1>7. OutputInv'
  BY <1>1, <1>3, <1>4 DEF PatchIInv, OutputInv
<1>8. VerdictInv'
  BY <1>1, <1>3, <1>4, <1>5 DEF PatchIInv, VerdictInv
<1> QED
  BY <1>1, <1>2, <1>6, <1>7, <1>8 DEF PatchIInv

\* The invariant of one pass over the edits.
THEOREM PatchInvariant == PatchSpec => []PatchIInv
<1>1. PatchIInv /\ [PatchNext]_patchVars => PatchIInv'
  BY RefusePreserves, ApplyPreserves, FinishPreserves, StutterPatch DEF PatchNext
<1> QED
  BY InitPatchIInv, <1>1, PTL DEF PatchSpec

\* PatchPayload.apply gives what the edits mean one by one for the sound patches, a text,
\* and refuses the others, whatever the document, the number of edits and what they put in.
THEOREM PatchesAreExact == PatchSpec => []ApplyIsExact
<1>1. PatchIInv => ApplyIsExact
  <2> SUFFICES ASSUME PatchIInv PROVE ApplyIsExact
    OBVIOUS
  <2>1. PatchTypeOK /\ VerdictInv
    BY DEF PatchIInv
  <2>2. ASSUME verdict = "applied" PROVE output = AllReplaced /\ SoundPatch /\ ~stale
    BY <2>1, <2>2, AllFitSound DEF VerdictInv
  <2>3. ASSUME verdict = "INVALID_BYTE_EDITS" PROVE ~SoundPatch
    BY <2>1, <2>3, SoundFits DEF VerdictInv
  <2> QED
    BY <2>1, <2>2, <2>3 DEF ApplyIsExact, ApplyMatchesEdits, AppliesSoundPatches, ResultIsText, VerdictInv
<1> QED
  BY PatchInvariant, <1>1, PTL

-----------------------------------------------------------------------------
(* The gate, the runs and the acceptance checker.                          *)

(* Types of the records.                                                    *)
GateTypes == {"CapabilityMinted"} \cup FoundationAuditTypes
StepTypes == {"ScheduleProposed", "LeaseGranted", "WorkerStarted", "AgentRunCompleted", "WorkerStopped",
              "LeaseReleased", "FormalActionRecorded", "DocumentEdited", "ContributionSubmitted",
              "ContributionRebased", "PromotionVerificationRecorded", "DeclarationPublished",
              "KnowledgeDeltaPublished", "KnowledgeDeltaAcknowledged", "LeanRuntimeStarted",
              "LeanRuntimeStopped", "AlignmentReviewed", "RunCompleted", "RunAborted",
              "ArtifactRegistered", "FormalTraceSealed"}
StepRefs == {"-", "prover-a", "prover-b", "other", "alignment-auditor", "goal", "trial", "diagnostics",
             "aligned", "misaligned", "run-manifest.json", "alignment-review.json",
             "formal-trace.jsonl", "formal-trace.sha256", "acceptance-report.json"}
GateRefs == {"-", "MISSING_TOKEN", "UNKNOWN_TOKEN", "ROLE_MISMATCH", "UNADVERTISED_OPERATION", Completion}
              \cup DeniedOps \cup AllowedOps
FoundationEvents ==
  [run : {"gate", "run", "project"} \X Nat,
   type : GateTypes \cup StepTypes \cup {"ProjectInitialized", "RunCreated"},
   ref : GateRefs \cup StepRefs \cup Backends, n : Nat, policy : {"-"} \cup Policies]

RecordTypes ==
  /\ log \in Seq(FoundationEvents)
  /\ gate \in [at : {"idle", "authority", "probing", "probed"}, id : Nat, policy : {"-"} \cup Policies,
               digest : SUBSET Nat, done : Nat]
  /\ run \in [at : {"idle", "running"}, id : 0..MaxRuns, backend : {"-"} \cup Backends, step : Nat]
  /\ check \in [at : {"idle", "reading"}, asked : 0..MaxRuns, events : Nat, artifacts : Nat,
                run : 0..MaxRuns, verdict : {"none", "pass"}]
  /\ left \in SUBSET (Nat \X Nat)

\* Who may have written an event.  Only gates write what is audited, no number is ahead of
\* the epoch but the next one, and the completion of a gate is written when it passes.
WrittenBy(e) ==
  /\ \/ \E g \in DOMAIN gates : e.run = GateRun(g)
     \/ \E r \in 1..run.id : e.run = RealRun(r) /\ e.type \notin FoundationAuditTypes
     \/ e.run = <<"project", 0>> /\ e.type \notin FoundationAuditTypes \cup {"RunCreated"}
  /\ e.n <= Epoch + 1
  /\ e.type = "RunCreated" => e.n <= Epoch
  /\ \A g \in DOMAIN gates :
       e.run = GateRun(g) /\ e.type \in ProbeTypes /\ e.ref = Completion => gates[g] = "passed"

WritersInv == \A i \in DOMAIN log : WrittenBy(log[i])

\* Every run has its first event.
CreatedInv ==
  /\ \A r \in 1..run.id : Of(Len(log), RealRun(r), "RunCreated") # {}
  /\ run.at = "running" => run.id \in 1..MaxRuns /\ run.step > 0

\* The gate in progress is the last one.  From its first probe on, what others wrote is not
\* in the digest it compares with.
GateInv ==
  gate.at # "idle" =>
    /\ gate.id = Len(gates) /\ gate.id \in DOMAIN gates /\ gates[gate.id] = "open"
    /\ gate.at = "authority" => ProbesOf(Len(log), gate.id) = {}
    /\ gate.at \in {"probing", "probed"} =>
         /\ gate.digest \subseteq DOMAIN log
         /\ \A p \in ProbesOf(Len(log), gate.id) : \A i \in p..Len(log) :
              log[i].run # GateRun(gate.id) =>
                i \notin gate.digest /\ log[i].type \notin FoundationAuditTypes

\* GatePassIsUndisturbed for any two probes.
PassedInv ==
  \A g \in DOMAIN gates : gates[g] = "passed" =>
    /\ ProbesOf(Len(log), g) # {}
    /\ \A p, q \in ProbesOf(Len(log), g) : \A i \in p..q : log[i].run = GateRun(g)

\* While the checker reads, no agent runs; a run that was accepted is over.
CheckInv ==
  /\ check.at = "reading" =>
       /\ owner \in {"checker", "controller"}
       /\ check.events <= Len(log) /\ check.verdict = "none"
       /\ check.events > 0 =>
            \A i \in (check.events + 1)..Len(log) : log[i].type # "AgentRunCompleted"
  /\ check.verdict = "pass" =>
       /\ check.run \in 1..run.id
       /\ run.at = "running" => run.id # check.run

FoundationIInv ==
  /\ RecordTypes /\ FoundationTypeOK /\ WritersInv /\ CreatedInv /\ GateInv /\ PassedInv
  /\ CheckInv /\ AcceptedRunWasGated

-----------------------------------------------------------------------------
\* A set of sequence numbers that is not empty has a first and a last one.
LEMMA Extremes ==
  ASSUME NEW n \in Nat, NEW S \in SUBSET (1..n), S # {}
  PROVE  /\ Minimum(S) \in S /\ \A i \in S : Minimum(S) <= i
         /\ Maximum(S) \in S /\ \A i \in S : i <= Maximum(S)
<1>1. \E i \in S : \A j \in S : i <= j
  <2>1. S \in SUBSET Nat
    OBVIOUS
  <2> QED
    BY <2>1, LeastNumber
<1>2. \E i \in S : \A j \in S : j <= i
  <2> DEFINE T == {n - i : i \in S}
  <2>1. T \in SUBSET Nat /\ T # {}
    <3>1. \A i \in S : n - i \in Nat
      OBVIOUS
    <3>2. T \in SUBSET Nat
      BY <3>1
    <3> QED
      BY <3>2
  <2>2. PICK m \in T : \A k \in T : m <= k
    <3> HIDE DEF T
    <3> QED
      BY <2>1, LeastNumber
  <2>3. PICK i \in S : m = n - i
    BY <2>2
  <2>4. ASSUME NEW j \in S PROVE j <= i
    <3>1. n - j \in T
      OBVIOUS
    <3>2. n - i <= n - j /\ i \in 1..n /\ j \in 1..n
      BY <2>2, <2>3, <3>1
    <3> QED
      BY <3>2
  <2> QED
    BY <2>4
<1>3. Minimum(S) \in S /\ \A i \in S : Minimum(S) <= i
  BY <1>1, Zenon DEF Minimum
<1>4. Maximum(S) \in S /\ \A i \in S : i <= Maximum(S)
  BY <1>2, Zenon DEF Maximum
<1> QED
  BY <1>3, <1>4

\* The events of a step come after those there are.
NewEvents == (Len(log) + 1)..Len(log')
Grown ==
  /\ log \in Seq(FoundationEvents) /\ log' \in Seq(FoundationEvents)
  /\ Len(log) <= Len(log')
  /\ \A i \in 1..Len(log) : log'[i] = log[i]

\* The lengths and the entries of a log.
LEMMA Lengths ==
  ASSUME log \in Seq(FoundationEvents)
  PROVE  Len(log) \in Nat /\ DOMAIN log = 1..Len(log) /\ \A i \in 1..Len(log) : log[i] \in FoundationEvents
BY LenProperties, ElementOfSeq

\* Where the entries of a log that grew come from.
LEMMA GrownLengths ==
  ASSUME Grown
  PROVE  /\ Len(log) \in Nat /\ Len(log') \in Nat /\ DOMAIN log = 1..Len(log) /\ DOMAIN log' = 1..Len(log')
         /\ \A i \in 1..Len(log') : log'[i] \in FoundationEvents /\ (i \in 1..Len(log) \/ i \in NewEvents)
         /\ \A i \in 1..Len(log) : i \in 1..Len(log') /\ i \notin NewEvents /\ log[i] \in FoundationEvents
<1>1. log \in Seq(FoundationEvents) /\ log' \in Seq(FoundationEvents) /\ Len(log) <= Len(log')
  BY DEF Grown
<1>2. Len(log) \in Nat /\ DOMAIN log = 1..Len(log) /\ \A i \in 1..Len(log) : log[i] \in FoundationEvents
  BY <1>1, LenProperties, ElementOfSeq
<1>3. Len(log') \in Nat /\ DOMAIN log' = 1..Len(log') /\ \A i \in 1..Len(log') : log'[i] \in FoundationEvents
  BY <1>1, LenProperties, ElementOfSeq
<1> QED
  BY <1>1, <1>2, <1>3 DEF NewEvents

\* Appended events are the new ones.
LEMMA Appended ==
  ASSUME log \in Seq(FoundationEvents), NEW ext \in Seq(FoundationEvents), log' = log \o ext
  PROVE  /\ Grown /\ Len(log') = Len(log) + Len(ext) /\ Len(ext) \in Nat
         /\ \A i \in NewEvents : i - Len(log) \in 1..Len(ext) /\ log'[i] = ext[i - Len(log)]
         /\ \A k \in 1..Len(ext) : Len(log) + k \in NewEvents /\ log'[Len(log) + k] = ext[k]
<1>1. /\ log \o ext \in Seq(FoundationEvents) /\ Len(log \o ext) = Len(log) + Len(ext)
      /\ Len(log) \in Nat /\ Len(ext) \in Nat
      /\ \A i \in 1..(Len(log) + Len(ext)) :
           (log \o ext)[i] = IF i <= Len(log) THEN log[i] ELSE ext[i - Len(log)]
  BY ConcatProperties, LenProperties
<1>2. /\ log' \in Seq(FoundationEvents) /\ Len(log') = Len(log) + Len(ext)
      /\ \A i \in 1..(Len(log) + Len(ext)) :
           log'[i] = IF i <= Len(log) THEN log[i] ELSE ext[i - Len(log)]
  BY <1>1
<1>3. Grown
  BY <1>1, <1>2 DEF Grown
<1>4. ASSUME NEW k \in 1..Len(ext) PROVE Len(log) + k \in NewEvents /\ log'[Len(log) + k] = ext[k]
  <2>1. /\ Len(log) + k \in 1..(Len(log) + Len(ext)) /\ ~(Len(log) + k <= Len(log))
        /\ Len(log) + k - Len(log) = k
    BY <1>1
  <2> QED
    BY <1>1, <1>2, <2>1 DEF NewEvents
<1>5. ASSUME NEW i \in NewEvents PROVE i - Len(log) \in 1..Len(ext) /\ log'[i] = ext[i - Len(log)]
  <2>1. i \in 1..(Len(log) + Len(ext)) /\ ~(i <= Len(log)) /\ i - Len(log) \in 1..Len(ext)
    BY <1>1, <1>2 DEF NewEvents
  <2> QED
    BY <1>2, <2>1
<1> QED
  BY <1>1, <1>2, <1>3, <1>4, <1>5

\* The same for one event.
LEMMA AppendedOne ==
  ASSUME log \in Seq(FoundationEvents), NEW e \in FoundationEvents, log' = Append(log, e)
  PROVE  /\ Grown /\ Len(log') = Len(log) + 1 /\ Len(log) \in Nat
         /\ NewEvents = {Len(log) + 1} /\ log'[Len(log) + 1] = e
<1>1. /\ log' \in Seq(FoundationEvents) /\ Len(log') = Len(log) + 1 /\ Len(log) \in Nat
      /\ \A i \in 1..Len(log) : log'[i] = log[i]
      /\ log'[Len(log) + 1] = e
  BY AppendProperties, LenProperties
<1> QED
  BY <1>1 DEF Grown, NewEvents

\* A step that records nothing.
LEMMA LogStays ==
  ASSUME log \in Seq(FoundationEvents), log' = log
  PROVE  Grown /\ NewEvents = {} /\ Epoch' = Epoch
<1>1. Len(log) \in Nat
  BY LenProperties
<1> QED
  BY <1>1 DEF Grown, NewEvents, Epoch

\* The epoch does not decrease, and moves on with a delta.
LEMMA EpochGrows ==
  ASSUME Grown
  PROVE  /\ Epoch \in Nat /\ Epoch' \in Nat /\ Epoch <= Epoch'
         /\ (\E i \in NewEvents : log'[i].type = "KnowledgeDeltaPublished") => Epoch + 1 <= Epoch'
<1> DEFINE D == {i \in DOMAIN log : log[i].type = "KnowledgeDeltaPublished"}
           E == {i \in DOMAIN log' : log'[i].type = "KnowledgeDeltaPublished"}
<1>1. /\ Len(log) \in Nat /\ Len(log') \in Nat /\ DOMAIN log = 1..Len(log) /\ DOMAIN log' = 1..Len(log')
      /\ \A i \in 1..Len(log) : i \in 1..Len(log') /\ i \notin NewEvents /\ log'[i] = log[i]
      /\ \A i \in NewEvents : i \in 1..Len(log')
  BY GrownLengths DEF Grown, NewEvents
<1>2. D \subseteq E /\ D \subseteq 1..Len(log) /\ E \subseteq 1..Len(log')
  BY <1>1
<1>3. IsFiniteSet(1..Len(log'))
  BY <1>1, FS_Interval
<1> HIDE DEF D, E
<1>4. IsFiniteSet(E) /\ IsFiniteSet(D)
  BY <1>2, <1>3, FS_Subset
<1>5. Cardinality(D) \in Nat /\ Cardinality(E) \in Nat /\ Cardinality(D) <= Cardinality(E)
  BY <1>2, <1>4, FS_CardinalityType, FS_Subset
<1>6. ASSUME NEW i \in NewEvents, log'[i].type = "KnowledgeDeltaPublished"
      PROVE  Cardinality(D) + 1 <= Cardinality(E)
  <2>1. i \in E /\ i \notin D
    <3>1. i \in DOMAIN log' /\ i \notin 1..Len(log)
      BY <1>1
    <3> QED
      BY <1>2, <1>6, <3>1 DEF E
  <2>2. D # E
    BY <2>1
  <2>3. Cardinality(D) # Cardinality(E)
    BY <1>2, <1>4, <2>2, FS_Subset
  <2> QED
    BY <1>5, <2>3
<1>7. Epoch = Cardinality(D) /\ Epoch' = Cardinality(E)
  BY DEF Epoch, D, E
<1> QED
  BY <1>5, <1>6, <1>7

\* The events that are there stay what they are.
LEMMA OfGrows ==
  ASSUME Grown, NEW id, NEW type
  PROVE  /\ Of(Len(log), id, type) \subseteq Of(Len(log), id, type)'
         /\ \A i \in Of(Len(log), id, type)' : i \in Of(Len(log), id, type) \/ i \in NewEvents
BY GrownLengths DEF Grown, Of

\* So does the place of the first event of a run.
LEMMA CreatedAtStays ==
  ASSUME Grown, NEW r, Of(Len(log), RealRun(r), "RunCreated") # {}
  PROVE  CreatedAt(r)' = CreatedAt(r) /\ CreatedAt(r) \in 1..Len(log)
<1> DEFINE S == Of(Len(log), RealRun(r), "RunCreated")
           T == Of(Len(log), RealRun(r), "RunCreated")'
<1>1. Len(log) \in Nat /\ Len(log') \in Nat /\ S \in SUBSET (1..Len(log)) /\ T \in SUBSET (1..Len(log'))
  BY GrownLengths DEF Of
<1>2. S \subseteq T /\ S # {} /\ \A i \in T : i \in S \/ i \in NewEvents
  BY OfGrows
<1> HIDE DEF S, T
<1>3. Minimum(S) \in S /\ \A i \in S : Minimum(S) <= i
  BY <1>1, <1>2, Extremes
<1>4. Minimum(T) \in T /\ \A i \in T : Minimum(T) <= i
  BY <1>1, <1>2, Extremes
<1>5. Minimum(S) = Minimum(T)
  <2>1. Minimum(T) <= Minimum(S) /\ Minimum(S) \in 1..Len(log)
    BY <1>1, <1>2, <1>3, <1>4
  <2>2. Minimum(T) \in 1..Len(log') /\ Minimum(T) <= Len(log)
    <3>1. Minimum(T) \in 1..Len(log')
      BY <1>1, <1>4
    <3> QED
      BY <1>1, <2>1, <3>1
  <2>3. Minimum(T) \notin NewEvents
    BY <1>1, <2>2 DEF NewEvents
  <2>4. Minimum(S) <= Minimum(T)
    BY <1>2, <1>3, <1>4, <2>3
  <2> QED
    BY <1>1, <2>1, <2>2, <2>4
<1>6. CreatedAt(r) = Minimum(S) /\ CreatedAt(r)' = Minimum(T)
  BY DEF CreatedAt, S, T, Minimum
<1> QED
  BY <1>1, <1>3, <1>5, <1>6

\* Names of gates, of runs and of the project differ.
LEMMA NamesDiffer ==
  /\ \A g, h : GateRun(g) = GateRun(h) => g = h
  /\ \A r, q : RealRun(r) = RealRun(q) => r = q
  /\ \A g, r : GateRun(g) # RealRun(r)
  /\ \A g : GateRun(g) # <<"project", 0>> /\ RealRun(g) # <<"project", 0>>
BY DEF GateRun, RealRun

\* What holds of the gates in a later state.
GatesGrow ==
  /\ DOMAIN gates \subseteq DOMAIN gates'
  /\ \A g \in DOMAIN gates : gates[g] = "passed" => gates'[g] = "passed"

\* What was rightly written before a step still is after it.
LEMMA WritersKept ==
  ASSUME WritersInv, Grown, GatesGrow, run.id \in Nat, run'.id \in Nat, run.id <= run'.id,
         \A i \in NewEvents : WrittenBy(log[i])'
  PROVE  WritersInv'
<1> SUFFICES ASSUME NEW i \in 1..Len(log') PROVE WrittenBy(log[i])'
  BY GrownLengths DEF WritersInv
<1>1. CASE i \in NewEvents
  BY <1>1
<1>2. CASE i \in 1..Len(log)
  <2> DEFINE e == log[i]
  <2>1. log'[i] = e /\ WrittenBy(e) /\ e \in FoundationEvents
    BY <1>2, GrownLengths DEF Grown, WritersInv
  <2>2. Epoch \in Nat /\ Epoch' \in Nat /\ Epoch <= Epoch' /\ e.n \in Nat
    BY <2>1, EpochGrows DEF FoundationEvents
  <2> HIDE DEF e
  <2>3. \/ \E g \in DOMAIN gates' : e.run = GateRun(g)
        \/ \E r \in 1..run'.id : e.run = RealRun(r) /\ e.type \notin FoundationAuditTypes
        \/ e.run = <<"project", 0>> /\ e.type \notin FoundationAuditTypes \cup {"RunCreated"}
    <3>1. \A r \in 1..run.id : r \in 1..run'.id
      OBVIOUS
    <3> QED
      BY <2>1, <3>1 DEF WrittenBy, GatesGrow
  <2>4. e.n <= Epoch' + 1 /\ (e.type = "RunCreated" => e.n <= Epoch')
    BY <2>1, <2>2 DEF WrittenBy
  <2>5. ASSUME NEW g \in DOMAIN gates', e.run = GateRun(g), e.type \in ProbeTypes, e.ref = Completion
        PROVE  gates'[g] = "passed"
    <3>1. g \in DOMAIN gates
      BY <2>1, <2>5, NamesDiffer, Zenon DEF WrittenBy
    <3>2. gates[g] = "passed"
      BY <2>1, <2>5, <3>1 DEF WrittenBy
    <3> QED
      BY <3>1, <3>2 DEF GatesGrow
  <2> QED
    BY <2>1, <2>3, <2>4, <2>5 DEF WrittenBy
<1> QED
  BY <1>1, <1>2, GrownLengths

\* A run keeps its first event.
LEMMA CreatedKept ==
  ASSUME CreatedInv, Grown, run'.id = run.id,
         run'.at = "running" => run.at = "running" /\ (run'.step = run.step \/ run'.step > 0)
  PROVE  CreatedInv'
BY OfGrows DEF CreatedInv

\* The gate in progress is not touched by what others record.
LEMMA GateKept ==
  ASSUME GateInv, Grown, gate' = gate, gates' = gates,
         \A i \in NewEvents : log'[i].run # GateRun(gate.id) /\ log'[i].type \notin FoundationAuditTypes
  PROVE  GateInv'
<1>1. CASE gate.at = "idle"
  BY <1>1 DEF GateInv
<1>2. CASE gate.at # "idle"
  <2>1. /\ Len(log) \in Nat /\ Len(log') \in Nat /\ DOMAIN log = 1..Len(log) /\ DOMAIN log' = 1..Len(log')
        /\ \A i \in 1..Len(log') : (i \in 1..Len(log) /\ log'[i] = log[i]) \/ i \in NewEvents
        /\ \A i \in 1..Len(log) : i \in 1..Len(log') /\ i \notin NewEvents /\ log'[i] = log[i]
    BY GrownLengths DEF Grown
  <2>2. ProbesOf(Len(log), gate.id)' = ProbesOf(Len(log), gate.id)
    BY <2>1 DEF ProbesOf
  <2>3. /\ gate.id = Len(gates) /\ gate.id \in DOMAIN gates /\ gates[gate.id] = "open"
        /\ gate.at = "authority" => ProbesOf(Len(log), gate.id) = {}
    BY <1>2 DEF GateInv
  <2>4. ASSUME gate.at \in {"probing", "probed"}
        PROVE  /\ gate.digest \subseteq DOMAIN log'
               /\ \A p \in ProbesOf(Len(log), gate.id) : \A i \in p..Len(log') :
                    log'[i].run # GateRun(gate.id) =>
                      i \notin gate.digest /\ log'[i].type \notin FoundationAuditTypes
    <3>1. gate.digest \subseteq 1..Len(log)
      BY <1>2, <2>1, <2>4 DEF GateInv
    <3>2. ASSUME NEW p \in ProbesOf(Len(log), gate.id), NEW i \in p..Len(log'),
                 log'[i].run # GateRun(gate.id)
          PROVE  i \notin gate.digest /\ log'[i].type \notin FoundationAuditTypes
      <4>1. p \in 1..Len(log) /\ i \in 1..Len(log')
        BY <2>1 DEF ProbesOf
      <4>2. CASE i \in NewEvents
        BY <2>1, <3>1, <4>2
      <4>3. CASE i \in 1..Len(log) /\ log'[i] = log[i]
        <5>1. i \in p..Len(log)
          BY <2>1, <4>1, <4>3
        <5> QED
          BY <1>2, <2>4, <3>2, <4>3, <5>1 DEF GateInv
      <4> QED
        BY <2>1, <4>1, <4>2, <4>3
    <3> QED
      BY <2>1, <3>1, <3>2
  <2> QED
    BY <2>2, <2>3, <2>4 DEF GateInv
<1> QED
  BY <1>1, <1>2

\* Nor are the gates that passed, unless others record between their probes.
LEMMA PassedKept ==
  ASSUME PassedInv, Grown,
         \A g \in DOMAIN gates' : gates'[g] = "passed" => g \in DOMAIN gates /\ gates[g] = "passed",
         \A i \in NewEvents : \A g \in DOMAIN gates : gates[g] = "passed" => log'[i].run # GateRun(g)
  PROVE  PassedInv'
<1> SUFFICES ASSUME NEW g \in DOMAIN gates', gates'[g] = "passed"
             PROVE  /\ ProbesOf(Len(log), g)' # {}
                    /\ \A p, q \in ProbesOf(Len(log), g)' : \A i \in p..q : log'[i].run = GateRun(g)
  BY DEF PassedInv
<1>1. /\ Len(log) \in Nat /\ Len(log') \in Nat
      /\ \A i \in 1..Len(log') : (i \in 1..Len(log) /\ log'[i] = log[i]) \/ i \in NewEvents
      /\ \A i \in 1..Len(log) : i \in 1..Len(log') /\ log'[i] = log[i]
  BY GrownLengths DEF Grown
<1>2. ProbesOf(Len(log), g)' = ProbesOf(Len(log), g)
  BY <1>1 DEF ProbesOf
<1>3. ASSUME NEW p \in ProbesOf(Len(log), g), NEW q \in ProbesOf(Len(log), g), NEW i \in p..q
      PROVE  log'[i].run = GateRun(g)
  <2>1. p \in 1..Len(log) /\ q \in 1..Len(log)
    BY DEF ProbesOf
  <2>2. i \in 1..Len(log) /\ log'[i] = log[i]
    BY <1>1, <2>1
  <2> QED
    BY <2>2 DEF PassedInv
<1> QED
  BY <1>2, <1>3 DEF PassedInv

\* A verdict stays true while the run it is about records no completion of an agent.
LEMMA AcceptedKept ==
  ASSUME AcceptedRunWasGated, Grown, GatesGrow,
         check'.verdict = "pass" => /\ check.verdict = "pass" /\ check'.run = check.run
                                    /\ Of(Len(log), RealRun(check.run), "RunCreated") # {},
         \A i \in NewEvents :
           log'[i].run = RealRun(check.run) => log'[i].type # "AgentRunCompleted"
  PROVE  AcceptedRunWasGated'
<1> SUFFICES ASSUME check'.verdict = "pass"
             PROVE  \E g \in DOMAIN gates', c \in DOMAIN log' :
                      /\ gates'[g] = "passed"
                      /\ log'[c].run = GateRun(g) /\ log'[c].ref = Completion
                      /\ c < CreatedAt(check.run)'
                      /\ \A i \in Of(Len(log), RealRun(check.run), "AgentRunCompleted")' :
                           log'[i].policy = log'[c].policy
                      /\ \A i \in (c + 1)..CreatedAt(check.run)' : log'[i].type \notin ProbeTypes
  BY DEF AcceptedRunWasGated
<1> DEFINE r == check.run
<1>1. check.verdict = "pass" /\ check'.run = r /\ Of(Len(log), RealRun(r), "RunCreated") # {}
  OBVIOUS
<1>2. /\ Len(log) \in Nat /\ Len(log') \in Nat /\ DOMAIN log = 1..Len(log) /\ DOMAIN log' = 1..Len(log')
      /\ \A i \in 1..Len(log) : i \in 1..Len(log') /\ log'[i] = log[i]
  BY GrownLengths DEF Grown
<1>3. PICK g \in DOMAIN gates, c \in DOMAIN log :
        /\ gates[g] = "passed"
        /\ log[c].run = GateRun(g) /\ log[c].ref = Completion
        /\ c < CreatedAt(r)
        /\ \A i \in Of(Len(log), RealRun(r), "AgentRunCompleted") : log[i].policy = log[c].policy
        /\ \A i \in (c + 1)..CreatedAt(r) : log[i].type \notin ProbeTypes
  BY <1>1 DEF AcceptedRunWasGated
<1>4. CreatedAt(check.run)' = CreatedAt(r) /\ CreatedAt(r) \in 1..Len(log)
  <2>1. CreatedAt(r)' = CreatedAt(r) /\ CreatedAt(r) \in 1..Len(log)
    BY <1>1, CreatedAtStays
  <2> QED
    BY <1>1, CreatedAtStays DEF CreatedAt
<1>5. /\ g \in DOMAIN gates' /\ gates'[g] = "passed" /\ c \in DOMAIN log' /\ log'[c] = log[c]
  BY <1>2, <1>3 DEF GatesGrow
<1>6. ASSUME NEW i \in Of(Len(log), RealRun(check.run), "AgentRunCompleted")'
      PROVE  log'[i].policy = log[c].policy
  <2>1. i \in 1..Len(log') /\ log'[i].run = RealRun(r) /\ log'[i].type = "AgentRunCompleted"
    BY <1>1 DEF Of
  <2>2. i \in 1..Len(log) /\ log'[i] = log[i]
    BY <1>2, <2>1, GrownLengths
  <2> QED
    BY <1>3, <2>1, <2>2 DEF Of
<1>7. ASSUME NEW i \in (c + 1)..CreatedAt(r) PROVE log'[i].type \notin ProbeTypes
  <2>1. i \in 1..Len(log)
    BY <1>2, <1>4
  <2> QED
    BY <1>2, <1>3, <2>1
<1> QED
  BY <1>3, <1>4, <1>5, <1>6, <1>7

\* What remains to be shown of a step once its events are typed.
LEMMA InvariantFrom ==
  ASSUME RecordTypes', WritersInv', CreatedInv', GateInv', PassedInv', CheckInv', AcceptedRunWasGated',
         owner' \in {"none", "gate", "run", "controller", "checker"},
         gate'.at \in {"authority", "probing"} <=> owner' = "gate",
         run'.at = "running" <=> owner' = "run",
         gates' \in Seq({"open", "passed", "failed"}),
         altered' \subseteq FoundationRuns \X FoundationNames,
         \A l \in left' : l[1] \in 1..run'.id /\ l[2] <= Epoch'
  PROVE  FoundationIInv'
<1>1. DOMAIN log' = 1..Len(log') /\ \A i \in 1..Len(log') : log'[i] \in FoundationEvents
  BY LenProperties, ElementOfSeq DEF RecordTypes
<1>2. IsFiniteSet({i \in DOMAIN log' : log'[i].type = "KnowledgeDeltaPublished"})
  <2>1. Len(log') \in Nat
    BY LenProperties DEF RecordTypes
  <2>2. IsFiniteSet(1..Len(log'))
    BY <2>1, FS_Interval
  <2> QED
    BY <1>1, <2>2, FS_Subset
<1>3. Epoch' \in Nat
  BY <1>2, FS_CardinalityType DEF Epoch
<1>4. \A i \in DOMAIN log' : log'[i].n \in 0..(Epoch' + 1)
  <2> SUFFICES ASSUME NEW i \in DOMAIN log' PROVE log'[i].n \in 0..(Epoch' + 1)
    OBVIOUS
  <2>1. log'[i].n \in Nat
    BY <1>1 DEF FoundationEvents
  <2>2. log'[i].n <= Epoch' + 1
    BY DEF WritersInv, WrittenBy
  <2> QED
    BY <1>3, <2>1, <2>2
<1>5. check'.verdict \in {"none", "pass"} /\ check'.run \in 0..MaxRuns
  BY DEF RecordTypes
<1>6. FoundationTypeOK'
  BY <1>4, <1>5 DEF FoundationTypeOK
<1> QED
  BY <1>6 DEF FoundationIInv

\* Types, spelled out.
LEMMA StateTypes ==
  ASSUME FoundationIInv
  PROVE  /\ log \in Seq(FoundationEvents) /\ Len(log) \in Nat /\ DOMAIN log = 1..Len(log)
         /\ gate.at \in {"idle", "authority", "probing", "probed"} /\ gate.id \in Nat /\ gate.done \in Nat
         /\ gate.policy \in {"-"} \cup Policies /\ gate.digest \in SUBSET Nat
         /\ run.at \in {"idle", "running"} /\ run.id \in 0..MaxRuns /\ run.id \in Nat /\ run.step \in Nat
         /\ run.backend \in {"-"} \cup Backends
         /\ check.at \in {"idle", "reading"} /\ check.events \in Nat /\ check.run \in 0..MaxRuns
         /\ check.verdict \in {"none", "pass"}
         /\ owner \in {"none", "gate", "run", "controller", "checker"}
         /\ gate.at \in {"authority", "probing"} <=> owner = "gate"
         /\ run.at = "running" <=> owner = "run"
         /\ gates \in Seq({"open", "passed", "failed"}) /\ Len(gates) \in Nat /\ DOMAIN gates = 1..Len(gates)
         /\ altered \subseteq FoundationRuns \X FoundationNames
         /\ left \in SUBSET (Nat \X Nat) /\ \A l \in left : l[1] \in 1..run.id /\ l[2] <= Epoch
         /\ MaxRuns \in Nat \ {0}
<1>1. RecordTypes /\ FoundationTypeOK
  BY DEF FoundationIInv
<1>2. MaxRuns \in Nat \ {0}
  BY FoundationAssumption
<1>3. log \in Seq(FoundationEvents) /\ Len(log) \in Nat /\ DOMAIN log = 1..Len(log)
  BY <1>1, LenProperties DEF RecordTypes
<1>4. gates \in Seq({"open", "passed", "failed"}) /\ Len(gates) \in Nat /\ DOMAIN gates = 1..Len(gates)
  BY <1>1, LenProperties DEF FoundationTypeOK
<1>5. /\ gate.at \in {"idle", "authority", "probing", "probed"} /\ gate.id \in Nat /\ gate.done \in Nat
      /\ gate.policy \in {"-"} \cup Policies /\ gate.digest \in SUBSET Nat
      /\ run.at \in {"idle", "running"} /\ run.id \in 0..MaxRuns /\ run.id \in Nat /\ run.step \in Nat
      /\ run.backend \in {"-"} \cup Backends
      /\ check.at \in {"idle", "reading"} /\ check.events \in Nat /\ check.run \in 0..MaxRuns
      /\ check.verdict \in {"none", "pass"} /\ left \in SUBSET (Nat \X Nat)
  BY <1>1, <1>2 DEF RecordTypes
<1> QED
  BY <1>1, <1>2, <1>3, <1>4, <1>5 DEF FoundationTypeOK

\* What is left belongs to earlier runs and epochs.
LEMMA LeftKept ==
  ASSUME FoundationIInv, Grown, left' \subseteq left, run'.id \in Nat, run.id <= run'.id
  PROVE  \A l \in left' : l[1] \in 1..run'.id /\ l[2] <= Epoch'
<1> SUFFICES ASSUME NEW l \in left PROVE l[1] \in 1..run'.id /\ l[2] <= Epoch'
  OBVIOUS
<1>1. l[1] \in 1..run.id /\ l[2] <= Epoch /\ l[2] \in Nat /\ run.id \in Nat
  BY StateTypes
<1>2. Epoch \in Nat /\ Epoch' \in Nat /\ Epoch <= Epoch'
  BY EpochGrows
<1> QED
  BY <1>1, <1>2

\* Nothing is written by an agent while the checker reads.
LEMMA CheckKept ==
  ASSUME FoundationIInv, CheckInv, Grown, check' = check, run.id \in Nat, run'.id \in Nat, run.id <= run'.id,
         run'.at = "running" => run'.id > run.id \/ (run'.id = run.id /\ run.at = "running"),
         check.at = "reading" => owner' = owner,
         \A i \in NewEvents : log'[i].type = "AgentRunCompleted" => run.at = "running"
  PROVE  CheckInv'
<1>1. ASSUME check.at = "reading"
      PROVE  /\ owner' \in {"checker", "controller"}
             /\ check.events <= Len(log') /\ check.verdict = "none"
             /\ check.events > 0 =>
                  \A i \in (check.events + 1)..Len(log') : log'[i].type # "AgentRunCompleted"
  <2>1. /\ owner' \in {"checker", "controller"} /\ check.events <= Len(log) /\ check.verdict = "none"
        /\ check.events > 0 =>
             \A i \in (check.events + 1)..Len(log) : log[i].type # "AgentRunCompleted"
    BY <1>1 DEF CheckInv
  <2>2. run.at # "running"
    <3>1. owner # "run"
      BY <1>1 DEF CheckInv
    <3> QED
      BY <3>1, StateTypes
  <2>3. check.events <= Len(log')
    BY <2>1, GrownLengths, StateTypes DEF Grown
  <2>4. ASSUME check.events > 0, NEW i \in (check.events + 1)..Len(log')
        PROVE  log'[i].type # "AgentRunCompleted"
    <3>1. i \in 1..Len(log')
      BY StateTypes, GrownLengths
    <3>2. CASE i \in NewEvents
      BY <2>2, <3>2
    <3>3. CASE i \in 1..Len(log)
      <4>1. log'[i] = log[i] /\ i \in (check.events + 1)..Len(log)
        BY <3>3, StateTypes DEF Grown
      <4> QED
        BY <2>1, <2>4, <4>1
    <3> QED
      BY <3>1, <3>2, <3>3, GrownLengths
  <2> QED
    BY <2>1, <2>3, <2>4
<1>2. ASSUME check.verdict = "pass"
      PROVE  check.run \in 1..run'.id /\ (run'.at = "running" => run'.id # check.run)
  <2>1. check.run \in 1..run.id /\ (run.at = "running" => run.id # check.run)
    BY <1>2 DEF CheckInv
  <2> QED
    BY <2>1
<1> QED
  BY <1>1, <1>2 DEF CheckInv

\* What runs and the controller write leaves the gates, the checker and its verdict alone.
LEMMA OthersWrite ==
  ASSUME FoundationIInv, Grown, UNCHANGED <<gate, gates, check>>,
         run'.id \in Nat, run.id <= run'.id,
         run'.at = "running" => run'.id > run.id \/ (run'.id = run.id /\ run.at = "running"),
         check.at = "reading" => owner' = owner,
         \A i \in NewEvents :
            /\ \/ \E r \in 1..run'.id : log'[i].run = RealRun(r)
               \/ log'[i].run = <<"project", 0>> /\ log'[i].type # "RunCreated"
            /\ log'[i].type \notin FoundationAuditTypes
            /\ log'[i].n <= Epoch' + 1
            /\ log'[i].type = "RunCreated" => log'[i].n <= Epoch'
            /\ log'[i].type = "AgentRunCompleted" => run.at = "running" /\ log'[i].run = RealRun(run.id)
  PROVE  WritersInv' /\ GateInv' /\ PassedInv' /\ CheckInv' /\ AcceptedRunWasGated'
<1>1. WritersInv /\ GateInv /\ PassedInv /\ CheckInv /\ AcceptedRunWasGated /\ CreatedInv
  BY DEF FoundationIInv
<1>2. gate' = gate /\ gates' = gates /\ check' = check /\ run.id \in Nat
  BY StateTypes
<1>3. GatesGrow
  BY <1>2 DEF GatesGrow
<1>4. \A i \in NewEvents : \A g : log'[i].run # GateRun(g)
  BY NamesDiffer, Zenon
<1>5. WritersInv'
  <2> SUFFICES ASSUME NEW i \in NewEvents PROVE WrittenBy(log[i])'
    BY <1>1, <1>2, <1>3, WritersKept
  <2>1. \A g : log'[i].run # GateRun(g)
    BY <1>4
  <2> QED
    BY <2>1 DEF WrittenBy
<1>6. GateInv'
  BY <1>1, <1>2, <1>4, GateKept
<1>7. PassedInv'
  BY <1>1, <1>2, <1>4, PassedKept
<1>8. AcceptedRunWasGated'
  <2>1. check.verdict = "pass" => /\ Of(Len(log), RealRun(check.run), "RunCreated") # {}
                                  /\ run.at = "running" => run.id # check.run
    BY <1>1 DEF CheckInv, CreatedInv
  <2>2. check'.verdict = "pass" => check.verdict = "pass" /\ check'.run = check.run
    BY <1>2
  <2>3. CASE check.verdict = "pass"
    <3>1. \A i \in NewEvents : log'[i].run = RealRun(check.run) => log'[i].type # "AgentRunCompleted"
      BY <2>1, <2>3, NamesDiffer
    <3> QED
      BY <1>1, <1>3, <2>1, <2>2, <2>3, <3>1, AcceptedKept
  <2>4. CASE check.verdict # "pass"
    BY <1>2, <2>4 DEF AcceptedRunWasGated
  <2> QED
    BY <2>3, <2>4
<1>9. CheckInv'
  BY <1>1, <1>2, CheckKept
<1> QED
  BY <1>5, <1>6, <1>7, <1>8, <1>9

\* The operations of a probe are those that the gate knows.
LEMMA OperationsAre ==
  \A k \in 1..Len(Operations) : Operations[k] \in DeniedOps \cup AllowedOps
<1>1. ASSUME NEW S, IsFiniteSet(S)
      PROVE  SetToSeq(S) \in [1..Cardinality(S) -> S] /\ Cardinality(S) \in Nat
  <2>1. Cardinality(S) \in Nat /\ ExistsBijection(1..Cardinality(S), S)
    BY <1>1, FS_CardinalityType
  <2>2. \E f \in [1..Cardinality(S) -> S] : IsInjective(f)
    BY <2>1 DEF ExistsBijection, Bijection, Injection, IsInjective
  <2> QED
    BY <2>1, <2>2 DEF SetToSeq
<1>2. /\ SetToSeq(DeniedOps) \in Seq(DeniedOps \cup AllowedOps)
      /\ SetToSeq(AllowedOps) \in Seq(DeniedOps \cup AllowedOps)
  <2>1. SetToSeq(DeniedOps) \in [1..Cardinality(DeniedOps) -> DeniedOps \cup AllowedOps]
        /\ Cardinality(DeniedOps) \in Nat
    BY <1>1, FoundationAssumption
  <2>2. SetToSeq(AllowedOps) \in [1..Cardinality(AllowedOps) -> DeniedOps \cup AllowedOps]
        /\ Cardinality(AllowedOps) \in Nat
    BY <1>1, FoundationAssumption
  <2> QED
    BY <2>1, <2>2, SeqDef
<1>3. Operations \in Seq(DeniedOps \cup AllowedOps)
  BY <1>2, ConcatProperties DEF Operations
<1> QED
  BY <1>3, ElementOfSeq

\* What a gate writes leaves the runs, the checker and its verdict alone.
LEMMA GateWrites ==
  ASSUME FoundationIInv, Grown, GatesGrow, UNCHANGED <<run, check>>, NEW g \in DOMAIN gates',
         check.at = "reading" => owner' = owner,
         \A i \in NewEvents :
            /\ log'[i].run = GateRun(g) /\ log'[i].n = 0 /\ log'[i].type # "AgentRunCompleted"
            /\ log'[i].type \in ProbeTypes /\ log'[i].ref = Completion => gates'[g] = "passed"
  PROVE  WritersInv' /\ CreatedInv' /\ CheckInv' /\ AcceptedRunWasGated'
<1>1. WritersInv /\ CheckInv /\ AcceptedRunWasGated /\ CreatedInv
  BY DEF FoundationIInv
<1>2. run' = run /\ check' = check /\ run.id \in Nat /\ Epoch' \in Nat
  BY StateTypes, EpochGrows
<1>3. WritersInv'
  <2> SUFFICES ASSUME NEW i \in NewEvents PROVE WrittenBy(log[i])'
    BY <1>1, <1>2, WritersKept
  <2>1. \A h \in DOMAIN gates' : log'[i].run = GateRun(h) => h = g
    BY NamesDiffer
  <2>2. log'[i].n = 0 /\ log'[i].n <= Epoch' + 1 /\ log'[i].n <= Epoch'
    BY <1>2
  <2>3. \E h \in DOMAIN gates' : log'[i].run = GateRun(h)
    OBVIOUS
  <2>4. \A h \in DOMAIN gates' :
          log'[i].run = GateRun(h) /\ log'[i].type \in ProbeTypes /\ log'[i].ref = Completion
            => gates'[h] = "passed"
    BY <2>1
  <2> QED
    BY <2>2, <2>3, <2>4, Zenon DEF WrittenBy
<1>4. CreatedInv'
  BY <1>1, <1>2, CreatedKept
<1>5. CheckInv'
  BY <1>1, <1>2, CheckKept
<1>6. AcceptedRunWasGated'
  <2>1. check.verdict = "pass" => Of(Len(log), RealRun(check.run), "RunCreated") # {}
    BY <1>1 DEF CheckInv, CreatedInv
  <2> QED
    BY <1>1, <1>2, <2>1, AcceptedKept
<1> QED
  BY <1>3, <1>4, <1>5, <1>6

\* The records of a gate in progress.
GateRecords ==
  [at : {"idle", "authority", "probing", "probed"}, id : Nat, policy : {"-"} \cup Policies,
   digest : SUBSET Nat, done : Nat]
\* No gate is in progress.
LEMMA NoGateIs == NoGate \in GateRecords /\ NoGate.at = "idle"
<1>1. 0 \in Nat /\ {} \in SUBSET Nat
  OBVIOUS
<1> QED
  BY <1>1 DEF NoGate, GateRecords

\* A gate that fails, for whatever reason.
LEMMA GateFailsPreserves ==
  ASSUME FoundationIInv, gate.at # "idle", GateFails, UNCHANGED <<log, GateVars>>
  PROVE  FoundationIInv'
<1>1. /\ log' = log /\ run' = run /\ left' = left /\ altered' = altered /\ check' = check
      /\ gate' = NoGate /\ gates' = [gates EXCEPT ![gate.id] = "failed"]
      /\ owner' = IF owner = "gate" THEN "none" ELSE owner
  BY DEF GateFails, GateVars
<1>2. gate.id \in 1..Len(gates) /\ gates[gate.id] = "open" /\ GateInv /\ PassedInv /\ CheckInv
  BY StateTypes DEF FoundationIInv, GateInv
<1>3. /\ gates' \in Seq({"open", "passed", "failed"}) /\ DOMAIN gates' = DOMAIN gates
      /\ \A g \in DOMAIN gates : g # gate.id => gates'[g] = gates[g]
      /\ gates'[gate.id] = "failed"
  <2>1. gates' \in Seq({"open", "passed", "failed"}) /\ Len(gates') = Len(gates)
    BY <1>1, <1>2, StateTypes, ExceptSeq
  <2>2. DOMAIN gates' = 1..Len(gates')
    BY <2>1, LenProperties
  <2> QED
    BY <1>1, <1>2, <2>1, <2>2, StateTypes
<1>4. Grown /\ NewEvents = {} /\ Epoch' = Epoch /\ GatesGrow
  BY <1>1, <1>2, <1>3, StateTypes, LogStays DEF GatesGrow
<1>5. check.at = "reading" => owner' = owner
  BY <1>1, <1>2 DEF CheckInv
<1>6. WritersInv' /\ CreatedInv' /\ CheckInv' /\ AcceptedRunWasGated'
  BY <1>1, <1>2, <1>3, <1>4, <1>5, GateWrites
<1>7. GateInv'
  BY <1>1 DEF GateInv, NoGate
<1>8. PassedInv'
  BY <1>2, <1>3, <1>4, PassedKept
<1>9. RecordTypes'
  BY <1>1, NoGateIs DEF FoundationIInv, RecordTypes, GateRecords
<1> QED
  BY <1>1, <1>3, <1>4, <1>6, <1>7, <1>8, <1>9, StateTypes, InvariantFrom, NoGateIs

\* run_security_gate takes the state and its first event is appended.
LEMMA GateStartsPreserves == FoundationIInv /\ GateStarts => FoundationIInv'
<1> SUFFICES ASSUME FoundationIInv, GateStarts PROVE FoundationIInv'
  OBVIOUS
<1> DEFINE id == Len(gates) + 1
           denied == [i \in DOMAIN Reasons |-> Plain(GateRun(id), "CapabilityDenied", Reasons[i])]
           ext == <<Plain(GateRun(id), "CapabilityMinted", "-")>> \o denied
           K == {e \in FoundationEvents : /\ e.run = GateRun(id) /\ e.n = 0
                                          /\ e.type \in {"CapabilityMinted", "CapabilityDenied"}}
<1>1. /\ gate.at = "idle" /\ owner = "none" /\ owner' = "gate" /\ gates' = Append(gates, "open")
      /\ log' = log \o ext /\ gate' = [NoGate EXCEPT !.at = "authority", !.id = Len(gates) + 1]
      /\ run' = run /\ left' = left /\ altered' = altered /\ check' = check
  BY DEF GateStarts, GateVars
<1>2. /\ gates' \in Seq({"open", "passed", "failed"}) /\ Len(gates') = id /\ DOMAIN gates' = 1..id
      /\ \A g \in DOMAIN gates : g \in DOMAIN gates' /\ gates'[g] = gates[g] /\ g # id
      /\ gates'[id] = "open" /\ id \in DOMAIN gates' /\ id \in Nat
  <2>1. /\ gates' \in Seq({"open", "passed", "failed"}) /\ Len(gates') = id
        /\ \A g \in 1..Len(gates) : gates'[g] = gates[g]
        /\ gates'[id] = "open"
    BY <1>1, StateTypes, AppendProperties
  <2>2. DOMAIN gates' = 1..id
    BY <2>1, LenProperties
  <2> QED
    BY <2>1, <2>2, StateTypes
<1>3. /\ ext \in Seq(FoundationEvents) /\ \A k \in 1..Len(ext) : ext[k] \in K
  <2>1. \A type \in {"CapabilityMinted", "CapabilityDenied"}, ref \in GateRefs :
          Plain(GateRun(id), type, ref) \in K
    <3>1. GateRun(id) \in {"gate", "run", "project"} \X Nat
      BY <1>2 DEF GateRun
    <3>2. 0 \in Nat
      OBVIOUS
    <3>3. {"CapabilityMinted", "CapabilityDenied"} \subseteq GateTypes
      BY DEF GateTypes, FoundationAuditTypes
    <3> HIDE DEF id
    <3> QED
      BY <3>1, <3>2, <3>3 DEF Plain, FoundationEvent, FoundationEvents
  <2>2. /\ DOMAIN Reasons = 1..4 /\ \A i \in 1..4 : Reasons[i] \in GateRefs
    <3>1. Reasons \in Seq(GateRefs) /\ Len(Reasons) = 4
      BY DEF Reasons, GateRefs
    <3> QED
      BY <3>1, LenProperties, ElementOfSeq
  <2>3. denied \in [1..4 -> K]
    BY <2>1, <2>2
  <2>4. denied \in Seq(K)
    BY <2>3, SeqDef
  <2>5. <<Plain(GateRun(id), "CapabilityMinted", "-")>> \in Seq(K)
    <3>1. Plain(GateRun(id), "CapabilityMinted", "-") \in K
      BY <2>1 DEF GateRefs
    <3> HIDE DEF K
    <3> QED
      BY <3>1
  <2>6. ext \in Seq(K)
    <3> HIDE DEF K, denied
    <3> QED
      BY <2>4, <2>5, ConcatProperties
  <2> HIDE DEF ext
  <2>7. ext \in Seq(FoundationEvents)
    <3>1. K \subseteq FoundationEvents
      OBVIOUS
    <3> HIDE DEF K
    <3> QED
      BY <2>6, <3>1, SeqMonotonic
  <2> HIDE DEF K
  <2> QED
    BY <2>6, <2>7, ElementOfSeq
<1> HIDE DEF ext
<1>4. Grown /\ \A i \in NewEvents : log'[i] \in K
  <2> HIDE DEF K
  <2>1. log \in Seq(FoundationEvents)
    BY StateTypes
  <2>2. /\ Grown
        /\ \A i \in NewEvents : i - Len(log) \in 1..Len(ext) /\ log'[i] = ext[i - Len(log)]
    BY <1>1, <1>3, <2>1, Appended, Zenon
  <2> QED
    BY <1>3, <2>2
<1>5. GatesGrow /\ check.at # "reading"
  BY <1>1, <1>2 DEF GatesGrow, FoundationIInv, CheckInv
<1>6. \A i \in NewEvents : /\ log'[i].run = GateRun(id) /\ log'[i].n = 0
                           /\ log'[i].type # "AgentRunCompleted" /\ log'[i].type \notin ProbeTypes
  BY <1>4 DEF ProbeTypes
<1>7. WritersInv' /\ CreatedInv' /\ CheckInv' /\ AcceptedRunWasGated'
  BY <1>1, <1>2, <1>4, <1>5, <1>6, GateWrites
<1>8. PassedInv'
  <2>1. \A g \in DOMAIN gates' : gates'[g] = "passed" => g \in DOMAIN gates /\ gates[g] = "passed"
    BY <1>2, StateTypes
  <2>2. \A i \in NewEvents : \A g \in DOMAIN gates : log'[i].run # GateRun(g)
    BY <1>2, <1>6, NamesDiffer
  <2> QED
    BY <1>4, <2>1, <2>2, PassedKept DEF FoundationIInv
<1>9. GateInv'
  <2>1. gate'.at = "authority" /\ gate'.id = id
    BY <1>1 DEF NoGate
  <2>2. ASSUME NEW i \in 1..Len(log'), log'[i].run = GateRun(id), log'[i].type \in ProbeTypes
        PROVE  FALSE
    <3>1. i \in 1..Len(log) /\ log'[i] = log[i]
      BY <1>4, <1>6, <2>2, GrownLengths DEF Grown
    <3>2. WrittenBy(log[i]) /\ log[i].type \in FoundationAuditTypes
      BY <2>2, <3>1, StateTypes DEF FoundationIInv, WritersInv, FoundationAuditTypes
    <3>3. \E g \in DOMAIN gates : GateRun(id) = GateRun(g)
      BY <2>2, <3>1, <3>2, Zenon DEF WrittenBy
    <3> QED
      BY <1>2, <3>3, NamesDiffer, Zenon
  <2>3. ProbesOf(Len(log), gate.id)' = {}
    BY <2>1, <2>2 DEF ProbesOf
  <2> QED
    BY <1>2, <2>1, <2>3 DEF GateInv
<1>10. RecordTypes'
  <2>1. gate' \in GateRecords
    BY <1>1, <1>2, NoGateIs DEF GateRecords
  <2>2. log' \in Seq(FoundationEvents)
    BY <1>4 DEF Grown
  <2> QED
    BY <1>1, <2>1, <2>2 DEF FoundationIInv, RecordTypes, GateRecords
<1>11. \A l \in left' : l[1] \in 1..run'.id /\ l[2] <= Epoch'
  BY <1>1, <1>4, StateTypes, LeftKept
<1> QED
  BY <1>1, <1>2, <1>7, <1>8, <1>9, <1>10, <1>11, StateTypes, InvariantFrom, NoGateIs

\* What a gate does that has nothing to record.
LEMMA GateCompilesPreserves ==
  ASSUME FoundationIInv, NEW policy \in Policies, GateCompiles(policy) PROVE FoundationIInv'
<1>1. /\ gate.at = "authority" /\ log' = log /\ owner' = owner /\ gates' = gates /\ run' = run
      /\ left' = left /\ altered' = altered /\ check' = check
      /\ gate' = [gate EXCEPT !.at = "probing", !.policy = policy, !.digest = FoundationLogicalDigest]
  BY DEF GateCompiles, GateVars
<1>2. /\ gate.id = Len(gates) /\ gate.id \in DOMAIN gates /\ gates[gate.id] = "open"
      /\ ProbesOf(Len(log), gate.id) = {} /\ PassedInv
  BY <1>1 DEF FoundationIInv, GateInv
<1>3. gate \in GateRecords
  BY DEF FoundationIInv, RecordTypes, GateRecords
<1>4. FoundationLogicalDigest \subseteq DOMAIN log /\ FoundationLogicalDigest \in SUBSET Nat
  BY StateTypes DEF FoundationLogicalDigest
<1>5. /\ gate' \in GateRecords /\ gate'.at = "probing" /\ gate'.id = gate.id
      /\ gate'.digest = FoundationLogicalDigest
  BY <1>1, <1>3, <1>4 DEF GateRecords
<1>6. Grown /\ NewEvents = {} /\ GatesGrow
  BY <1>1, StateTypes, LogStays DEF GatesGrow
<1>7. WritersInv' /\ CreatedInv' /\ CheckInv' /\ AcceptedRunWasGated'
  BY <1>1, <1>2, <1>6, GateWrites
<1>8. PassedInv'
  BY <1>1, <1>2, <1>6, PassedKept
<1>9. GateInv'
  <2>1. ProbesOf(Len(log), gate.id)' = {}
    BY <1>1, <1>2, <1>5 DEF ProbesOf
  <2> QED
    BY <1>1, <1>2, <1>4, <1>5, <2>1 DEF GateInv
<1>10. RecordTypes'
  BY <1>1, <1>5 DEF FoundationIInv, RecordTypes, GateRecords
<1>11. \A l \in left' : l[1] \in 1..run'.id /\ l[2] <= Epoch'
  BY <1>1, <1>6, StateTypes, LeftKept
<1> QED
  BY <1>1, <1>5, <1>7, <1>8, <1>9, <1>10, <1>11, StateTypes, InvariantFrom

\* An attempt is recorded under the name of its gate and is not its completion.
LEMMA AttemptPreserves ==
  ASSUME FoundationIInv, NEW type \in {"SandboxProbeDenied", "SandboxProbePassed"}, Attempt(type)
  PROVE  FoundationIInv'
<1> DEFINE op == Operations[gate.done + 1]
           e == FoundationEvent(GateRun(gate.id), type, op, 0, gate.policy)
<1>1. /\ gate.at = "probing" /\ gate.done < Len(Operations) /\ log' = Append(log, e)
      /\ owner' = owner /\ gates' = gates /\ run' = run
      /\ left' = left /\ altered' = altered /\ check' = check
      /\ gate' = [gate EXCEPT !.done = @ + 1]
  BY DEF Attempt, GateVars
<1>2. /\ gate.id = Len(gates) /\ gate.id \in DOMAIN gates /\ gates[gate.id] = "open"
      /\ gate.digest \subseteq DOMAIN log /\ PassedInv
      /\ \A p \in ProbesOf(Len(log), gate.id) : \A i \in p..Len(log) :
           log[i].run # GateRun(gate.id) =>
             i \notin gate.digest /\ log[i].type \notin FoundationAuditTypes
  BY <1>1 DEF FoundationIInv, GateInv
<1>3. gate \in GateRecords
  BY DEF FoundationIInv, RecordTypes, GateRecords
<1>4. op \in DeniedOps \cup AllowedOps /\ op # Completion
  <2>1. gate.done + 1 \in 1..Len(Operations)
    <3>1. gate.done \in Nat /\ Len(Operations) \in Nat
      BY StateTypes, OperationsAre
    <3> QED
      BY <1>1, <3>1
  <2> QED
    BY <2>1, OperationsAre, FoundationAssumption
<1>5. e \in FoundationEvents /\ e.run = GateRun(gate.id) /\ e.n = 0 /\ e.type = type /\ e.ref = op
  <2>1. GateRun(gate.id) \in {"gate", "run", "project"} \X Nat
    BY StateTypes DEF GateRun
  <2>2. 0 \in Nat /\ type \in GateTypes /\ op \in GateRefs
    BY <1>4 DEF GateTypes, GateRefs, FoundationAuditTypes, ProbeTypes
  <2> HIDE DEF op
  <2> QED
    BY <2>1, <2>2, StateTypes DEF FoundationEvent, FoundationEvents
<1> HIDE DEF op, e
<1>6. /\ Grown /\ Len(log') = Len(log) + 1 /\ NewEvents = {Len(log) + 1} /\ log'[Len(log) + 1] = e
      /\ GatesGrow
  BY <1>1, <1>5, StateTypes, AppendedOne DEF GatesGrow
<1>7. gate' \in GateRecords /\ gate'.at = "probing" /\ gate'.id = gate.id /\ gate'.digest = gate.digest
  BY <1>1, <1>3, SMTT(30) DEF GateRecords
<1>8. WritersInv' /\ CreatedInv' /\ CheckInv' /\ AcceptedRunWasGated'
  <2>1. type # "AgentRunCompleted"
    OBVIOUS
  <2> QED
    BY <1>1, <1>2, <1>4, <1>5, <1>6, <2>1, GateWrites
<1>9. PassedInv'
  <2>1. \A g \in DOMAIN gates : gates[g] = "passed" => e.run # GateRun(g)
    BY <1>2, <1>5, NamesDiffer
  <2> QED
    BY <1>1, <1>2, <1>6, <2>1, PassedKept
<1>10. GateInv'
  <2>1. ASSUME NEW p \in ProbesOf(Len(log), gate.id)', NEW i \in p..Len(log'),
               log'[i].run # GateRun(gate.id)
        PROVE  i \notin gate.digest /\ log'[i].type \notin FoundationAuditTypes
    <3>1. /\ p \in 1..Len(log') /\ log'[p].run = GateRun(gate.id) /\ log'[p].type \in ProbeTypes
          /\ i \in 1..Len(log') /\ p <= i
      BY <1>7, <1>6, StateTypes DEF ProbesOf
    <3>2. i # Len(log) + 1
      BY <1>5, <1>6, <2>1
    <3>3. i \in 1..Len(log) /\ p \in 1..Len(log) /\ i \in p..Len(log)
      BY <1>6, <3>1, <3>2, StateTypes, SMTT(30)
    <3>4. log'[i] = log[i] /\ log'[p] = log[p]
      BY <1>6, <3>3 DEF Grown
    <3>5. p \in ProbesOf(Len(log), gate.id)
      BY <3>1, <3>3, <3>4 DEF ProbesOf
    <3> QED
      BY <1>2, <2>1, <3>3, <3>4, <3>5
  <2>2. gate.digest \subseteq DOMAIN log'
    BY <1>2, <1>6, GrownLengths
  <2> QED
    BY <1>1, <1>2, <1>7, <2>1, <2>2, ZenonT(30) DEF GateInv
<1>11. RecordTypes'
  BY <1>1, <1>6, <1>7 DEF FoundationIInv, RecordTypes, GateRecords, Grown
<1>12. \A l \in left' : l[1] \in 1..run'.id /\ l[2] <= Epoch'
  BY <1>1, <1>6, StateTypes, LeftKept
<1> QED
  BY <1>1, <1>7, <1>8, <1>9, <1>10, <1>11, <1>12, StateTypes, InvariantFrom

\* The live service is closed, and nothing is recorded.
LEMMA GateLiveEndsPreserves ==
  ASSUME FoundationIInv, GateLiveEnds PROVE FoundationIInv'
<1>1. gate.at = "probing" /\ UNCHANGED <<log, GateVars>>
  BY DEF GateLiveEnds
<1>2. CASE GateFails
  BY <1>1, <1>2, GateFailsPreserves
<1>3. CASE owner' = "none" /\ gate' = [gate EXCEPT !.at = "probed"] /\ gates' = gates
  <2>1. log' = log /\ run' = run /\ left' = left /\ altered' = altered /\ check' = check
    BY <1>1 DEF GateVars
  <2>2. gate \in GateRecords /\ GateInv /\ PassedInv /\ CheckInv
    BY DEF FoundationIInv, RecordTypes, GateRecords
  <2>3. gate' \in GateRecords /\ gate'.at = "probed" /\ gate'.id = gate.id /\ gate'.digest = gate.digest
    BY <1>3, <2>2 DEF GateRecords
  <2>4. Grown /\ NewEvents = {} /\ GatesGrow /\ gate.id \in DOMAIN gates'
    BY <1>1, <1>3, <2>1, <2>2, StateTypes, LogStays DEF GatesGrow, GateInv
  <2>5. check.at # "reading"
    BY <1>1, <2>2, StateTypes DEF CheckInv
  <2>6. WritersInv' /\ CreatedInv' /\ CheckInv' /\ AcceptedRunWasGated'
    BY <2>1, <2>4, <2>5, GateWrites
  <2>7. PassedInv'
    BY <1>3, <2>2, <2>4, PassedKept
  <2>8. GateInv'
    <3>1. ProbesOf(Len(log), gate.id)' = ProbesOf(Len(log), gate.id)
      BY <2>1, <2>3 DEF ProbesOf
    <3> QED
      BY <1>1, <1>3, <2>1, <2>2, <2>3, <3>1 DEF GateInv
  <2>9. RecordTypes'
    BY <2>1, <2>3 DEF FoundationIInv, RecordTypes, GateRecords
  <2>10. \A l \in left' : l[1] \in 1..run'.id /\ l[2] <= Epoch'
    BY <2>1, <2>4, StateTypes, LeftKept
  <2>11. owner = "gate"
    BY <1>1, StateTypes
  <2> QED
    BY <1>1, <1>3, <2>1, <2>3, <2>6, <2>7, <2>8, <2>9, <2>10, <2>11, StateTypes, InvariantFrom
<1> QED
  BY <1>2, <1>3 DEF GateLiveEnds

\* A gate passes when what it read when it began is what the log still holds: then nothing
\* that is not audited was recorded by others, and what is audited only gates record.
LEMMA GatePassesPreserves ==
  ASSUME FoundationIInv, gate.at = "probed", FoundationLogicalDigest = gate.digest,
         Passes, UNCHANGED GateVars
  PROVE  FoundationIInv'
<1> DEFINE e == FoundationEvent(GateRun(gate.id), "SandboxProbePassed", Completion, 0, gate.policy)
<1>1. /\ log' = Append(log, e) /\ owner' = owner /\ gates' = [gates EXCEPT ![gate.id] = "passed"]
      /\ run' = run /\ left' = left /\ altered' = altered /\ check' = check /\ gate' = NoGate
  BY DEF Passes, GateVars
<1>2. /\ gate.id \in 1..Len(gates) /\ gates[gate.id] = "open" /\ PassedInv
      /\ \A p \in ProbesOf(Len(log), gate.id) : \A i \in p..Len(log) :
           log[i].run # GateRun(gate.id) =>
             i \notin gate.digest /\ log[i].type \notin FoundationAuditTypes
  BY StateTypes DEF FoundationIInv, GateInv
<1>3. /\ gates' \in Seq({"open", "passed", "failed"}) /\ DOMAIN gates' = DOMAIN gates
      /\ \A g \in DOMAIN gates : g # gate.id => gates'[g] = gates[g]
      /\ gates'[gate.id] = "passed"
  <2>1. gates' \in Seq({"open", "passed", "failed"}) /\ Len(gates') = Len(gates)
    BY <1>1, <1>2, StateTypes, ExceptSeq
  <2>2. DOMAIN gates' = 1..Len(gates')
    BY <2>1, LenProperties
  <2> QED
    BY <1>1, <1>2, <2>1, <2>2, StateTypes
<1>4. /\ e \in FoundationEvents /\ e.run = GateRun(gate.id) /\ e.n = 0 /\ e.type = "SandboxProbePassed"
      /\ e.type \in ProbeTypes
  <2>1. GateRun(gate.id) \in {"gate", "run", "project"} \X Nat
    BY StateTypes DEF GateRun
  <2>2. /\ 0 \in Nat /\ "SandboxProbePassed" \in ProbeTypes /\ "SandboxProbePassed" \in GateTypes
        /\ Completion \in GateRefs
    BY DEF GateTypes, GateRefs, FoundationAuditTypes, ProbeTypes
  <2> QED
    BY <2>1, <2>2, StateTypes DEF FoundationEvent, FoundationEvents
<1> HIDE DEF e
<1>5. /\ Grown /\ Len(log') = Len(log) + 1 /\ NewEvents = {Len(log) + 1} /\ log'[Len(log) + 1] = e
      /\ GatesGrow
  BY <1>1, <1>2, <1>3, <1>4, StateTypes, AppendedOne DEF GatesGrow
<1>6. WritersInv' /\ CreatedInv' /\ CheckInv' /\ AcceptedRunWasGated'
  <2>1. gate.id \in DOMAIN gates'
    BY <1>2, <1>3, StateTypes
  <2> QED
    BY <1>1, <1>3, <1>4, <1>5, <2>1, GateWrites
<1>7. PassedInv'
  <2> SUFFICES ASSUME NEW g \in DOMAIN gates', gates'[g] = "passed"
               PROVE  /\ ProbesOf(Len(log), g)' # {}
                      /\ \A p, q \in ProbesOf(Len(log), g)' : \A i \in p..q : log'[i].run = GateRun(g)
    BY DEF PassedInv
  <2>1. /\ Len(log) \in Nat /\ Len(log') \in Nat
        /\ \A i \in 1..Len(log') : (i \in 1..Len(log) /\ log'[i] = log[i]) \/ i = Len(log) + 1
        /\ \A i \in 1..Len(log) : i \in 1..Len(log') /\ log'[i] = log[i]
        /\ Len(log) + 1 \in 1..Len(log')
    BY <1>5, GrownLengths DEF Grown
  <2>2. CASE g # gate.id
    <3>1. e.run # GateRun(g) /\ g \in DOMAIN gates /\ gates[g] = "passed"
      BY <1>3, <1>4, <2>2, NamesDiffer
    <3>2. ProbesOf(Len(log), g)' = ProbesOf(Len(log), g)
      BY <1>5, <2>1, <3>1 DEF ProbesOf
    <3>3. ASSUME NEW p \in ProbesOf(Len(log), g), NEW q \in ProbesOf(Len(log), g), NEW i \in p..q
          PROVE  log'[i].run = GateRun(g)
      <4>1. p \in 1..Len(log) /\ q \in 1..Len(log)
        BY DEF ProbesOf
      <4>2. i \in 1..Len(log) /\ log'[i] = log[i]
        BY <2>1, <4>1
      <4> QED
        BY <1>2, <3>1, <4>2 DEF PassedInv
    <3> QED
      BY <1>2, <3>1, <3>2, <3>3 DEF PassedInv
  <2>3. CASE g = gate.id
    <3>1. Len(log) + 1 \in ProbesOf(Len(log), g)'
      BY <1>4, <1>5, <2>1, <2>3 DEF ProbesOf
    <3>2. ASSUME NEW p \in ProbesOf(Len(log), g)', NEW q \in ProbesOf(Len(log), g)', NEW i \in p..q
          PROVE  log'[i].run = GateRun(g)
      <4>1. /\ p \in 1..Len(log') /\ q \in 1..Len(log') /\ i \in 1..Len(log') /\ p <= i
            /\ log'[p].run = GateRun(gate.id) /\ log'[p].type \in ProbeTypes
        BY <2>1, <2>3 DEF ProbesOf
      <4>2. CASE i = Len(log) + 1
        BY <1>4, <1>5, <2>3, <4>2
      <4>3. CASE i \in 1..Len(log) /\ log'[i] = log[i]
        <5>1. p \in 1..Len(log) /\ i \in p..Len(log) /\ log'[p] = log[p]
          BY <2>1, <4>1, <4>3
        <5>2. p \in ProbesOf(Len(log), gate.id)
          BY <4>1, <5>1 DEF ProbesOf
        <5>3. log[i].run # GateRun(gate.id) =>
                i \notin FoundationLogicalDigest /\ log[i].type \notin FoundationAuditTypes
          BY <1>2, <5>1, <5>2
        <5>4. log[i].type \notin FoundationAuditTypes => i \in FoundationLogicalDigest
          BY <4>3, StateTypes DEF FoundationLogicalDigest
        <5> QED
          BY <2>3, <4>3, <5>3, <5>4
      <4> QED
        BY <2>1, <4>1, <4>2, <4>3
    <3> QED
      BY <3>1, <3>2
  <2> QED
    BY <2>2, <2>3
<1>8. GateInv'
  BY <1>1, NoGateIs DEF GateInv
<1>9. RecordTypes'
  BY <1>1, <1>5, NoGateIs DEF FoundationIInv, RecordTypes, GateRecords, Grown
<1>10. \A l \in left' : l[1] \in 1..run'.id /\ l[2] <= Epoch'
  BY <1>1, <1>5, StateTypes, LeftKept
<1> QED
  BY <1>1, <1>3, <1>6, <1>7, <1>8, <1>9, <1>10, StateTypes, InvariantFrom, NoGateIs

\* A gate, whatever it does.
LEMMA GatePreserves == FoundationIInv /\ GateNext => FoundationIInv'
<1> SUFFICES ASSUME FoundationIInv, GateNext PROVE FoundationIInv'
  OBVIOUS
<1>1. CASE GateStarts
  BY <1>1, GateStartsPreserves
<1>2. ASSUME NEW p \in Policies, GateCompiles(p) PROVE FoundationIInv'
  BY <1>2, GateCompilesPreserves
<1>3. CASE ProbeRaises
  BY <1>3, GateFailsPreserves DEF ProbeRaises
<1>4. ASSUME NEW type \in {"SandboxProbeDenied", "SandboxProbePassed"}, Attempt(type) PROVE FoundationIInv'
  BY <1>4, AttemptPreserves
<1>5. CASE GateLiveEnds
  BY <1>5, GateLiveEndsPreserves
<1>6. CASE GateReplays
  <2>1. gate.at = "probed" /\ UNCHANGED GateVars
    BY <1>6 DEF GateReplays
  <2>2. CASE Passes /\ FoundationLogicalDigest = gate.digest
    BY <2>1, <2>2, GatePassesPreserves
  <2>3. CASE GateFails /\ UNCHANGED log
    BY <2>1, <2>3, GateFailsPreserves
  <2> QED
    BY <1>6, <2>2, <2>3 DEF GateReplays
<1>7. CASE GateDies
  BY <1>7, GateFailsPreserves DEF GateDies
<1> QED
  BY <1>1, <1>2, <1>3, <1>4, <1>5, <1>6, <1>7 DEF GateNext

-----------------------------------------------------------------------------
\* What a run records: types, references and the number of deltas an event adds, at most m.
Recordable(m) == StepTypes \X StepRefs \X (0..m)

\* The steps of a run record such events; the ones that are two epochs ahead of the start
\* come with the second delta.
LEMMA StepsAre ==
  /\ Len(Steps) = 7 /\ Steps[5] \in Seq(Recordable(1))
  /\ \A k \in 1..Len(Steps) :
       /\ Steps[k] \in Seq(Recordable(2))
       /\ \/ Steps[k] \in Seq(Recordable(1))
          \/ \E j \in 1..Len(Steps[k]) : Steps[k][j][1] = "KnowledgeDeltaPublished"
<1> DEFINE R == Recordable(1)
           Provers == {"prover-a", "prover-b"}
<1>1. \A type \in StepTypes, ref \in StepRefs, n \in {0, 1} : <<type, ref, n>> \in R
  BY DEF Recordable
<1>2. \A w \in Provers : w \in StepRefs
  BY DEF StepRefs
<1>3. ASSUME NEW w \in Provers
      PROVE  Worker(w) \in Seq(R) /\ Done(w) \in Seq(R) /\ Proves(w) \in Seq(R) /\ Published(w, 1) \in Seq(R)
  <2>1. Worker(w) \in Seq(R)
    <3>1. /\ <<"ScheduleProposed", w, 0>> \in R /\ <<"LeaseGranted", w, 0>> \in R
          /\ <<"WorkerStarted", w, 0>> \in R
      BY <1>1, <1>2 DEF StepTypes
    <3> HIDE DEF R
    <3> QED
      BY <3>1 DEF Worker
  <2>2. Done(w) \in Seq(R)
    <3>1. /\ <<"AgentRunCompleted", w, 0>> \in R /\ <<"WorkerStopped", w, 0>> \in R
          /\ <<"LeaseReleased", w, 0>> \in R
      BY <1>1, <1>2 DEF StepTypes
    <3> HIDE DEF R
    <3> QED
      BY <3>1 DEF Done
  <2>3. Proves(w) \in Seq(R)
    <3>1. /\ <<"FormalActionRecorded", "goal", 0>> \in R /\ <<"FormalActionRecorded", "trial", 0>> \in R
          /\ <<"DocumentEdited", w, 0>> \in R /\ <<"FormalActionRecorded", "diagnostics", 0>> \in R
          /\ <<"ContributionSubmitted", w, 0>> \in R
      BY <1>1, <1>2 DEF StepTypes, StepRefs
    <3> HIDE DEF R
    <3> QED
      BY <3>1 DEF Proves, Action
  <2>4. Published(w, 1) \in Seq(R)
    <3>1. /\ <<"PromotionVerificationRecorded", w, 0>> \in R /\ <<"DeclarationPublished", w, 1>> \in R
          /\ <<"KnowledgeDeltaPublished", w, 1>> \in R
      BY <1>1, <1>2 DEF StepTypes
    <3> HIDE DEF R
    <3> QED
      BY <3>1 DEF Published
  <2> QED
    BY <2>1, <2>2, <2>3, <2>4
<1>4. /\ <<<<"LeanRuntimeStarted", "-", 0>>>> \in Seq(R) /\ <<<<"LeanRuntimeStopped", "-", 0>>>> \in Seq(R)
      /\ <<<<"KnowledgeDeltaAcknowledged", "prover-b", 1>>>> \in Seq(R)
  <2>1. /\ <<"LeanRuntimeStarted", "-", 0>> \in R /\ <<"LeanRuntimeStopped", "-", 0>> \in R
        /\ <<"KnowledgeDeltaAcknowledged", "prover-b", 1>> \in R
    BY <1>1 DEF StepTypes, StepRefs
  <2> HIDE DEF R
  <2>2. \A e \in R : <<e>> \in Seq(R)
    OBVIOUS
  <2> QED
    BY <2>1, <2>2, ZenonT(30)
<1>5. Published("prover-b", 2) \in Seq(Recordable(2))
  <2>1. /\ <<"PromotionVerificationRecorded", "prover-b", 0>> \in Recordable(2)
        /\ <<"DeclarationPublished", "prover-b", 2>> \in Recordable(2)
        /\ <<"KnowledgeDeltaPublished", "prover-b", 2>> \in Recordable(2)
    BY DEF Recordable, StepTypes, StepRefs
  <2> QED
    BY <2>1 DEF Published
<1>6. 3 \in 1..Len(Published("prover-b", 2)) /\ Published("prover-b", 2)[3][1] = "KnowledgeDeltaPublished"
  BY DEF Published
<1>7. R \subseteq Recordable(2)
  BY DEF Recordable
<1> HIDE DEF R
<1>8. /\ Len(Steps) = 7
      /\ Steps[1] = <<<<"LeanRuntimeStarted", "-", 0>>>> \o Worker("prover-a") \o Worker("prover-b")
      /\ Steps[2] = Proves("prover-a") /\ Steps[3] = Published("prover-a", 1)
      /\ Steps[4] = <<<<"KnowledgeDeltaAcknowledged", "prover-b", 1>>>> \o Done("prover-a")
                      \o Done("prover-b")
      /\ Steps[5] = Worker("prover-b") \o Proves("prover-b") /\ Steps[6] = Published("prover-b", 2)
      /\ Steps[7] = Done("prover-b") \o <<<<"LeanRuntimeStopped", "-", 0>>>>
  BY DEF Steps
<1>9. /\ Steps[1] \in Seq(R) /\ Steps[2] \in Seq(R) /\ Steps[3] \in Seq(R) /\ Steps[4] \in Seq(R)
      /\ Steps[5] \in Seq(R) /\ Steps[7] \in Seq(R)
  <2>1. \A s, t \in Seq(R) : s \o t \in Seq(R)
    BY ConcatProperties
  <2> QED
    BY <1>3, <1>4, <1>8, <2>1
<1>10. \A s \in Seq(R) : s \in Seq(Recordable(2))
  BY <1>7, SeqMonotonic
<1> SUFFICES ASSUME NEW k \in 1..7
             PROVE  /\ Steps[k] \in Seq(Recordable(2))
                    /\ \/ Steps[k] \in Seq(R)
                       \/ \E j \in 1..Len(Steps[k]) : Steps[k][j][1] = "KnowledgeDeltaPublished"
  BY <1>8, <1>9 DEF R
<1>11. CASE k = 6
  <2>1. Steps[6] \in Seq(Recordable(2))
    BY <1>5, <1>8
  <2>2. 3 \in 1..Len(Steps[6]) /\ Steps[6][3][1] = "KnowledgeDeltaPublished"
    BY <1>6, <1>8
  <2> QED
    BY <1>11, <2>1, <2>2
<1>12. CASE k # 6
  <2>1. k \in {1, 2, 3, 4, 5, 7}
    BY <1>12
  <2> QED
    BY <1>9, <1>10, <2>1
<1> QED
  BY <1>11, <1>12

\* A manifest has an epoch that was reached when the run was created.
LEMMA StartReached ==
  ASSUME FoundationIInv, run.at = "running"
  PROVE  StartOf(run.id) \in Nat /\ StartOf(run.id) <= Epoch
<1> DEFINE S == Of(Len(log), RealRun(run.id), "RunCreated")
<1>1. S # {} /\ S \in SUBSET (1..Len(log)) /\ Len(log) \in Nat
  <2>1. run.id \in 1..run.id
    BY StateTypes DEF FoundationIInv, CreatedInv
  <2> QED
    BY <2>1, StateTypes DEF FoundationIInv, CreatedInv, Of
<1>2. Minimum(S) \in S
  <2> HIDE DEF S
  <2> QED
    BY <1>1, Extremes
<1>3. Minimum(S) \in DOMAIN log /\ log[Minimum(S)].type = "RunCreated"
  BY <1>2, StateTypes DEF Of
<1>4. WrittenBy(log[Minimum(S)]) /\ log[Minimum(S)] \in FoundationEvents
  BY <1>3, StateTypes, Lengths DEF FoundationIInv, WritersInv
<1>5. log[Minimum(S)].n \in Nat /\ log[Minimum(S)].n <= Epoch
  BY <1>3, <1>4 DEF WrittenBy, FoundationEvents
<1> QED
  BY <1>5 DEF StartOf

\* Two past what was reached is the next of what is reached one later.
LEMMA AheadOfStart ==
  ASSUME NEW a \in Nat, NEW b \in Nat, NEW c \in Nat, a <= b, b + 1 <= c
  PROVE  \A n \in 0..2 : a + n <= c + 1
OBVIOUS

\* What a run records is its own, and no further ahead than the next epoch.
LEMMA RecordedIs ==
  ASSUME FoundationIInv, run.at = "running", NEW events \in Seq(Recordable(2)),
         NEW p \in {"-"} \cup Policies, Records(events, p),
         \/ events \in Seq(Recordable(1))
         \/ \E j \in 1..Len(events) : events[j][1] = "KnowledgeDeltaPublished"
  PROVE  /\ Grown
         /\ \A i \in NewEvents : /\ log'[i].run = RealRun(run.id) /\ log'[i].type \in StepTypes
                                 /\ log'[i].n <= Epoch' + 1
<1> DEFINE ext == Recorded(events, p)
           start == StartOf(run.id)
           policy == IF run.backend = "fake" THEN "-" ELSE p
           At(e) == FoundationEvent(RealRun(run.id), e[1], e[2], IF e[3] = 0 THEN 0 ELSE start + e[3],
                                    IF e[1] = "AgentRunCompleted" THEN policy ELSE "-")
<1>1. start \in Nat /\ start <= Epoch
  BY StartReached
<1>2. Len(events) \in Nat /\ DOMAIN events = 1..Len(events)
      /\ \A k \in 1..Len(events) : events[k] \in Recordable(2)
  BY LenProperties, ElementOfSeq
<1>3. ext = [k \in 1..Len(events) |-> At(events[k])] /\ log' = log \o ext
  BY <1>2 DEF Recorded, Records
<1>4. ASSUME NEW e \in Recordable(2)
      PROVE  /\ At(e) \in FoundationEvents /\ At(e).run = RealRun(run.id) /\ At(e).type \in StepTypes
             /\ At(e).type = e[1] /\ At(e).n = IF e[3] = 0 THEN 0 ELSE start + e[3]
  <2>1. e[1] \in StepTypes /\ e[2] \in StepRefs /\ e[3] \in 0..2
    BY <1>4 DEF Recordable
  <2>2. RealRun(run.id) \in {"gate", "run", "project"} \X Nat
    BY StateTypes DEF RealRun
  <2>3. (IF e[3] = 0 THEN 0 ELSE start + e[3]) \in Nat
    BY <1>1, <2>1
  <2>4. (IF e[1] = "AgentRunCompleted" THEN policy ELSE "-") \in {"-"} \cup Policies
    OBVIOUS
  <2> HIDE DEF start, policy
  <2> QED
    BY <2>1, <2>2, <2>3, <2>4 DEF FoundationEvent, FoundationEvents
<1> HIDE DEF start, policy, At, ext
<1>5. ext \in Seq(FoundationEvents) /\ Len(ext) = Len(events)
      /\ \A k \in 1..Len(events) : ext[k] = At(events[k])
  <2>1. ext \in [1..Len(events) -> FoundationEvents]
    BY <1>2, <1>3, <1>4
  <2>2. ext \in Seq(FoundationEvents) /\ DOMAIN ext = 1..Len(events)
    BY <1>2, <2>1, SeqDef
  <2>3. Len(ext) = Len(events)
    BY <1>2, <2>2, LenProperties
  <2> QED
    BY <1>3, <2>2, <2>3
<1>6. /\ Grown
      /\ \A i \in NewEvents : i - Len(log) \in 1..Len(ext) /\ log'[i] = ext[i - Len(log)]
      /\ \A k \in 1..Len(ext) : Len(log) + k \in NewEvents /\ log'[Len(log) + k] = ext[k]
  BY <1>3, <1>5, StateTypes, Appended
<1>7. Epoch \in Nat /\ Epoch' \in Nat /\ Epoch <= Epoch'
      /\ ((\E i \in NewEvents : log'[i].type = "KnowledgeDeltaPublished") => Epoch + 1 <= Epoch')
  BY <1>6, EpochGrows
<1>8. ASSUME NEW k \in 1..Len(events) PROVE start + events[k][3] <= Epoch' + 1 /\ 0 <= Epoch' + 1
  <2>1. events[k][3] \in 0..2
    BY <1>2 DEF Recordable
  <2>2. CASE events \in Seq(Recordable(1))
    <3>1. events[k] \in Recordable(1)
      BY <2>2, ElementOfSeq
    <3>2. events[k][3] \in 0..1
      BY <3>1 DEF Recordable
    <3> QED
      BY <1>1, <1>7, <3>2
  <2>3. CASE \E j \in 1..Len(events) : events[j][1] = "KnowledgeDeltaPublished"
    <3>1. PICK j \in 1..Len(events) : events[j][1] = "KnowledgeDeltaPublished"
      BY <2>3
    <3>2. Len(log) + j \in NewEvents /\ log'[Len(log) + j].type = "KnowledgeDeltaPublished"
      <4>1. At(events[j]).type = "KnowledgeDeltaPublished"
        BY <1>2, <1>4, <3>1
      <4>2. j \in 1..Len(ext) /\ ext[j] = At(events[j])
        BY <1>5
      <4> QED
        BY <1>6, <4>1, <4>2
    <3>3. Epoch + 1 <= Epoch'
      BY <1>7, <3>2
    <3>4. \A n \in 0..2 : start + n <= Epoch' + 1
      <4>1. Epoch \in Nat /\ Epoch' \in Nat
        BY <1>7, Zenon
      <4> QED
        BY <1>1, <3>3, <4>1, AheadOfStart, Zenon
    <3>5. start + events[k][3] <= Epoch' + 1
      BY <2>1, <3>4, Zenon
    <3>6. 0 <= Epoch' + 1
      <4>1. \A n \in Nat : 0 <= n + 1
        OBVIOUS
      <4> QED
        BY <1>7, <4>1, Zenon
    <3> QED
      BY <3>5, <3>6, Zenon
  <2> QED
    BY <2>2, <2>3
<1>9. ASSUME NEW i \in NewEvents
      PROVE  /\ log'[i].run = RealRun(run.id) /\ log'[i].type \in StepTypes /\ log'[i].n <= Epoch' + 1
  <2>1. PICK k \in 1..Len(events) : log'[i] = At(events[k])
    BY <1>5, <1>6
  <2>2. /\ events[k] \in Recordable(2)
        /\ start + events[k][3] <= Epoch' + 1 /\ 0 <= Epoch' + 1
    BY <1>2, <1>8
  <2> QED
    BY <1>4, <2>1, <2>2
<1> QED
  BY <1>6, <1>9

\* Steps of a run are not of the kinds that only gates and the start of a run record.
LEMMA StepTypesAre ==
  ASSUME NEW type \in StepTypes PROVE type \notin FoundationAuditTypes /\ type # "RunCreated"
BY DEF StepTypes, FoundationAuditTypes, ProbeTypes

\* A run that records what it may keeps everything, whether it goes on or ends.
RunWrites ==
  /\ Grown
  /\ \A i \in NewEvents : /\ log'[i].run = RealRun(run.id) /\ log'[i].type \in StepTypes
                          /\ log'[i].n <= Epoch' + 1

\* How the record of a run moves on.
RunMoves ==
  [at : {"idle", "running"}, id : {run.id}, backend : {run.backend}, step : Nat \ {0}]

\* A step of the run in progress that records only what a run records.
LEMMA RunGoesOn ==
  ASSUME FoundationIInv, run.at = "running", RunWrites, UNCHANGED RunVars,
         run' \in RunMoves,
         run'.at = "running" => owner' = "run", run'.at # "running" => owner' = "none",
         left' \subseteq left \cup {<<run.id, Epoch>>}
  PROVE  FoundationIInv'
<1>1. gate' = gate /\ gates' = gates /\ altered' = altered /\ check' = check
  BY DEF RunVars
<1>2. run'.id = run.id /\ run'.at \in {"idle", "running"} /\ run'.step \in Nat \ {0} /\ run'.step > 0
  BY DEF RunMoves
<1>3. run.id \in 1..MaxRuns /\ run.id \in Nat /\ owner = "run" /\ check.at # "reading" /\ Grown
  BY StateTypes DEF FoundationIInv, CreatedInv, CheckInv, RunWrites
<1>4. gate.at \notin {"authority", "probing"}
  BY <1>3, StateTypes
<1>5. \A i \in NewEvents :
        /\ \/ \E r \in 1..run'.id : log'[i].run = RealRun(r)
           \/ log'[i].run = <<"project", 0>> /\ log'[i].type # "RunCreated"
        /\ log'[i].type \notin FoundationAuditTypes
        /\ log'[i].n <= Epoch' + 1
        /\ log'[i].type = "RunCreated" => log'[i].n <= Epoch'
        /\ log'[i].type = "AgentRunCompleted" => run.at = "running" /\ log'[i].run = RealRun(run.id)
  <2> SUFFICES ASSUME NEW i \in NewEvents
               PROVE  /\ \E r \in 1..run'.id : log'[i].run = RealRun(r)
                      /\ log'[i].type \notin FoundationAuditTypes
                      /\ log'[i].n <= Epoch' + 1
                      /\ log'[i].type # "RunCreated"
                      /\ log'[i].run = RealRun(run.id)
    OBVIOUS
  <2>1. /\ log'[i].run = RealRun(run.id) /\ log'[i].type \in StepTypes /\ log'[i].n <= Epoch' + 1
    BY DEF RunWrites
  <2>2. run.id \in 1..run'.id
    BY <1>2, <1>3
  <2> QED
    BY <2>1, <2>2, StepTypesAre
<1>6. WritersInv' /\ GateInv' /\ PassedInv' /\ CheckInv' /\ AcceptedRunWasGated'
  BY <1>1, <1>2, <1>3, <1>5, OthersWrite
<1>7. CreatedInv'
  BY <1>2, <1>3, CreatedKept DEF FoundationIInv
<1>8. ASSUME NEW l \in left' PROVE l \in Nat \X Nat /\ l[1] \in 1..run'.id /\ l[2] <= Epoch'
  <2>1. Epoch \in Nat /\ Epoch' \in Nat /\ Epoch <= Epoch'
    BY <1>3, EpochGrows
  <2>2. CASE l \in left
    <3>1. l \in Nat \X Nat /\ l[1] \in 1..run.id /\ l[2] <= Epoch /\ l[2] \in Nat
      BY <2>2, StateTypes
    <3> QED
      BY <1>2, <2>1, <3>1
  <2>3. CASE l = <<run.id, Epoch>>
    <3> HIDE DEF Epoch
    <3> QED
      BY <1>2, <1>3, <2>1, <2>3
  <2> QED
    BY <2>2, <2>3
<1>9. RecordTypes'
  <2>1. run' \in [at : {"idle", "running"}, id : 0..MaxRuns, backend : {"-"} \cup Backends, step : Nat]
    BY <1>3, StateTypes DEF RunMoves
  <2>2. left' \in SUBSET (Nat \X Nat)
    BY <1>8
  <2> QED
    BY <1>1, <1>3, <2>1, <2>2 DEF FoundationIInv, RecordTypes, Grown
<1> QED
  BY <1>1, <1>2, <1>4, <1>6, <1>7, <1>8, <1>9, StateTypes, InvariantFrom

\* The moves open to the run in progress, which holds the state.
LEMMA RunMovesOn ==
  ASSUME FoundationIInv, run.at = "running"
  PROVE  /\ \A n \in Nat \ {0} : [run EXCEPT !.step = n] \in RunMoves
                                 /\ [run EXCEPT !.step = n].at = "running"
         /\ run.step \in Nat \ {0} /\ run.step + 1 \in Nat \ {0}
         /\ Ended \in RunMoves /\ Ended.at = "idle"
         /\ owner = "run"
<1>1. run \in [at : {"idle", "running"}, id : 0..MaxRuns, backend : {"-"} \cup Backends, step : Nat]
  BY DEF FoundationIInv, RecordTypes
<1>2. run.step \in Nat \ {0} /\ run.step + 1 \in Nat \ {0}
  BY <1>1 DEF FoundationIInv, CreatedInv
<1>3. owner = "run"
  BY StateTypes
<1>4. Ended \in RunMoves /\ Ended.at = "idle"
  BY <1>1, <1>2 DEF Ended, RunMoves
<1>5. ASSUME NEW n \in Nat \ {0}
      PROVE  [run EXCEPT !.step = n] \in RunMoves /\ [run EXCEPT !.step = n].at = "running"
  BY <1>1 DEF RunMoves
<1> QED
  BY <1>2, <1>3, <1>4, <1>5

\* Records that do not go ahead of the next epoch may be written at any time.
LEMMA PlainRecords ==
  ASSUME FoundationIInv, run.at = "running", NEW events \in Seq(Recordable(1)),
         NEW p \in {"-"} \cup Policies, Records(events, p)
  PROVE  RunWrites
<1>1. events \in Seq(Recordable(2))
  <2>1. Recordable(1) \subseteq Recordable(2)
    BY DEF Recordable
  <2> QED
    BY <2>1, SeqMonotonic
<1> QED
  BY <1>1, RecordedIs DEF RunWrites

\* Some of the events that are recorded by themselves.
LEMMA SingleRecords ==
  /\ <<<<"ContributionSubmitted", "other", 0>>>> \in Seq(Recordable(1))
  /\ <<<<"RunAborted", "-", 0>>>> \in Seq(Recordable(1))
  /\ <<<<"FormalTraceSealed", "-", 0>>>> \in Seq(Recordable(1))
  /\ <<<<"AgentRunCompleted", "alignment-auditor", 0>>>> \in Seq(Recordable(1))
  /\ \A v \in {"aligned", "misaligned"}, end \in {"RunCompleted", "RunAborted"} :
       <<<<"AlignmentReviewed", v, 0>>, <<end, "-", 0>>>> \in Seq(Recordable(1))
<1>1. \A type \in StepTypes, ref \in StepRefs : <<type, ref, 0>> \in Recordable(1)
  BY DEF Recordable
<1>2. \A e \in Recordable(1) : <<e>> \in Seq(Recordable(1))
  OBVIOUS
<1>3. \A e, f \in Recordable(1) : <<e, f>> \in Seq(Recordable(1))
  OBVIOUS
<1>4. ASSUME NEW v \in {"aligned", "misaligned"}, NEW end \in {"RunCompleted", "RunAborted"}
      PROVE  <<"AlignmentReviewed", v, 0>> \in Recordable(1) /\ <<end, "-", 0>> \in Recordable(1)
  BY <1>1 DEF StepTypes, StepRefs
<1>5. /\ <<"ContributionSubmitted", "other", 0>> \in Recordable(1)
      /\ <<"RunAborted", "-", 0>> \in Recordable(1)
      /\ <<"FormalTraceSealed", "-", 0>> \in Recordable(1)
      /\ <<"AgentRunCompleted", "alignment-auditor", 0>> \in Recordable(1)
  BY <1>1 DEF StepTypes, StepRefs
<1> QED
  BY <1>2, <1>3, <1>4, <1>5

\* The registration of some artifacts.
LEMMA RegistersRecord ==
  ASSUME NEW m \in 1..5, NEW n \in m..5
  PROVE  Registers(SubSeq(Artifacts, m, n)) \in Seq(Recordable(1))
<1> DEFINE names == SubSeq(Artifacts, m, n)
<1>1. \A i \in m..n : Artifacts[i] \in StepRefs
  <2>1. \A i \in 1..5 : Artifacts[i] \in StepRefs
    <3>1. Artifacts \in Seq(StepRefs) /\ Len(Artifacts) = 5
      BY DEF Artifacts, StepRefs
    <3> QED
      BY <3>1, ElementOfSeq
  <2> QED
    BY <2>1
<1>2. names \in Seq(StepRefs)
  BY <1>1, SubSeqProperties
<1> HIDE DEF names
<1>3. /\ Len(names) \in Nat /\ DOMAIN names = 1..Len(names)
      /\ \A i \in 1..Len(names) : names[i] \in StepRefs
  BY <1>2, LenProperties, ElementOfSeq
<1>4. \A ref \in StepRefs : <<"ArtifactRegistered", ref, 0>> \in Recordable(1)
  BY DEF Recordable, StepTypes
<1>5. Registers(names) \in [1..Len(names) -> Recordable(1)]
  BY <1>3, <1>4 DEF Registers
<1>6. Registers(names) \in Seq(Recordable(1))
  BY <1>3, <1>5, SeqDef
<1> QED
  BY <1>6 DEF names

\* What a run appends to the queue and what it leaves there.
LEMMA LeftBehindIs == LeftBehind \subseteq left \cup {<<run.id, Epoch>>}
BY DEF LeftBehind

\* The steps of a run.
LEMMA RunStepPreserves ==
  ASSUME FoundationIInv, NEW p \in Policies, RunStep(p) PROVE FoundationIInv'
<1>1. /\ run.at = "running" /\ run.step <= Len(Steps) /\ Records(Steps[run.step], p)
      /\ run' = [run EXCEPT !.step = run.step + 1] /\ owner' = owner /\ left' = left /\ UNCHANGED RunVars
  BY DEF RunStep
<1>2. run.step \in 1..Len(Steps) /\ run' \in RunMoves /\ run'.at = "running" /\ owner = "run"
  <2>1. run.step \in Nat \ {0} /\ Len(Steps) = 7
    BY <1>1, RunMovesOn, StepsAre
  <2>2. run' \in RunMoves /\ run'.at = "running" /\ owner = "run"
    BY <1>1, RunMovesOn
  <2> QED
    BY <1>1, <2>1, <2>2
<1>3. RunWrites
  BY <1>1, <1>2, StepsAre, RecordedIs DEF RunWrites
<1> QED
  BY <1>1, <1>2, <1>3, RunGoesOn

\* A second contribution, left in the queue.
LEMMA SubmitsTwicePreserves ==
  ASSUME FoundationIInv, NEW p \in Policies, SubmitsTwice(p) PROVE FoundationIInv'
<1> DEFINE events == Steps[5] \o <<<<"ContributionSubmitted", "other", 0>>>>
<1>1. /\ run.at = "running" /\ Records(events, p)
      /\ run' = [run EXCEPT !.step = run.step + 1] /\ owner' = owner
      /\ left' = left \cup {<<run.id, Epoch>>} /\ UNCHANGED RunVars
  BY DEF SubmitsTwice
<1>2. events \in Seq(Recordable(1))
  BY StepsAre, SingleRecords, ConcatProperties
<1> HIDE DEF events
<1>3. RunWrites
  BY <1>1, <1>2, PlainRecords
<1>4. run' \in RunMoves /\ run'.at = "running" /\ owner = "run"
  BY <1>1, RunMovesOn
<1> QED
  BY <1>1, <1>3, <1>4, RunGoesOn

\* The review, and its failure.
LEMMA AuditPreserves ==
  ASSUME FoundationIInv, NEW p \in Policies, NEW v \in {"aligned", "misaligned"}, Audit(v, p)
  PROVE  FoundationIInv'
<1> DEFINE auditor == IF run.backend # "fake"
                      THEN <<<<"AgentRunCompleted", "alignment-auditor", 0>>>> ELSE <<>>
           end == IF v = "aligned" THEN "RunCompleted" ELSE "RunAborted"
           events == auditor \o <<<<"AlignmentReviewed", v, 0>>, <<end, "-", 0>>>>
<1>1. /\ run.at = "running" /\ Records(events, p)
      /\ run' = [run EXCEPT !.step = Sealing] /\ owner' = owner /\ left' = left /\ UNCHANGED RunVars
  BY DEF Audit
<1>2. events \in Seq(Recordable(1))
  <2>1. auditor \in Seq(Recordable(1))
    BY SingleRecords
  <2>2. <<<<"AlignmentReviewed", v, 0>>, <<end, "-", 0>>>> \in Seq(Recordable(1))
    BY SingleRecords
  <2> HIDE DEF auditor, end
  <2> QED
    BY <2>1, <2>2, ConcatProperties
<1> HIDE DEF events
<1>3. RunWrites
  BY <1>1, <1>2, PlainRecords
<1>4. run' \in RunMoves /\ run'.at = "running" /\ owner = "run"
  <2>1. Sealing \in Nat \ {0}
    BY StepsAre DEF Sealing
  <2> QED
    BY <1>1, <2>1, RunMovesOn
<1> QED
  BY <1>1, <1>3, <1>4, RunGoesOn

\* The alignment auditor does not finish.
LEMMA AuditFailsPreserves ==
  ASSUME FoundationIInv, AuditFails PROVE FoundationIInv'
<1>1. /\ run.at = "running" /\ Records(<<<<"RunAborted", "-", 0>>>>, "-")
      /\ run' = [run EXCEPT !.step = Sealing] /\ owner' = owner /\ left' = left /\ UNCHANGED RunVars
  BY DEF AuditFails
<1>2. RunWrites
  BY <1>1, SingleRecords, PlainRecords
<1>3. run' \in RunMoves /\ run'.at = "running" /\ owner = "run"
  <2>1. Sealing \in Nat \ {0}
    BY StepsAre DEF Sealing
  <2> QED
    BY <1>1, <2>1, RunMovesOn
<1> QED
  BY <1>1, <1>2, <1>3, RunGoesOn

\* The seal, the trace and the report.
LEMMA SealPreserves == ASSUME FoundationIInv, Seal PROVE FoundationIInv'
<1> DEFINE events == Registers(SubSeq(Artifacts, 1, 2)) \o <<<<"FormalTraceSealed", "-", 0>>>>
<1>1. /\ run.at = "running" /\ Records(events, "-")
      /\ run' = [run EXCEPT !.step = Tracing] /\ owner' = owner /\ left' = left /\ UNCHANGED RunVars
  BY DEF Seal
<1>2. events \in Seq(Recordable(1))
  <2>1. Registers(SubSeq(Artifacts, 1, 2)) \in Seq(Recordable(1))
    BY RegistersRecord
  <2> QED
    BY <2>1, SingleRecords, ConcatProperties
<1> HIDE DEF events
<1>3. RunWrites
  BY <1>1, <1>2, PlainRecords
<1>4. run' \in RunMoves /\ run'.at = "running" /\ owner = "run"
  <2>1. Tracing \in Nat \ {0}
    BY StepsAre DEF Tracing
  <2> QED
    BY <1>1, <2>1, RunMovesOn
<1> QED
  BY <1>1, <1>3, <1>4, RunGoesOn

\* The trace is written and sealed.
LEMMA WriteTracePreserves == ASSUME FoundationIInv, WriteTrace PROVE FoundationIInv'
<1>1. /\ run.at = "running" /\ Records(Registers(SubSeq(Artifacts, 3, 4)), "-")
      /\ run' = [run EXCEPT !.step = Reporting] /\ owner' = owner /\ left' = left /\ UNCHANGED RunVars
  BY DEF WriteTrace
<1>2. Registers(SubSeq(Artifacts, 3, 4)) \in Seq(Recordable(1))
  BY RegistersRecord
<1>3. RunWrites
  BY <1>1, <1>2, PlainRecords
<1>4. run' \in RunMoves /\ run'.at = "running" /\ owner = "run"
  <2>1. Reporting \in Nat \ {0}
    BY StepsAre DEF Reporting
  <2> QED
    BY <1>1, <2>1, RunMovesOn
<1> QED
  BY <1>1, <1>3, <1>4, RunGoesOn

\* The acceptance report is written.
LEMMA WriteReportPreserves == ASSUME FoundationIInv, WriteReport PROVE FoundationIInv'
<1>1. /\ run.at = "running" /\ Records(Registers(SubSeq(Artifacts, 5, 5)), "-")
      /\ run' = Ended /\ owner' = "none" /\ left' = left /\ UNCHANGED RunVars
  BY DEF WriteReport
<1>2. Registers(SubSeq(Artifacts, 5, 5)) \in Seq(Recordable(1))
  BY RegistersRecord
<1>3. RunWrites
  BY <1>1, <1>2, PlainRecords
<1>4. run' \in RunMoves /\ run'.at = "idle"
  BY <1>1, RunMovesOn
<1> QED
  BY <1>1, <1>3, <1>4, RunGoesOn

\* A run that is aborted or dies.
LEMMA RunFailsPreserves == ASSUME FoundationIInv, RunFails PROVE FoundationIInv'
<1>1. /\ run.at = "running" /\ Records(<<<<"RunAborted", "-", 0>>>>, "-")
      /\ run' = Ended /\ owner' = "none" /\ left' = LeftBehind /\ UNCHANGED RunVars
  BY DEF RunFails
<1>2. RunWrites
  BY <1>1, SingleRecords, PlainRecords
<1>3. run' \in RunMoves /\ run'.at = "idle"
  BY <1>1, RunMovesOn
<1> QED
  BY <1>1, <1>2, <1>3, RunGoesOn, LeftBehindIs

\* The process of a run dies.
LEMMA RunDiesPreserves == ASSUME FoundationIInv, RunDies PROVE FoundationIInv'
<1>1. /\ run.at = "running" /\ log' = log
      /\ run' = Ended /\ owner' = "none" /\ left' = LeftBehind /\ UNCHANGED RunVars
  BY DEF RunDies
<1>2. RunWrites
  BY <1>1, StateTypes, LogStays DEF RunWrites
<1>3. run' \in RunMoves /\ run'.at = "idle"
  BY <1>1, RunMovesOn
<1> QED
  BY <1>1, <1>2, <1>3, RunGoesOn, LeftBehindIs

\* What is not ahead of an epoch is not ahead of a later one.
LEMMA NotAhead ==
  ASSUME NEW a \in Nat, NEW b \in Nat, a <= b
  PROVE  a <= b + 1 /\ 0 <= b + 1 /\ \A n \in Nat : n <= a + 1 => n <= b + 1
OBVIOUS

\* A run is created under the next number, at the epoch that is current.
LEMMA CreateRunPreserves ==
  ASSUME FoundationIInv, NEW backend \in Backends, CreateRun(backend) PROVE FoundationIInv'
<1> DEFINE id == run.id + 1
           project == Plain(<<"project", 0>>, "ProjectInitialized", "-")
           begun == FoundationEvent(RealRun(id), "RunCreated", backend, Epoch, "-")
           first == IF \E i \in DOMAIN log : log[i].type = "ProjectInitialized" THEN <<>> ELSE <<project>>
           ext == first \o <<begun>>
           K == {project, begun}
<1>1. /\ run.at = "idle" /\ run.id < MaxRuns /\ owner = "none" /\ owner' = "run"
      /\ run' = [at |-> "running", id |-> id, backend |-> backend, step |-> 1]
      /\ log' = log \o first \o <<begun>>
      /\ gate' = gate /\ gates' = gates /\ altered' = altered /\ check' = check /\ left' = left
  BY DEF CreateRun, RunVars
<1>2. Epoch \in Nat /\ id \in 1..MaxRuns /\ id \in Nat /\ run.id \in Nat
  <2>1. Epoch \in Nat
    <3>1. IsFiniteSet(1..Len(log))
      BY StateTypes, FS_Interval
    <3>2. {i \in DOMAIN log : log[i].type = "KnowledgeDeltaPublished"} \subseteq 1..Len(log)
      BY StateTypes
    <3> QED
      BY <3>1, <3>2, FS_Subset, FS_CardinalityType DEF Epoch
  <2>2. run.id \in Nat /\ MaxRuns \in Nat
    BY StateTypes, FoundationAssumption
  <2> QED
    BY <1>1, <2>1, <2>2
<1>3. K \subseteq FoundationEvents
  <2>1. RealRun(id) \in {"gate", "run", "project"} \X Nat /\ <<"project", 0>> \in {"gate", "run", "project"} \X Nat
    BY <1>2 DEF RealRun
  <2>2. 0 \in Nat /\ "-" \in GateRefs
    BY DEF GateRefs
  <2> HIDE DEF id, Epoch
  <2> QED
    BY <1>2, <2>1, <2>2 DEF Plain, FoundationEvent, FoundationEvents
<1>4. /\ project.run = <<"project", 0>> /\ project.type = "ProjectInitialized" /\ project.n = 0
      /\ begun.run = RealRun(id) /\ begun.type = "RunCreated" /\ begun.n = Epoch
  BY DEF Plain, FoundationEvent
<1> HIDE DEF project, begun
<1>5. first \in Seq(K) /\ <<begun>> \in Seq(K) /\ Len(<<begun>>) = 1 /\ <<begun>>[1] = begun
  <2>1. begun \in K /\ project \in K
    OBVIOUS
  <2> HIDE DEF K
  <2>2. <<begun>> \in Seq(K) /\ <<project>> \in Seq(K) /\ <<>> \in Seq(K)
    BY <2>1
  <2>3. first \in Seq(K)
    BY <2>2
  <2> QED
    BY <2>2, <2>3
<1> HIDE DEF first, K
<1>6. ext \in Seq(K) /\ Len(ext) \in 1..Len(ext) /\ ext[Len(ext)] = begun
  <2>1. ext \in Seq(K) /\ Len(first) \in Nat
    BY <1>5, ConcatProperties, LenProperties
  <2>2. Len(ext) = Len(first) + 1
    BY <1>5, ConcatProperties
  <2>3. Len(first) + 1 \in 1..(Len(first) + 1) /\ ~(Len(first) + 1 <= Len(first))
        /\ Len(first) + 1 - Len(first) = 1
    BY <2>1
  <2>4. ext[Len(first) + 1] = <<begun>>[1]
    BY <1>5, <2>3, ConcatProperties
  <2> QED
    BY <1>5, <2>1, <2>2, <2>3, <2>4
<1>7. ext \in Seq(FoundationEvents) /\ \A k \in 1..Len(ext) : ext[k] \in K
  <2> HIDE DEF ext
  <2> QED
    BY <1>3, <1>6, SeqMonotonic, ElementOfSeq
<1>8. log' = log \o ext
  <2>1. first \in Seq(FoundationEvents) /\ <<begun>> \in Seq(FoundationEvents)
    BY <1>3, <1>5, SeqMonotonic
  <2>2. log \in Seq(FoundationEvents)
    BY StateTypes
  <2>3. (log \o first) \o <<begun>> = log \o (first \o <<begun>>)
    BY <2>1, <2>2, ConcatAssociative
  <2> QED
    BY <1>1, <2>3
<1> HIDE DEF ext
<1>9. /\ Grown
      /\ \A i \in NewEvents : log'[i] \in K
      /\ \E i \in NewEvents : log'[i] = begun
  <2>1. log \in Seq(FoundationEvents)
    BY StateTypes
  <2>2. /\ Grown
        /\ \A i \in NewEvents : i - Len(log) \in 1..Len(ext) /\ log'[i] = ext[i - Len(log)]
        /\ \A k \in 1..Len(ext) : Len(log) + k \in NewEvents /\ log'[Len(log) + k] = ext[k]
    BY <1>7, <1>8, <2>1, Appended
  <2> QED
    BY <1>6, <1>7, <2>2
<1>10. Epoch <= Epoch' /\ Epoch' \in Nat
  BY <1>9, EpochGrows
<1>11. \A i \in NewEvents :
        /\ \/ \E r \in 1..run'.id : log'[i].run = RealRun(r)
           \/ log'[i].run = <<"project", 0>> /\ log'[i].type # "RunCreated"
        /\ log'[i].type \notin FoundationAuditTypes
        /\ log'[i].n <= Epoch' + 1
        /\ log'[i].type = "RunCreated" => log'[i].n <= Epoch'
        /\ log'[i].type # "AgentRunCompleted"
  <2>1. id \in 1..run'.id /\ run'.id = id
    BY <1>1, <1>2
  <2>2. "ProjectInitialized" \notin FoundationAuditTypes /\ "RunCreated" \notin FoundationAuditTypes
    BY DEF FoundationAuditTypes, ProbeTypes
  <2>3. 0 <= Epoch' + 1 /\ Epoch <= Epoch' + 1
    BY <1>2, <1>10, NotAhead
  <2>4. ASSUME NEW i \in NewEvents, log'[i] = project
        PROVE  /\ log'[i].run = <<"project", 0>> /\ log'[i].type = "ProjectInitialized"
               /\ log'[i].n <= Epoch' + 1
    BY <1>4, <2>3, <2>4
  <2>5. ASSUME NEW i \in NewEvents, log'[i] = begun
        PROVE  /\ log'[i].run = RealRun(id) /\ log'[i].type = "RunCreated"
               /\ log'[i].n <= Epoch' + 1 /\ log'[i].n <= Epoch'
    BY <1>4, <1>10, <2>3, <2>5
  <2> HIDE DEF id
  <2> QED
    BY <1>9, <2>1, <2>2, <2>4, <2>5 DEF K
<1>12. check.at # "reading"
  BY <1>1 DEF FoundationIInv, CheckInv
<1>13. WritersInv' /\ GateInv' /\ PassedInv' /\ CheckInv' /\ AcceptedRunWasGated'
  <2>1. run'.id \in Nat /\ run.id <= run'.id /\ run'.id > run.id
    BY <1>1, <1>2
  <2> QED
    BY <1>1, <1>9, <1>11, <1>12, <2>1, OthersWrite
<1>14. CreatedInv'
  <2>1. run'.id = id /\ run'.id \in 1..MaxRuns /\ run'.step > 0
    BY <1>1, <1>2
  <2>2. ASSUME NEW r \in 1..id PROVE Of(Len(log), RealRun(r), "RunCreated")' # {}
    <3>1. CASE r = id
      <4>1. PICK i \in NewEvents : log'[i] = begun
        BY <1>9
      <4>2. i \in 1..Len(log')
        BY <1>9, GrownLengths DEF NewEvents
      <4>3. i \in Of(Len(log), RealRun(r), "RunCreated")'
        BY <1>4, <3>1, <4>1, <4>2 DEF Of
      <4> QED
        BY <4>3
    <3>2. CASE r # id
      <4>1. r \in 1..run.id
        BY <1>2, <3>2
      <4>2. Of(Len(log), RealRun(r), "RunCreated") # {}
        BY <4>1 DEF FoundationIInv, CreatedInv
      <4> QED
        BY <1>9, <4>2, OfGrows
    <3> QED
      BY <3>1, <3>2
  <2> HIDE DEF id
  <2> QED
    BY <2>1, <2>2 DEF CreatedInv
<1>15. RecordTypes'
  <2>1. run' \in [at : {"idle", "running"}, id : 0..MaxRuns, backend : {"-"} \cup Backends, step : Nat]
    BY <1>1, <1>2
  <2> QED
    BY <1>1, <1>9, <2>1 DEF FoundationIInv, RecordTypes, Grown
<1>16. \A l \in left' : l[1] \in 1..run'.id /\ l[2] <= Epoch'
  BY <1>1, <1>2, <1>9, LeftKept
<1>17. gate.at \notin {"authority", "probing"} /\ run'.at = "running"
  BY <1>1, StateTypes
<1> QED
  BY <1>1, <1>13, <1>14, <1>15, <1>16, <1>17, StateTypes, InvariantFrom

\* A run, whatever it does.
LEMMA RunPreserves == FoundationIInv /\ RunNext => FoundationIInv'
<1> SUFFICES ASSUME FoundationIInv, RunNext PROVE FoundationIInv'
  OBVIOUS
<1>1. ASSUME NEW backend \in Backends, CreateRun(backend) PROVE FoundationIInv'
  BY <1>1, CreateRunPreserves
<1>2. ASSUME NEW p \in Policies, RunStep(p) PROVE FoundationIInv'
  BY <1>2, RunStepPreserves
<1>3. ASSUME NEW p \in Policies, SubmitsTwice(p) PROVE FoundationIInv'
  BY <1>3, SubmitsTwicePreserves
<1>4. ASSUME NEW p \in Policies, NEW v \in {"aligned", "misaligned"}, Audit(v, p) PROVE FoundationIInv'
  BY <1>4, AuditPreserves
<1>5. CASE AuditFails
  BY <1>5, AuditFailsPreserves
<1>6. CASE Seal
  BY <1>6, SealPreserves
<1>7. CASE WriteTrace
  BY <1>7, WriteTracePreserves
<1>8. CASE WriteReport
  BY <1>8, WriteReportPreserves
<1>9. CASE RunFails
  BY <1>9, RunFailsPreserves
<1>10. CASE RunDies
  BY <1>10, RunDiesPreserves
<1> QED
  BY <1>1, <1>2, <1>3, <1>4, <1>5, <1>6, <1>7, <1>8, <1>9, <1>10 DEF RunNext

-----------------------------------------------------------------------------
\* A step that writes nothing and leaves the gates, the run and the checker alone.
LEMMA QuietStep ==
  ASSUME FoundationIInv, UNCHANGED <<log, gate, gates, run, left, check>>,
         altered' \subseteq FoundationRuns \X FoundationNames,
         owner' = owner \/ (check.at # "reading" /\ {owner, owner'} \subseteq {"none", "controller"})
  PROVE  FoundationIInv'
<1>1. Grown /\ NewEvents = {} /\ check.at = "reading" => owner' = owner
  BY StateTypes, LogStays
<1>2. WritersInv' /\ GateInv' /\ PassedInv' /\ CheckInv' /\ AcceptedRunWasGated'
  BY <1>1, StateTypes, LogStays, OthersWrite
<1>3. CreatedInv'
  BY StateTypes, LogStays, CreatedKept DEF FoundationIInv
<1>4. RecordTypes'
  BY DEF FoundationIInv, RecordTypes
<1>5. \A l \in left' : l[1] \in 1..run'.id /\ l[2] <= Epoch'
  BY StateTypes, LogStays, LeftKept
<1>6. /\ owner' \in {"none", "gate", "run", "controller", "checker"}
      /\ gate'.at \in {"authority", "probing"} <=> owner' = "gate"
      /\ run'.at = "running" <=> owner' = "run"
  BY StateTypes
<1> QED
  BY <1>2, <1>3, <1>4, <1>5, <1>6, StateTypes, InvariantFrom

\* A controller publishes for a run of the past, one epoch at a time.
LEMMA ControllerWrites ==
  ASSUME FoundationIInv, owner = "controller", UNCHANGED <<RunVars, owner, run>>, NEW r \in 1..run.id,
         NEW K \in SUBSET FoundationEvents, NEW ext \in Seq(K), log' = log \o ext,
         \A e \in K : /\ e.run = RealRun(r) /\ e.type \in StepTypes /\ e.type # "AgentRunCompleted"
                      /\ e.n <= Epoch + 1,
         left' \subseteq left \cup {<<r, Epoch>>}
  PROVE  FoundationIInv'
<1>1. gate' = gate /\ gates' = gates /\ altered' = altered /\ check' = check /\ run' = run /\ owner' = owner
  BY DEF RunVars
<1>2. ext \in Seq(FoundationEvents) /\ \A k \in 1..Len(ext) : ext[k] \in K
  BY SeqMonotonic, ElementOfSeq
<1>3. Grown /\ \A i \in NewEvents : log'[i] \in K
  <2>1. log \in Seq(FoundationEvents)
    BY StateTypes
  <2>2. /\ Grown
        /\ \A i \in NewEvents : i - Len(log) \in 1..Len(ext) /\ log'[i] = ext[i - Len(log)]
    BY <1>2, <2>1, Appended
  <2> QED
    BY <1>2, <2>2
<1>4. Epoch \in Nat /\ Epoch' \in Nat /\ Epoch <= Epoch'
  BY <1>3, EpochGrows
<1>5. ASSUME NEW i \in NewEvents
      PROVE  /\ log'[i].run = RealRun(r) /\ log'[i].type \in StepTypes
             /\ log'[i].type # "AgentRunCompleted" /\ log'[i].n <= Epoch' + 1
  <2>1. log'[i].n \in Nat /\ log'[i].n <= Epoch + 1
    BY <1>3 DEF FoundationEvents
  <2>2. log'[i].n <= Epoch' + 1
    BY <1>4, <2>1, NotAhead
  <2> QED
    BY <1>3, <2>2
<1>6. WritersInv' /\ GateInv' /\ PassedInv' /\ CheckInv' /\ AcceptedRunWasGated'
  <2>1. \A i \in NewEvents :
          /\ \/ \E q \in 1..run'.id : log'[i].run = RealRun(q)
             \/ log'[i].run = <<"project", 0>> /\ log'[i].type # "RunCreated"
          /\ log'[i].type \notin FoundationAuditTypes
          /\ log'[i].n <= Epoch' + 1
          /\ log'[i].type = "RunCreated" => log'[i].n <= Epoch'
          /\ log'[i].type = "AgentRunCompleted" => run.at = "running" /\ log'[i].run = RealRun(run.id)
    BY <1>1, <1>5, StepTypesAre
  <2>2. run'.id \in Nat /\ run.id <= run'.id
    BY <1>1, StateTypes
  <2> QED
    BY <1>1, <1>3, <2>1, <2>2, OthersWrite
<1>7. CreatedInv'
  BY <1>1, <1>3, CreatedKept DEF FoundationIInv
<1>8. ASSUME NEW l \in left' PROVE l \in Nat \X Nat /\ l[1] \in 1..run'.id /\ l[2] <= Epoch'
  <2>1. CASE l \in left
    <3>1. l \in Nat \X Nat /\ l[1] \in 1..run.id /\ l[2] <= Epoch /\ l[2] \in Nat
      BY <2>1, StateTypes
    <3> QED
      BY <1>1, <1>4, <3>1
  <2>2. CASE l = <<r, Epoch>>
    <3>1. r \in Nat
      BY StateTypes
    <3> HIDE DEF Epoch
    <3> QED
      BY <1>1, <1>4, <2>2, <3>1
  <2> QED
    BY <2>1, <2>2
<1>9. RecordTypes'
  BY <1>1, <1>3, <1>8 DEF FoundationIInv, RecordTypes, Grown
<1> QED
  BY <1>1, <1>6, <1>7, <1>8, <1>9, StateTypes, InvariantFrom

\* The events a controller writes.
LEMMA ControllerEvents ==
  ASSUME FoundationIInv, NEW r \in 1..run.id, NEW type \in StepTypes, NEW n \in Nat
  PROVE  FoundationEvent(RealRun(r), type, "other", n, "-") \in FoundationEvents
<1>1. RealRun(r) \in {"gate", "run", "project"} \X Nat
  BY StateTypes DEF RealRun
<1>2. "other" \in StepRefs
  BY DEF StepRefs
<1> QED
  BY <1>1, <1>2 DEF FoundationEvent, FoundationEvents

\* What the controller records.
LEMMA ControllerPreserves == FoundationIInv /\ ControllerNext => FoundationIInv'
<1> SUFFICES ASSUME FoundationIInv, ControllerNext PROVE FoundationIInv'
  OBVIOUS
<1>0. Epoch \in Nat
  <2>1. IsFiniteSet(1..Len(log))
    BY StateTypes, FS_Interval
  <2>2. {i \in DOMAIN log : log[i].type = "KnowledgeDeltaPublished"} \subseteq 1..Len(log)
    BY StateTypes
  <2> QED
    BY <2>1, <2>2, FS_Subset, FS_CardinalityType DEF Epoch
<1>1. CASE ControllerStarts
  <2>1. check.at # "reading"
    BY <1>1 DEF ControllerStarts, FoundationIInv, CheckInv
  <2> QED
    BY <1>1, <2>1, StateTypes, QuietStep DEF ControllerStarts, RunVars
<1>2. CASE ControllerStops
  BY <1>2, StateTypes, QuietStep DEF ControllerStops, RunVars
<1>3. ASSUME NEW r \in FoundationRuns, PublishLeft(r) PROVE FoundationIInv'
  <2> DEFINE a == Plain(RealRun(r), "PromotionVerificationRecorded", "other")
             b == FoundationEvent(RealRun(r), "DeclarationPublished", "other", Epoch + 1, "-")
             c == FoundationEvent(RealRun(r), "KnowledgeDeltaPublished", "other", Epoch + 1, "-")
  <2>1. /\ owner = "controller" /\ <<r, Epoch>> \in left /\ left' = left \ {<<r, Epoch>>}
        /\ log' = log \o <<a, b, c>> /\ UNCHANGED <<RunVars, owner, run>>
    BY <1>3 DEF PublishLeft
  <2>2. r \in 1..run.id
    BY <2>1, StateTypes
  <2>3. {"PromotionVerificationRecorded", "DeclarationPublished", "KnowledgeDeltaPublished"} \subseteq StepTypes
        /\ 0 \in Nat /\ Epoch + 1 \in Nat
    BY <1>0 DEF StepTypes
  <2>4. a \in FoundationEvents /\ b \in FoundationEvents /\ c \in FoundationEvents
    BY <2>2, <2>3, ControllerEvents DEF Plain
  <2>5. \A e \in {a, b, c} : /\ e.run = RealRun(r) /\ e.type \in StepTypes /\ e.type # "AgentRunCompleted"
                             /\ e.n <= Epoch + 1
    <3>1. 0 <= Epoch + 1 /\ Epoch + 1 <= Epoch + 1
      BY <1>0
    <3> HIDE DEF Epoch
    <3> QED
      BY <2>3, <3>1 DEF Plain, FoundationEvent
  <2> HIDE DEF a, b, c
  <2>6. <<a, b, c>> \in Seq({a, b, c}) /\ {a, b, c} \in SUBSET FoundationEvents
    BY <2>4
  <2> QED
    BY <2>1, <2>2, <2>5, <2>6, ControllerWrites
<1>4. ASSUME NEW r \in FoundationRuns, NEW base, RebaseLeft(r, base) PROVE FoundationIInv'
  <2> DEFINE a == Plain(RealRun(r), "ContributionSubmitted", "other")
             b == Plain(RealRun(r), "ContributionRebased", "other")
  <2>1. /\ owner = "controller" /\ <<r, base>> \in left
        /\ left' = (left \ {<<r, base>>}) \cup {<<r, Epoch>>}
        /\ log' = log \o <<a, b>> /\ UNCHANGED <<RunVars, owner, run>>
    BY <1>4 DEF RebaseLeft
  <2>2. r \in 1..run.id
    BY <2>1, StateTypes
  <2>3. {"ContributionSubmitted", "ContributionRebased"} \subseteq StepTypes /\ 0 \in Nat
    BY DEF StepTypes
  <2>4. a \in FoundationEvents /\ b \in FoundationEvents
    BY <2>2, <2>3, ControllerEvents DEF Plain
  <2>5. \A e \in {a, b} : /\ e.run = RealRun(r) /\ e.type \in StepTypes /\ e.type # "AgentRunCompleted"
                          /\ e.n <= Epoch + 1
    <3>1. 0 <= Epoch + 1
      BY <1>0
    <3> HIDE DEF Epoch
    <3> QED
      BY <2>3, <3>1 DEF Plain, FoundationEvent
  <2> HIDE DEF a, b
  <2>6. <<a, b>> \in Seq({a, b}) /\ {a, b} \in SUBSET FoundationEvents
    BY <2>4
  <2> QED
    BY <2>1, <2>2, <2>5, <2>6, ControllerWrites
<1> QED
  BY <1>1, <1>2, <1>3, <1>4 DEF ControllerNext

\* A file of a run is changed by somebody else.
LEMMA AlterFilePreserves ==
  ASSUME FoundationIInv, NEW r \in FoundationRuns, NEW name \in FoundationNames, AlterFile(r, name)
  PROVE  FoundationIInv'
BY StateTypes, QuietStep DEF AlterFile

-----------------------------------------------------------------------------
\* The gate whose policy counts is the one that probed last, and it passed: only a gate that
\* passes records its completion.
LEMMA GateThatCounts ==
  ASSUME FoundationIInv, NEW n, NEW before \in 0..Len(log), GatePolicy(n, before) # {}
  PROVE  \E g \in DOMAIN gates, c \in 1..before :
           /\ gates[g] = "passed" /\ log[c].run = GateRun(g) /\ log[c].ref = Completion
           /\ \A i \in (c + 1)..before : log[i].type \notin ProbeTypes
           /\ GatePolicy(n, before) = {log[c].policy}
<1> DEFINE P == {i \in 1..before : log[i].type \in ProbeTypes}
           m == Maximum(P)
           g == LatestGate(before)
           Q(k) == ProbesOf(before, k)
           hashes == {log[i].policy : i \in Q(g)}
<1>1. /\ Len(log) \in Nat /\ before \in Nat
      /\ \A i \in 1..before : i \in DOMAIN log /\ WrittenBy(log[i])
  BY StateTypes DEF FoundationIInv, WritersInv
<1>2. \A i \in P : \E k \in DOMAIN gates : log[i].run = GateRun(k)
  <2> SUFFICES ASSUME NEW i \in P PROVE \E k \in DOMAIN gates : log[i].run = GateRun(k)
    OBVIOUS
  <2>1. WrittenBy(log[i]) /\ log[i].type \in FoundationAuditTypes
    BY <1>1 DEF FoundationAuditTypes
  <2> QED
    BY <2>1 DEF WrittenBy
<1>3. GatesOf(before) # {}
  BY DEF GatePolicy
<1>4. \A k \in GatesOf(before) : k \in DOMAIN gates /\ Q(k) \in SUBSET P /\ Q(k) # {}
  BY DEF GatesOf, ProbesOf
<1>5. P \in SUBSET (1..before) /\ P # {}
  BY <1>3, <1>4
<1>6. m \in P /\ \A i \in P : i <= m
  <2> HIDE DEF P
  <2> QED
    BY <1>1, <1>5, Extremes
<1>7. \A k \in GatesOf(before) : Maximum(Q(k)) \in Q(k) /\ \A i \in Q(k) : i <= Maximum(Q(k))
  <2> SUFFICES ASSUME NEW k \in GatesOf(before)
               PROVE  Maximum(Q(k)) \in Q(k) /\ \A i \in Q(k) : i <= Maximum(Q(k))
    OBVIOUS
  <2>1. Q(k) \in SUBSET (1..before) /\ Q(k) # {}
    BY <1>4
  <2> HIDE DEF Q
  <2> QED
    BY <1>1, <2>1, Extremes
<1>8. PICK h \in GatesOf(before) : m \in Q(h)
  <2>1. PICK h \in DOMAIN gates : log[m].run = GateRun(h)
    BY <1>2, <1>6
  <2>2. m \in 1..before /\ log[m].type \in ProbeTypes
    BY <1>6
  <2> HIDE DEF m
  <2> QED
    BY <2>1, <2>2 DEF GatesOf, ProbesOf
<1>9. \A k \in GatesOf(before) : Maximum(Q(k)) <= m
  BY <1>4, <1>6, <1>7
<1>10. Maximum(Q(h)) = m
  <2>1. m <= Maximum(Q(h)) /\ Maximum(Q(h)) <= m
    BY <1>7, <1>8, <1>9
  <2>2. m \in 1..before /\ Maximum(Q(h)) \in 1..before
    BY <1>4, <1>5, <1>6, <1>7, <1>8
  <2> HIDE DEF m, Q
  <2> QED
    BY <2>1, <2>2
<1>11. g \in GatesOf(before) /\ \A k \in GatesOf(before) : Maximum(Q(k)) <= Maximum(Q(g))
  <2>1. \E k \in GatesOf(before) : \A j \in GatesOf(before) : Maximum(Q(j)) <= Maximum(Q(k))
    BY <1>9, <1>10
  <2> QED
    BY <2>1, Zenon DEF LatestGate
<1>12. Maximum(Q(g)) = m
  <2>1. m <= Maximum(Q(g)) /\ Maximum(Q(g)) <= m
    BY <1>8, <1>9, <1>10, <1>11
  <2>2. m \in 1..before /\ Maximum(Q(g)) \in 1..before
    BY <1>4, <1>5, <1>6, <1>7, <1>11
  <2> HIDE DEF m, Q, g
  <2> QED
    BY <2>1, <2>2
<1>13. /\ log[m].ref = Completion /\ Cardinality(hashes) = 1
       /\ GatePolicy(n, before) = hashes
  <2> HIDE DEF m
  <2> QED
    BY <1>3, <1>12, Zenon DEF GatePolicy
<1>14. m \in Q(g) /\ g \in DOMAIN gates
  BY <1>4, <1>7, <1>11, <1>12
<1>15. m \in 1..before /\ log[m].run = GateRun(g) /\ log[m].type \in ProbeTypes
  <2> HIDE DEF m, g
  <2> QED
    BY <1>14 DEF ProbesOf
<1>16. gates[g] = "passed"
  <2>1. WrittenBy(log[m])
    BY <1>1, <1>15
  <2> HIDE DEF m, g
  <2> QED
    BY <1>13, <1>14, <1>15, <2>1 DEF WrittenBy
<1>17. hashes = {log[m].policy}
  <2>1. Q(g) \subseteq 1..before /\ IsFiniteSet(1..before)
    BY <1>1, <1>4, <1>11, FS_Interval
  <2>2. IsFiniteSet(Q(g))
    BY <2>1, FS_Subset
  <2> DEFINE f == [i \in Q(g) |-> log[i].policy]
  <2>3. IsFiniteSet(hashes)
    <3> HIDE DEF Q, g
    <3>1. f \in Surjection(Q(g), hashes)
      BY DEF Surjection
    <3> HIDE DEF f, hashes
    <3> QED
      BY <2>2, <3>1, FS_Surjection
  <2>4. log[m].policy \in hashes
    BY <1>14
  <2> HIDE DEF hashes, m
  <2>5. \E x : hashes = {x}
    BY <1>13, <2>3, FS_Singleton
  <2> QED
    BY <2>4, <2>5
<1>18. \A i \in (m + 1)..before : log[i].type \notin ProbeTypes
  <2> SUFFICES ASSUME NEW i \in (m + 1)..before, log[i].type \in ProbeTypes PROVE FALSE
    OBVIOUS
  <2>1. m \in Nat /\ i \in 1..before /\ ~(i <= m)
    BY <1>1, <1>15
  <2> QED
    BY <1>6, <2>1
<1> HIDE DEF m, g, hashes
<1> QED
  BY <1>13, <1>14, <1>15, <1>16, <1>17, <1>18

-----------------------------------------------------------------------------
\* The records of a checker.
CheckRecords ==
  [at : {"idle", "reading"}, asked : 0..MaxRuns, events : Nat, artifacts : Nat,
   run : 0..MaxRuns, verdict : {"none", "pass"}]

\* The checker writes nothing.
LEMMA CheckerReads ==
  ASSUME FoundationIInv, UNCHANGED CheckVars, check' \in CheckRecords,
         owner' = owner \/ {owner, owner'} \subseteq {"none", "checker"},
         CheckInv', AcceptedRunWasGated'
  PROVE  FoundationIInv'
<1>1. /\ log' = log /\ gate' = gate /\ gates' = gates /\ run' = run /\ left' = left /\ altered' = altered
      /\ Grown /\ NewEvents = {} /\ GatesGrow
  BY StateTypes, LogStays DEF CheckVars, GatesGrow
<1>2. WritersInv' /\ CreatedInv' /\ GateInv' /\ PassedInv'
  BY <1>1, StateTypes, WritersKept, CreatedKept, GateKept, PassedKept DEF FoundationIInv
<1>3. RecordTypes'
  BY <1>1 DEF FoundationIInv, RecordTypes, CheckRecords
<1>4. \A l \in left' : l[1] \in 1..run'.id /\ l[2] <= Epoch'
  BY <1>1, StateTypes, LeftKept
<1> QED
  BY <1>1, <1>2, <1>3, <1>4, StateTypes, InvariantFrom

\* No checker reads.
LEMMA NoCheckIs == NoCheck \in CheckRecords /\ NoCheck.at = "idle" /\ NoCheck.verdict = "none"
                     /\ NoCheck.events = 0
<1>1. 0 \in Nat /\ 0 \in 0..MaxRuns
  BY FoundationAssumption
<1> QED
  BY <1>1 DEF NoCheck, CheckRecords

\* check_foundation takes the state.
LEMMA CheckStartsPreserves ==
  ASSUME FoundationIInv, NEW wanted \in Asks, CheckStarts(wanted) PROVE FoundationIInv'
<1>1. /\ owner \in {"none", "controller"} /\ owner' = (IF owner = "none" THEN "checker" ELSE owner)
      /\ check' = [NoCheck EXCEPT !.at = "reading", !.asked = wanted] /\ UNCHANGED CheckVars
  BY DEF CheckStarts
<1>2. /\ check' \in CheckRecords /\ check'.at = "reading" /\ check'.verdict = "none" /\ check'.events = 0
  BY <1>1, NoCheckIs, FoundationAssumption DEF CheckRecords
<1>3. CheckInv'
  BY <1>1, <1>2, StateTypes DEF CheckInv, CheckVars
<1>4. AcceptedRunWasGated'
  BY <1>2 DEF AcceptedRunWasGated
<1> QED
  BY <1>1, <1>2, <1>3, <1>4, CheckerReads

\* The checker reads the events, and later the artifacts.
LEMMA ReadPreserves ==
  ASSUME FoundationIInv, ReadEvents \/ ReadArtifacts PROVE FoundationIInv'
<1>1. /\ check.at = "reading" /\ UNCHANGED <<CheckVars, owner>>
      /\ \/ check' = [check EXCEPT !.events = Len(log)]
         \/ check' = [check EXCEPT !.artifacts = Len(log)]
  BY DEF ReadEvents, ReadArtifacts
<1>2. check \in CheckRecords /\ CheckInv /\ Len(log) \in Nat
  BY StateTypes DEF FoundationIInv, RecordTypes, CheckRecords
<1>3. /\ check' \in CheckRecords /\ check'.at = "reading" /\ check'.verdict = check.verdict
      /\ check'.run = check.run /\ check'.events \in {check.events, Len(log)}
  BY <1>1, <1>2 DEF CheckRecords
<1>4. check'.verdict = "none"
  BY <1>1, <1>2, <1>3 DEF CheckInv
<1>5. CheckInv'
  <2>1. log' = log /\ run' = run /\ owner' = owner /\ Len(log) <= Len(log)
    BY <1>1, <1>2 DEF CheckVars
  <2>2. (Len(log) + 1)..Len(log) = {}
    BY <1>2
  <2> QED
    BY <1>1, <1>2, <1>3, <1>4, <2>1, <2>2 DEF CheckInv
<1>6. AcceptedRunWasGated'
  BY <1>4 DEF AcceptedRunWasGated
<1> QED
  BY <1>1, <1>3, <1>5, <1>6, CheckerReads

\* What is accepted was gated: no agent ran after the events were read.
LEMMA AcceptedIsGated ==
  ASSUME FoundationIInv, check.at = "reading",
         NEW r \in FoundationRuns, NEW i \in Of(check.events, RealRun(r), "RunCreated"),
         NEW m, Accepts(check.events, m, r)
  PROVE  /\ r \in 1..run.id
         /\ \E g \in DOMAIN gates, c \in DOMAIN log :
              /\ gates[g] = "passed"
              /\ log[c].run = GateRun(g) /\ log[c].ref = Completion
              /\ c < CreatedAt(r)
              /\ \A j \in Of(Len(log), RealRun(r), "AgentRunCompleted") : log[j].policy = log[c].policy
              /\ \A j \in (c + 1)..CreatedAt(r) : log[j].type \notin ProbeTypes
<1> DEFINE n == check.events
           S == Of(n, RealRun(r), "RunCreated")
           T == Of(Len(log), RealRun(r), "RunCreated")
           before == Minimum(S) - 1
           hashes == GatePolicy(n, before)
<1>1. /\ n \in Nat /\ Len(log) \in Nat /\ n <= Len(log) /\ i \in 1..n /\ n > 0 /\ DOMAIN log = 1..Len(log)
      /\ \A j \in (n + 1)..Len(log) : log[j].type # "AgentRunCompleted"
  <2>1. i \in 1..n /\ n \in Nat /\ n <= Len(log)
    BY StateTypes DEF Of, FoundationIInv, CheckInv
  <2>2. n > 0
    BY <2>1
  <2> QED
    BY <2>1, <2>2, StateTypes DEF FoundationIInv, CheckInv
<1>2. r \in 1..run.id
  <2>1. /\ i \in DOMAIN log /\ log[i].run = RealRun(r) /\ log[i].type = "RunCreated"
    BY <1>1 DEF Of
  <2>2. WrittenBy(log[i])
    BY <2>1 DEF FoundationIInv, WritersInv
  <2>3. \E q \in 1..run.id : RealRun(r) = RealRun(q)
    BY <2>1, <2>2, NamesDiffer, Zenon DEF WrittenBy
  <2> QED
    BY <2>3, NamesDiffer, Zenon
<1>3. /\ S \in SUBSET (1..n) /\ S \subseteq T /\ S # {} /\ T \in SUBSET (1..Len(log)) /\ T # {}
      /\ \A j \in T : j <= n => j \in S
  <2>1. 1..n \subseteq 1..Len(log)
    BY <1>1
  <2> QED
    BY <1>1, <2>1 DEF Of
<1> HIDE DEF S, T
<1>4. Minimum(S) \in S /\ \A j \in S : Minimum(S) <= j
  BY <1>1, <1>3, Extremes
<1>5. Minimum(T) \in T /\ \A j \in T : Minimum(T) <= j
  BY <1>1, <1>3, Extremes
<1>6. Minimum(T) = Minimum(S)
  <2>1. Minimum(S) \in 1..n /\ Minimum(T) \in 1..Len(log) /\ Minimum(T) <= Minimum(S)
    BY <1>3, <1>4, <1>5
  <2>2. Minimum(T) \in S
    BY <1>1, <1>3, <1>5, <2>1
  <2> QED
    BY <1>1, <1>4, <2>1, <2>2
<1>7. CreatedAt(r) = Minimum(S) /\ before \in 0..Len(log) /\ before + 1 = Minimum(S)
      /\ Minimum(S) \in 1..Len(log) /\ log[Minimum(S)].type = "RunCreated"
  <2>1. CreatedAt(r) = Minimum(T)
    BY DEF CreatedAt, T
  <2>2. Minimum(S) \in 1..Len(log)
    BY <1>3, <1>4
  <2>3. log[Minimum(S)].type = "RunCreated"
    BY <1>4, Zenon DEF S, Of
  <2> QED
    BY <1>1, <1>6, <2>1, <2>2, <2>3
<1>8. hashes # {} /\ CompletionPolicy(n, r, hashes)
  BY Zenon DEF Accepts, S
<1> HIDE DEF before
<1>9. PICK g \in DOMAIN gates, c \in 1..before :
        /\ gates[g] = "passed" /\ log[c].run = GateRun(g) /\ log[c].ref = Completion
        /\ \A j \in (c + 1)..before : log[j].type \notin ProbeTypes
        /\ hashes = {log[c].policy}
  BY <1>7, <1>8, GateThatCounts
<1>10. c \in DOMAIN log /\ c < CreatedAt(r)
  BY <1>1, <1>7
<1>11. ASSUME NEW j \in Of(Len(log), RealRun(r), "AgentRunCompleted") PROVE log[j].policy = log[c].policy
  <2>1. j \in 1..Len(log) /\ log[j].type = "AgentRunCompleted" /\ log[j].run = RealRun(r)
    BY DEF Of
  <2>2. j \in 1..n
    BY <1>1, <2>1
  <2>3. j \in Of(n, RealRun(r), "AgentRunCompleted")
    BY <2>1, <2>2 DEF Of
  <2>4. log[j].policy \in hashes
    BY <1>8, <2>3 DEF CompletionPolicy
  <2> QED
    BY <1>9, <2>4
<1>12. ASSUME NEW j \in (c + 1)..CreatedAt(r) PROVE log[j].type \notin ProbeTypes
  <2>1. j \in (c + 1)..before \/ j = Minimum(S)
    BY <1>7
  <2>2. "RunCreated" \notin ProbeTypes
    BY DEF ProbeTypes
  <2> QED
    BY <1>7, <1>9, <2>1, <2>2
<1> QED
  BY <1>2, <1>9, <1>10, <1>11, <1>12

\* The checker decides and leaves.
LEMMA CheckEndsPreserves ==
  ASSUME FoundationIInv, CheckEnds PROVE FoundationIInv'
<1> DEFINE passing == {r \in Selection(check.events, check.asked) :
                         Accepts(check.events, check.artifacts, r)}
           chosen == CHOOSE r \in passing : TRUE
<1>1. /\ check.at = "reading" /\ UNCHANGED CheckVars
      /\ owner' = (IF owner = "checker" THEN "none" ELSE owner)
      /\ check' = IF passing = {} THEN NoCheck
                  ELSE [NoCheck EXCEPT !.verdict = "pass", !.run = chosen]
  BY DEF CheckEnds
<1>2. CASE passing = {}
  <2>1. check' = NoCheck
    BY <1>1, <1>2
  <2>2. CheckInv' /\ AcceptedRunWasGated'
    BY <2>1, NoCheckIs DEF CheckInv, AcceptedRunWasGated
  <2> QED
    BY <1>1, <2>1, <2>2, NoCheckIs, CheckerReads
<1>3. CASE passing # {}
  <2>1. PICK r : r = chosen
    OBVIOUS
  <2>2. check' = [NoCheck EXCEPT !.verdict = "pass", !.run = r]
    BY <1>1, <1>3, <2>1
  <2>3. /\ r \in FoundationRuns /\ Accepts(check.events, check.artifacts, r)
        /\ \E i \in Of(check.events, RealRun(r), "RunCreated") : TRUE
    <3>1. r \in passing
      BY <1>3, <2>1
    <3> QED
      BY <3>1 DEF Selection, FoundationCandidates
  <2> HIDE DEF passing
  <2>4. /\ r \in 1..run.id
        /\ \E g \in DOMAIN gates, c \in DOMAIN log :
              /\ gates[g] = "passed"
              /\ log[c].run = GateRun(g) /\ log[c].ref = Completion
              /\ c < CreatedAt(r)
              /\ \A j \in Of(Len(log), RealRun(r), "AgentRunCompleted") : log[j].policy = log[c].policy
              /\ \A j \in (c + 1)..CreatedAt(r) : log[j].type \notin ProbeTypes
    BY <1>1, <2>3, AcceptedIsGated
  <2>5. check' \in CheckRecords /\ check'.at = "idle" /\ check'.verdict = "pass" /\ check'.run = r
    <3>1. r \in 0..MaxRuns
      BY <2>4, StateTypes
    <3> QED
      BY <2>2, <3>1, NoCheckIs DEF CheckRecords
  <2>6. log' = log /\ gates' = gates /\ run' = run
    BY <1>1 DEF CheckVars
  <2>7. CheckInv'
    <3>1. run.at # "running"
      BY <1>1, StateTypes DEF FoundationIInv, CheckInv
    <3> QED
      BY <2>4, <2>5, <2>6, <3>1 DEF CheckInv
  <2>8. AcceptedRunWasGated'
    <3>1. /\ CreatedAt(r)' = CreatedAt(r)
          /\ Of(Len(log), RealRun(r), "AgentRunCompleted")' = Of(Len(log), RealRun(r), "AgentRunCompleted")
      BY <2>6 DEF CreatedAt, Of, Minimum
    <3> QED
      BY <2>4, <2>5, <2>6, <3>1 DEF AcceptedRunWasGated
  <2> QED
    BY <1>1, <2>5, <2>7, <2>8, CheckerReads
<1> QED
  BY <1>2, <1>3

-----------------------------------------------------------------------------
\* The invariant holds before anything is recorded.
LEMMA InitFoundationIInv == FoundationInit => FoundationIInv
<1> SUFFICES ASSUME FoundationInit PROVE FoundationIInv
  OBVIOUS
<1>1. /\ log = <<>> /\ owner = "none" /\ gate = NoGate /\ gates = <<>> /\ run = FoundationNoRun
      /\ left = {} /\ altered = {} /\ check = NoCheck
  BY DEF FoundationInit
<1>2. /\ log \in Seq(FoundationEvents) /\ gates \in Seq({"open", "passed", "failed"})
      /\ DOMAIN log = {} /\ DOMAIN gates = {} /\ Len(log) = 0
  BY <1>1
<1>3. 0 \in Nat /\ 0 \in 0..MaxRuns
  BY FoundationAssumption
<1>4. /\ run \in [at : {"idle", "running"}, id : 0..MaxRuns, backend : {"-"} \cup Backends, step : Nat]
      /\ run.at = "idle" /\ run.id = 0
  BY <1>1, <1>3 DEF FoundationNoRun
<1>5. RecordTypes
  BY <1>1, <1>2, <1>4, NoGateIs, NoCheckIs DEF RecordTypes, GateRecords, CheckRecords
<1>6. FoundationTypeOK
  <2>1. check.verdict \in {"none", "pass"} /\ check.run \in 0..MaxRuns
    BY <1>1, NoCheckIs DEF CheckRecords
  <2>2. {log[i].n : i \in DOMAIN log} \subseteq 0..(Epoch + 1)
    BY <1>2
  <2> QED
    BY <1>1, <1>2, <1>4, <2>1, <2>2, NoGateIs DEF FoundationTypeOK
<1>7. WritersInv /\ PassedInv
  BY <1>2 DEF WritersInv, PassedInv
<1>8. CreatedInv
  BY <1>4 DEF CreatedInv
<1>9. GateInv
  BY <1>1, NoGateIs DEF GateInv
<1>10. CheckInv /\ AcceptedRunWasGated
  BY <1>1, NoCheckIs DEF CheckInv, AcceptedRunWasGated
<1> QED
  BY <1>5, <1>6, <1>7, <1>8, <1>9, <1>10 DEF FoundationIInv

\* It survives a step of somebody else.
LEMMA UnchangedPreserves == FoundationIInv /\ UNCHANGED foundationVars => FoundationIInv'
<1> SUFFICES ASSUME FoundationIInv, UNCHANGED foundationVars PROVE FoundationIInv'
  OBVIOUS
<1> QED
  BY StateTypes, QuietStep DEF foundationVars

\* It survives every step of gates, runs, controllers and checkers.
LEMMA NextFoundationIInv == FoundationIInv /\ [FoundationNext]_foundationVars => FoundationIInv'
<1> SUFFICES ASSUME FoundationIInv, [FoundationNext]_foundationVars PROVE FoundationIInv'
  OBVIOUS
<1>1. CASE GateNext
  BY <1>1, GatePreserves
<1>2. CASE RunNext
  BY <1>2, RunPreserves
<1>3. CASE ControllerNext
  BY <1>3, ControllerPreserves
<1>4. CASE CheckNext
  <2>1. ASSUME NEW wanted \in Asks, CheckStarts(wanted) PROVE FoundationIInv'
    BY <2>1, CheckStartsPreserves
  <2>2. CASE ReadEvents \/ ReadArtifacts
    BY <2>2, ReadPreserves
  <2>3. CASE CheckEnds
    BY <2>3, CheckEndsPreserves
  <2> QED
    BY <1>4, <2>1, <2>2, <2>3 DEF CheckNext
<1>5. ASSUME NEW r \in FoundationRuns, NEW name \in FoundationNames, AlterFile(r, name) PROVE FoundationIInv'
  BY <1>5, AlterFilePreserves
<1>6. CASE UNCHANGED foundationVars
  BY <1>6, UnchangedPreserves
<1> QED
  BY <1>1, <1>2, <1>3, <1>4, <1>5, <1>6 DEF FoundationNext

\* The inductive invariant of the gate, the runs and the checker
\* (run_security_gate, aizim run, check_foundation).
THEOREM FoundationInvariant == FoundationSpec => []FoundationIInv
<1> QED
  BY InitFoundationIInv, NextFoundationIInv, PTL DEF FoundationSpec

-----------------------------------------------------------------------------
\* Between the first and the last probe of a gate that passed, the log is its own.
LEMMA PassIsUndisturbed == FoundationIInv => GatePassIsUndisturbed
<1> SUFFICES ASSUME FoundationIInv, NEW g \in DOMAIN gates, gates[g] = "passed",
                    NEW i \in Minimum(ProbesOf(Len(log), g))..Maximum(ProbesOf(Len(log), g))
             PROVE  log[i].run = GateRun(g)
  BY DEF GatePassIsUndisturbed
<1> DEFINE P == ProbesOf(Len(log), g)
<1>1. /\ P # {} /\ \A p, q \in P : \A j \in p..q : log[j].run = GateRun(g)
  BY DEF FoundationIInv, PassedInv
<1>2. P \in SUBSET (1..Len(log)) /\ Len(log) \in Nat
  BY StateTypes DEF ProbesOf
<1> HIDE DEF P
<1>3. Minimum(P) \in P /\ Maximum(P) \in P
  BY <1>1, <1>2, Extremes
<1>4. i \in Minimum(P)..Maximum(P)
  BY DEF P
<1> QED
  BY <1>1, <1>3, <1>4

\* A verdict looks at the events of the run and at what precedes its creation.
LEMMA SameEventsSameVerdict ==
  ASSUME NEW r, NEW a, NEW b,
         \A type : Of(a, RealRun(r), type) = Of(b, RealRun(r), type),
         {i \in 1..a : log[i].run = RealRun(r)} = {i \in 1..b : log[i].run = RealRun(r)}
  PROVE  Accepts(a, a, r) <=> Accepts(b, b, r)
<1> DEFINE before(n) == Minimum(Of(n, RealRun(r), "RunCreated")) - 1
           hashes(n) == GatePolicy(n, before(n))
<1>1. before(a) = before(b) /\ hashes(a) = hashes(b)
  <2>1. before(a) = before(b)
    <3>1. Of(a, RealRun(r), "RunCreated") = Of(b, RealRun(r), "RunCreated")
      OBVIOUS
    <3> QED
      BY <3>1
  <2>2. \A x : GatePolicy(a, x) = GatePolicy(b, x)
    BY Zenon DEF GatePolicy
  <2> HIDE DEF before
  <2> QED
    BY <2>1, <2>2
<1>2. ArtifactSet(a, r) <=> ArtifactSet(b, r)
  BY DEF ArtifactSet
<1>3. ManifestHolds(a, r) <=> ManifestHolds(b, r)
  BY DEF ManifestHolds
<1>4. \A h : CompletionPolicy(a, r, h) <=> CompletionPolicy(b, r, h)
  BY DEF CompletionPolicy
<1>5. WorkersHold(a, r) <=> WorkersHold(b, r)
  BY DEF WorkersHold
<1>6. PublicationsHold(a, r) <=> PublicationsHold(b, r)
  BY DEF PublicationsHold
<1>7. EpochsHold(a, r) <=> EpochsHold(b, r)
  BY DEF EpochsHold
<1>8. Acknowledgement(a, r) <=> Acknowledgement(b, r)
  BY DEF Acknowledgement
<1>9. FailureFree(a, r) <=> FailureFree(b, r)
  BY DEF FailureFree, ShutdownHolds
<1>10. AlignmentHolds(a, r) <=> AlignmentHolds(b, r)
  BY DEF AlignmentHolds
<1>11. TraceComplete(a, r) <=> TraceComplete(b, r)
  <2>1. \A m : {i \in 1..a : log[i].run = RealRun(r) /\ i > m} = {i \in 1..b : log[i].run = RealRun(r) /\ i > m}
    OBVIOUS
  <2> QED
    BY <2>1 DEF TraceComplete
<1> HIDE DEF before
<1>12. DurableStart(before(a), r) <=> DurableStart(before(b), r)
  BY <1>1
<1> HIDE DEF hashes
<1>13. CompletionPolicy(a, r, hashes(a)) <=> CompletionPolicy(b, r, hashes(b))
  BY <1>1, <1>4
<1>14. \A n : Accepts(n, n, r) <=>
         /\ ArtifactSet(n, r) /\ FilesMatch(r)
         /\ ManifestHolds(n, r) /\ hashes(n) # {}
         /\ CompletionPolicy(n, r, hashes(n))
         /\ WorkersHold(n, r) /\ PublicationsHold(n, r)
         /\ DurableStart(before(n), r) /\ EpochsHold(n, r) /\ Acknowledgement(n, r)
         /\ FailureFree(n, r) /\ AlignmentHolds(n, r)
         /\ TraceComplete(n, r)
  BY DEF Accepts, before, hashes
<1> QED
  BY <1>1, <1>2, <1>3, <1>5, <1>6, <1>7, <1>8, <1>9, <1>10, <1>11, <1>12, <1>13, <1>14

\* What is recorded after the last event of a run does not change the verdict on it.
LEMMA VerdictStays == FoundationIInv => VerdictIsStable
<1> SUFFICES ASSUME FoundationIInv, NEW r \in 1..run.id
             PROVE  LET last == Maximum({i \in DOMAIN log : log[i].run = RealRun(r)})
                    IN  Accepts(last, last, r) <=> Accepts(Len(log), Len(log), r)
  BY DEF VerdictIsStable
<1> DEFINE S == {i \in DOMAIN log : log[i].run = RealRun(r)}
           last == Maximum(S)
<1>1. Len(log) \in Nat /\ DOMAIN log = 1..Len(log) /\ S \in SUBSET (1..Len(log))
  BY StateTypes
<1>2. S # {}
  <2>1. Of(Len(log), RealRun(r), "RunCreated") # {}
    BY DEF FoundationIInv, CreatedInv
  <2> QED
    BY <1>1, <2>1 DEF Of
<1>3. last \in S /\ \A i \in S : i <= last
  <2> HIDE DEF S
  <2> QED
    BY <1>1, <1>2, Extremes
<1>4. last \in 1..Len(log) /\ \A i \in 1..Len(log) : log[i].run = RealRun(r) => i \in 1..last
  <2>1. last \in 1..Len(log)
    BY <1>1, <1>3
  <2>2. ASSUME NEW i \in 1..Len(log), log[i].run = RealRun(r) PROVE i \in 1..last
    <3>1. i \in S
      BY <1>1, <2>2
    <3>2. i <= last
      BY <1>3, <3>1
    <3> HIDE DEF last
    <3> QED
      BY <2>1, <3>2
  <2> QED
    BY <2>1, <2>2
<1> HIDE DEF last
<1>5. 1..last \subseteq 1..Len(log)
  BY <1>1, <1>4
<1>6. \A type : Of(last, RealRun(r), type) = Of(Len(log), RealRun(r), type)
  BY <1>4, <1>5 DEF Of
<1>7. {i \in 1..last : log[i].run = RealRun(r)} = {i \in 1..Len(log) : log[i].run = RealRun(r)}
  BY <1>4, <1>5
<1> QED
  BY <1>6, <1>7, SameEventsSameVerdict DEF last

\* The verdict of the acceptance checker rests on a gate that passed and had the state to
\* itself, and does not change with what is recorded later (verify_foundation, gate_policy,
\* run_security_gate).
THEOREM VerdictsRestOnGate == FoundationSpec => []VerdictRestsOnGate
<1>1. FoundationIInv => VerdictRestsOnGate
  BY PassIsUndisturbed, VerdictStays DEF FoundationIInv, VerdictRestsOnGate
<1> QED
  BY <1>1, FoundationInvariant, PTL

-----------------------------------------------------------------------------
\* The concatenations of the first sequences, up to the n-th.
IsFlattened(ss, n, f) ==
  f = [i \in 1..n |-> IF i = 1 THEN ss[i] ELSE f[i - 1] \o ss[i]]

Flattened(ss) == CHOOSE f : IsFlattened(ss, Len(ss), f)

\* What is concatenated so far can be followed by one more sequence.
LEMMA FlattenedGoesOn ==
  ASSUME NEW ss, NEW n \in Nat, NEW h, IsFlattened(ss, n, h)
  PROVE  \E g : IsFlattened(ss, n + 1, g)
<1> DEFINE Last1 == IF n + 1 = 1 THEN ss[n + 1] ELSE h[n] \o ss[n + 1]
           g == [i \in 1..(n + 1) |-> IF i <= n THEN h[i] ELSE Last1]
<1>1. \A i \in 1..n : h[i] = IF i = 1 THEN ss[i] ELSE h[i - 1] \o ss[i]
  BY DEF IsFlattened
<1> HIDE DEF Last1
<1>2. (\A i \in 1..n : g[i] = h[i]) /\ g[n + 1] = Last1
  OBVIOUS
<1>3. ASSUME NEW i \in 1..(n + 1)
      PROVE  g[i] = IF i = 1 THEN ss[i] ELSE g[i - 1] \o ss[i]
  <2> HIDE DEF g
  <2>1. CASE i \in 1..n /\ i = 1
    BY <1>1, <1>2, <2>1
  <2>2. CASE i \in 1..n /\ i # 1
    <3>1. i - 1 \in 1..n
      BY <2>2
    <3> QED
      BY <1>1, <1>2, <2>2, <3>1
  <2>3. CASE i = n + 1 /\ n = 0
    BY <1>2, <2>3 DEF Last1
  <2>4. CASE i = n + 1 /\ n # 0
    <3>1. i - 1 = n /\ n \in 1..n /\ i # 1 /\ n + 1 # 1
      BY <2>4
    <3> QED
      BY <1>2, <2>4, <3>1 DEF Last1
  <2> QED
    BY <2>1, <2>2, <2>3, <2>4
<1>4. IsFlattened(ss, n + 1, g)
  BY <1>3 DEF IsFlattened
<1> QED
  BY <1>4

\* The concatenations are a function over the sequences.
LEMMA FlattenedExists ==
  ASSUME NEW ss, Len(ss) \in Nat
  PROVE  IsFlattened(ss, Len(ss), Flattened(ss))
<1> DEFINE T == {n \in Nat : ~\E f : IsFlattened(ss, n, f)}
<1>1. T = {}
  <2> SUFFICES ASSUME T # {} PROVE FALSE
    OBVIOUS
  <2>1. PICK m \in T : \A k \in T : m <= k
    <3> T \in SUBSET Nat
      OBVIOUS
    <3> HIDE DEF T
    <3> QED
      BY LeastNumber, Zenon
  <2>2. m # 0
    <3>1. IsFlattened(ss, 0, [i \in 1..0 |-> ss])
      BY DEF IsFlattened
    <3> QED
      BY <3>1
  <2>3. PICK n \in Nat : m = n + 1 /\ n \notin T
    <3>1. m - 1 \in Nat /\ m = (m - 1) + 1 /\ ~(m <= m - 1)
      BY <2>2
    <3> QED
      BY <2>1, <3>1
  <2>4. PICK h : IsFlattened(ss, n, h)
    BY <2>3
  <2>5. \E g : IsFlattened(ss, n + 1, g)
    BY <2>4, FlattenedGoesOn
  <2> QED
    BY <2>3, <2>5
<1>2. \E f : IsFlattened(ss, Len(ss), f)
  BY <1>1
<1> QED
  BY <1>2, Zenon DEF Flattened

\* A flattened sequence has no elements but those of its parts.
LEMMA FlattenedType ==
  ASSUME NEW T, NEW ss \in Seq(Seq(T))
  PROVE  FlattenSeq(ss) \in Seq(T)
<1> DEFINE f == Flattened(ss)
           bad == {i \in 1..Len(ss) : f[i] \notin Seq(T)}
<1>1. Len(ss) \in Nat /\ \A i \in 1..Len(ss) : ss[i] \in Seq(T)
  BY LenProperties, ElementOfSeq
<1>2. \A i \in 1..Len(ss) : f[i] = IF i = 1 THEN ss[i] ELSE f[i - 1] \o ss[i]
  <2>1. IsFlattened(ss, Len(ss), f)
    BY <1>1, FlattenedExists
  <2> HIDE DEF f
  <2> QED
    BY <2>1 DEF IsFlattened
<1> HIDE DEF f
<1>3. bad = {}
  <2> SUFFICES ASSUME bad # {} PROVE FALSE
    OBVIOUS
  <2>1. PICK m \in bad : \A k \in bad : m <= k
    <3> bad \in SUBSET Nat
      OBVIOUS
    <3> HIDE DEF bad
    <3> QED
      BY LeastNumber, Zenon
  <2>2. m \in 1..Len(ss) /\ f[m] \notin Seq(T)
    OBVIOUS
  <2>3. m # 1
    BY <1>1, <1>2, <2>2
  <2>4. m - 1 \in 1..Len(ss) /\ ~(m <= m - 1)
    BY <1>1, <2>2, <2>3
  <2>5. f[m - 1] \in Seq(T)
    BY <2>1, <2>4
  <2>6. f[m - 1] \o ss[m] \in Seq(T)
    BY <1>1, <2>2, <2>5, ConcatProperties
  <2> QED
    BY <1>2, <2>2, <2>3, <2>6
<1>4. CASE Len(ss) = 0
  <2>1. ss = <<>> /\ FlattenSeq(ss) = ss
    BY <1>4, EmptySeq DEF FlattenSeq
  <2>2. <<>> \in Seq(T)
    OBVIOUS
  <2> QED
    BY <2>1, <2>2, Zenon
<1>5. CASE Len(ss) # 0
  <2>1. FlattenSeq(ss) = f[Len(ss)]
    BY <1>5 DEF FlattenSeq, Flattened, IsFlattened, f
  <2>2. Len(ss) \in 1..Len(ss)
    BY <1>1, <1>5
  <2> QED
    BY <1>3, <2>1, <2>2
<1> QED
  BY <1>4, <1>5

\* Sorted numbers are the numbers there are.
LEMMA SortedType ==
  ASSUME log \in Seq(FoundationEvents), NEW S
  PROVE  Sorted(S) \in Seq(S)
<1> DEFINE ss == [i \in DOMAIN log |-> IF i \in S THEN <<i>> ELSE <<>>]
<1>1. Len(log) \in Nat /\ DOMAIN log = 1..Len(log)
  BY LenProperties
<1>2. \A i \in 1..Len(log) : (IF i \in S THEN <<i>> ELSE <<>>) \in Seq(S)
  OBVIOUS
<1>3. ss \in [1..Len(log) -> Seq(S)]
  BY <1>1, <1>2
<1> HIDE DEF ss
<1>4. ss \in Seq(Seq(S))
  BY <1>1, <1>3, SeqDef
<1>5. FlattenSeq(ss) \in Seq(S)
  BY <1>4, FlattenedType
<1> QED
  BY <1>5 DEF Sorted, ss

\* The records a trace may have: an event of the run and one of its kinds.
RecordsFor(i) ==
  {[sequence |-> i, kind |-> FoundationKinds(log[i])[k]] : k \in DOMAIN FoundationKinds(log[i])}
RecordsOf(n, id) == UNION {RecordsFor(i) : i \in {i \in 1..n : log[i].run = id}}

\* A record of a trace stands for an event of its run and is of a kind of that event.
LEMMA TraceRecords ==
  ASSUME log \in Seq(FoundationEvents), NEW n \in 0..Len(log), NEW id
  PROVE  TraceOf(n, id) \in Seq(RecordsOf(n, id))
<1> DEFINE S == {i \in 1..n : log[i].run = id}
           T == RecordsOf(n, id)
           sources == Sorted(S)
           Part(i) == [k \in DOMAIN FoundationKinds(log[i]) |->
                         [sequence |-> i, kind |-> FoundationKinds(log[i])[k]]]
           records == [j \in DOMAIN sources |-> Part(sources[j])]
<1>1. sources \in Seq(S)
  BY SortedType
<1>2. ASSUME NEW i \in S PROVE Part(i) \in Seq(T)
  <2> DEFINE kinds == FoundationKinds(log[i])
  <2>1. PICK m \in 1..4 : DOMAIN kinds = 1..m
    BY DEF FoundationKinds
  <2> HIDE DEF kinds
  <2>2. \A k \in 1..m : [sequence |-> i, kind |-> kinds[k]] \in T
    <3>1. i \in {j \in 1..n : log[j].run = id} /\ DOMAIN FoundationKinds(log[i]) = 1..m
      BY <2>1 DEF kinds
    <3>2. \A k \in 1..m : [sequence |-> i, kind |-> kinds[k]] \in RecordsFor(i)
      BY <3>1 DEF kinds, RecordsFor
    <3> QED
      BY <3>1, <3>2 DEF RecordsOf
  <2> HIDE DEF T
  <2>3. [k \in 1..m |-> [sequence |-> i, kind |-> kinds[k]]] \in Seq(T)
    BY <2>1, <2>2, SeqDef
  <2> QED
    BY <2>1, <2>3 DEF kinds
<1> HIDE DEF S, T, sources, Part
<1>3. Len(sources) \in Nat /\ DOMAIN sources = 1..Len(sources) /\ \A j \in 1..Len(sources) : sources[j] \in S
  BY <1>1, LenProperties, ElementOfSeq
<1>4. records \in [1..Len(sources) -> Seq(T)]
  BY <1>2, <1>3
<1> HIDE DEF records
<1>5. records \in Seq(Seq(T))
  BY <1>3, <1>4, SeqDef
<1>6. FlattenSeq(records) \in Seq(T)
  BY <1>5, FlattenedType
<1>7. TraceOf(n, id) = FlattenSeq(records)
  BY DEF TraceOf, records, Part, sources, S
<1> QED
  BY <1>6, <1>7 DEF T

\* Only completion and abort are terminal.
LEMMA TerminalKinds ==
  ASSUME NEW e \in FoundationEvents, NEW k \in DOMAIN FoundationKinds(e), FoundationKinds(e)[k] = "terminal"
  PROVE  e.type \in {"RunCompleted", "RunAborted"}
<1>1. e.ref # "terminal"
  <2>1. e.ref \in GateRefs \cup StepRefs \cup Backends
    BY DEF FoundationEvents
  <2>2. "terminal" \notin DeniedOps \cup AllowedOps /\ Backends \subseteq {"codex", "unpinned", "fake"}
    BY FoundationAssumption
  <2> QED
    BY <2>1, <2>2 DEF GateRefs, StepRefs, Completion
<1> QED
  BY <1>1 DEF FoundationKinds

\* Only the end of a check gives a verdict.
LEMMA VerdictsAreGiven ==
  ASSUME FoundationIInv, [FoundationNext]_foundationVars, check.at = "reading", check'.verdict = "pass"
  PROVE  CheckEnds
<1>0. check.verdict = "none"
  BY DEF FoundationIInv, CheckInv
<1>1. CASE GateNext
  <2>1. check' = check
    BY <1>1 DEF GateNext, GateStarts, GateCompiles, ProbeRaises, Attempt, GateLiveEnds, GateReplays, GateDies,
       GateVars
  <2> QED
    BY <1>0, <2>1
<1>2. CASE RunNext
  <2>1. check' = check
    BY <1>2 DEF RunNext, CreateRun, RunStep, SubmitsTwice, Audit, AuditFails, Seal, WriteTrace, WriteReport,
       RunFails, RunDies, RunVars
  <2> QED
    BY <1>0, <2>1
<1>3. CASE ControllerNext
  <2>1. check' = check
    BY <1>3 DEF ControllerNext, ControllerStarts, ControllerStops, PublishLeft, RebaseLeft, RunVars
  <2> QED
    BY <1>0, <2>1
<1>4. ASSUME NEW r \in FoundationRuns, NEW name \in FoundationNames, AlterFile(r, name) PROVE FALSE
  <2>1. check' = check
    BY <1>4 DEF AlterFile
  <2> QED
    BY <1>0, <2>1
<1>5. ASSUME NEW wanted \in Asks, CheckStarts(wanted) PROVE FALSE
  BY <1>5 DEF CheckStarts
<1>6. CASE ReadEvents \/ ReadArtifacts
  <2>1. check \in CheckRecords
    BY DEF FoundationIInv, RecordTypes, CheckRecords
  <2>2. check'.verdict = check.verdict
    BY <1>6, <2>1 DEF ReadEvents, ReadArtifacts, CheckRecords
  <2> QED
    BY <1>0, <2>2
<1>7. CASE UNCHANGED foundationVars
  BY <1>0, <1>7 DEF foundationVars
<1> QED
  BY <1>1, <1>2, <1>3, <1>4, <1>5, <1>6, <1>7 DEF FoundationNext, CheckNext

\* What is accepted shows a completion, no abort and the files that were registered.
LEMMA AcceptedIsGenuine ==
  ASSUME FoundationIInv, NEW n \in 0..Len(log), NEW m, NEW r, Accepts(n, m, r)
  PROVE  /\ {log[trace[r][k].sequence].type : k \in {k \in DOMAIN trace[r] : trace[r][k].kind = "terminal"}}
              = {"RunCompleted"}
         /\ \A name \in FoundationNames : <<r, name>> \notin altered
<1> DEFINE seals == Of(n, RealRun(r), "FormalTraceSealed")
           last == Maximum(seals)
           t == trace[r]
<1>1. /\ \A name \in FoundationNames : <<r, name>> \notin altered
      /\ Of(n, RealRun(r), "RunAborted") = {}
      /\ t = TraceOf(last, RealRun(r))
      /\ TraceKinds \subseteq {t[k].kind : k \in DOMAIN t}
  BY DEF Accepts, FilesMatch, FailureFree, FailureTypes, TraceComplete
<1>0. Cardinality(seals) = 1
  BY DEF Accepts, TraceComplete
<1>2. log \in Seq(FoundationEvents) /\ Len(log) \in Nat /\ DOMAIN log = 1..Len(log)
  BY StateTypes
<1>3. last \in 1..n
  <2>1. seals \in SUBSET (1..n) /\ n \in Nat
    BY <1>2 DEF Of
  <2> HIDE DEF seals
  <2>2. seals # {}
    <3>1. IsFiniteSet(1..n)
      BY <2>1, FS_Interval
    <3>2. IsFiniteSet(seals)
      BY <2>1, <3>1, FS_Subset
    <3>3. 1 # 0
      OBVIOUS
    <3> QED
      BY <1>0, <3>2, <3>3, FS_EmptySet, Zenon
  <2>3. Maximum(seals) \in seals
    BY <2>1, <2>2, Extremes, Zenon
  <2> QED
    BY <2>1, <2>3
<1>4. last \in 0..Len(log) /\ \A i \in 1..last : i \in 1..n /\ i \in 1..Len(log)
  BY <1>2, <1>3
<1> HIDE DEF seals, last, t
<1>5. ASSUME NEW k \in DOMAIN t, t[k].kind = "terminal"
      PROVE  log[t[k].sequence].type = "RunCompleted"
  <2>1. /\ t[k].sequence \in 1..last /\ log[t[k].sequence].run = RealRun(r)
        /\ \E j \in DOMAIN FoundationKinds(log[t[k].sequence]) :
             t[k].kind = FoundationKinds(log[t[k].sequence])[j]
    <3>1. t \in Seq(RecordsOf(last, RealRun(r)))
      <4>1. TraceOf(last, RealRun(r)) \in Seq(RecordsOf(last, RealRun(r)))
        BY <1>2, <1>4, TraceRecords, Zenon
      <4> QED
        BY <1>1, <4>1, Zenon DEF t, last, seals
    <3>2. t[k] \in RecordsOf(last, RealRun(r))
      BY <3>1, ElementOfSeq, LenProperties
    <3>3. PICK i \in 1..last : \E j \in DOMAIN FoundationKinds(log[i]) :
            log[i].run = RealRun(r) /\ t[k] = [sequence |-> i, kind |-> FoundationKinds(log[i])[j]]
      BY <3>2 DEF RecordsOf, RecordsFor
    <3>4. t[k].sequence = i /\ \E j \in DOMAIN FoundationKinds(log[i]) : t[k].kind = FoundationKinds(log[i])[j]
      BY <3>3
    <3> QED
      BY <3>3, <3>4
  <2> DEFINE i == t[k].sequence
  <2>2. i \in 1..n /\ i \in 1..Len(log) /\ log[i].run = RealRun(r)
    BY <1>4, <2>1
  <2>3. log[i] \in FoundationEvents
    BY <1>2, <2>2, ElementOfSeq
  <2>4. log[i].type \in {"RunCompleted", "RunAborted"}
    BY <1>5, <2>1, <2>3, TerminalKinds
  <2> HIDE DEF i
  <2>5. log[i].type # "RunAborted"
    BY <1>1, <2>2 DEF Of
  <2> QED
    BY <2>4, <2>5 DEF i
<1>6. \E k \in DOMAIN t : t[k].kind = "terminal"
  BY <1>1 DEF TraceKinds
<1>7. {log[t[k].sequence].type : k \in {k \in DOMAIN t : t[k].kind = "terminal"}} = {"RunCompleted"}
  BY <1>5, <1>6
<1> QED
  BY <1>1, <1>7 DEF t

\* The checker prints PASS only for a run whose files are those it registered and whose trace
\* has its completion as only terminal (check_foundation, load_evidence, trace_complete).
THEOREM PassesAreGenuine == FoundationSpec => PassIsGenuine
<1> DEFINE Genuine ==
      check.at = "reading" /\ check'.verdict = "pass" =>
       LET r == check'.run
           terminals == {log[trace[r][k].sequence].type :
                           k \in {k \in DOMAIN trace[r] : trace[r][k].kind = "terminal"}}
       IN  terminals = {"RunCompleted"} /\ \A name \in FoundationNames : <<r, name>> \notin altered
<1>1. FoundationIInv /\ [FoundationNext]_foundationVars => Genuine
  <2> SUFFICES ASSUME FoundationIInv, [FoundationNext]_foundationVars,
                      check.at = "reading", check'.verdict = "pass"
               PROVE  /\ {log[trace[check'.run][k].sequence].type :
                            k \in {k \in DOMAIN trace[check'.run] : trace[check'.run][k].kind = "terminal"}}
                           = {"RunCompleted"}
                      /\ \A name \in FoundationNames : <<check'.run, name>> \notin altered
    OBVIOUS
  <2> DEFINE passing == {r \in Selection(check.events, check.asked) : Accepts(check.events, check.artifacts, r)}
  <2>1. CheckEnds
    BY VerdictsAreGiven
  <2>2. check' = IF passing = {} THEN NoCheck
                 ELSE [NoCheck EXCEPT !.verdict = "pass", !.run = CHOOSE r \in passing : TRUE]
    BY <2>1 DEF CheckEnds
  <2>3. PICK chosen : chosen = CHOOSE r \in passing : TRUE
    OBVIOUS
  <2> HIDE DEF passing
  <2>4. passing # {} /\ check'.run = chosen
    BY <2>2, <2>3, NoCheckIs DEF CheckRecords
  <2>5. chosen \in passing
    BY <2>3, <2>4
  <2>6. Accepts(check.events, check.artifacts, chosen)
    BY <2>5 DEF passing
  <2>7. check.events \in 0..Len(log)
    BY StateTypes DEF FoundationIInv, CheckInv
  <2>8. /\ {log[trace[chosen][k].sequence].type :
              k \in {k \in DOMAIN trace[chosen] : trace[chosen][k].kind = "terminal"}} = {"RunCompleted"}
        /\ \A name \in FoundationNames : <<chosen, name>> \notin altered
    BY <2>6, <2>7, AcceptedIsGenuine
  <2> QED
    BY <2>4, <2>8
<1>2. FoundationSpec => []FoundationIInv
  BY FoundationInvariant
<1> QED
  BY <1>1, <1>2, PTL DEF FoundationSpec, PassIsGenuine
=============================================================================
