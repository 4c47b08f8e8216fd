--------------------------- MODULE ProcessLaunch ---------------------------
(* One command started by a launcher of src/aizim/agents, from the new      *)
(* process to the value its caller gets:                                    *)
(*   "host"   launch_host_command: controllers (launcher.py)                *)
(*   "sync"   run_host_command: version and health checks                   *)
(*   "codex"  launch_codex: a worker's model client                         *)
(*   "probe"  run_probe_process: the sandbox probe                          *)
(* The child leads a new session and process group.  It may leave a         *)
(* descendant: "group" (same group, holds the pipes), "quiet" (same group,  *)
(* pipes closed) or "escaped" (another group, holds the pipes).  Pipes hold *)
(* Capacity chunks; a process closes its ends of all three by ending.  Time *)
(* is left out: a timeout or the end of the grace period may come whenever  *)
(* it is being waited for.  The checks made before the process is started   *)
(* (an occupied result path, a specification out of range) are left out.    *)
EXTENDS Naturals

CONSTANTS
    Kinds,        \* the launchers of the instance
    Forks,        \* what the child may leave behind
    Input,        \* chunks of stdin the caller supplies
    Most,         \* bound: chunks written to each of stdout and stderr
    Capacity,     \* chunks a pipe holds
    Limit,        \* output_limit, in chunks
    MayTimeOut,   \* FALSE: the timeout is longer than the behaviour
    Cooperative,  \* the child writes everything, reads everything, exits 0
    MaxCancels    \* bound: cancellations of the calling task

ASSUME LaunchAssumption ==
    /\ Kinds \subseteq {"host", "sync", "codex", "probe"}
    /\ Forks \subseteq {"group", "quiet", "escaped"}
    /\ Input \in Nat /\ Most \in Nat /\ Limit \in Nat /\ MaxCancels \in Nat
    /\ Capacity \in Nat \ {0}
    /\ MayTimeOut \in BOOLEAN /\ Cooperative \in BOOLEAN

Streams == {"stdout", "stderr"}

VARIABLES
    kind,      \* the launcher
    at,        \* where it is
    why,       \* the exception it is handling, "none" on the normal path
    outcome,   \* what the caller got
    asked,     \* cancellations of the calling task so far
    child,     \* the direct child
    code,      \* its exit status
    kid,       \* the descendant
    signal,    \* the strongest signal sent to the group
    stdin,     \* [todo, pipe, open]: chunks not yet written, in the pipe, writer open
    heard,     \* chunks the child has read
    wrote,     \* per stream, chunks written by the child's side
    pipe,      \* per stream, chunks in the pipe
    got,       \* per stream, chunks in the launcher's buffer
    ended      \* the streams whose end the launcher has read

childVars == <<child, code, kid>>
ioVars == <<stdin, heard, wrote, pipe, got, ended>>
launchVars == <<kind, at, why, outcome, asked, childVars, signal, ioVars>>

(* Who is left, and what of them keeps a pipe from ending.                  *)
PipesHeld == child = "running" \/ kid \in {"group", "escaped"}
GroupExists == child # "reaped" \/ kid \in {"group", "quiet"}

LaunchInit ==
    /\ kind \in Kinds
    /\ at = "communicating" /\ why = "none" /\ outcome = "none" /\ asked = 0
    /\ child = "running" /\ code = "none" /\ kid = "none" /\ signal = "none"
    /\ stdin = [todo |-> Input, pipe |-> 0, open |-> TRUE]
    /\ heard = 0
    /\ wrote = [s \in Streams |-> 0]
    /\ pipe = [s \in Streams |-> 0]
    /\ got = [s \in Streams |-> 0]
    /\ ended = {}

-----------------------------------------------------------------------------
(* The child and its descendant.                                            *)

(* Whoever holds a pipe writes to it and blocks while it is full.           *)
ChildWrites(s) ==
    /\ PipesHeld
    /\ wrote[s] < Most /\ pipe[s] < Capacity
    /\ wrote' = [wrote EXCEPT ![s] = @ + 1]
    /\ pipe' = [pipe EXCEPT ![s] = @ + 1]
    /\ UNCHANGED <<kind, at, why, outcome, asked, childVars, signal, stdin, heard, got, ended>>

(* A child that talks before it listens reads after its last write.         *)
ChildReads ==
    /\ child = "running"
    /\ Cooperative => \A s \in Streams : wrote[s] = Most
    /\ stdin.pipe > 0
    /\ stdin' = [stdin EXCEPT !.pipe = @ - 1]
    /\ heard' = heard + 1
    /\ UNCHANGED <<kind, at, why, outcome, asked, childVars, signal, wrote, pipe, got, ended>>

ChildForks ==
    /\ child = "running" /\ kid = "none" /\ signal # "kill"
    /\ kid' \in Forks
    /\ UNCHANGED <<kind, at, why, outcome, asked, child, code, signal, ioVars>>

ChildExits ==
    /\ child = "running"
    /\ Cooperative => heard = Input
    /\ child' = "exited"
    /\ code' \in IF Cooperative THEN {"zero"} ELSE {"zero", "nonzero"}
    /\ UNCHANGED <<kind, at, why, outcome, asked, kid, signal, ioVars>>

(* A signal of the group: SIGTERM may be ignored, SIGKILL may not (Fair).   *)
ChildDies ==
    /\ child = "running" /\ signal # "none"
    /\ child' = "exited" /\ code' = "nonzero"
    /\ UNCHANGED <<kind, at, why, outcome, asked, kid, signal, ioVars>>

(* A descendant of the group dies of the signal; any one may just end.      *)
KidEnds ==
    /\ kid \in {"group", "quiet", "escaped"}
    /\ kid' = "gone"
    /\ UNCHANGED <<kind, at, why, outcome, asked, child, code, signal, ioVars>>

(* The child watcher of the event loop; poll() and wait() of "sync".        *)
Reap ==
    /\ at # "returned"
    /\ child = "exited"
    /\ child' = "reaped"
    /\ UNCHANGED <<kind, at, why, outcome, asked, code, kid, signal, ioVars>>

-----------------------------------------------------------------------------
(* The exchange: communicate_bounded, _communicate, exchange_bounded.       *)

(* The exception a launcher handles, with the signal it answers it with:    *)
(* _finish_reaping(graceful) and kill_and_reap.  The writer is closed.      *)
Fail(cause) ==
    LET graceful == kind = "codex" /\ cause = "TimeoutError"
    IN  /\ why' = cause
        /\ at' = IF graceful THEN "terminating" ELSE "killing"
        /\ signal' = IF graceful THEN "term" ELSE "kill"

(* _write_input: a chunk goes into the pipe while somebody may read it.     *)
WriteInput ==
    /\ at = "communicating" /\ PipesHeld
    /\ stdin.open /\ stdin.todo > 0 /\ stdin.pipe < Capacity
    /\ stdin' = [stdin EXCEPT !.todo = @ - 1, !.pipe = @ + 1]
    /\ UNCHANGED <<kind, at, why, outcome, asked, childVars, signal, heard, wrote, pipe, got, ended>>

CloseInput ==
    /\ at = "communicating"
    /\ stdin.open /\ stdin.todo = 0
    /\ stdin' = [stdin EXCEPT !.open = FALSE]
    /\ UNCHANGED <<kind, at, why, outcome, asked, childVars, signal, heard, wrote, pipe, got, ended>>

(* Nobody will read the rest: BrokenPipeError is dropped by _write_input    *)
(* and is the end of exchange_bounded.                                      *)
InputBreaks ==
    /\ at = "communicating" /\ ~PipesHeld
    /\ stdin.open /\ stdin.todo > 0
    /\ stdin' = [stdin EXCEPT !.todo = 0, !.open = FALSE]
    /\ IF kind = "sync"
       THEN Fail("ProcessPipeError")
       ELSE UNCHANGED <<at, why, signal>>
    /\ UNCHANGED <<kind, outcome, asked, childVars, heard, wrote, pipe, got, ended>>

(* Too much output: per stream in _read_bounded, stderr alone in launch_codex *)
(* (its stdout is bounded per line), both together in exchange_bounded.     *)
OverLimit(counts, s) ==
    CASE kind = "sync" -> counts["stdout"] + counts["stderr"] > Limit
      [] kind = "codex" -> s = "stderr" /\ counts[s] > Limit
      [] OTHER -> counts[s] > Limit

(* _read_bounded, _read_jsonl and _read_stderr take a chunk.                *)
Read(s) ==
    /\ at = "communicating"
    /\ s \notin ended /\ pipe[s] > 0
    /\ pipe' = [pipe EXCEPT ![s] = @ - 1]
    /\ got' = [got EXCEPT ![s] = @ + 1]
    /\ IF OverLimit(got', s)
       THEN Fail("ProcessOutputLimitError")
       ELSE UNCHANGED <<at, why, signal>>
    /\ UNCHANGED <<kind, outcome, asked, childVars, stdin, heard, wrote, ended>>

ReadEnds(s) ==
    /\ at = "communicating"
    /\ s \notin ended /\ pipe[s] = 0 /\ ~PipesHeld
    /\ ended' = ended \cup {s}
    /\ UNCHANGED <<kind, at, why, outcome, asked, childVars, signal, stdin, heard, wrote, pipe, got>>

(* A line of the event stream is no event, or longer than a line may be.    *)
BadLine ==
    /\ at = "communicating" /\ kind = "codex" /\ ~Cooperative
    /\ "stdout" \notin ended /\ pipe["stdout"] > 0
    /\ pipe' = [pipe EXCEPT !["stdout"] = @ - 1]
    /\ Fail("CodexEventError")
    /\ UNCHANGED <<kind, outcome, asked, childVars, stdin, heard, wrote, got, ended>>

(* Mutant: a command that ended well is taken to have left nobody.          *)
ExchangedWithoutReaping ==
    /\ at = "communicating"
    /\ ended = Streams /\ child = "reaped"
    /\ kind # "sync" => ~stdin.open
    /\ at' = "returned"
    /\ outcome' = IF code = "zero" \/ kind \in {"host", "sync"} THEN "output" ELSE "ProcessFailed"
    /\ UNCHANGED <<kind, why, asked, childVars, signal, ioVars>>

(* Both readers, wait() and, but for "sync", the writer are done.  "host"   *)
(* and "sync" kill what is left of the group; the others return: the exit   *)
(* status and, for "codex", the final message decide.                       *)
Exchanged ==
    /\ at = "communicating"
    /\ ended = Streams /\ child = "reaped"
    /\ kind # "sync" => ~stdin.open
    /\ IF kind \in {"host", "sync"}
       THEN /\ at' = "killing" /\ signal' = "kill"
            /\ why' = IF kind = "host" /\ got["stdout"] + got["stderr"] > Limit
                      THEN "ProcessOutputLimitError" ELSE "none"
            /\ UNCHANGED outcome
       ELSE /\ at' = "returned"
            /\ outcome' \in IF code # "zero" THEN {"ProcessFailed"}
                            ELSE IF kind = "codex" /\ ~Cooperative
                            THEN {"output", "FinalMessageError"} ELSE {"output"}
            /\ UNCHANGED <<signal, why>>
    /\ UNCHANGED <<kind, asked, childVars, ioVars>>

TimesOut ==
    /\ MayTimeOut
    /\ at = "communicating"
    /\ Fail("TimeoutError")
    /\ UNCHANGED <<kind, outcome, asked, childVars, ioVars>>

-----------------------------------------------------------------------------
(* The clean-up.                                                            *)

(* drain_process throws away what is still written.                         *)
LaunchDiscard(s) ==
    /\ at \in {"terminating", "killing"} /\ kind # "sync"
    /\ pipe[s] > 0
    /\ pipe' = [pipe EXCEPT ![s] = @ - 1]
    /\ UNCHANGED <<kind, at, why, outcome, asked, childVars, signal, stdin, heard, wrote, got, ended>>

(* Mutant: after the grace period only SIGTERM is repeated.                 *)
GraceRepeatsTerm ==
    /\ at = "terminating"
    /\ at' = "killing"
    /\ UNCHANGED <<kind, why, outcome, asked, childVars, signal, ioVars>>

(* _terminate_and_reap: _TERMINATE_GRACE_SECONDS after SIGTERM.             *)
GraceEnds ==
    /\ at = "terminating"
    /\ at' = "killing" /\ signal' = "kill"
    /\ UNCHANGED <<kind, why, outcome, asked, childVars, ioVars>>

(* _drain_process_group waits for the ends of both pipes, the child and an  *)
(* empty group; run_probe_process not for the group, kill_and_reap not for  *)
(* the pipes.                                                               *)
Drained ==
    /\ at \in {"terminating", "killing"}
    /\ child = "reaped"
    /\ kind # "probe" => ~GroupExists
    /\ kind # "sync" => ~PipesHeld /\ \A s \in Streams : pipe[s] = 0
    /\ at' = "returned"
    /\ outcome' = IF why = "none" THEN "output" ELSE why
    /\ UNCHANGED <<kind, why, asked, childVars, signal, ioVars>>

(* The caller's task is cancelled.  await_cleanup finishes the clean-up of  *)
(* "host" and "codex" and hands the interruption back, which _finish_reaping *)
(* drops; the drain of "probe" is not shielded.                             *)
Cancel ==
    /\ kind # "sync" /\ at # "returned"
    /\ asked < MaxCancels
    /\ asked' = asked + 1
    /\ \/ at = "communicating" /\ Fail("CancelledError") /\ UNCHANGED outcome
       \/ at # "communicating" /\ kind # "probe" /\ UNCHANGED <<at, why, signal, outcome>>
       \/ /\ at = "killing" /\ kind = "probe"
          /\ at' = "returned" /\ outcome' = "CancelledError" /\ UNCHANGED <<why, signal>>
    /\ UNCHANGED <<kind, childVars, ioVars>>

-----------------------------------------------------------------------------
Launcher ==
    \/ WriteInput \/ CloseInput \/ InputBreaks \/ BadLine \/ Exchanged
    \/ TimesOut \/ GraceEnds \/ Drained \/ Reap \/ Cancel
    \/ \E s \in Streams : Read(s) \/ ReadEnds(s) \/ LaunchDiscard(s)

Program ==
    \/ ChildReads \/ ChildForks \/ ChildExits \/ ChildDies \/ KidEnds
    \/ \E s \in Streams : ChildWrites(s)

LaunchNext == Launcher \/ Program

(* The event loop and the kernel: what the launcher waits for is looked at  *)
(* when it is there, its clocks run, and SIGKILL is obeyed in the group.    *)
(* Nothing is asked of the child's own program, of a process outside the    *)
(* group, or of whoever cancels.                                            *)
LaunchFairness ==
    /\ WF_launchVars(WriteInput) /\ WF_launchVars(CloseInput)
    /\ WF_launchVars(InputBreaks)
    /\ \A s \in Streams : /\ WF_launchVars(Read(s)) /\ WF_launchVars(ReadEnds(s))
                          /\ WF_launchVars(LaunchDiscard(s))
    /\ WF_launchVars(Exchanged) /\ WF_launchVars(TimesOut)
    /\ WF_launchVars(GraceEnds)
    /\ WF_launchVars(Reap) /\ WF_launchVars(Drained)
    /\ WF_launchVars(signal = "kill" /\ ChildDies)
    /\ WF_launchVars(signal = "kill" /\ kid \in {"group", "quiet"} /\ KidEnds)

LaunchSpec == LaunchInit /\ [][LaunchNext]_launchVars
FairSpec == LaunchSpec /\ LaunchFairness

(* A child that does its work: the program's own steps are fair as well.    *)
ChildFairness ==
    /\ WF_launchVars(ChildReads) /\ WF_launchVars(ChildExits)
    /\ \A s \in Streams : WF_launchVars(ChildWrites(s))
CooperativeSpec == FairSpec /\ ChildFairness

-----------------------------------------------------------------------------
Errors == {"TimeoutError", "ProcessOutputLimitError", "ProcessPipeError",
           "CodexEventError", "CancelledError"}

(* Types of the state.                                                      *)
LaunchTypeOK ==
    /\ kind \in Kinds
    /\ at \in {"communicating", "terminating", "killing", "returned"}
    /\ why \in Errors \cup {"none"}
    /\ outcome \in Errors \cup {"none", "output", "ProcessFailed", "FinalMessageError"}
    /\ asked \in 0..MaxCancels
    /\ child \in {"running", "exited", "reaped"}
    /\ code \in {"none", "zero", "nonzero"}
    /\ (code = "none") = (child = "running")
    /\ kid \in {"none", "gone"} \cup Forks
    /\ signal \in {"none", "term", "kill"}
    /\ stdin \in [todo : 0..Input, pipe : 0..Capacity, open : BOOLEAN]
    /\ heard \in 0..Input
    /\ heard + stdin.pipe + stdin.todo <= Input
    /\ wrote \in [Streams -> 0..Most]
    /\ pipe \in [Streams -> 0..Capacity]
    /\ got \in [Streams -> 0..Most]
    /\ ended \subseteq Streams

(* Once the caller of a host check has its answer, good or bad, and once a  *)
(* worker's launch has failed, nobody of the command's process group is     *)
(* left, not even a descendant that closed its pipes.                       *)
GroupReaped ==
    (at = "returned" /\ (kind \in {"host", "sync"} \/ (kind = "codex" /\ why # "none")))
        => ~GroupExists

(* Output that is returned is all the command ever wrote, and no more than  *)
(* was allowed: nothing is cut off at the exit of the direct child while a  *)
(* descendant still writes, and nothing was thrown away in the clean-up.    *)
OutputIsComplete ==
    (at = "returned" /\ outcome = "output")
        => /\ got = wrote /\ ~PipesHeld
           /\ kind \in {"host", "sync"} => got["stdout"] + got["stderr"] <= Limit
           /\ kind = "probe" => \A s \in Streams : got[s] <= Limit

(* Every launch comes to an end, whatever the command does, unless a        *)
(* descendant left the process group and holds a pipe for good: draining has *)
(* no limit (_drain_process_group, run_probe_process).  kill_and_reap does   *)
(* not drain, so that "sync" ends then as well.                             *)
PipeIsHeld == <>[](kid = "escaped")
LaunchEnds == <>(at = "returned") \/ (kind # "sync" /\ PipeIsHeld)

(* A child that writes everything before it reads anything is served: input *)
(* and output larger than the pipes do not block each other.                *)
ExchangeEnds == <>(at = "returned" /\ outcome = "output")
=============================================================================
