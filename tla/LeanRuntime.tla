---------------------------- MODULE LeanRuntime ----------------------------
(***************************************************************************)
(* The Lean runtime that all workers of a run share (lean/runtime.py): one *)
(* MCP client and its server process, replaced after a transport failure.  *)
(* Worker calls use the client concurrently; the promotion check, the      *)
(* preparation and the activation build hold the lifecycle lock, as do     *)
(* starting and restarting.  A server may die or stop answering at any     *)
(* time, a lease may end, and a job may be cancelled at any await.         *)
(***************************************************************************)
EXTENDS Naturals, FiniteSets, Sequences

CONSTANTS
  Calls,          \* Lean calls of the workers, each made once
  Documents,      \* the documents they are about
  DocumentOf,     \* call -> its document, named by the lease it is read under
  Check,          \* the promotion check
  Prepare,        \* prewarm's preparation
  Build,          \* the build after an activation
  Asked,          \* those of these three jobs that are asked for
  Nobody,         \* the lock is free
  NoClient,       \* no client, no runtime id
  MaxClients,     \* bound: server processes started
  LeanMaxCrashes  \* bound: servers that die

Jobs == Calls \cup {Check, Prepare, Build}

ASSUME RuntimeAssumption ==
  /\ DocumentOf \in [Calls -> Documents]
  /\ Check # Prepare /\ Check # Build /\ Prepare # Build
  /\ Calls \cap {Check, Prepare, Build} = {}
  /\ Asked \subseteq {Check, Prepare, Build}
  /\ Nobody \notin Jobs
  /\ MaxClients \in Nat /\ LeanMaxCrashes \in Nat /\ NoClient \notin Nat

Clients == 1..MaxClients
DIAGNOSTICS_ATTEMPTS == 3

VARIABLES
  leanPc,       \* where each job stands
  mine,         \* the client a job works with
  todo,         \* documents a restart has still to open, attempts a check has left
  verdicts,     \* the formal actions recorded of each call
  lock,         \* holder of _lifecycle_lock
  client,       \* _client
  rooted,       \* _project_root is the run's project, not None
  runtimeId,    \* _runtime_id, named by its client
  prepared,     \* _prepared
  opened,       \* _opened: documents a call was made about
  server,       \* the server process of each client
  leanCrashes,  \* servers that died
  leased,       \* documents whose lease is live
  events,       \* the lean runtime's events, each with its runtime id
  closed        \* aclose has been called

jobVars == <<leanPc, mine, todo, verdicts>>
runtimeVars == <<client, rooted, runtimeId, prepared, closed>>
worldVars == <<leanCrashes, leased>>
leanVars == <<jobVars, runtimeVars, worldVars, lock, opened, server, events>>

Over == {"returned", "failed", "mismatch", "stale", "denied", "cancelled"}
Active(j) == leanPc[j] \notin Over \cup {"idle"}

LeanTypeOK ==
  /\ leanPc \in [Jobs -> Over \cup {"idle", "ensure", "start", "call", "restart", "closing",
                                "replace", "reopen", "retry", "want", "diagnostics",
                                "build", "verify", "hover"}]
  /\ mine \in [Jobs -> Clients \cup {NoClient}]
  /\ \A j \in Jobs : todo[j] \subseteq Documents \cup (1..DIAGNOSTICS_ATTEMPTS)
  /\ \A c \in Calls : verdicts[c] \in Seq({"success", "failure"})
  /\ lock \in Jobs \cup {Nobody}
  /\ client \in Clients \cup {NoClient} /\ runtimeId \in Clients \cup {NoClient}
  /\ rooted \in BOOLEAN /\ prepared \in BOOLEAN /\ closed \in BOOLEAN
  /\ opened \subseteq Documents /\ leased \subseteq Documents
  /\ server \in [Clients -> {"none", "starting", "up", "dead", "closed", "lost"}]
  /\ leanCrashes \in 0..LeanMaxCrashes
  /\ \A i \in 1..Len(events) :
       /\ events[i].kind \in {"Started", "Crashed", "Restarted", "Stopped"}
       /\ events[i].id \in Clients

LeanInit ==
  /\ leanPc = [j \in Jobs |-> "idle"]
  /\ mine = [j \in Jobs |-> NoClient]
  /\ todo = [j \in Jobs |-> {}]
  /\ verdicts = [c \in Calls |-> <<>>]
  /\ lock = Nobody
  /\ client = NoClient /\ rooted = FALSE /\ runtimeId = NoClient
  /\ prepared = FALSE /\ closed = FALSE
  /\ opened = {} /\ leased = Documents
  /\ server = [n \in Clients |-> "none"]
  /\ leanCrashes = 0
  /\ events = <<>>

-----------------------------------------------------------------------------
(* How a job goes on                                                       *)

\* record_formal_action: one event per call that got past the broker.
record_formal_action(j, verdict) ==
  verdicts' = IF j \in Calls THEN [verdicts EXCEPT ![j] = Append(@, verdict)] ELSE verdicts

\* A LeanRuntimeError inside _execute, or an error of another job.
LeanFail(j, how) ==
  /\ leanPc' = [leanPc EXCEPT ![j] = how]
  /\ record_formal_action(j, "failure")
  /\ UNCHANGED <<mine, todo>>

Succeed(j) ==
  /\ leanPc' = [leanPc EXCEPT ![j] = "returned"]
  /\ record_formal_action(j, "success")
  /\ UNCHANGED <<mine, todo>>

Goto(j, label) ==
  /\ leanPc' = [leanPc EXCEPT ![j] = label]
  /\ UNCHANGED <<mine, todo, verdicts>>

\* Go on with client n: a call uses it at once, the others ask for the lock first.
With(j, n, label) ==
  /\ leanPc' = [leanPc EXCEPT ![j] = IF j \in Calls THEN label ELSE "want"]
  /\ mine' = [mine EXCEPT ![j] = n]
  /\ UNCHANGED <<todo, verdicts>>

Record(kind, id) == events' = Append(events, [kind |-> kind, id |-> id])

\* A client not used before.
Fresh == {n \in Clients : server[n] = "none" /\ \A m \in 1..(n - 1) : server[m] # "none"}

\* parse_goal, parse_attempts, parse_hover_info: an answer has the shape its tool promises
\* or is an error.
Answers == {"ok", "error"}

\* What LeanMcpClient._call can come back with.  A client whose session is gone refuses
\* (MCP_CLIENT_NOT_STARTED); a dead server and one that does not answer in time fail the
\* transport; otherwise the server's answer is parsed.
CallReplies(n) ==
  CASE server[n] = "up"     -> Answers \cup {"transport"}
    [] server[n] = "dead"   -> {"transport"}
    [] server[n] = "closed" -> {"refused"}

\* A call that was sent before its client was closed sees the stream end instead.
SentReplies(n) == IF server[n] = "closed" THEN {"transport"} ELSE CallReplies(n)

\* parse_diagnostics, parse_build: an answer of the right shape may say the check is
\* incomplete or found errors.
DiagnosticsReplies(n) == CallReplies(n) \cup (IF server[n] = "up" THEN {"partial"} ELSE {})
BuildReplies(n) == CallReplies(n) \cup (IF server[n] = "up" THEN {"broken"} ELSE {})

-----------------------------------------------------------------------------
(* Calls of the workers                                                    *)

\* The gateway's targets: a request without a lease or with a bad field stops here.
Reject(c) ==
  /\ leanPc[c] = "idle" /\ ~closed
  /\ leanPc' = [leanPc EXCEPT ![c] = "denied"]
  /\ UNCHANGED <<mine, todo, verdicts, runtimeVars, worldVars, lock, opened, server, events>>

\* _resolve: the broker knows the document under the session's lease.
Resolves(d) == d \in leased

\* _execute up to the lock: resolve the document, remember that it was opened.
Ask(c) ==
  /\ leanPc[c] = "idle" /\ ~closed
  /\ IF Resolves(DocumentOf[c])
     THEN /\ Goto(c, "ensure")
          /\ opened' = opened \cup {DocumentOf[c]}
     ELSE /\ Goto(c, "denied")
          /\ UNCHANGED opened
  /\ UNCHANGED <<runtimeVars, worldVars, lock, server, events>>

\* _ensure_started with no client: start one while the lock is held.
EnsureStarts(j) ==
  /\ leanPc[j] = "ensure" /\ lock = Nobody
  /\ client = NoClient
  /\ \E n \in Fresh :
       /\ server' = [server EXCEPT ![n] = "starting"]
       /\ mine' = [mine EXCEPT ![j] = n]
  /\ leanPc' = [leanPc EXCEPT ![j] = "start"]
  /\ lock' = j
  /\ UNCHANGED <<todo, verdicts, runtimeVars, worldVars, opened, events>>

\* _ensure_started with a client: it must be of this project.
EnsureFinds(j) ==
  /\ leanPc[j] = "ensure" /\ lock = Nobody
  /\ client # NoClient
  /\ IF rooted THEN With(j, client, "call") ELSE LeanFail(j, "mismatch")
  /\ UNCHANGED <<runtimeVars, worldVars, lock, opened, server, events>>

\* The client, its project and a new runtime id are kept and the start is recorded.
Started(j) ==
  LET n == mine[j] IN
  /\ leanPc[j] = "start" /\ server[n] = "starting"
  /\ server' = [server EXCEPT ![n] = "up"]
  /\ client' = n /\ rooted' = TRUE /\ runtimeId' = n
  /\ Record("Started", n)
  /\ lock' = Nobody
  /\ With(j, n, "call")
  /\ UNCHANGED <<prepared, closed, worldVars, opened>>

\* LeanMcpClient.start closes what it opened and raises.
StartFails(j) ==
  /\ leanPc[j] = "start" /\ server[mine[j]] = "starting"
  /\ server' = [server EXCEPT ![mine[j]] = "closed"]
  /\ lock' = Nobody
  /\ LeanFail(j, "failed")
  /\ UNCHANGED <<runtimeVars, worldVars, opened, events>>

\* Mutant: a transport failure is recorded, and then the call is tried again.
ReplyRecordingFailure(c) ==
  /\ leanPc[c] = "call"
  /\ \E r \in SentReplies(mine[c]) :
       CASE r = "ok"        -> Succeed(c)
         [] r = "transport" -> /\ leanPc' = [leanPc EXCEPT ![c] = "restart"]
                               /\ record_formal_action(c, "failure")
                               /\ UNCHANGED <<mine, todo>>
         [] OTHER           -> LeanFail(c, "failed")
  /\ UNCHANGED <<runtimeVars, worldVars, lock, opened, server, events>>

\* The first answer: only a transport failure asks for a restart.
LeanReply(c) ==
  /\ leanPc[c] = "call"
  /\ \E r \in SentReplies(mine[c]) :
       CASE r = "ok"        -> Succeed(c)
         [] r = "transport" -> Goto(c, "restart")
         [] OTHER           -> LeanFail(c, "failed")
  /\ UNCHANGED <<runtimeVars, worldVars, lock, opened, server, events>>

\* The answer to the second try is final.
RetryReply(c) ==
  /\ leanPc[c] = "retry"
  /\ \E r \in SentReplies(mine[c]) : IF r = "ok" THEN Succeed(c) ELSE LeanFail(c, "failed")
  /\ UNCHANGED <<runtimeVars, worldVars, lock, opened, server, events>>

-----------------------------------------------------------------------------
(* Restart                                                                 *)

\* Somebody else has replaced the client: use theirs, if there is one.
RestartElsewhere(c) ==
  /\ leanPc[c] = "restart" /\ lock = Nobody
  /\ client # mine[c]
  /\ IF client = NoClient THEN LeanFail(c, "failed") ELSE With(c, client, "retry")
  /\ UNCHANGED <<runtimeVars, worldVars, lock, opened, server, events>>

\* Mutant: _restart does not ask whether the client was already replaced.
RestartAnyway(c) ==
  /\ leanPc[c] = "restart" /\ lock = Nobody
  /\ lock' = c
  /\ server' = [server EXCEPT ![mine[c]] = "closed"]
  /\ Goto(c, "closing")
  /\ UNCHANGED <<runtimeVars, worldVars, opened, events>>

\* The failing client is closed first; it stays _client meanwhile.
RestartBegin(c) ==
  /\ leanPc[c] = "restart" /\ lock = Nobody
  /\ client = mine[c]
  /\ lock' = c
  /\ server' = [server EXCEPT ![mine[c]] = "closed"]
  /\ Goto(c, "closing")
  /\ UNCHANGED <<runtimeVars, worldVars, opened, events>>

\* The crash is recorded, then the replacement started.
Replace(c) ==
  /\ leanPc[c] = "closing"
  /\ client' = NoClient /\ rooted' = FALSE
  /\ Record("Crashed", runtimeId)
  /\ \E n \in Fresh :
       /\ server' = [server EXCEPT ![n] = "starting"]
       /\ mine' = [mine EXCEPT ![c] = n]
  /\ leanPc' = [leanPc EXCEPT ![c] = "replace"]
  /\ UNCHANGED <<todo, verdicts, runtimeId, prepared, closed, worldVars, lock, opened>>

\* _client and _runtime_id are set again; _project_root is not.
Replaced(c) ==
  LET n == mine[c] IN
  /\ leanPc[c] = "replace" /\ server[n] = "starting"
  /\ server' = [server EXCEPT ![n] = "up"]
  /\ client' = n /\ runtimeId' = n
  /\ leanPc' = [leanPc EXCEPT ![c] = "reopen"]
  /\ todo' = [todo EXCEPT ![c] = opened]
  /\ UNCHANGED <<mine, verdicts, rooted, prepared, closed, worldVars, lock, opened, events>>

LeanReplaceFails(c) ==
  /\ leanPc[c] = "replace" /\ server[mine[c]] = "starting"
  /\ server' = [server EXCEPT ![mine[c]] = "closed"]
  /\ lock' = Nobody
  /\ LeanFail(c, "failed")
  /\ UNCHANGED <<runtimeVars, worldVars, opened, events>>

\* _reopen_documents: every document ever opened is resolved under its old lease and read
\* by the replacement; the first that is denied or fails ends the restart.
Reopen(c) ==
  /\ leanPc[c] = "reopen"
  /\ \E d \in todo[c] :
       \/ ~Resolves(d) /\ LeanFail(c, "stale") /\ lock' = Nobody
       \/ /\ Resolves(d) /\ server[mine[c]] = "up"
          /\ todo' = [todo EXCEPT ![c] = @ \ {d}]
          /\ UNCHANGED <<leanPc, mine, verdicts, lock>>
       \/ Resolves(d) /\ LeanFail(c, "failed") /\ lock' = Nobody
  /\ UNCHANGED <<runtimeVars, worldVars, opened, server, events>>

Restarted(c) ==
  /\ leanPc[c] = "reopen" /\ todo[c] = {}
  /\ Record("Restarted", runtimeId)
  /\ lock' = Nobody
  /\ Goto(c, "retry")
  /\ UNCHANGED <<runtimeVars, worldVars, opened, server>>

-----------------------------------------------------------------------------
(* Jobs that hold the lock: _promotion_check, prepare, _build              *)

AskLocked(j) ==
  /\ leanPc[j] = "idle" /\ ~closed
  /\ Goto(j, IF j = Build THEN "want" ELSE "ensure")
  /\ UNCHANGED <<runtimeVars, worldVars, lock, opened, server, events>>

\* The lock again, with the client chosen before it was released.
CheckEnter ==
  /\ leanPc[Check] = "want" /\ lock = Nobody
  /\ lock' = Check
  /\ leanPc' = [leanPc EXCEPT ![Check] = "diagnostics"]
  /\ todo' = [todo EXCEPT ![Check] = 1..DIAGNOSTICS_ATTEMPTS]
  /\ UNCHANGED <<mine, verdicts, runtimeVars, worldVars, opened, server, events>>

\* _complete_diagnostics: ask again while the answer is partial, at most three times.
LeanCheckDiagnostics ==
  /\ leanPc[Check] = "diagnostics"
  /\ \E r \in DiagnosticsReplies(mine[Check]) :
       CASE r = "ok" \/ (r = "partial" /\ Cardinality(todo[Check]) = 1) ->
              Goto(Check, "build") /\ UNCHANGED lock
         [] r = "partial" /\ Cardinality(todo[Check]) > 1 ->
              /\ todo' = [todo EXCEPT ![Check] = @ \ {Cardinality(@)}]
              /\ UNCHANGED <<leanPc, mine, verdicts, lock>>
         [] OTHER -> LeanFail(Check, "failed") /\ lock' = Nobody
  /\ UNCHANGED <<runtimeVars, worldVars, opened, server, events>>

\* build, verify and hover on the same client; a broken build goes on to be reported.
CheckStep(at, to) ==
  /\ leanPc[Check] = at
  /\ \E r \in BuildReplies(mine[Check]) :
       CASE r \in {"ok", "broken"} /\ to # "returned" -> Goto(Check, to) /\ UNCHANGED lock
         [] r \in {"ok", "broken"} /\ to = "returned" -> Succeed(Check) /\ lock' = Nobody
         [] OTHER -> LeanFail(Check, "failed") /\ lock' = Nobody
  /\ UNCHANGED <<runtimeVars, worldVars, opened, server, events>>

\* prepare: nothing to do when it was done before.
PrepareEnter ==
  /\ leanPc[Prepare] = "want" /\ lock = Nobody
  /\ IF prepared THEN Succeed(Prepare) /\ UNCHANGED lock
                 ELSE Goto(Prepare, "build") /\ lock' = Prepare
  /\ UNCHANGED <<runtimeVars, worldVars, opened, server, events>>

PrepareBuild ==
  /\ leanPc[Prepare] = "build"
  /\ \E r \in BuildReplies(mine[Prepare]) :
       IF r = "ok" THEN Goto(Prepare, "diagnostics") /\ UNCHANGED lock
                   ELSE LeanFail(Prepare, "failed") /\ lock' = Nobody
  /\ UNCHANGED <<runtimeVars, worldVars, opened, server, events>>

PrepareDiagnostics ==
  /\ leanPc[Prepare] = "diagnostics"
  /\ \E r \in DiagnosticsReplies(mine[Prepare]) :
       /\ IF r = "ok" THEN Succeed(Prepare) ELSE LeanFail(Prepare, "failed")
       /\ prepared' = (r = "ok")
  /\ lock' = Nobody
  /\ UNCHANGED <<client, rooted, runtimeId, closed, worldVars, opened, server, events>>

\* _build takes the client that is there when it gets the lock.
BuildEnter ==
  /\ leanPc[Build] = "want" /\ lock = Nobody
  /\ IF client = NoClient
     THEN LeanFail(Build, "failed") /\ UNCHANGED lock
     ELSE /\ leanPc' = [leanPc EXCEPT ![Build] = "build"]
          /\ mine' = [mine EXCEPT ![Build] = client]
          /\ lock' = Build
          /\ UNCHANGED <<todo, verdicts>>
  /\ UNCHANGED <<runtimeVars, worldVars, opened, server, events>>

BuildReply ==
  /\ leanPc[Build] = "build"
  /\ \E r \in BuildReplies(mine[Build]) :
       IF r = "ok" THEN Succeed(Build) ELSE LeanFail(Build, "failed")
  /\ lock' = Nobody
  /\ UNCHANGED <<runtimeVars, worldVars, opened, server, events>>

-----------------------------------------------------------------------------
(* Cancellation, closing, and what happens outside                         *)

\* A cancelled job lets go of the lock.  A start that is cancelled closes nothing: its
\* process is left to the garbage collector.
LeanCancel(j) ==
  /\ Active(j)
  /\ leanPc' = [leanPc EXCEPT ![j] = "cancelled"]
  /\ lock' = IF lock = j THEN Nobody ELSE lock
  /\ server' = IF leanPc[j] \in {"start", "replace"}
               THEN [server EXCEPT ![mine[j]] = "lost"] ELSE server
  /\ UNCHANGED <<mine, todo, verdicts, runtimeVars, worldVars, opened, events>>

\* aclose.  The worker host closes the runtime after the sessions and the consumer, when
\* no job is under way.
Close ==
  /\ ~closed /\ \A j \in Jobs : ~Active(j)
  /\ client' = NoClient /\ rooted' = FALSE /\ runtimeId' = NoClient
  /\ prepared' = FALSE /\ closed' = TRUE
  /\ IF runtimeId # NoClient THEN Record("Stopped", runtimeId) ELSE UNCHANGED events
  /\ server' = IF client # NoClient THEN [server EXCEPT ![client] = "closed"] ELSE server
  /\ UNCHANGED <<jobVars, worldVars, lock, opened>>

\* The server process dies.
LeanCrash(n) ==
  /\ server[n] = "up" /\ leanCrashes < LeanMaxCrashes
  /\ server' = [server EXCEPT ![n] = "dead"]
  /\ leanCrashes' = leanCrashes + 1
  /\ UNCHANGED <<jobVars, runtimeVars, leased, lock, opened, events>>

\* A worker is done, or its lease is taken away.
LeanEndLease(d) ==
  /\ d \in leased
  /\ leased' = leased \ {d}
  /\ UNCHANGED <<jobVars, runtimeVars, leanCrashes, lock, opened, server, events>>

\* goal, multi_attempt and diagnostics all go through _execute.
CallStep(c) ==
  \/ EnsureStarts(c) \/ EnsureFinds(c) \/ Started(c) \/ StartFails(c)
  \/ LeanReply(c) \/ RetryReply(c)
  \/ RestartElsewhere(c) \/ RestartBegin(c)
  \/ Replace(c) \/ Replaced(c) \/ LeanReplaceFails(c) \/ Reopen(c) \/ Restarted(c)

LockedStep ==
  \/ \E j \in {Check, Prepare} : EnsureStarts(j) \/ EnsureFinds(j) \/ Started(j) \/ StartFails(j)
  \/ CheckEnter \/ LeanCheckDiagnostics
  \/ CheckStep("build", "verify") \/ CheckStep("verify", "hover")
  \/ CheckStep("hover", "returned")
  \/ PrepareEnter \/ PrepareBuild \/ PrepareDiagnostics
  \/ BuildEnter \/ BuildReply

LeanNext ==
  \/ \E c \in Calls : Reject(c) \/ Ask(c) \/ CallStep(c)
  \/ \E j \in Asked : AskLocked(j)
  \/ LockedStep
  \/ \E j \in Jobs : LeanCancel(j)
  \/ Close
  \/ \E n \in Clients : LeanCrash(n)
  \/ \E d \in Documents : LeanEndLease(d)

LeanSpec == LeanInit /\ [][LeanNext]_leanVars

\* LeanMcpClient.start is awaited: the server process, initialize and list_tools, with no
\* timeout, while the lifecycle lock is held.
Starting(j) == leanPc[j] \in {"start", "replace"}

\* Every answer to a call comes or times out, and the lock is first come first served, so
\* that a job that waits for it gets it once it is free.  A start need not end.
LeanFairness ==
  /\ \A c \in Calls : SF_leanVars(~Starting(c) /\ CallStep(c))
  /\ SF_leanVars((\A j \in {Check, Prepare} : ~Starting(j)) /\ LockedStep)
LeanFairSpec == LeanSpec /\ LeanFairness

-----------------------------------------------------------------------------
(* Properties                                                              *)

\* However many calls fail together on one client, the runtime starts one replacement: no
\* two servers of a run are up or starting at once (_restart compares the client).
OneServer == Cardinality({n \in Clients : server[n] \in {"starting", "up"}}) <= 1

\* The event history never announces a runtime while the one announced before it is, as
\* far as the events tell, still running: its crash or its stop comes first.
HistoryAlternates ==
  \A i \in 1..(Len(events) - 1) :
    events[i].kind \in {"Started", "Restarted"} => events[i + 1].kind \in {"Crashed", "Stopped"}

\* A call that got past the broker leaves one formal action, with the verdict its caller
\* saw, however often it was tried; one that is cancelled leaves none.
RecordedOnce ==
  \A c \in Calls :
    verdicts[c] = CASE leanPc[c] = "returned" -> <<"success">>
                    [] leanPc[c] \in {"failed", "mismatch", "stale"} -> <<"failure">>
                    [] OTHER -> <<>>

\* After aclose no server the runtime was given is left, and nobody holds the lock.
ClosedIsQuiet ==
  closed => lock = Nobody /\ \A n \in Clients : server[n] \in {"none", "dead", "closed", "lost"}

\* Every call ends: no path through start, restart and retry keeps the lock or waits for
\* what does not come.  Only a server that never comes up, its own or the one that another
\* job is starting, keeps a call waiting.
StartHangs == [](\E j \in Jobs : Starting(j))
CallsEnd == \A c \in Calls : leanPc[c] = "ensure" ~> (leanPc[c] \in Over \/ StartHangs)

\* The runtime has one server at a time and none after aclose, and its events say so.
OneRuntime == LeanTypeOK /\ OneServer /\ HistoryAlternates /\ ClosedIsQuiet
=============================================================================
