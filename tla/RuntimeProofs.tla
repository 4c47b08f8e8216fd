--------------------------- MODULE RuntimeProofs ---------------------------
(***************************************************************************)
(* Proofs about the Lean runtime, for any number of calls, documents and   *)
(* clients: it has one server at a time and none after aclose, its events  *)
(* announce a server only after the end of the one before, and a call that *)
(* got past the broker leaves one formal action with the verdict its       *)
(* caller saw.                                                             *)
(***************************************************************************)
EXTENDS LeanRuntime, FiniteSetTheorems, TLAPS

-----------------------------------------------------------------------------
(* The invariant                                                           *)

States ==
  Over \cup {"idle", "ensure", "start", "call", "restart", "closing", "replace", "reopen",
             "retry", "want", "diagnostics", "build", "verify", "hover"}

Locked == {"start", "closing", "replace", "reopen", "diagnostics", "build", "verify", "hover"}

Verdicts == {"success", "failure"}
RuntimeEvents == [kind : {"Started", "Crashed", "Restarted", "Stopped"}, id : Clients]

RuntimeTypes ==
  /\ LeanTypeOK
  /\ todo \in [Jobs -> SUBSET (Documents \cup (1..DIAGNOSTICS_ATTEMPTS))]
  /\ verdicts \in [Calls -> Seq(Verdicts)]
  /\ events \in Seq(RuntimeEvents)

\* The job that holds the lock is the one that is at work under it.
LockInv == \A j \in Jobs : (lock = j) = (leanPc[j] \in Locked)

\* What a job knows of the client it works with.
MineInv ==
  \A j \in Jobs :
    /\ leanPc[j] \in {"start", "call", "restart", "closing", "replace", "reopen", "retry"}
         => mine[j] \in Clients
    /\ leanPc[j] \in {"start", "replace"} => server[mine[j]] = "starting" /\ client = NoClient
    /\ leanPc[j] = "closing" => client = mine[j] /\ server[mine[j]] # "up"
    /\ leanPc[j] = "reopen" => client # NoClient

\* A server that starts is the one of the job that starts it, one that is up is the
\* runtime's, and the runtime id is the one of its client.
ServerInv ==
  /\ \A n \in Clients : server[n] = "starting" =>
       \E j \in Jobs : leanPc[j] \in {"start", "replace"} /\ mine[j] = n
  /\ \A n \in Clients : server[n] = "up" => client = n
  /\ client # NoClient => runtimeId = client

\* The last event announces a runtime that is still running.
Announced == events # <<>> /\ events[Len(events)].kind \in {"Started", "Restarted"}

EventInv ==
  /\ HistoryAlternates
  /\ client = NoClient => ~Announced
  /\ (\E j \in Jobs : leanPc[j] = "reopen") => ~Announced

ClosedInv == closed => client = NoClient /\ \A j \in Jobs : ~Active(j)

LeanIInv ==
  RuntimeTypes /\ LockInv /\ MineInv /\ ServerInv /\ EventInv /\ ClosedInv /\ RecordedOnce

-----------------------------------------------------------------------------
(* Constants, the lock and the records                                     *)

LEMMA LeanConstants ==
  /\ Check \in Jobs /\ Prepare \in Jobs /\ Build \in Jobs
  /\ Check \notin Calls /\ Prepare \notin Calls /\ Build \notin Calls
  /\ Calls \subseteq Jobs /\ Asked \subseteq Jobs
  /\ Nobody \notin Jobs /\ NoClient \notin Clients
BY RuntimeAssumption DEF Jobs, Clients

LEMMA EmptyRecords ==
  /\ <<>> \in Seq(Verdicts) /\ Append(<<>>, "success") = <<"success">>
  /\ Append(<<>>, "failure") = <<"failure">>
  /\ <<"success">> \in Seq(Verdicts) /\ <<"failure">> \in Seq(Verdicts)
  /\ <<>> \in Seq(RuntimeEvents) /\ Len(<<>>) = 0
BY DEF Verdicts

\* How a step of a job ends: it goes on without a record, or is over with one.
Goes(j, to) ==
  /\ leanPc[j] \in States \ Over /\ to \in States
  /\ leanPc' = [leanPc EXCEPT ![j] = to]
  /\ \/ UNCHANGED verdicts /\ to \notin {"returned", "failed", "mismatch", "stale"}
     \/ record_formal_action(j, "failure") /\ to \in {"failed", "mismatch", "stale"}
     \/ record_formal_action(j, "success") /\ to = "returned"

\* The lock follows the job that takes the step.
Holds(j, to) ==
  /\ to \in Locked => lock' = j /\ lock \in {Nobody, j}
  /\ to \notin Locked => lock' = IF lock = j THEN Nobody ELSE lock

\* One formal action is left, with the verdict the caller sees.
LEMMA GoesRecorded ==
  ASSUME RuntimeTypes, RecordedOnce, NEW j \in Jobs, NEW to, Goes(j, to)
  PROVE  RecordedOnce' /\ verdicts' \in [Calls -> Seq(Verdicts)] /\ leanPc' \in [Jobs -> States]
<1>1. leanPc \in [Jobs -> States] /\ verdicts \in [Calls -> Seq(Verdicts)]
  BY DEF RuntimeTypes, LeanTypeOK, States
<1>2. leanPc' \in [Jobs -> States]
  BY <1>1 DEF Goes
<1>3. ASSUME NEW c \in Calls, c # j
      PROVE  leanPc'[c] = leanPc[c] /\ verdicts'[c] = verdicts[c]
  BY <1>1, <1>3, LeanConstants DEF Goes, record_formal_action
<1>4. CASE j \notin Calls
  <2>1. verdicts' = verdicts
    BY <1>4 DEF Goes, record_formal_action
  <2> QED
    BY <1>1, <1>2, <1>3, <1>4, <2>1 DEF RecordedOnce
<1>5. CASE j \in Calls
  <2>1. verdicts[j] = <<>>
    BY <1>5 DEF Goes, States, Over, RecordedOnce
  <2>2. leanPc'[j] = to
    BY <1>1 DEF Goes
  <2>3. \/ verdicts' = verdicts /\ to \notin {"returned", "failed", "mismatch", "stale"}
        \/ verdicts' = [verdicts EXCEPT ![j] = <<"failure">>] /\ to \in {"failed", "mismatch", "stale"}
        \/ verdicts' = [verdicts EXCEPT ![j] = <<"success">>] /\ to = "returned"
    BY <1>5, <2>1, EmptyRecords DEF Goes, record_formal_action
  <2>4. verdicts' \in [Calls -> Seq(Verdicts)]
    BY <1>1, <2>3, EmptyRecords
  <2>5. verdicts'[j] = CASE to = "returned" -> <<"success">>
                         [] to \in {"failed", "mismatch", "stale"} -> <<"failure">>
                         [] OTHER -> <<>>
    BY <1>1, <1>5, <2>1, <2>3
  <2> QED
    BY <1>2, <1>3, <2>2, <2>4, <2>5 DEF RecordedOnce
<1> QED
  BY <1>4, <1>5

LEMMA GoesLocked ==
  ASSUME RuntimeTypes, LockInv, NEW j \in Jobs, NEW to, Goes(j, to), Holds(j, to)
  PROVE  LockInv' /\ lock' \in Jobs \cup {Nobody}
<1>1. leanPc \in [Jobs -> States] /\ lock \in Jobs \cup {Nobody}
  BY DEF RuntimeTypes, LeanTypeOK, States
<1> QED
  BY <1>1, LeanConstants DEF Goes, Holds, LockInv

\* A step of a job that starts, closes and announces nothing.
QuietMove(j, to) ==
  /\ Goes(j, to) /\ Holds(j, to)
  /\ leanPc[j] \notin {"start", "replace"}
  /\ to \notin {"start", "replace", "closing", "reopen"}
  /\ mine' \in [Jobs -> Clients \cup {NoClient}]
  /\ \A i \in Jobs : i # j => mine'[i] = mine[i]
  /\ to \in {"call", "restart", "retry"} => mine'[j] \in Clients
  /\ todo' \in [Jobs -> SUBSET (Documents \cup (1..DIAGNOSTICS_ATTEMPTS))]
  /\ opened' \subseteq Documents /\ prepared' \in BOOLEAN
  /\ closed => Active(j)
  /\ UNCHANGED <<client, rooted, runtimeId, closed, worldVars, server, events>>

LEMMA QuietMoveIInv ==
  ASSUME LeanIInv, NEW j \in Jobs, NEW to, QuietMove(j, to)
  PROVE  LeanIInv'
<1>0. /\ Goes(j, to) /\ Holds(j, to)
      /\ UNCHANGED <<client, rooted, runtimeId, closed, leanCrashes, leased, server, events>>
  BY DEF QuietMove, worldVars
<1>t. RuntimeTypes /\ LockInv /\ MineInv /\ ServerInv /\ EventInv /\ ClosedInv /\ RecordedOnce
  BY DEF LeanIInv
<1>p. leanPc \in [Jobs -> States] /\ mine \in [Jobs -> Clients \cup {NoClient}]
  BY <1>t DEF RuntimeTypes, LeanTypeOK, States
<1>m. /\ leanPc'[j] = to
      /\ \A i \in Jobs : i # j => leanPc'[i] = leanPc[i] /\ mine'[i] = mine[i]
  BY <1>0, <1>p DEF Goes, QuietMove
<1>1. RecordedOnce' /\ verdicts' \in [Calls -> Seq(Verdicts)] /\ leanPc' \in [Jobs -> States]
  BY <1>0, <1>t, GoesRecorded
<1>2. LockInv' /\ lock' \in Jobs \cup {Nobody}
  BY <1>0, <1>t, GoesLocked
<1>3. RuntimeTypes'
  <2>1. LeanTypeOK'
    BY <1>0, <1>1, <1>2, <1>t DEF RuntimeTypes, LeanTypeOK, QuietMove, States, Verdicts
  <2> QED
    BY <1>0, <1>1, <1>t, <2>1 DEF RuntimeTypes, QuietMove
<1>4. MineInv'
  BY <1>0, <1>t, <1>m DEF MineInv, QuietMove
<1>5. ServerInv'
  <2>1. ASSUME NEW n \in Clients, server[n] = "starting"
        PROVE  \E i \in Jobs : leanPc'[i] \in {"start", "replace"} /\ mine'[i] = n
    <3>1. PICK i \in Jobs : leanPc[i] \in {"start", "replace"} /\ mine[i] = n
      BY <1>t, <2>1 DEF ServerInv
    <3> QED
      BY <1>m, <3>1 DEF QuietMove
  <2> QED
    BY <1>0, <1>t, <2>1 DEF ServerInv
<1>6. EventInv'
  <2>1. \A i \in Jobs : leanPc'[i] = "reopen" => leanPc[i] = "reopen"
    BY <1>m DEF QuietMove
  <2> QED
    BY <1>0, <1>t, <2>1 DEF EventInv, HistoryAlternates, Announced
<1>7. ClosedInv'
  BY <1>0, <1>t DEF ClosedInv, QuietMove
<1> QED
  BY <1>1, <1>2, <1>3, <1>4, <1>5, <1>6, <1>7 DEF LeanIInv

-----------------------------------------------------------------------------
(* Steps that start, close and announce nothing                            *)

\* A job goes on, and only where it stands changes.
LEMMA GotoQuietly ==
  ASSUME LeanIInv, NEW j \in Jobs, NEW to \in States, Goto(j, to), Holds(j, to),
         leanPc[j] \in States \ (Over \cup {"start", "replace"}),
         to \notin {"start", "replace", "closing", "reopen", "returned", "failed", "mismatch",
                    "stale"},
         to \in {"call", "restart", "retry"} => mine[j] \in Clients,
         opened' \subseteq Documents, prepared' \in BOOLEAN, closed => Active(j),
         UNCHANGED <<client, rooted, runtimeId, closed, worldVars, server, events>>
  PROVE  LeanIInv'
<1>1. QuietMove(j, to)
  BY DEF LeanIInv, RuntimeTypes, LeanTypeOK, QuietMove, Goes, Goto
<1> QED
  BY <1>1, QuietMoveIInv

\* A job fails and lets go of the lock.
LEMMA FailsQuietly ==
  ASSUME LeanIInv, NEW j \in Jobs, NEW how \in {"failed", "mismatch", "stale"}, LeanFail(j, how),
         Holds(j, how), leanPc[j] \in States \ (Over \cup {"start", "replace", "idle"}),
         prepared' \in BOOLEAN,
         UNCHANGED <<client, rooted, runtimeId, closed, worldVars, opened, server, events>>
  PROVE  LeanIInv'
<1>1. QuietMove(j, how)
  BY DEF LeanIInv, RuntimeTypes, LeanTypeOK, QuietMove, Goes, LeanFail, States, Over, Active
<1> QED
  BY <1>1, QuietMoveIInv

\* A job returns and lets go of the lock.
LEMMA SucceedsQuietly ==
  ASSUME LeanIInv, NEW j \in Jobs, Succeed(j), Holds(j, "returned"),
         leanPc[j] \in States \ (Over \cup {"start", "replace", "idle"}),
         prepared' \in BOOLEAN,
         UNCHANGED <<client, rooted, runtimeId, closed, worldVars, opened, server, events>>
  PROVE  LeanIInv'
<1>1. QuietMove(j, "returned")
  BY DEF LeanIInv, RuntimeTypes, LeanTypeOK, QuietMove, Goes, Succeed, States, Over, Active
<1> QED
  BY <1>1, QuietMoveIInv

\* A job goes on with a client: a call uses it, another job asks for the lock first.
LEMMA WithQuietly ==
  ASSUME LeanIInv, NEW j \in Jobs, NEW n \in Clients, NEW label \in {"call", "retry"},
         With(j, n, label), lock = Nobody, lock' = lock,
         leanPc[j] \in {"ensure", "restart"},
         UNCHANGED <<runtimeVars, worldVars, opened, server, events>>
  PROVE  LeanIInv'
<1>1. ASSUME NEW to \in {label, "want"}, leanPc' = [leanPc EXCEPT ![j] = to]
      PROVE  LeanIInv'
  <2>1. QuietMove(j, to)
    BY <1>1, LeanConstants
    DEF LeanIInv, RuntimeTypes, LeanTypeOK, QuietMove, Goes, Holds, With, States, Over, Locked,
        Active, runtimeVars
  <2> QED
    BY <2>1, QuietMoveIInv
<1> QED
  BY <1>1 DEF With

\* Only what a job has still to do changes, or what its lease allows.
LEMMA StandsStill ==
  ASSUME LeanIInv, UNCHANGED <<leanPc, mine, verdicts, lock, runtimeVars, leanCrashes, opened,
                               server, events>>,
         todo' \in [Jobs -> SUBSET (Documents \cup (1..DIAGNOSTICS_ATTEMPTS))],
         leased' \subseteq Documents
  PROVE  LeanIInv'
<1>1. RuntimeTypes'
  BY DEF LeanIInv, RuntimeTypes, LeanTypeOK, runtimeVars
<1>2. LockInv' /\ MineInv' /\ ServerInv' /\ RecordedOnce'
  BY DEF LeanIInv, LockInv, MineInv, ServerInv, RecordedOnce, runtimeVars
<1>3. EventInv' /\ ClosedInv'
  BY DEF LeanIInv, EventInv, HistoryAlternates, Announced, ClosedInv, Active, runtimeVars
<1> QED
  BY <1>1, <1>2, <1>3 DEF LeanIInv

\* The gateway's targets turn a request down, or the broker does (Ask).
LEMMA AskLeanIInv ==
  ASSUME LeanIInv, NEW c \in Calls, Reject(c) \/ Ask(c)
  PROVE  LeanIInv'
<1>1. ASSUME NEW to \in {"denied", "ensure"}, leanPc[c] = "idle", ~closed, Goto(c, to),
             opened' \subseteq Documents, UNCHANGED <<runtimeVars, worldVars, lock, server, events>>
      PROVE  LeanIInv'
  <2>1. Holds(c, to)
    BY <1>1, LeanConstants DEF LeanIInv, LockInv, Holds, Locked
  <2> QED
    BY <1>1, <2>1, LeanConstants, GotoQuietly
    DEF LeanIInv, RuntimeTypes, LeanTypeOK, States, Over, runtimeVars
<1>2. DocumentOf[c] \in Documents /\ opened \subseteq Documents
  BY RuntimeAssumption DEF LeanIInv, RuntimeTypes, LeanTypeOK
<1> QED
  BY <1>1, <1>2 DEF Reject, Ask, Goto

\* A job of the project is asked for.
LEMMA AskLockedLeanIInv ==
  ASSUME LeanIInv, NEW j \in Asked, AskLocked(j)
  PROVE  LeanIInv'
<1>1. PICK to \in {"want", "ensure"} : Goto(j, to)
  BY DEF AskLocked
<1>2. Holds(j, to)
  BY LeanConstants DEF AskLocked, LeanIInv, LockInv, Holds, Locked
<1> QED
  BY <1>1, <1>2, LeanConstants, GotoQuietly
  DEF AskLocked, LeanIInv, RuntimeTypes, LeanTypeOK, States, Over, runtimeVars

\* _ensure_started finds a client.
LEMMA EnsureFindsLeanIInv ==
  ASSUME LeanIInv, NEW j \in Jobs, EnsureFinds(j)
  PROVE  LeanIInv'
<1>1. client \in Clients
  BY DEF EnsureFinds, LeanIInv, RuntimeTypes, LeanTypeOK
<1>2. CASE rooted
  BY <1>1, <1>2, WithQuietly DEF EnsureFinds
<1>3. CASE ~rooted
  <2>1. LeanFail(j, "mismatch") /\ Holds(j, "mismatch")
    BY <1>3, LeanConstants DEF EnsureFinds, Holds, Locked
  <2> QED
    BY <2>1, FailsQuietly
    DEF EnsureFinds, LeanIInv, RuntimeTypes, LeanTypeOK, States, Over, runtimeVars
<1> QED
  BY <1>2, <1>3

\* An answer to a call, the first or the second one.
LEMMA ReplyLeanIInv ==
  ASSUME LeanIInv, NEW c \in Calls, LeanReply(c) \/ RetryReply(c)
  PROVE  LeanIInv'
<1>0. /\ leanPc[c] \in {"call", "retry"} /\ mine[c] \in Clients
      /\ UNCHANGED <<runtimeVars, worldVars, lock, opened, server, events>>
  BY LeanConstants DEF LeanReply, RetryReply, LeanIInv, MineInv
<1>1. lock # c
  BY <1>0, LeanConstants DEF LeanIInv, LockInv, Locked
<1>2. Succeed(c) \/ Goto(c, "restart") \/ LeanFail(c, "failed")
  BY DEF LeanReply, RetryReply
<1>3. Holds(c, "returned") /\ Holds(c, "restart") /\ Holds(c, "failed")
  BY <1>0, <1>1 DEF Holds, Locked
<1>4. /\ leanPc[c] \in States \ (Over \cup {"start", "replace", "idle"})
      /\ prepared' \in BOOLEAN /\ opened' \subseteq Documents
  BY <1>0 DEF LeanIInv, RuntimeTypes, LeanTypeOK, States, Over, runtimeVars
<1>5. CASE Succeed(c)
  BY <1>0, <1>3, <1>4, <1>5, LeanConstants, SucceedsQuietly DEF runtimeVars
<1>6. CASE Goto(c, "restart")
  BY <1>0, <1>3, <1>4, <1>6, LeanConstants, GotoQuietly DEF runtimeVars, Active, States, Over
<1>7. CASE LeanFail(c, "failed")
  BY <1>0, <1>3, <1>4, <1>7, LeanConstants, FailsQuietly DEF runtimeVars
<1> QED
  BY <1>2, <1>5, <1>6, <1>7

\* Somebody else has replaced the client.
LEMMA RestartElsewhereLeanIInv ==
  ASSUME LeanIInv, NEW c \in Calls, RestartElsewhere(c)
  PROVE  LeanIInv'
<1>1. CASE client = NoClient
  <2>1. LeanFail(c, "failed") /\ Holds(c, "failed")
    BY <1>1, LeanConstants DEF RestartElsewhere, Holds, Locked
  <2> QED
    BY <2>1, LeanConstants, FailsQuietly
    DEF RestartElsewhere, LeanIInv, RuntimeTypes, LeanTypeOK, States, Over, runtimeVars
<1>2. CASE client # NoClient
  <2>1. client \in Clients
    BY <1>2 DEF LeanIInv, RuntimeTypes, LeanTypeOK
  <2> QED
    BY <1>2, <2>1, LeanConstants, WithQuietly DEF RestartElsewhere
<1> QED
  BY <1>1, <1>2

\* The replacement reads a document again.
LEMMA ReopenLeanIInv ==
  ASSUME LeanIInv, NEW c \in Calls, Reopen(c)
  PROVE  LeanIInv'
<1>0. /\ leanPc[c] = "reopen"
      /\ UNCHANGED <<runtimeVars, worldVars, opened, server, events>>
  BY DEF Reopen
<1>1. lock = c
  BY <1>0, LeanConstants DEF LeanIInv, LockInv, Locked
<1>2. ASSUME NEW how \in {"stale", "failed"}, LeanFail(c, how), lock' = Nobody
      PROVE  LeanIInv'
  <2>1. Holds(c, how)
    BY <1>1, <1>2 DEF Holds, Locked
  <2>2. leanPc[c] \in States \ (Over \cup {"start", "replace", "idle"})
    BY <1>0 DEF States, Over
  <2>3. prepared' \in BOOLEAN
    BY <1>0 DEF LeanIInv, RuntimeTypes, LeanTypeOK, runtimeVars
  <2> QED
    BY <1>0, <1>2, <2>1, <2>2, <2>3, LeanConstants, FailsQuietly DEF runtimeVars
<1>3. ASSUME NEW d, todo' = [todo EXCEPT ![c] = @ \ {d}], UNCHANGED <<leanPc, mine, verdicts, lock>>
      PROVE  LeanIInv'
  BY <1>0, <1>3, LeanConstants, StandsStill
  DEF LeanIInv, RuntimeTypes, LeanTypeOK, worldVars
<1> QED
  BY <1>2, <1>3 DEF Reopen

-----------------------------------------------------------------------------
(* Jobs that hold the lock                                                 *)

\* A job that stands at `label` and has the lock can go on or end.
LEMMA LockedGoesOn ==
  ASSUME LeanIInv, NEW j \in Jobs, leanPc[j] \in {"diagnostics", "build", "verify", "hover"},
         prepared' \in BOOLEAN,
         UNCHANGED <<client, rooted, runtimeId, closed, worldVars, opened, server, events>>,
         \/ /\ lock' = Nobody
            /\ LeanFail(j, "failed") \/ Succeed(j)
         \/ /\ lock' = lock
            /\ \E to \in {"diagnostics", "build", "verify", "hover"} : Goto(j, to)
  PROVE  LeanIInv'
<1>1. lock = j
  BY DEF LeanIInv, LockInv, Locked
<1>2. leanPc[j] \in States \ (Over \cup {"start", "replace", "idle"})
  BY DEF States, Over
<1>3. CASE lock' = Nobody /\ (LeanFail(j, "failed") \/ Succeed(j))
  <2>1. Holds(j, "failed") /\ Holds(j, "returned")
    BY <1>1, <1>3 DEF Holds, Locked
  <2> QED
    BY <1>2, <1>3, <2>1, FailsQuietly, SucceedsQuietly
<1>4. ASSUME NEW to \in {"diagnostics", "build", "verify", "hover"}, lock' = lock, Goto(j, to)
      PROVE  LeanIInv'
  <2>1. Holds(j, to)
    BY <1>1, <1>4 DEF Holds, Locked
  <2>2. to \in States /\ opened' \subseteq Documents /\ Active(j)
    BY <1>2, <1>4 DEF LeanIInv, RuntimeTypes, LeanTypeOK, States, Active
  <2> QED
    BY <1>2, <1>4, <2>1, <2>2, GotoQuietly
<1> QED
  BY <1>3, <1>4

\* _promotion_check takes the lock again.
LEMMA CheckEnterLeanIInv ==
  ASSUME LeanIInv, CheckEnter
  PROVE  LeanIInv'
<1>1. Goes(Check, "diagnostics")
  BY DEF CheckEnter, Goes, States, Over
<1>2. Holds(Check, "diagnostics") /\ Active(Check)
  BY DEF CheckEnter, Holds, Locked, Active, Over
<1>3. todo' \in [Jobs -> SUBSET (Documents \cup (1..DIAGNOSTICS_ATTEMPTS))]
  BY LeanConstants DEF CheckEnter, LeanIInv, RuntimeTypes
<1>4. QuietMove(Check, "diagnostics")
  BY <1>1, <1>2, <1>3
  DEF CheckEnter, QuietMove, LeanIInv, RuntimeTypes, LeanTypeOK, runtimeVars
<1> QED
  BY <1>4, LeanConstants, QuietMoveIInv

\* _complete_diagnostics gets an answer.
LEMMA CheckDiagnosticsLeanIInv ==
  ASSUME LeanIInv, LeanCheckDiagnostics
  PROVE  LeanIInv'
<1>0. /\ leanPc[Check] = "diagnostics"
      /\ UNCHANGED <<runtimeVars, worldVars, opened, server, events>>
  BY DEF LeanCheckDiagnostics
<1>1. prepared' \in BOOLEAN
  BY <1>0 DEF LeanIInv, RuntimeTypes, LeanTypeOK, runtimeVars
<1>2. \/ Goto(Check, "build") /\ lock' = lock
      \/ /\ todo' = [todo EXCEPT ![Check] = @ \ {Cardinality(@)}]
         /\ UNCHANGED <<leanPc, mine, verdicts, lock>>
      \/ LeanFail(Check, "failed") /\ lock' = Nobody
  BY DEF LeanCheckDiagnostics
<1>3. CASE Goto(Check, "build") /\ lock' = lock
  BY <1>0, <1>1, <1>3, LeanConstants, LockedGoesOn DEF runtimeVars
<1>4. CASE LeanFail(Check, "failed") /\ lock' = Nobody
  BY <1>0, <1>1, <1>4, LeanConstants, LockedGoesOn DEF runtimeVars
<1>5. CASE /\ todo' = [todo EXCEPT ![Check] = @ \ {Cardinality(@)}]
           /\ UNCHANGED <<leanPc, mine, verdicts, lock>>
  <2>1. /\ todo' \in [Jobs -> SUBSET (Documents \cup (1..DIAGNOSTICS_ATTEMPTS))]
        /\ leased' \subseteq Documents
    BY <1>0, <1>5, LeanConstants DEF LeanIInv, RuntimeTypes, LeanTypeOK, worldVars
  <2> QED
    BY <1>0, <1>5, <2>1, StandsStill DEF worldVars
<1> QED
  BY <1>2, <1>3, <1>4, <1>5

\* build, verify and hover of the promotion check.
LEMMA CheckStepLeanIInv ==
  ASSUME LeanIInv, NEW at \in {"build", "verify", "hover"},
         NEW to \in {"verify", "hover", "returned"}, CheckStep(at, to)
  PROVE  LeanIInv'
<1>1. /\ leanPc[Check] \in {"diagnostics", "build", "verify", "hover"}
      /\ UNCHANGED <<runtimeVars, worldVars, opened, server, events>>
  BY DEF CheckStep
<1>2. prepared' \in BOOLEAN
  BY <1>1 DEF LeanIInv, RuntimeTypes, LeanTypeOK, runtimeVars
<1>3. \/ to \in {"verify", "hover"} /\ Goto(Check, to) /\ lock' = lock
      \/ Succeed(Check) /\ lock' = Nobody
      \/ LeanFail(Check, "failed") /\ lock' = Nobody
  BY DEF CheckStep
<1> QED
  BY <1>1, <1>2, <1>3, LeanConstants, LockedGoesOn DEF runtimeVars

\* prepare gets the lock, builds and asks for the diagnostics.
LEMMA PrepareLeanIInv ==
  ASSUME LeanIInv, PrepareEnter \/ PrepareBuild \/ PrepareDiagnostics
  PROVE  LeanIInv'
<1>1. CASE PrepareEnter
  <2>1. /\ leanPc[Prepare] = "want" /\ lock = Nobody
        /\ UNCHANGED <<runtimeVars, worldVars, opened, server, events>>
    BY <1>1 DEF PrepareEnter
  <2>2. /\ leanPc[Prepare] \in States \ (Over \cup {"start", "replace", "idle"})
        /\ "build" \in States /\ Active(Prepare)
    BY <2>1 DEF States, Over, Active
  <2>3. prepared' \in BOOLEAN /\ opened' \subseteq Documents
    BY <2>1 DEF LeanIInv, RuntimeTypes, LeanTypeOK, runtimeVars
  <2>4. CASE Succeed(Prepare) /\ lock' = lock
    <3>1. Holds(Prepare, "returned")
      BY <2>1, <2>4, LeanConstants DEF Holds, Locked
    <3> QED
      BY <2>1, <2>2, <2>3, <2>4, <3>1, LeanConstants, SucceedsQuietly DEF runtimeVars
  <2>5. CASE Goto(Prepare, "build") /\ lock' = Prepare
    <3>1. Holds(Prepare, "build")
      BY <2>1, <2>5 DEF Holds, Locked
    <3> QED
      BY <2>1, <2>2, <2>3, <2>5, <3>1, LeanConstants, GotoQuietly DEF runtimeVars
  <2> QED
    BY <1>1, <2>4, <2>5 DEF PrepareEnter
<1>2. CASE PrepareBuild \/ PrepareDiagnostics
  <2>1. /\ leanPc[Prepare] \in {"diagnostics", "build", "verify", "hover"}
        /\ UNCHANGED <<client, rooted, runtimeId, closed, worldVars, opened, server, events>>
    BY <1>2 DEF PrepareBuild, PrepareDiagnostics, runtimeVars
  <2>2. prepared' \in BOOLEAN
    BY <1>2 DEF PrepareBuild, PrepareDiagnostics, LeanIInv, RuntimeTypes, LeanTypeOK, runtimeVars
  <2>3. \/ Goto(Prepare, "diagnostics") /\ lock' = lock
        \/ LeanFail(Prepare, "failed") /\ lock' = Nobody
        \/ Succeed(Prepare) /\ lock' = Nobody
    BY <1>2 DEF PrepareBuild, PrepareDiagnostics
  <2> QED
    BY <2>1, <2>2, <2>3, LeanConstants, LockedGoesOn
<1> QED
  BY <1>1, <1>2

\* _build takes the client that is there, and gets its answer.
LEMMA BuildLeanIInv ==
  ASSUME LeanIInv, BuildEnter \/ BuildReply
  PROVE  LeanIInv'
<1>1. CASE BuildEnter
  <2>1. /\ leanPc[Build] = "want" /\ lock = Nobody
        /\ UNCHANGED <<runtimeVars, worldVars, opened, server, events>>
    BY <1>1 DEF BuildEnter
  <2>2. /\ leanPc[Build] \in States \ (Over \cup {"start", "replace", "idle"})
        /\ "build" \in States /\ Active(Build)
    BY <2>1 DEF States, Over, Active
  <2>3. prepared' \in BOOLEAN /\ opened' \subseteq Documents
    BY <2>1 DEF LeanIInv, RuntimeTypes, LeanTypeOK, runtimeVars
  <2>4. CASE client = NoClient
    <3>1. Holds(Build, "failed")
      BY <1>1, <2>1, <2>4, LeanConstants DEF BuildEnter, Holds, Locked
    <3> QED
      BY <1>1, <2>1, <2>2, <2>3, <2>4, <3>1, LeanConstants, FailsQuietly DEF BuildEnter, runtimeVars
  <2>5. CASE client # NoClient
    <3>1. Goes(Build, "build")
      BY <1>1, <2>2, <2>5 DEF BuildEnter, Goes
    <3>2. Holds(Build, "build")
      BY <1>1, <2>1, <2>5 DEF BuildEnter, Holds, Locked
    <3>3. mine' \in [Jobs -> Clients \cup {NoClient}] /\ \A i \in Jobs : i # Build => mine'[i] = mine[i]
      BY <1>1, <2>5, LeanConstants DEF BuildEnter, LeanIInv, RuntimeTypes, LeanTypeOK
    <3>4. todo' \in [Jobs -> SUBSET (Documents \cup (1..DIAGNOSTICS_ATTEMPTS))]
      BY <1>1, <2>5 DEF BuildEnter, LeanIInv, RuntimeTypes
    <3>5. QuietMove(Build, "build")
      BY <2>1, <2>2, <2>3, <3>1, <3>2, <3>3, <3>4 DEF QuietMove, runtimeVars
    <3> QED
      BY <3>5, LeanConstants, QuietMoveIInv
  <2> QED
    BY <2>4, <2>5
<1>2. CASE BuildReply
  <2>1. prepared' \in BOOLEAN
    BY <1>2 DEF BuildReply, LeanIInv, RuntimeTypes, LeanTypeOK, runtimeVars
  <2> QED
    BY <1>2, <2>1, LeanConstants, LockedGoesOn DEF BuildReply, runtimeVars
<1> QED
  BY <1>1, <1>2

\* A lease ends, and no job notices before it resolves its document again.
LEMMA EndLeaseLeanIInv ==
  ASSUME LeanIInv, NEW d \in Documents, LeanEndLease(d)
  PROVE  LeanIInv'
<1>1. /\ todo' \in [Jobs -> SUBSET (Documents \cup (1..DIAGNOSTICS_ATTEMPTS))]
      /\ leased' \subseteq Documents
  BY DEF LeanEndLease, LeanIInv, RuntimeTypes, LeanTypeOK, jobVars
<1> QED
  BY <1>1, StandsStill DEF LeanEndLease, jobVars

-----------------------------------------------------------------------------
(* Steps that start or close a server, or announce one                     *)

\* A step under the lock keeps the types, the lock and the records; every other job stands
\* where it stood and outside the lock.
LEMMA LockedMove ==
  ASSUME LeanIInv, NEW j \in Jobs, NEW to, Goes(j, to), Holds(j, to),
         lock \in {Nobody, j}, Active(j),
         mine' \in [Jobs -> Clients \cup {NoClient}],
         \A i \in Jobs : i # j => mine'[i] = mine[i],
         todo' \in [Jobs -> SUBSET (Documents \cup (1..DIAGNOSTICS_ATTEMPTS))],
         server' \in [Clients -> {"none", "starting", "up", "dead", "closed", "lost"}],
         client' \in Clients \cup {NoClient}, runtimeId' \in Clients \cup {NoClient},
         rooted' \in BOOLEAN, events' \in Seq(RuntimeEvents),
         UNCHANGED <<prepared, closed, opened, worldVars>>
  PROVE  /\ RuntimeTypes' /\ LockInv' /\ RecordedOnce' /\ ClosedInv'
         /\ leanPc'[j] = to
         /\ \A i \in Jobs \ {j} :
              leanPc'[i] = leanPc[i] /\ mine'[i] = mine[i] /\ leanPc[i] \notin Locked
<1>t. RuntimeTypes /\ LockInv /\ RecordedOnce /\ ClosedInv
  BY DEF LeanIInv
<1>p. leanPc \in [Jobs -> States]
  BY <1>t DEF RuntimeTypes, LeanTypeOK, States
<1>1. RecordedOnce' /\ verdicts' \in [Calls -> Seq(Verdicts)] /\ leanPc' \in [Jobs -> States]
  BY <1>t, GoesRecorded
<1>2. LockInv' /\ lock' \in Jobs \cup {Nobody}
  BY <1>t, GoesLocked
<1>3. RuntimeTypes'
  <2>1. \A i \in 1..Len(events') :
           /\ events'[i].kind \in {"Started", "Crashed", "Restarted", "Stopped"}
           /\ events'[i].id \in Clients
    <3>1. \A i \in 1..Len(events') : events'[i] \in RuntimeEvents
      OBVIOUS
    <3> QED
      BY <3>1 DEF RuntimeEvents
  <2>2. LeanTypeOK'
    BY <1>1, <1>2, <1>t, <2>1 DEF RuntimeTypes, LeanTypeOK, States, Verdicts, worldVars
  <2> QED
    BY <1>1, <2>2 DEF RuntimeTypes
<1>4. leanPc'[j] = to /\ \A i \in Jobs \ {j} : leanPc'[i] = leanPc[i] /\ leanPc[i] \notin Locked
  BY <1>t, <1>p, LeanConstants DEF Goes, LockInv
<1>5. ClosedInv'
  BY <1>t DEF ClosedInv
<1> QED
  BY <1>1, <1>2, <1>3, <1>4, <1>5

\* An event is appended: a server is announced only when none is.
LEMMA RecordAlternates ==
  ASSUME events \in Seq(RuntimeEvents), HistoryAlternates, NEW id \in Clients,
         NEW kind \in {"Started", "Crashed", "Restarted", "Stopped"}, Record(kind, id),
         ~Announced \/ kind \in {"Crashed", "Stopped"}
  PROVE  /\ HistoryAlternates' /\ events' \in Seq(RuntimeEvents)
         /\ Announced' => kind \in {"Started", "Restarted"}
<1> DEFINE e == [kind |-> kind, id |-> id]
<1>1. e \in RuntimeEvents /\ e.kind = kind
  BY DEF RuntimeEvents
<1>2. events' = Append(events, e)
  BY DEF Record
<1> HIDE DEF e
<1>3. events' \in Seq(RuntimeEvents) /\ Len(events') = Len(events) + 1 /\ Len(events) \in Nat
  BY <1>1, <1>2
<1>4. \A i \in 1..Len(events) : events'[i] = events[i]
  BY <1>1, <1>2
<1>5. events'[Len(events')] = e
  BY <1>1, <1>2, <1>3
<1>6. HistoryAlternates'
  <2> SUFFICES ASSUME NEW i \in 1..Len(events), events'[i].kind \in {"Started", "Restarted"}
               PROVE  events'[i + 1].kind \in {"Crashed", "Stopped"}
    BY <1>3 DEF HistoryAlternates
  <2>1. events[i].kind \in {"Started", "Restarted"}
    BY <1>4
  <2>2. CASE i = Len(events)
    <3>1. Announced
      BY <1>3, <2>1, <2>2 DEF Announced
    <3> QED
      BY <1>1, <1>3, <1>5, <2>2, <3>1
  <2>3. CASE i # Len(events)
    <3>1. i \in 1..(Len(events) - 1) /\ i + 1 \in 1..Len(events)
      BY <1>3, <2>3
    <3> QED
      BY <1>4, <2>1, <3>1 DEF HistoryAlternates
  <2> QED
    BY <2>2, <2>3
<1>7. Announced' => kind \in {"Started", "Restarted"}
  BY <1>1, <1>5 DEF Announced
<1> QED
  BY <1>3, <1>6, <1>7

\* _ensure_started starts a client.
LEMMA EnsureStartsLeanIInv ==
  ASSUME LeanIInv, NEW j \in Jobs, EnsureStarts(j)
  PROVE  LeanIInv'
<1>1. PICK n \in Fresh : /\ server' = [server EXCEPT ![n] = "starting"]
                         /\ mine' = [mine EXCEPT ![j] = n]
  BY DEF EnsureStarts
<1>2. /\ leanPc[j] = "ensure" /\ lock = Nobody /\ client = NoClient /\ lock' = j
      /\ leanPc' = [leanPc EXCEPT ![j] = "start"]
      /\ UNCHANGED <<todo, verdicts, client, rooted, runtimeId, prepared, closed, worldVars,
                     opened, events>>
  BY DEF EnsureStarts, runtimeVars
<1>3. n \in Clients /\ server[n] = "none"
  BY DEF Fresh
<1>t. /\ RuntimeTypes /\ MineInv /\ ServerInv /\ EventInv
      /\ mine \in [Jobs -> Clients \cup {NoClient}]
      /\ server \in [Clients -> {"none", "starting", "up", "dead", "closed", "lost"}]
  BY DEF LeanIInv, RuntimeTypes, LeanTypeOK
<1>4. Goes(j, "start") /\ Holds(j, "start") /\ Active(j)
  BY <1>2 DEF Goes, Holds, States, Over, Locked, Active
<1>5. /\ RuntimeTypes' /\ LockInv' /\ RecordedOnce' /\ ClosedInv'
      /\ leanPc'[j] = "start"
      /\ \A i \in Jobs \ {j} :
           leanPc'[i] = leanPc[i] /\ mine'[i] = mine[i] /\ leanPc[i] \notin Locked
  BY <1>1, <1>2, <1>3, <1>4, <1>t, LockedMove DEF RuntimeTypes, LeanTypeOK
<1>6. server'[n] = "starting" /\ mine'[j] = n /\ \A m \in Clients : m # n => server'[m] = server[m]
  BY <1>1, <1>3, <1>t
<1>7. MineInv'
  BY <1>2, <1>3, <1>5, <1>6, <1>t DEF MineInv, Locked
<1>8. ServerInv'
  BY <1>2, <1>5, <1>6, <1>t DEF ServerInv, Locked
<1>9. EventInv'
  BY <1>2, <1>5, <1>t DEF EventInv, HistoryAlternates, Announced, Locked
<1> QED
  BY <1>5, <1>7, <1>8, <1>9 DEF LeanIInv

\* The client is started and its runtime announced.
LEMMA StartedLeanIInv ==
  ASSUME LeanIInv, NEW j \in Jobs, Started(j)
  PROVE  LeanIInv'
<1> DEFINE n == mine[j]
<1>1. /\ leanPc[j] = "start" /\ lock' = Nobody /\ Record("Started", n)
      /\ server' = [server EXCEPT ![n] = "up"]
      /\ client' = n /\ rooted' = TRUE /\ runtimeId' = n
      /\ With(j, n, "call")
      /\ UNCHANGED <<prepared, closed, worldVars, opened>>
  BY DEF Started
<1>t. /\ RuntimeTypes /\ LockInv /\ MineInv /\ ServerInv /\ EventInv
      /\ mine \in [Jobs -> Clients \cup {NoClient}]
      /\ server \in [Clients -> {"none", "starting", "up", "dead", "closed", "lost"}]
  BY DEF LeanIInv, RuntimeTypes, LeanTypeOK
<1>2. n \in Clients /\ server[n] = "starting" /\ client = NoClient /\ lock = j
  BY <1>1, <1>t DEF MineInv, LockInv, Locked
<1>3. PICK to \in {"call", "want"} : leanPc' = [leanPc EXCEPT ![j] = to]
  BY <1>1 DEF With
<1>4. mine' = [mine EXCEPT ![j] = n] /\ UNCHANGED <<todo, verdicts>>
  BY <1>1 DEF With
<1> HIDE DEF n
<1>5. HistoryAlternates' /\ events' \in Seq(RuntimeEvents)
  BY <1>1, <1>2, <1>t, RecordAlternates DEF EventInv, RuntimeTypes
<1>6. Goes(j, to) /\ Holds(j, to) /\ Active(j)
  BY <1>1, <1>2, <1>3, <1>4, LeanConstants DEF Goes, Holds, States, Over, Locked, Active
<1>7. /\ RuntimeTypes' /\ LockInv' /\ RecordedOnce' /\ ClosedInv'
      /\ leanPc'[j] = to
      /\ \A i \in Jobs \ {j} :
           leanPc'[i] = leanPc[i] /\ mine'[i] = mine[i] /\ leanPc[i] \notin Locked
  BY <1>1, <1>2, <1>4, <1>5, <1>6, <1>t, LockedMove DEF RuntimeTypes, LeanTypeOK
<1>8. server'[n] = "up" /\ mine'[j] = n /\ \A m \in Clients : m # n => server'[m] = server[m]
  BY <1>1, <1>2, <1>4, <1>t
<1>9. MineInv'
  BY <1>2, <1>3, <1>7, <1>8, <1>t DEF MineInv, Locked
<1>10. ServerInv'
  <2>1. ASSUME NEW m \in Clients, server'[m] = "starting"
        PROVE  FALSE
    <3>1. server[m] = "starting" /\ m # n
      BY <1>8, <2>1
    <3>2. PICK i \in Jobs : leanPc[i] \in {"start", "replace"} /\ mine[i] = m
      BY <1>t, <3>1 DEF ServerInv
    <3> QED
      BY <1>7, <3>1, <3>2 DEF Locked, n
  <2>2. \A m \in Clients : server'[m] = "up" => client' = m
    BY <1>1, <1>2, <1>8, <1>t, LeanConstants DEF ServerInv
  <2> QED
    BY <1>1, <2>1, <2>2 DEF ServerInv
<1>11. EventInv'
  BY <1>1, <1>2, <1>3, <1>5, <1>7, LeanConstants DEF EventInv, Locked
<1> QED
  BY <1>7, <1>9, <1>10, <1>11 DEF LeanIInv

\* A start or a replacement fails, or is cancelled: its server is given up.
LEMMA StartEndsLeanIInv ==
  ASSUME LeanIInv, NEW j \in Jobs, leanPc[j] \in {"start", "replace"},
         NEW left \in {"closed", "lost"}, server' = [server EXCEPT ![mine[j]] = left],
         lock' = Nobody,
         \/ LeanFail(j, "failed")
         \/ leanPc' = [leanPc EXCEPT ![j] = "cancelled"] /\ UNCHANGED <<mine, todo, verdicts>>,
         UNCHANGED <<runtimeVars, worldVars, opened, events>>
  PROVE  LeanIInv'
<1>t. /\ RuntimeTypes /\ LockInv /\ MineInv /\ ServerInv /\ EventInv
      /\ mine \in [Jobs -> Clients \cup {NoClient}]
      /\ server \in [Clients -> {"none", "starting", "up", "dead", "closed", "lost"}]
  BY DEF LeanIInv, RuntimeTypes, LeanTypeOK
<1>1. mine[j] \in Clients /\ client = NoClient /\ lock = j /\ Active(j)
  BY <1>t DEF MineInv, LockInv, Locked, Active, Over
<1>2. PICK to \in {"failed", "cancelled"} : Goes(j, to)
  BY DEF LeanFail, Goes, States, Over
<1>3. Holds(j, to) /\ mine' = mine /\ todo' = todo
  BY <1>1, <1>2 DEF Holds, Locked, LeanFail
<1>4. UNCHANGED <<client, rooted, runtimeId, prepared, closed>>
  BY DEF runtimeVars
<1>5. /\ RuntimeTypes' /\ LockInv' /\ RecordedOnce' /\ ClosedInv'
      /\ leanPc'[j] = to
      /\ \A i \in Jobs \ {j} :
           leanPc'[i] = leanPc[i] /\ mine'[i] = mine[i] /\ leanPc[i] \notin Locked
  BY <1>1, <1>2, <1>3, <1>4, <1>t, LockedMove DEF RuntimeTypes, LeanTypeOK
<1>6. server'[mine[j]] = left /\ \A m \in Clients : m # mine[j] => server'[m] = server[m]
  BY <1>1, <1>t
<1>7. MineInv'
  BY <1>2, <1>3, <1>5, <1>t DEF MineInv, Locked
<1>8. ServerInv'
  <2>1. ASSUME NEW m \in Clients, server'[m] = "starting"
        PROVE  FALSE
    <3>1. server[m] = "starting" /\ m # mine[j]
      BY <1>6, <2>1
    <3>2. PICK i \in Jobs : leanPc[i] \in {"start", "replace"} /\ mine[i] = m
      BY <1>t, <3>1 DEF ServerInv
    <3> QED
      BY <1>5, <3>1, <3>2 DEF Locked
  <2> QED
    BY <1>4, <1>6, <1>t, <2>1 DEF ServerInv
<1>9. EventInv'
  BY <1>2, <1>4, <1>5, <1>t DEF EventInv, HistoryAlternates, Announced, Locked
<1> QED
  BY <1>5, <1>7, <1>8, <1>9 DEF LeanIInv

\* LeanMcpClient.start closes what it opened.
LEMMA StartFailsLeanIInv ==
  ASSUME LeanIInv, NEW j \in Jobs, StartFails(j) \/ LeanReplaceFails(j)
  PROVE  LeanIInv'
BY StartEndsLeanIInv DEF StartFails, LeanReplaceFails

\* The failing client is closed before it is replaced.
LEMMA RestartBeginLeanIInv ==
  ASSUME LeanIInv, NEW c \in Calls, RestartBegin(c)
  PROVE  LeanIInv'
<1>1. /\ leanPc[c] = "restart" /\ lock = Nobody /\ client = mine[c] /\ lock' = c
      /\ server' = [server EXCEPT ![mine[c]] = "closed"]
      /\ leanPc' = [leanPc EXCEPT ![c] = "closing"]
      /\ UNCHANGED <<mine, todo, verdicts, client, rooted, runtimeId, prepared, closed, worldVars,
                     opened, events>>
  BY DEF RestartBegin, Goto, runtimeVars
<1>t. /\ RuntimeTypes /\ MineInv /\ ServerInv /\ EventInv /\ c \in Jobs
      /\ server \in [Clients -> {"none", "starting", "up", "dead", "closed", "lost"}]
  BY LeanConstants DEF LeanIInv, RuntimeTypes, LeanTypeOK
<1>2. mine[c] \in Clients /\ client # NoClient
  BY <1>1, <1>t, LeanConstants DEF MineInv
<1>3. Goes(c, "closing") /\ Holds(c, "closing") /\ Active(c)
  BY <1>1 DEF Goes, Holds, States, Over, Locked, Active
<1>4. /\ RuntimeTypes' /\ LockInv' /\ RecordedOnce' /\ ClosedInv'
      /\ leanPc'[c] = "closing"
      /\ \A i \in Jobs \ {c} :
           leanPc'[i] = leanPc[i] /\ mine'[i] = mine[i] /\ leanPc[i] \notin Locked
  BY <1>1, <1>2, <1>3, <1>t, LockedMove DEF RuntimeTypes, LeanTypeOK
<1>5. /\ server'[mine[c]] = "closed"
      /\ \A m \in Clients : m # mine[c] => server'[m] = server[m]
  BY <1>1, <1>2, <1>t
<1>6. MineInv'
  BY <1>1, <1>2, <1>4, <1>5, <1>t DEF MineInv, Locked
<1>7. ServerInv'
  <2>1. ASSUME NEW m \in Clients, server'[m] = "starting"
        PROVE  FALSE
    <3>1. server[m] = "starting"
      BY <1>5, <2>1
    <3>2. PICK i \in Jobs : leanPc[i] \in {"start", "replace"} /\ mine[i] = m
      BY <1>t, <3>1 DEF ServerInv
    <3> QED
      BY <1>1, <1>4, <3>2 DEF Locked
  <2> QED
    BY <1>1, <1>5, <1>t, <2>1 DEF ServerInv
<1>8. EventInv'
  BY <1>1, <1>2, <1>4, <1>t DEF EventInv, HistoryAlternates, Locked
<1> QED
  BY <1>4, <1>6, <1>7, <1>8 DEF LeanIInv

\* The crash is recorded and the replacement started.
LEMMA ReplaceLeanIInv ==
  ASSUME LeanIInv, NEW c \in Calls, Replace(c)
  PROVE  LeanIInv'
<1>1. PICK n \in Fresh : /\ server' = [server EXCEPT ![n] = "starting"]
                         /\ mine' = [mine EXCEPT ![c] = n]
  BY DEF Replace
<1>2. /\ leanPc[c] = "closing" /\ client' = NoClient /\ rooted' = FALSE
      /\ Record("Crashed", runtimeId)
      /\ leanPc' = [leanPc EXCEPT ![c] = "replace"]
      /\ UNCHANGED <<todo, verdicts, runtimeId, prepared, closed, worldVars, lock, opened>>
  BY DEF Replace
<1>t. /\ RuntimeTypes /\ LockInv /\ MineInv /\ ServerInv /\ EventInv /\ c \in Jobs
      /\ mine \in [Jobs -> Clients \cup {NoClient}]
      /\ server \in [Clients -> {"none", "starting", "up", "dead", "closed", "lost"}]
  BY LeanConstants DEF LeanIInv, RuntimeTypes, LeanTypeOK
<1>3. n \in Clients /\ server[n] = "none"
  BY DEF Fresh
<1>4. /\ mine[c] \in Clients /\ client = mine[c] /\ server[client] # "up" /\ lock = c
      /\ runtimeId = client /\ client # NoClient
  BY <1>2, <1>t, LeanConstants DEF MineInv, LockInv, Locked, ServerInv
<1>5. HistoryAlternates' /\ events' \in Seq(RuntimeEvents) /\ ~Announced'
  BY <1>2, <1>4, <1>t, RecordAlternates DEF EventInv, RuntimeTypes
<1>6. Goes(c, "replace") /\ Holds(c, "replace") /\ Active(c)
  BY <1>2, <1>4 DEF Goes, Holds, States, Over, Locked, Active
<1>7. /\ RuntimeTypes' /\ LockInv' /\ RecordedOnce' /\ ClosedInv'
      /\ leanPc'[c] = "replace"
      /\ \A i \in Jobs \ {c} :
           leanPc'[i] = leanPc[i] /\ mine'[i] = mine[i] /\ leanPc[i] \notin Locked
  BY <1>1, <1>2, <1>3, <1>4, <1>5, <1>6, <1>t, LockedMove DEF RuntimeTypes, LeanTypeOK
<1>8. server'[n] = "starting" /\ mine'[c] = n /\ \A m \in Clients : m # n => server'[m] = server[m]
  BY <1>1, <1>3, <1>t
<1>9. MineInv'
  BY <1>2, <1>3, <1>7, <1>8, <1>t DEF MineInv, Locked
<1>10. ServerInv'
  <2>1. ASSUME NEW m \in Clients, server'[m] = "starting", m # n
        PROVE  FALSE
    <3>1. server[m] = "starting"
      BY <1>8, <2>1
    <3>2. PICK i \in Jobs : leanPc[i] \in {"start", "replace"} /\ mine[i] = m
      BY <1>t, <3>1 DEF ServerInv
    <3> QED
      BY <1>2, <1>7, <3>2 DEF Locked
  <2>2. \A m \in Clients : server'[m] # "up"
    BY <1>4, <1>8, <1>t DEF ServerInv
  <2> QED
    BY <1>2, <1>7, <1>8, <1>t, <2>1, <2>2 DEF ServerInv
<1>11. EventInv'
  BY <1>5 DEF EventInv
<1> QED
  BY <1>7, <1>9, <1>10, <1>11 DEF LeanIInv

\* The replacement is the runtime's client; what was opened is to be read again.
LEMMA ReplacedLeanIInv ==
  ASSUME LeanIInv, NEW c \in Calls, Replaced(c)
  PROVE  LeanIInv'
<1> DEFINE n == mine[c]
<1>1. /\ leanPc[c] = "replace"
      /\ server' = [server EXCEPT ![n] = "up"]
      /\ client' = n /\ runtimeId' = n
      /\ leanPc' = [leanPc EXCEPT ![c] = "reopen"]
      /\ todo' = [todo EXCEPT ![c] = opened]
      /\ UNCHANGED <<mine, verdicts, rooted, prepared, closed, worldVars, lock, opened, events>>
  BY DEF Replaced
<1>t. /\ RuntimeTypes /\ LockInv /\ MineInv /\ ServerInv /\ EventInv /\ c \in Jobs
      /\ server \in [Clients -> {"none", "starting", "up", "dead", "closed", "lost"}]
  BY LeanConstants DEF LeanIInv, RuntimeTypes, LeanTypeOK
<1>2. n \in Clients /\ client = NoClient /\ lock = c /\ mine'[c] = n
  BY <1>1, <1>t DEF MineInv, LockInv, Locked
<1> HIDE DEF n
<1>3. todo' \in [Jobs -> SUBSET (Documents \cup (1..DIAGNOSTICS_ATTEMPTS))]
  BY <1>1, <1>t DEF RuntimeTypes, LeanTypeOK
<1>4. Goes(c, "reopen") /\ Holds(c, "reopen") /\ Active(c)
  BY <1>1, <1>2 DEF Goes, Holds, States, Over, Locked, Active
<1>5. /\ RuntimeTypes' /\ LockInv' /\ RecordedOnce' /\ ClosedInv'
      /\ leanPc'[c] = "reopen"
      /\ \A i \in Jobs \ {c} :
           leanPc'[i] = leanPc[i] /\ mine'[i] = mine[i] /\ leanPc[i] \notin Locked
  BY <1>1, <1>2, <1>3, <1>4, <1>t, LockedMove DEF RuntimeTypes, LeanTypeOK
<1>6. server'[n] = "up" /\ \A m \in Clients : m # n => server'[m] = server[m]
  BY <1>1, <1>2, <1>t
<1>7. MineInv'
  BY <1>1, <1>2, <1>5, <1>t, LeanConstants DEF MineInv, Locked
<1>8. ServerInv'
  <2>1. ASSUME NEW m \in Clients, server'[m] = "starting"
        PROVE  FALSE
    <3>1. server[m] = "starting" /\ m # n
      BY <1>6, <2>1
    <3>2. PICK i \in Jobs : leanPc[i] \in {"start", "replace"} /\ mine[i] = m
      BY <1>t, <3>1 DEF ServerInv
    <3> QED
      BY <1>5, <3>1, <3>2 DEF Locked, n
  <2>2. \A m \in Clients : server'[m] = "up" => client' = m
    BY <1>1, <1>2, <1>6, <1>t, LeanConstants DEF ServerInv
  <2> QED
    BY <1>1, <2>1, <2>2 DEF ServerInv
<1>9. EventInv'
  BY <1>1, <1>2, <1>t DEF EventInv, HistoryAlternates, Announced
<1> QED
  BY <1>5, <1>7, <1>8, <1>9 DEF LeanIInv

\* The restart is announced, and the call made again.
LEMMA RestartedLeanIInv ==
  ASSUME LeanIInv, NEW c \in Calls, Restarted(c)
  PROVE  LeanIInv'
<1>1. /\ leanPc[c] = "reopen" /\ lock' = Nobody /\ Record("Restarted", runtimeId)
      /\ leanPc' = [leanPc EXCEPT ![c] = "retry"]
      /\ UNCHANGED <<mine, todo, verdicts, client, rooted, runtimeId, prepared, closed, worldVars,
                     opened, server>>
  BY DEF Restarted, Goto, runtimeVars
<1>t. /\ RuntimeTypes /\ LockInv /\ MineInv /\ ServerInv /\ EventInv /\ c \in Jobs
      /\ server \in [Clients -> {"none", "starting", "up", "dead", "closed", "lost"}]
      /\ client \in Clients \cup {NoClient}
  BY LeanConstants DEF LeanIInv, RuntimeTypes, LeanTypeOK
<1>2. /\ mine[c] \in Clients /\ client # NoClient /\ runtimeId = client /\ client \in Clients
      /\ lock = c /\ ~Announced
  BY <1>1, <1>t DEF MineInv, LockInv, Locked, ServerInv, EventInv
<1>3. HistoryAlternates' /\ events' \in Seq(RuntimeEvents)
  BY <1>1, <1>2, <1>t, RecordAlternates DEF EventInv, RuntimeTypes
<1>4. Goes(c, "retry") /\ Holds(c, "retry") /\ Active(c)
  BY <1>1, <1>2, LeanConstants DEF Goes, Holds, States, Over, Locked, Active
<1>5. /\ RuntimeTypes' /\ LockInv' /\ RecordedOnce' /\ ClosedInv'
      /\ leanPc'[c] = "retry"
      /\ \A i \in Jobs \ {c} :
           leanPc'[i] = leanPc[i] /\ mine'[i] = mine[i] /\ leanPc[i] \notin Locked
  BY <1>1, <1>2, <1>3, <1>4, <1>t, LockedMove DEF RuntimeTypes, LeanTypeOK
<1>6. MineInv'
  BY <1>1, <1>2, <1>5, <1>t DEF MineInv, Locked
<1>7. ServerInv'
  <2>1. ASSUME NEW m \in Clients, server[m] = "starting"
        PROVE  FALSE
    <3>1. PICK i \in Jobs : leanPc[i] \in {"start", "replace"} /\ mine[i] = m
      BY <1>t, <2>1 DEF ServerInv
    <3> QED
      BY <1>1, <1>5, <3>1 DEF Locked
  <2> QED
    BY <1>1, <1>t, <2>1 DEF ServerInv
<1>8. EventInv'
  BY <1>1, <1>2, <1>3, <1>5 DEF EventInv, Locked
<1> QED
  BY <1>5, <1>6, <1>7, <1>8 DEF LeanIInv

-----------------------------------------------------------------------------
(* Cancellation, aclose and the death of a server                          *)

\* A job is cancelled at one of its awaits.
LEMMA CancelLeanIInv ==
  ASSUME LeanIInv, NEW j \in Jobs, LeanCancel(j)
  PROVE  LeanIInv'
<1>1. /\ Active(j) /\ leanPc' = [leanPc EXCEPT ![j] = "cancelled"]
      /\ lock' = IF lock = j THEN Nobody ELSE lock
      /\ UNCHANGED <<mine, todo, verdicts, runtimeVars, worldVars, opened, events>>
  BY DEF LeanCancel
<1>2. CASE leanPc[j] \in {"start", "replace"}
  <2>1. lock' = Nobody
    BY <1>1, <1>2 DEF LeanIInv, LockInv, Locked
  <2> QED
    BY <1>1, <1>2, <2>1, StartEndsLeanIInv DEF LeanCancel
<1>3. CASE leanPc[j] \notin {"start", "replace"}
  <2>1. server' = server
    BY <1>3 DEF LeanCancel
  <2>2. leanPc[j] \in States \ Over
    BY <1>1 DEF LeanIInv, RuntimeTypes, LeanTypeOK, Active, States
  <2>3. Goes(j, "cancelled") /\ Holds(j, "cancelled")
    BY <1>1, <2>2 DEF Goes, Holds, States, Over, Locked
  <2>4. QuietMove(j, "cancelled")
    BY <1>1, <1>3, <2>1, <2>3
    DEF QuietMove, LeanIInv, RuntimeTypes, LeanTypeOK, runtimeVars
  <2> QED
    BY <2>4, QuietMoveIInv
<1> QED
  BY <1>2, <1>3

\* aclose: no job is under way, so no server starts and the one that is up is the client's.
LEMMA CloseLeanIInv ==
  ASSUME LeanIInv, Close
  PROVE  LeanIInv'
<1>1. /\ \A j \in Jobs : ~Active(j)
      /\ client' = NoClient /\ rooted' = FALSE /\ runtimeId' = NoClient
      /\ prepared' = FALSE /\ closed' = TRUE
      /\ server' = IF client # NoClient THEN [server EXCEPT ![client] = "closed"] ELSE server
      /\ UNCHANGED <<leanPc, mine, todo, verdicts, worldVars, lock, opened>>
  BY DEF Close, jobVars
<1>t. /\ RuntimeTypes /\ LockInv /\ MineInv /\ ServerInv /\ EventInv /\ RecordedOnce
      /\ server \in [Clients -> {"none", "starting", "up", "dead", "closed", "lost"}]
      /\ client \in Clients \cup {NoClient} /\ runtimeId \in Clients \cup {NoClient}
  BY DEF LeanIInv, RuntimeTypes, LeanTypeOK
<1>2. \A j \in Jobs : leanPc[j] \notin Locked
  BY <1>1 DEF Active, Over, Locked
<1>3. /\ HistoryAlternates' /\ events' \in Seq(RuntimeEvents) /\ ~Announced'
  <2>1. CASE runtimeId # NoClient
    <3>1. Record("Stopped", runtimeId) /\ runtimeId \in Clients
      BY <1>t, <2>1 DEF Close
    <3> QED
      BY <1>t, <3>1, RecordAlternates DEF EventInv, RuntimeTypes
  <2>2. CASE runtimeId = NoClient
    <3>1. events' = events /\ client = NoClient
      BY <1>t, <2>2, LeanConstants DEF Close, ServerInv
    <3> QED
      BY <1>t, <3>1 DEF EventInv, HistoryAlternates, Announced, RuntimeTypes
  <2> QED
    BY <2>1, <2>2
<1>4. RuntimeTypes'
  <2>1. server' \in [Clients -> {"none", "starting", "up", "dead", "closed", "lost"}]
    BY <1>1, <1>t
  <2>2. \A i \in 1..Len(events') :
           /\ events'[i].kind \in {"Started", "Crashed", "Restarted", "Stopped"}
           /\ events'[i].id \in Clients
    <3>1. \A i \in 1..Len(events') : events'[i] \in RuntimeEvents
      BY <1>3
    <3> QED
      BY <3>1 DEF RuntimeEvents
  <2>3. LeanTypeOK'
    BY <1>1, <1>t, <2>1, <2>2 DEF RuntimeTypes, LeanTypeOK, worldVars
  <2> QED
    BY <1>1, <1>3, <1>t, <2>3 DEF RuntimeTypes
<1>5. LockInv' /\ RecordedOnce'
  BY <1>1, <1>t DEF LockInv, RecordedOnce
<1>6. MineInv'
  BY <1>1, <1>2, <1>t DEF MineInv, Locked
<1>7. ServerInv'
  <2>1. \A n \in Clients : server[n] # "starting"
    BY <1>2, <1>t DEF ServerInv, Locked
  <2> QED
    BY <1>1, <1>t, <2>1 DEF ServerInv
<1>8. EventInv' /\ ClosedInv'
  BY <1>1, <1>3 DEF EventInv, ClosedInv, Active
<1> QED
  BY <1>4, <1>5, <1>6, <1>7, <1>8 DEF LeanIInv

\* A server dies; whoever uses it finds out by its next answer.
LEMMA CrashLeanIInv ==
  ASSUME LeanIInv, NEW n \in Clients, LeanCrash(n)
  PROVE  LeanIInv'
<1>1. /\ server[n] = "up" /\ leanCrashes < LeanMaxCrashes
      /\ server' = [server EXCEPT ![n] = "dead"] /\ leanCrashes' = leanCrashes + 1
      /\ UNCHANGED <<leanPc, mine, todo, verdicts, client, rooted, runtimeId, prepared, closed,
                     leased, lock, opened, events>>
  BY DEF LeanCrash, jobVars, runtimeVars
<1>t. /\ RuntimeTypes /\ LockInv /\ MineInv /\ ServerInv /\ EventInv /\ ClosedInv /\ RecordedOnce
      /\ server \in [Clients -> {"none", "starting", "up", "dead", "closed", "lost"}]
  BY DEF LeanIInv, RuntimeTypes, LeanTypeOK
<1>2. RuntimeTypes'
  <2>1. leanCrashes' \in 0..LeanMaxCrashes
    BY <1>1, <1>t, RuntimeAssumption DEF RuntimeTypes, LeanTypeOK
  <2>2. server' \in [Clients -> {"none", "starting", "up", "dead", "closed", "lost"}]
    BY <1>1, <1>t
  <2> QED
    BY <1>1, <1>t, <2>1, <2>2 DEF RuntimeTypes, LeanTypeOK
<1>3. LockInv' /\ EventInv' /\ ClosedInv' /\ RecordedOnce'
  BY <1>1, <1>t
  DEF LockInv, EventInv, HistoryAlternates, Announced, ClosedInv, Active, RecordedOnce
<1>4. server'[n] = "dead" /\ \A m \in Clients : m # n => server'[m] = server[m]
  BY <1>1, <1>t
<1>5. MineInv'
  BY <1>1, <1>4, <1>t DEF MineInv
<1>6. ServerInv'
  BY <1>1, <1>4, <1>t DEF ServerInv
<1> QED
  BY <1>2, <1>3, <1>5, <1>6 DEF LeanIInv

-----------------------------------------------------------------------------
(* The invariant holds                                                     *)

LEMMA InitLeanIInv ==
  ASSUME LeanInit
  PROVE  LeanIInv
<1>1. RuntimeTypes
  <2>1. /\ leanPc \in [Jobs -> States] /\ mine \in [Jobs -> Clients \cup {NoClient}]
        /\ todo \in [Jobs -> SUBSET (Documents \cup (1..DIAGNOSTICS_ATTEMPTS))]
        /\ server \in [Clients -> {"none", "starting", "up", "dead", "closed", "lost"}]
    BY DEF LeanInit, States
  <2>2. verdicts \in [Calls -> Seq(Verdicts)] /\ events \in Seq(RuntimeEvents)
    BY EmptyRecords DEF LeanInit
  <2>3. \A i \in 1..Len(events) : FALSE
    BY EmptyRecords DEF LeanInit
  <2>4. leanCrashes \in 0..LeanMaxCrashes
    BY RuntimeAssumption DEF LeanInit
  <2>5. LeanTypeOK
    BY <2>1, <2>2, <2>3, <2>4 DEF LeanInit, LeanTypeOK, States, Verdicts
  <2> QED
    BY <2>1, <2>2, <2>5 DEF RuntimeTypes
<1>2. LockInv /\ MineInv /\ ServerInv /\ ClosedInv /\ RecordedOnce
  BY LeanConstants
  DEF LeanInit, LockInv, Locked, MineInv, ServerInv, ClosedInv, RecordedOnce
<1>3. EventInv
  BY EmptyRecords DEF LeanInit, EventInv, HistoryAlternates, Announced
<1> QED
  BY <1>1, <1>2, <1>3 DEF LeanIInv

\* A step of a call.
LEMMA CallLeanIInv ==
  ASSUME LeanIInv, NEW c \in Calls, CallStep(c)
  PROVE  LeanIInv'
BY LeanConstants, EnsureStartsLeanIInv, EnsureFindsLeanIInv, StartedLeanIInv, StartFailsLeanIInv,
   ReplyLeanIInv, RestartElsewhereLeanIInv, RestartBeginLeanIInv, ReplaceLeanIInv,
   ReplacedLeanIInv, ReopenLeanIInv, RestartedLeanIInv
DEF CallStep

\* A step of a job under the lock, or on its way there.
LEMMA LockedLeanIInv ==
  ASSUME LeanIInv, LockedStep
  PROVE  LeanIInv'
<1>1. ASSUME NEW j \in {Check, Prepare},
             EnsureStarts(j) \/ EnsureFinds(j) \/ Started(j) \/ StartFails(j)
      PROVE  LeanIInv'
  BY <1>1, LeanConstants, EnsureStartsLeanIInv, EnsureFindsLeanIInv, StartedLeanIInv,
     StartFailsLeanIInv
<1>2. CASE \/ CheckStep("build", "verify") \/ CheckStep("verify", "hover")
           \/ CheckStep("hover", "returned")
  BY <1>2, CheckStepLeanIInv
<1> QED
  BY <1>1, <1>2, CheckEnterLeanIInv, CheckDiagnosticsLeanIInv, PrepareLeanIInv, BuildLeanIInv
  DEF LockedStep

LEMMA NextLeanIInv ==
  ASSUME LeanIInv, [LeanNext]_leanVars
  PROVE  LeanIInv'
<1>1. CASE LeanNext
  BY <1>1, AskLeanIInv, AskLockedLeanIInv, CallLeanIInv, LockedLeanIInv, CancelLeanIInv,
     CloseLeanIInv, CrashLeanIInv, EndLeaseLeanIInv
  DEF LeanNext
<1>2. CASE UNCHANGED leanVars
  <2>1. /\ todo' \in [Jobs -> SUBSET (Documents \cup (1..DIAGNOSTICS_ATTEMPTS))]
        /\ leased' \subseteq Documents
    BY <1>2 DEF leanVars, jobVars, worldVars, LeanIInv, RuntimeTypes, LeanTypeOK
  <2> QED
    BY <1>2, <2>1, StandsStill DEF leanVars, jobVars, worldVars
<1> QED
  BY <1>1, <1>2

\* The invariant of the Lean runtime (_lifecycle_lock, _client and _runtime_id of
\* LeanRuntime): it is inductive and holds for any calls, documents and clients.
THEOREM RuntimeInvariant == LeanSpec => []LeanIInv
<1>1. LeanInit => LeanIInv
  BY InitLeanIInv
<1>2. LeanIInv /\ [LeanNext]_leanVars => LeanIInv'
  BY NextLeanIInv
<1> QED
  BY <1>1, <1>2, PTL DEF LeanSpec

-----------------------------------------------------------------------------
(* What it says                                                            *)

\* All servers that start or are up are one and the same.
LEMMA ServersAreOne ==
  ASSUME LeanIInv, NEW m \in Clients, NEW n \in Clients,
         server[m] \in {"starting", "up"}, server[n] \in {"starting", "up"}
  PROVE  m = n
<1>1. ASSUME NEW k \in Clients, server[k] = "starting"
      PROVE  /\ client = NoClient
             /\ \E j \in Jobs : lock = j /\ mine[j] = k
  BY <1>1 DEF LeanIInv, ServerInv, MineInv, LockInv, Locked
<1>2. CASE server[m] = "starting" /\ server[n] = "starting"
  BY <1>1, <1>2
<1>3. CASE server[m] = "up" \/ server[n] = "up"
  BY <1>1, <1>3, LeanConstants DEF LeanIInv, ServerInv
<1> QED
  BY <1>2, <1>3

\* The runtime has one server at a time, its events announce one only after the end of the
\* one before, and after aclose nothing is left (_ensure_started, _restart, aclose).
THEOREM RuntimeIsOne == LeanSpec => []OneRuntime
<1>1. ASSUME LeanIInv
      PROVE  OneServer
  <2> DEFINE S == {n \in Clients : server[n] \in {"starting", "up"}}
  <2>1. CASE S = {}
    BY <2>1, FS_EmptySet DEF OneServer
  <2>2. CASE S # {}
    <3>1. PICK n : n \in S
      BY <2>2
    <3>2. S = {n}
      BY <1>1, <3>1, ServersAreOne
    <3> QED
      BY <3>2, FS_Singleton DEF OneServer
  <2> QED
    BY <2>1, <2>2
<1>2. ASSUME LeanIInv
      PROVE  ClosedIsQuiet
  <2> SUFFICES ASSUME closed
               PROVE  lock = Nobody /\ \A n \in Clients : server[n] \in {"none", "dead", "closed", "lost"}
    BY DEF ClosedIsQuiet
  <2>1. client = NoClient /\ \A j \in Jobs : leanPc[j] \notin Locked
    BY <1>2 DEF LeanIInv, ClosedInv, Active, Over, Locked
  <2>2. lock = Nobody
    BY <1>2, <2>1 DEF LeanIInv, RuntimeTypes, LeanTypeOK, LockInv
  <2>3. ASSUME NEW n \in Clients
        PROVE  server[n] \in {"none", "dead", "closed", "lost"}
    <3>1. server[n] # "starting"
      BY <1>2, <2>1 DEF LeanIInv, ServerInv, Locked
    <3>2. server[n] # "up"
      BY <1>2, <2>1, LeanConstants DEF LeanIInv, ServerInv
    <3> QED
      BY <1>2, <3>1, <3>2 DEF LeanIInv, RuntimeTypes, LeanTypeOK
  <2> QED
    BY <2>2, <2>3
<1>3. LeanIInv => OneRuntime
  BY <1>1, <1>2 DEF OneRuntime, LeanIInv, RuntimeTypes, EventInv
<1> QED
  BY <1>3, RuntimeInvariant, PTL

\* A call that got past the broker leaves one formal action, with the verdict its caller
\* saw, however often it was tried (record_formal_action in _execute).
THEOREM CallsRecordedOnce == LeanSpec => []RecordedOnce
<1>1. LeanIInv => RecordedOnce
  BY DEF LeanIInv
<1> QED
  BY <1>1, RuntimeInvariant, PTL
=============================================================================
