----------------------------- MODULE StateProofs -----------------------------
(***************************************************************************)
(* The state process and the servers behind the two sockets, for any       *)
(* number of servers, starts, commands, connections, sessions and calls.   *)
(*                                                                         *)
(* Ownership: the types, that a serving server is reached through the      *)
(* socket, and that a command's success comes from the owner it saw.  Two  *)
(* arguments carry the proofs.  From the lock to the end of the close a    *)
(* server holds the lock, so nobody else touches the socket.  And a        *)
(* process binds its socket once, so a socket that was replaced does not   *)
(* come back, and seeing the same socket twice means that it was there in  *)
(* between.                                                                *)
(*                                                                         *)
(* Connections: the store's RPC server, the session broker of the gateway  *)
(* and the channel a sidecar opens through it, each with an inductive      *)
(* invariant of its own.                                                   *)
(*                                                                         *)
(* The event store: that the tables are what replaying the log gives, that *)
(* a lease's capabilities end with it and that the histories of sessions   *)
(* and executions are well formed, for every log.  A transaction is a run  *)
(* of the reducer; what holds in all its states is shown by the first one  *)
(* in which it would fail.                                                 *)
(***************************************************************************)
EXTENDS StateOwnership, StateRpc, GatewaySessions, GatewayChannel, EventStore, FiniteSetTheorems,
        WellFoundedInduction, TLAPS

-----------------------------------------------------------------------------
(* The owner of the state.                                                 *)

\* The phases in which a server holds the lock of the store.
LockPhases == {"probe", "bind", "chmod", "serve", "unsocket", "unlock"}

\* A process that runs has been started.
StartedInv == \A s \in Servers : Running(s) => start[s] > 0

\* Whoever reclaims, binds or removes a socket has the lock.
LockInv == \A s \in Servers : ownerPhase[s] \in LockPhases => lock = Pid(s)

\* The socket is its server's from bind until it is removed.
SocketInv ==
  \A s \in Servers :
    /\ ownerPhase[s] = "chmod" => socket = [by |-> Pid(s), private |-> FALSE]
    /\ ownerPhase[s] = "serve" => socket = [by |-> Pid(s), private |-> TRUE]

\* The phases a process passes before it binds its socket.
UnboundPhases == {"look", "read", "confirm", "remove", "unlink", "socket",
                  "create", "write", "lock", "probe", "bind"}

\* A process that will never bind a socket from here on: its start is over, or
\* it has come past bind.
Past(pid) ==
  \A s \in Servers :
    pid[1] = s => /\ pid[2] <= start[s]
                  /\ pid[2] = start[s] => ownerPhase[s] \notin UnboundPhases

\* A socket that is there, or that a command has seen, was bound before.
PastInv ==
  /\ socket # None => Past(socket.by)
  /\ \A c \in Clients : before[c][2] # None => Past(before[c][2].by)

\* What a command knows while it is under way: nobody served, or the socket it
\* saw, and after the call that either its process answered or that the socket
\* belongs to another process by now, for ever.
CallInv ==
  \A c \in Clients :
    /\ call[c] # "idle" => answer[c] = None
    /\ call[c] \in {"alone", "commit"} => before[c] = <<None, None>>
    /\ call[c] \in {"validate", "rpc", "revalidate", "after"} => before[c][2] # None
    /\ call[c] \in {"revalidate", "after"} =>
         \/ servedBy[c] = before[c][2].by
         \/ socket # None => socket.by # before[c][2].by

OwnershipIInv ==
  /\ OwnerTypeOK /\ StartedInv /\ LockInv /\ SocketInv /\ PastInv /\ CallInv
  /\ AnswerFromSeenOwner

-----------------------------------------------------------------------------
(* Facts about processes.                                                  *)

\* A running process is one of Pids, and two running servers are two processes.
LEMMA PidFacts ==
  ASSUME OwnerTypeOK, StartedInv, NEW s \in Servers, Running(s)
  PROVE  /\ Pid(s) \in Pids /\ Pid(s) \notin Clients \cup Batches \cup {None, Alone}
         /\ \A t \in Servers : Pid(t) = Pid(s) => t = s
<1>1. start[s] \in 1..MaxStarts
  BY OwnerAssumption DEF OwnerTypeOK, StartedInv
<1>2. Pid(s) \in Pids
  BY <1>1 DEF Pid, Pids
<1>3. \A t \in Servers : Pid(t) = Pid(s) => t = s
  BY DEF Pid
<1> QED
  BY <1>2, <1>3, OwnerAssumption

\* Nothing runs, nothing is on disk and nobody has asked yet.
LEMMA InitIInv == OwnerInit => OwnershipIInv
<1> SUFFICES ASSUME OwnerInit PROVE OwnershipIInv
  OBVIOUS
<1> USE OwnerAssumption DEF OwnerInit
<1>1. OwnerTypeOK
  BY DEF OwnerTypeOK, ServerPhases
<1>2. StartedInv /\ LockInv /\ SocketInv
  BY DEF StartedInv, Running, LockInv, LockPhases, SocketInv
<1>3. \A c \in Clients : before[c][2] = None /\ call[c] = "idle" /\ answer[c] = None
  OBVIOUS
<1>4. PastInv /\ CallInv /\ AnswerFromSeenOwner
  BY <1>3 DEF PastInv, CallInv, AnswerFromSeenOwner
<1> QED
  BY <1>1, <1>2, <1>4 DEF OwnershipIInv

-----------------------------------------------------------------------------
(* Steps of servers.                                                       *)

\* A process that will bind no more stays so while servers move on, provided
\* nobody goes back before bind without a new start.
LEMMA PastStays ==
  ASSUME OwnerTypeOK, NEW s \in Servers, NEW p, start' = start,
         ownerPhase' = [ownerPhase EXCEPT ![s] = p],
         p \in UnboundPhases => ownerPhase[s] \in UnboundPhases,
         NEW pid, Past(pid)
  PROVE  Past(pid)'
BY DEF Past, OwnerTypeOK

\* A server that moves on without touching socket, lock or commands, does not
\* enter a phase that means more than it has: all of acquire_state_process, a
\* signal, and the end of the close.
LEMMA QuietServerKeeps ==
  ASSUME OwnershipIInv, NEW s \in Servers, Running(s), NEW p \in ServerPhases,
         ownerPhase' = [ownerPhase EXCEPT ![s] = p],
         p \in LockPhases => ownerPhase[s] \in LockPhases,
         p \in UnboundPhases => ownerPhase[s] \in UnboundPhases,
         p \notin {"chmod", "serve"},
         UNCHANGED <<socket, lock, start, clientVars>>,
         pidfile' \in PidRecords \cup {None},
         seen' \in [Servers -> PidRecords \cup {None}],
         checked' \in [Servers -> BOOLEAN]
  PROVE  OwnershipIInv'
<1> USE DEF clientVars
<1>1. OwnerTypeOK'
  BY DEF OwnershipIInv, OwnerTypeOK
<1>2. StartedInv'
  BY DEF OwnershipIInv, StartedInv, OwnerTypeOK, Running
<1>3. LockInv'
  BY DEF OwnershipIInv, LockInv, OwnerTypeOK, Pid
<1>4. SocketInv'
  BY DEF OwnershipIInv, SocketInv, OwnerTypeOK, Pid
<1>5. PastInv'
  BY PastStays DEF OwnershipIInv, PastInv
<1>6. CallInv' /\ AnswerFromSeenOwner'
  BY DEF OwnershipIInv, CallInv, AnswerFromSeenOwner
<1> QED
  BY <1>1, <1>2, <1>3, <1>4, <1>5, <1>6 DEF OwnershipIInv

\* A server whose start fails, or that has closed, is gone.
LEMMA GoneKeeps ==
  ASSUME OwnershipIInv, NEW s \in Servers, Running(s), Gone(s),
         UNCHANGED <<socket, lock, start, clientVars>>,
         pidfile' \in PidRecords \cup {None}
  PROVE  OwnershipIInv'
<1>1. /\ seen' \in [Servers -> PidRecords \cup {None}]
      /\ checked' \in [Servers -> BOOLEAN]
  BY DEF Gone, OwnershipIInv, OwnerTypeOK
<1> QED
  BY <1>1, QuietServerKeeps DEF Gone, GoTo, ServerPhases, LockPhases, UnboundPhases

\* acquire_state_process up to the pid it writes.
LEMMA AcquireKeeps == ASSUME OwnershipIInv, NEW s \in Servers, Acquire(s) PROVE OwnershipIInv'
<1> USE DEF At, GoTo, Gone, files, ServerPhases, LockPhases, UnboundPhases
<1>r. Running(s)
  BY DEF Acquire, LookForRecord, ReadRecord, ConfirmRecord, CompareRecord, UnlinkRecord,
         LookForSocket, CreateRecord, WriteRecord, Running
<1>p. Pid(s) \in Pids
  BY <1>r, PidFacts DEF OwnershipIInv
<1>t. OwnerTypeOK
  BY DEF OwnershipIInv
<1>g. ASSUME Gone(s), UNCHANGED <<files, start, clientVars>> PROVE OwnershipIInv'
  BY <1>g, <1>r, <1>t, GoneKeeps DEF OwnerTypeOK
<1>1. CASE LookForRecord(s)
  BY <1>1, <1>r, <1>t, QuietServerKeeps DEF LookForRecord, OwnerTypeOK
<1>2. CASE ReadRecord(s)
  <2>1. CASE pidfile = None \/ ~pidfile.written \/ Alive(pidfile.pid)
    BY <1>2, <1>g, <2>1 DEF ReadRecord
  <2>2. CASE ~(pidfile = None \/ ~pidfile.written \/ Alive(pidfile.pid))
    <3>1. /\ seen' = [seen EXCEPT ![s] = pidfile] /\ GoTo(s, "confirm")
          /\ UNCHANGED <<checked, files, start, clientVars>> /\ At(s, "read")
      BY <1>2, <2>2 DEF ReadRecord
    <3>2. seen' \in [Servers -> PidRecords \cup {None}]
      BY <3>1, <1>t DEF OwnerTypeOK
    <3> QED
      BY <3>1, <3>2, <1>r, <1>t, QuietServerKeeps DEF OwnerTypeOK
  <2> QED
    BY <2>1, <2>2
<1>3. CASE ConfirmRecord(s)
  <2>1. CASE pidfile = seen[s]
    BY <1>3, <2>1, <1>r, <1>t, QuietServerKeeps DEF ConfirmRecord, OwnerTypeOK
  <2>2. CASE pidfile # seen[s]
    BY <1>3, <1>g, <2>2 DEF ConfirmRecord
  <2> QED
    BY <2>1, <2>2
<1>4. CASE CompareRecord(s)
  BY <1>4, <1>r, <1>t, QuietServerKeeps DEF CompareRecord, OwnerTypeOK
<1>5. CASE UnlinkRecord(s)
  <2>1. CASE pidfile = None
    BY <1>5, <1>r, <1>t, <2>1, GoneKeeps DEF UnlinkRecord, OwnerTypeOK
  <2>2. CASE pidfile # None
    BY <1>5, <2>2, <1>r, <1>t, QuietServerKeeps DEF UnlinkRecord, OwnerTypeOK
  <2> QED
    BY <2>1, <2>2
<1>6. CASE LookForSocket(s)
  <2>1. CASE socket # None /\ ~checked[s]
    BY <1>6, <1>g, <2>1 DEF LookForSocket
  <2>2. CASE ~(socket # None /\ ~checked[s])
    BY <1>6, <2>2, <1>r, <1>t, QuietServerKeeps DEF LookForSocket, OwnerTypeOK
  <2> QED
    BY <2>1, <2>2
<1>7. CASE CreateRecord(s)
  <2>1. CASE pidfile # None
    BY <1>7, <1>r, <1>t, <2>1, GoneKeeps DEF CreateRecord, OwnerTypeOK
  <2>2. CASE pidfile = None
    <3>1. [pid |-> Pid(s), written |-> FALSE] \in PidRecords
      BY <1>p DEF PidRecords
    <3> QED
      BY <1>7, <2>2, <3>1, <1>r, <1>t, QuietServerKeeps, ZenonT(40) DEF CreateRecord, OwnerTypeOK
  <2> QED
    BY <2>1, <2>2
<1>8. CASE WriteRecord(s)
  BY <1>8, <1>r, <1>p, <1>t, QuietServerKeeps DEF WriteRecord, OwnerTypeOK, PidRecords
<1> QED
  BY <1>1, <1>2, <1>3, <1>4, <1>5, <1>6, <1>7, <1>8 DEF Acquire

\* A new start has a new pid, which nobody has met.
LEMMA LaunchKeeps == ASSUME OwnershipIInv, NEW s \in Servers, Launch(s) PROVE OwnershipIInv'
<1> USE DEF Launch, At, GoTo, files, clientVars
<1>t. OwnerTypeOK /\ MaxStarts \in Nat
  BY OwnerAssumption DEF OwnershipIInv
<1>1. OwnerTypeOK'
  BY <1>t DEF OwnerTypeOK, ServerPhases
<1>2. StartedInv'
  BY <1>t DEF OwnershipIInv, StartedInv, OwnerTypeOK, Running
<1>3. LockInv' /\ SocketInv'
  BY <1>t DEF OwnershipIInv, LockInv, SocketInv, OwnerTypeOK, Pid, LockPhases
<1>4. ASSUME NEW pid \in Pids, Past(pid) PROVE Past(pid)'
  <2>1. pid[2] \in Nat
    BY <1>t DEF Pids
  <2> QED
    BY <2>1, <1>t, <1>4 DEF Past, OwnerTypeOK
<1>5. PastInv'
  BY <1>t, <1>4 DEF OwnershipIInv, PastInv, OwnerTypeOK, SocketFiles
<1>6. CallInv' /\ AnswerFromSeenOwner'
  BY DEF OwnershipIInv, CallInv, AnswerFromSeenOwner
<1> QED
  BY <1>1, <1>2, <1>3, <1>5, <1>6 DEF OwnershipIInv

\* A server that holds the lock is alone with it and with the socket, so no
\* other server is between bind and the end of its close.
LEMMA LockedAlone ==
  ASSUME OwnershipIInv, NEW s \in Servers, ownerPhase[s] \in LockPhases,
         NEW t \in Servers, ownerPhase[t] \in LockPhases
  PROVE  t = s
<1>1. lock = Pid(s) /\ lock = Pid(t) /\ Running(s)
  BY DEF OwnershipIInv, LockInv, LockPhases, Running
<1> QED
  BY <1>1, PidFacts DEF OwnershipIInv

\* StateService.__init__ takes the lock when nobody has it.
LEMMA OpenServiceKeeps == ASSUME OwnershipIInv, NEW s \in Servers, OpenService(s) PROVE OwnershipIInv'
<1> USE DEF OpenService, At, GoTo, clientVars
<1>t. OwnerTypeOK /\ Running(s)
  BY DEF OwnershipIInv, Running
<1>p. Pid(s) \in Pids
  BY <1>t, PidFacts DEF OwnershipIInv
<1>1. CASE GoTo(s, "disown") /\ UNCHANGED lock
  BY <1>1, <1>t, QuietServerKeeps DEF ServerPhases, LockPhases, UnboundPhases, OwnerTypeOK
<1>2. CASE lock = None /\ lock' = Pid(s) /\ GoTo(s, "probe")
  <2>1. OwnerTypeOK'
    BY <1>2, <1>t, <1>p DEF OwnerTypeOK, ServerPhases
  <2>2. StartedInv'
    BY <1>2, <1>t DEF OwnershipIInv, StartedInv, OwnerTypeOK, Running
  <2>3. \A t \in Servers : ownerPhase[t] \notin LockPhases
    <3> SUFFICES ASSUME NEW t \in Servers, ownerPhase[t] \in LockPhases PROVE FALSE
      OBVIOUS
    <3>1. Running(t) /\ Pid(t) = None
      BY <1>2 DEF OwnershipIInv, LockInv, LockPhases, Running
    <3> QED
      BY <3>1, PidFacts DEF OwnershipIInv
  <2>4. LockInv' /\ SocketInv'
    BY <1>2, <1>t, <2>3 DEF LockInv, SocketInv, OwnerTypeOK, Pid, LockPhases
  <2>5. PastInv'
    BY <1>2, <1>t, PastStays DEF OwnershipIInv, PastInv, UnboundPhases
  <2>6. CallInv' /\ AnswerFromSeenOwner'
    BY DEF OwnershipIInv, CallInv, AnswerFromSeenOwner
  <2> QED
    BY <2>1, <2>2, <2>4, <2>5, <2>6 DEF OwnershipIInv
<1> QED
  BY <1>1, <1>2

\* reclaim_stale_socket leaves a socket to whoever listens, and otherwise
\* takes away one whose server is gone.
LEMMA ReclaimSocketKeeps == ASSUME OwnershipIInv, NEW s \in Servers, ReclaimSocket(s) PROVE OwnershipIInv'
<1> USE DEF ReclaimSocket, At, GoTo, clientVars
<1>t. OwnerTypeOK /\ Running(s)
  BY DEF OwnershipIInv, Running
<1>1. CASE GoTo(s, "unlock") /\ UNCHANGED socket
  BY <1>1, <1>t, QuietServerKeeps DEF ServerPhases, LockPhases, UnboundPhases, OwnerTypeOK
<1>2. CASE socket' = None /\ GoTo(s, "bind")
  <2>1. OwnerTypeOK'
    BY <1>2, <1>t DEF OwnerTypeOK, ServerPhases
  <2>2. StartedInv'
    BY <1>2, <1>t DEF OwnershipIInv, StartedInv, OwnerTypeOK, Running
  <2>3. LockInv'
    BY <1>2, <1>t DEF OwnershipIInv, LockInv, OwnerTypeOK, Pid, LockPhases
  <2>4. \A t \in Servers : ownerPhase[t] \notin {"chmod", "serve"}
    BY LockedAlone DEF LockPhases
  <2>5. SocketInv'
    BY <1>2, <1>t, <2>4 DEF SocketInv, OwnerTypeOK
  <2>6. PastInv'
    BY <1>2, <1>t, PastStays DEF OwnershipIInv, PastInv, UnboundPhases
  <2>7. CallInv' /\ AnswerFromSeenOwner'
    BY <1>2 DEF OwnershipIInv, CallInv, AnswerFromSeenOwner
  <2> QED
    BY <2>1, <2>2, <2>3, <2>5, <2>6, <2>7 DEF OwnershipIInv
<1> QED
  BY <1>1, <1>2

\* A process binds once: nobody can have seen its socket before.
LEMMA BindKeeps == ASSUME OwnershipIInv, NEW s \in Servers, Bind(s) PROVE OwnershipIInv'
<1> USE DEF Bind, At, GoTo, clientVars
<1>t. OwnerTypeOK /\ Running(s) /\ start[s] \in Nat
  BY OwnerAssumption DEF OwnershipIInv, Running, OwnerTypeOK
<1>p. Pid(s) \in Pids
  BY <1>t, PidFacts DEF OwnershipIInv
<1>1. OwnerTypeOK'
  BY <1>t, <1>p DEF OwnerTypeOK, ServerPhases, SocketFiles
<1>2. StartedInv' /\ LockInv'
  BY <1>t DEF OwnershipIInv, StartedInv, Running, LockInv, OwnerTypeOK, Pid, LockPhases
<1>3. \A t \in Servers : ownerPhase[t] \notin {"chmod", "serve"}
  BY LockedAlone DEF LockPhases
<1>4. SocketInv'
  BY <1>t, <1>3 DEF SocketInv, OwnerTypeOK, Pid
<1>5. Past(Pid(s))'
  BY <1>t DEF Past, Pid, OwnerTypeOK, UnboundPhases
<1>6. PastInv'
  <2>1. socket'.by = Pid(s)'
    BY DEF Pid
  <2>2. Past(socket.by)'
    BY <1>5, <2>1 DEF Past
  <2>3. \A c \in Clients : before'[c][2] # None => Past(before[c][2].by)'
    BY <1>t, PastStays DEF OwnershipIInv, PastInv, UnboundPhases
  <2> QED
    BY <2>2, <2>3 DEF PastInv
<1>7. ~Past(Pid(s))
  BY <1>t DEF Past, Pid, UnboundPhases
<1>8. CallInv'
  BY <1>7 DEF OwnershipIInv, CallInv, PastInv
<1>9. AnswerFromSeenOwner'
  BY DEF OwnershipIInv, AnswerFromSeenOwner
<1> QED
  BY <1>1, <1>2, <1>4, <1>6, <1>8, <1>9 DEF OwnershipIInv

\* The socket becomes private, or the server gives up; either way it remains
\* the socket of the same process.
LEMMA ChmodKeeps == ASSUME OwnershipIInv, NEW s \in Servers, Chmod(s) PROVE OwnershipIInv'
<1> USE DEF Chmod, At, GoTo, clientVars
<1>t. OwnerTypeOK /\ Running(s)
  BY DEF OwnershipIInv, Running
<1>1. CASE UNCHANGED socket /\ GoTo(s, "unsocket")
  BY <1>1, <1>t, QuietServerKeeps DEF ServerPhases, LockPhases, UnboundPhases, OwnerTypeOK
<1>2. CASE socket' = [socket EXCEPT !.private = TRUE] /\ GoTo(s, "serve")
  <2>1. socket = [by |-> Pid(s), private |-> FALSE]
    BY DEF OwnershipIInv, SocketInv
  <2>2. socket' = [by |-> Pid(s), private |-> TRUE]
    BY <1>2, <2>1
  <2>p. Pid(s) \in Pids
    BY <1>t, PidFacts DEF OwnershipIInv
  <2>s. socket \in SocketFiles /\ socket' \in SocketFiles
    BY <2>1, <2>2, <2>p DEF SocketFiles
  <2>3. OwnerTypeOK'
    BY <1>2, <1>t, <2>s DEF OwnerTypeOK, ServerPhases
  <2>4. StartedInv' /\ LockInv'
    BY <1>2, <1>t DEF OwnershipIInv, StartedInv, Running, LockInv, OwnerTypeOK, Pid, LockPhases
  <2>5. \A t \in Servers : ownerPhase[t] \in {"chmod", "serve"} => t = s
    BY LockedAlone DEF LockPhases
  <2>6. SocketInv'
    BY <1>2, <1>t, <2>2, <2>5 DEF SocketInv, OwnerTypeOK, Pid
  <2>7. socket # None /\ socket'.by = socket.by
    BY <2>1, <2>2, <2>s, OwnerAssumption
  <2>8. PastInv'
    BY <1>2, <1>t, <2>7, PastStays DEF OwnershipIInv, PastInv, UnboundPhases
  <2>9. CallInv' /\ AnswerFromSeenOwner'
    BY <2>7 DEF OwnershipIInv, CallInv, AnswerFromSeenOwner
  <2> QED
    BY <2>3, <2>4, <2>6, <2>8, <2>9 DEF OwnershipIInv
<1> QED
  BY <1>1, <1>2

\* A server takes away its own socket and no other's; its lock excludes that
\* another one serves at the path.
LEMMA RemoveSocketKeeps == ASSUME OwnershipIInv, NEW s \in Servers, RemoveSocket(s) PROVE OwnershipIInv'
<1> USE DEF RemoveSocket, At, GoTo, clientVars
<1>t. OwnerTypeOK /\ Running(s)
  BY DEF OwnershipIInv, Running
<1>1. socket' \in {socket, None}
  OBVIOUS
<1>2. OwnerTypeOK'
  BY <1>t, <1>1 DEF OwnerTypeOK, ServerPhases
<1>3. StartedInv' /\ LockInv'
  BY <1>t DEF OwnershipIInv, StartedInv, Running, LockInv, OwnerTypeOK, Pid, LockPhases
<1>4. \A t \in Servers : ownerPhase[t] \notin {"chmod", "serve"}
  BY LockedAlone DEF LockPhases
<1>5. SocketInv'
  BY <1>t, <1>4 DEF SocketInv, OwnerTypeOK
<1>6. PastInv'
  BY <1>t, <1>1, PastStays DEF OwnershipIInv, PastInv, UnboundPhases
<1>7. CallInv' /\ AnswerFromSeenOwner'
  BY <1>1 DEF OwnershipIInv, CallInv, AnswerFromSeenOwner
<1> QED
  BY <1>2, <1>3, <1>5, <1>6, <1>7 DEF OwnershipIInv

\* A server that leaves gives its lock back, and only its own: the close of the
\* service, and a kill.
LEMMA LeaveKeeps ==
  ASSUME OwnershipIInv, NEW s \in Servers, Running(s), NEW p \in {"disown", "off"},
         GoTo(s, p), DropLock(Pid(s)),
         UNCHANGED <<socket, pidfile, start, clientVars>>,
         seen' \in [Servers -> PidRecords \cup {None}],
         checked' \in [Servers -> BOOLEAN]
  PROVE  OwnershipIInv'
<1> USE DEF GoTo, DropLock, clientVars
<1>t. OwnerTypeOK
  BY DEF OwnershipIInv
<1>1. OwnerTypeOK'
  BY <1>t DEF OwnerTypeOK, ServerPhases
<1>2. StartedInv'
  BY <1>t DEF OwnershipIInv, StartedInv, Running, OwnerTypeOK
<1>3. LockInv'
  <2> SUFFICES ASSUME NEW t \in Servers, ownerPhase'[t] \in LockPhases
               PROVE  lock' = Pid(t)'
    BY DEF LockInv
  <2>1. t # s /\ ownerPhase[t] \in LockPhases
    BY <1>t DEF OwnerTypeOK, LockPhases
  <2>2. lock = Pid(t) /\ Pid(t) # Pid(s)
    BY <2>1, <1>t, PidFacts DEF OwnershipIInv, LockInv
  <2> QED
    BY <2>2 DEF Pid
<1>4. SocketInv'
  BY <1>t DEF OwnershipIInv, SocketInv, OwnerTypeOK, Pid
<1>5. PastInv'
  BY <1>t, PastStays DEF OwnershipIInv, PastInv, UnboundPhases
<1>6. CallInv' /\ AnswerFromSeenOwner'
  BY DEF OwnershipIInv, CallInv, AnswerFromSeenOwner
<1> QED
  BY <1>1, <1>2, <1>3, <1>4, <1>5, <1>6 DEF OwnershipIInv

\* Every step of a server, with its close and its death.
LEMMA ServerKeeps ==
  ASSUME OwnershipIInv, NEW s \in Servers, Launch(s) \/ Acquire(s) \/ Serve(s) \/ CloseAll(s) \/ OwnerCrash(s)
  PROVE  OwnershipIInv'
<1>t. OwnerTypeOK
  BY DEF OwnershipIInv
<1>1. CASE Stop(s)
  BY <1>1, <1>t, QuietServerKeeps
  DEF Stop, At, GoTo, files, Running, ServerPhases, LockPhases, UnboundPhases, OwnerTypeOK
<1>2. CASE CloseService(s)
  BY <1>2, <1>t, LeaveKeeps DEF CloseService, At, Running, OwnerTypeOK
<1>3. CASE CompareOwnRecord(s)
  <2>1. CASE pidfile = seen[s]
    BY <1>3, <2>1, <1>t, QuietServerKeeps
    DEF CompareOwnRecord, At, GoTo, files, Running, ServerPhases, LockPhases, UnboundPhases, OwnerTypeOK
  <2>2. CASE pidfile # seen[s]
    BY <1>3, <2>2, <1>t, GoneKeeps DEF CompareOwnRecord, At, files, Running, OwnerTypeOK
  <2> QED
    BY <2>1, <2>2
<1>4. CASE UnlinkOwnRecord(s)
  BY <1>4, <1>t, GoneKeeps DEF UnlinkOwnRecord, At, files, Running, OwnerTypeOK
<1>5. CASE OwnerCrash(s)
  BY <1>5, <1>t, LeaveKeeps DEF OwnerCrash, Gone, OwnerTypeOK
<1> QED
  BY <1>1, <1>2, <1>3, <1>4, <1>5, LaunchKeeps, AcquireKeeps, OpenServiceKeeps, ReclaimSocketKeeps,
     BindKeeps, ChmodKeeps, RemoveSocketKeeps DEF Serve, CloseAll

-----------------------------------------------------------------------------
(* Steps of batch programs and of control commands.                        *)

\* What is true of servers and sockets does not depend on commands, as long
\* as no server loses its lock.
LEMMA ServersUntouched ==
  ASSUME OwnershipIInv, UNCHANGED <<pidfile, socket, serverVars>>,
         \A s \in Servers : ownerPhase[s] \in LockPhases => lock' = lock
  PROVE  StartedInv' /\ LockInv' /\ SocketInv' /\ \A pid : Past(pid)' = Past(pid)
<1> USE DEF serverVars, OwnershipIInv
<1>1. StartedInv' /\ SocketInv'
  BY DEF StartedInv, Running, SocketInv, Pid
<1>2. LockInv'
  BY DEF LockInv, Pid
<1>3. \A pid : Past(pid)' = Past(pid)
  BY DEF Past
<1> QED
  BY <1>1, <1>2, <1>3

\* A lock nobody has, or that is not a server's, is no server's to lose.
LEMMA ForeignLock ==
  ASSUME OwnershipIInv, lock \in Clients \cup Batches \cup {None}, NEW s \in Servers
  PROVE  ownerPhase[s] \notin LockPhases
BY PidFacts DEF OwnershipIInv, LockInv, LockPhases, Running

\* aizim run takes and drops the lock beside the servers.
LEMMA BatchKeeps == ASSUME OwnershipIInv, NEW b \in Batches, OpenBatch(b) \/ CloseBatch(b) PROVE OwnershipIInv'
<1> USE DEF OpenBatch, CloseBatch, TakeLock, DropLock
<1>1. lock \in Batches \cup {None} /\ lock' \in Batches \cup {None}
  OBVIOUS
<1>2. StartedInv' /\ LockInv' /\ SocketInv' /\ \A pid : Past(pid)' = Past(pid)
  BY <1>1, ForeignLock, ServersUntouched
<1>3. OwnerTypeOK'
  BY <1>1 DEF OwnershipIInv, OwnerTypeOK, serverVars, clientVars
<1>4. PastInv' /\ CallInv' /\ AnswerFromSeenOwner'
  BY <1>2 DEF OwnershipIInv, PastInv, CallInv, AnswerFromSeenOwner, clientVars
<1> QED
  BY <1>2, <1>3, <1>4 DEF OwnershipIInv

\* A step of a command that leaves the lock alone leaves the servers alone;
\* what remains is what the command knows.
LEMMA CommandStep ==
  ASSUME OwnershipIInv, UNCHANGED <<files, serverVars, ownerCalls, before>>,
         call' \in [Clients -> {"idle", "before", "alone", "commit", "validate", "rpc",
                               "revalidate", "after"}],
         servedBy' \in [Clients -> Pids \cup {None, Alone}],
         answer' \in [Clients -> {None, "ok", "failed"}],
         CallInv', AnswerFromSeenOwner'
  PROVE  OwnershipIInv'
<1> USE DEF files
<1>1. StartedInv' /\ LockInv' /\ SocketInv' /\ \A pid : Past(pid)' = Past(pid)
  BY ServersUntouched
<1>2. OwnerTypeOK' /\ PastInv'
  BY <1>1 DEF OwnershipIInv, OwnerTypeOK, PastInv, serverVars
<1> QED
  BY <1>1, <1>2 DEF OwnershipIInv

\* The command reads both identities; it keeps the socket only if it was there.
LEMMA LookingKeeps ==
  ASSUME OwnershipIInv, NEW c \in Clients, Call(c) \/ SeeSocket(c)
  PROVE  OwnershipIInv'
<1> USE OwnerAssumption DEF Call, SeeSocket, Proceed, Report, files
<1>t. OwnerTypeOK
  BY DEF OwnershipIInv
<1>1. StartedInv' /\ LockInv' /\ SocketInv' /\ \A pid : Past(pid)' = Past(pid)
  BY ServersUntouched
<1>2. /\ before' \in [Clients -> (PidRecords \cup {None}) \X (SocketFiles \cup {None})]
      /\ \A d \in Clients : d # c => before'[d] = before[d]
      /\ before'[c][2] \in {None, socket}
  BY <1>t DEF OwnerTypeOK
<1>3. OwnerTypeOK'
  <2>1. /\ call' \in [Clients -> {"idle", "before", "alone", "commit", "validate", "rpc",
                                   "revalidate", "after"}]
        /\ answer' \in [Clients -> {None, "ok", "failed"}]
    <3>1. CASE Call(c)
      BY <3>1, <1>t DEF OwnerTypeOK
    <3>2. CASE SeeSocket(c)
      BY <3>2, <1>t DEF OwnerTypeOK
    <3> QED
      BY <3>1, <3>2
  <2>2. /\ ownerCalls' \in [Clients -> 0..MaxCalls]
        /\ servedBy' \in [Clients -> Pids \cup {None, Alone}]
    <3>1. CASE Call(c)
      BY <3>1, <1>t DEF OwnerTypeOK
    <3>2. CASE SeeSocket(c)
      BY <3>2, <1>t DEF OwnerTypeOK
    <3> QED
      BY <3>1, <3>2
  <2> QED
    BY <1>t, <1>2, <2>1, <2>2 DEF OwnerTypeOK, serverVars
<1>4. PastInv'
  BY <1>1, <1>2 DEF OwnershipIInv, PastInv
<1>5. CallInv' /\ AnswerFromSeenOwner'
  <2>1. CASE Call(c)
    BY <2>1, <1>t, <1>2 DEF OwnershipIInv, CallInv, AnswerFromSeenOwner, OwnerTypeOK
  <2>2. CASE SeeSocket(c)
    <3>1. before'[c] = <<before[c][1], socket>>
      BY <2>2, <1>t DEF OwnerTypeOK
    <3>2. CASE <<before[c][1], socket>> = <<None, None>>
      BY <2>2, <3>1, <3>2, <1>t, <1>2 DEF OwnershipIInv, CallInv, AnswerFromSeenOwner, OwnerTypeOK
    <3>3. CASE <<before[c][1], socket>> # <<None, None>> /\ (before[c][1] = None \/ socket = None)
      BY <2>2, <3>1, <3>3, <1>t, <1>2 DEF OwnershipIInv, CallInv, AnswerFromSeenOwner, OwnerTypeOK
    <3>4. CASE before[c][1] # None /\ socket # None
      BY <2>2, <3>1, <3>4, <1>t, <1>2 DEF OwnershipIInv, CallInv, AnswerFromSeenOwner, OwnerTypeOK
    <3> QED
      BY <3>2, <3>3, <3>4
  <2> QED
    BY <2>1, <2>2
<1> QED
  BY <1>1, <1>3, <1>4, <1>5 DEF OwnershipIInv

\* A command alone takes the lock only when nobody has it and drops its own.
LEMMA AloneKeeps ==
  ASSUME OwnershipIInv, NEW c \in Clients, OpenAlone(c) \/ CommitAlone(c)
  PROVE  OwnershipIInv'
<1> USE OwnerAssumption DEF OpenAlone, CommitAlone, TakeLock, DropLock, Proceed, Report
<1>t. OwnerTypeOK
  BY DEF OwnershipIInv
<1>1. \/ lock' = lock
      \/ lock \in Clients \cup {None} /\ lock' \in Clients \cup {None}
  <2>1. CASE OpenAlone(c)
    BY <2>1
  <2>2. CASE CommitAlone(c)
    BY <2>2
  <2> QED
    BY <2>1, <2>2
<1>2. StartedInv' /\ LockInv' /\ SocketInv' /\ \A pid : Past(pid)' = Past(pid)
  BY <1>1, ForeignLock, ServersUntouched
<1>3. OwnerTypeOK'
  BY <1>t, <1>1, ZenonT(40) DEF OwnerTypeOK, serverVars
<1>4. PastInv'
  BY <1>2 DEF OwnershipIInv, PastInv
<1>5. CallInv'
  <2>1. CASE OpenAlone(c)
    BY <2>1, <1>t DEF OwnershipIInv, CallInv, OwnerTypeOK
  <2>2. CASE CommitAlone(c)
    BY <2>2, <1>t DEF OwnershipIInv, CallInv, OwnerTypeOK
  <2> QED
    BY <2>1, <2>2
<1>6. AnswerFromSeenOwner'
  <2>1. CASE OpenAlone(c)
    BY <2>1, <1>t DEF OwnershipIInv, AnswerFromSeenOwner, OwnerTypeOK
  <2>2. CASE CommitAlone(c)
    BY <2>2, <1>t DEF OwnershipIInv, CallInv, AnswerFromSeenOwner, OwnerTypeOK
  <2> QED
    BY <2>1, <2>2
<1> QED
  BY <1>2, <1>3, <1>4, <1>5, <1>6 DEF OwnershipIInv

\* Between its two looks the command asks whoever listens; if that is not the
\* process it saw, the socket it saw is gone and does not come back.
LEMMA AskingKeeps ==
  ASSUME OwnershipIInv, NEW c \in Clients, Validate(c) \/ CallService(c) \/ Revalidate(c) \/ CompareOwners(c)
  PROVE  OwnershipIInv'
<1> USE OwnerAssumption DEF Proceed, Report
<1>t. OwnerTypeOK
  BY DEF OwnershipIInv
<1>1. CASE Validate(c) \/ Revalidate(c)
  <2>1. CallInv' /\ AnswerFromSeenOwner'
    BY <1>1, <1>t DEF OwnershipIInv, CallInv, AnswerFromSeenOwner, OwnerTypeOK, Validate, Revalidate, files
  <2> QED
    BY <1>1, <2>1, <1>t, CommandStep DEF OwnerTypeOK, Validate, Revalidate
<1>2. CASE CallService(c)
  <2>1. servedBy' \in [Clients -> Pids \cup {None, Alone}]
    BY <1>2, <1>t DEF OwnerTypeOK, CallService, SocketFiles
  <2>2. CallInv' /\ AnswerFromSeenOwner'
    BY <1>2, <1>t DEF OwnershipIInv, CallInv, AnswerFromSeenOwner, OwnerTypeOK, CallService, files
  <2> QED
    BY <1>2, <2>1, <2>2, <1>t, CommandStep DEF OwnerTypeOK, CallService
<1>3. CASE CompareOwners(c)
  <2>1. before[c] = <<pidfile, socket>> => before[c][2] = socket
    OBVIOUS
  <2>2. CallInv' /\ AnswerFromSeenOwner'
    BY <1>3, <2>1, <1>t DEF OwnershipIInv, CallInv, AnswerFromSeenOwner, OwnerTypeOK, CompareOwners, files
  <2> QED
    BY <1>3, <2>2, <1>t, CommandStep DEF OwnerTypeOK, CompareOwners
<1> QED
  BY <1>1, <1>2, <1>3

-----------------------------------------------------------------------------
(* Theorems.                                                               *)

\* The invariant holds throughout: initially, over every step of a server, a
\* batch program or a command, and while nothing happens.
THEOREM Ownership == OwnerSpec => []OwnershipIInv
<1>1. OwnershipIInv /\ [OwnerNext]_ownerVars => OwnershipIInv'
  <2> SUFFICES ASSUME OwnershipIInv, [OwnerNext]_ownerVars PROVE OwnershipIInv'
    OBVIOUS
  <2>1. ASSUME NEW c \in Clients, Control(c) PROVE OwnershipIInv'
    BY <2>1, LookingKeeps, AloneKeeps, AskingKeeps DEF Control
  <2>2. CASE UNCHANGED ownerVars
    <3> USE <2>2 DEF ownerVars, files, serverVars, clientVars
    <3>1. StartedInv' /\ LockInv' /\ SocketInv' /\ \A pid : Past(pid)' = Past(pid)
      BY ServersUntouched
    <3>2. OwnerTypeOK' /\ PastInv' /\ CallInv' /\ AnswerFromSeenOwner'
      BY <3>1 DEF OwnershipIInv, OwnerTypeOK, PastInv, CallInv, AnswerFromSeenOwner
    <3> QED
      BY <3>1, <3>2 DEF OwnershipIInv
  <2> QED
    BY <2>1, <2>2, ServerKeeps, BatchKeeps DEF OwnerNext
<1> QED
  BY <1>1, InitIInv, PTL DEF OwnerSpec

\* Records, sockets, phases and answers have their types in every reachable
\* state, however often servers are killed and started again.
THEOREM OwnershipTypes == OwnerSpec => []OwnerTypeOK
BY Ownership, PTL DEF OwnershipIInv

\* A server that serves has the lock and its private socket at the path: no
\* start, stop or kill of another process takes them away.
THEOREM ServingIsReachable == OwnerSpec => []ServerIsReachable
<1>1. OwnershipIInv => ServerIsReachable
  BY DEF OwnershipIInv, LockInv, LockPhases, SocketInv, ServerIsReachable
<1> QED
  BY <1>1, Ownership, PTL

\* The success a control command reports was committed by the process whose
\* socket it saw before, or by itself while nobody served.
THEOREM AnswersComeFromSeenOwner == OwnerSpec => []AnswerFromSeenOwner
BY Ownership, PTL DEF OwnershipIInv

-----------------------------------------------------------------------------
(* The RPC server                                                          *)

\* From the second round of _close_connections on, no connection is on its way
\* to _accept_connection, and after it no handler is left either: a client that
\* connects in time is accepted at the latest in the turn before that round.
LateInv ==
  /\ rpcPhase \in {"drainLate", "drainingLate", "remove", "closed"} => RpcAccepted = {}
  /\ rpcPhase \in {"remove", "closed"} => RpcHandlers = {}

RpcIInv == RpcTypeOK /\ LateInv /\ AppendNeedsSession

\* The handlers and the accepted connections when one connection has moved.
LEMMA RpcMoved ==
  ASSUME RpcTypeOK, NEW p \in RpcPeers,
         NEW next \in {"none", "accepted", "read", "write", "finish", "over"},
         RpcMove(p, next)
  PROVE  /\ rpcConn' \in [RpcPeers -> {"none", "accepted", "read", "write", "finish", "over"}]
         /\ RpcHandlers' = IF next \in {"read", "write", "finish"}
                             THEN RpcHandlers \cup {p} ELSE RpcHandlers \ {p}
         /\ RpcAccepted' = IF next = "accepted" THEN RpcAccepted \cup {p}
                                                ELSE RpcAccepted \ {p}
BY DEF RpcTypeOK, RpcMove, RpcHandlers, RpcAccepted

\* No connection yet.
LEMMA InitRpcIInv == RpcInit => RpcIInv
BY DEF RpcInit, RpcIInv, RpcTypeOK, LateInv, AppendNeedsSession, RpcHandlers,
       RpcAccepted, RpcPhases

\* Steps that leave the connections' states alone and at most set the flags of
\* writers, peers and failures.
LEMMA RpcStill ==
  ASSUME RpcIInv, UNCHANGED <<rpcConn, returning, trustVars, rpcPhase, drained>>,
         shut' \subseteq RpcPeers, left' \subseteq RpcPeers,
         rpcFailure' \in BOOLEAN, interrupted' \in BOOLEAN
  PROVE  RpcIInv'
BY DEF RpcIInv, RpcTypeOK, LateInv, AppendNeedsSession, RpcHandlers, RpcAccepted, trustVars

\* A handler that goes from one await to the next stays a handler.
LEMMA RpcHandlerGoesOn ==
  ASSUME RpcIInv, NEW p \in RpcHandlers, NEW next \in {"read", "write", "finish"},
         RpcMove(p, next),
         UNCHANGED <<shut, left, rpcPhase, drained, interrupted>>,
         returning' \subseteq RpcPeers, rpcFailure' \in BOOLEAN,
         trusted' \subseteq presented', presented' \subseteq RpcPeers,
         appended' \subseteq presented'
  PROVE  RpcIInv'
<1>0. p \in RpcPeers
  BY DEF RpcHandlers
<1>t. RpcTypeOK /\ LateInv
  BY DEF RpcIInv
<1>1. /\ rpcConn' \in [RpcPeers -> {"none", "accepted", "read", "write", "finish", "over"}]
      /\ RpcHandlers' = RpcHandlers
      /\ RpcAccepted' \subseteq RpcAccepted
  BY <1>0, <1>t, RpcMoved
<1>2. RpcTypeOK'
  BY <1>1, <1>t DEF RpcTypeOK
<1>3. LateInv'
  BY <1>1, <1>t DEF LateInv
<1> QED
  BY <1>2, <1>3 DEF RpcIInv, AppendNeedsSession

\* A step of _cleanup moves the phase and may close writers.
LEMMA RpcPhaseMoves ==
  ASSUME RpcIInv, UNCHANGED <<rpcConn, left, returning, trustVars, drained, interrupted>>,
         shut' \subseteq RpcPeers, rpcFailure' \in BOOLEAN,
         rpcPhase' \in RpcPhases,
         rpcPhase' \in {"drainLate", "drainingLate", "remove", "closed"} => RpcAccepted = {},
         rpcPhase' \in {"remove", "closed"} => RpcHandlers = {}
  PROVE  RpcIInv'
<1>1. RpcHandlers' = RpcHandlers /\ RpcAccepted' = RpcAccepted
  BY DEF RpcHandlers, RpcAccepted
<1>2. RpcTypeOK'
  BY <1>1 DEF RpcIInv, RpcTypeOK, trustVars
<1>3. LateInv'
  BY <1>1 DEF LateInv
<1> QED
  BY <1>2, <1>3 DEF RpcIInv, AppendNeedsSession, trustVars

\* A connection comes only while the server listens.
LEMMA ConnectRpcIInv ==
  ASSUME RpcIInv, NEW p \in RpcPeers, Connect(p)
  PROVE  RpcIInv'
<1>t. RpcTypeOK /\ LateInv
  BY DEF RpcIInv
<1>1. /\ rpcConn' \in [RpcPeers -> {"none", "accepted", "read", "write", "finish", "over"}]
      /\ RpcHandlers' = RpcHandlers \ {p}
  BY <1>t, RpcMoved DEF Connect
<1>2. RpcHandlers' = RpcHandlers
  BY <1>1 DEF Connect, RpcHandlers
<1>3. RpcTypeOK'
  BY <1>1, <1>2, <1>t DEF Connect, RpcTypeOK, trustVars
<1>4. LateInv'
  BY DEF Connect, RpcListening, LateInv
<1> QED
  BY <1>3, <1>4 DEF RpcIInv, AppendNeedsSession, Connect, trustVars

\* A connection that is accepted was on its way, so the last round is to come.
LEMMA AcceptRpcIInv ==
  ASSUME RpcIInv, NEW p \in RpcPeers, RpcAccept(p)
  PROVE  RpcIInv'
<1>t. RpcTypeOK /\ LateInv
  BY DEF RpcIInv
<1>0. p \in RpcAccepted
  BY DEF RpcAccept, RpcAccepted
<1>1. /\ rpcConn' \in [RpcPeers -> {"none", "accepted", "read", "write", "finish", "over"}]
      /\ RpcHandlers' = RpcHandlers \cup {p}
      /\ RpcAccepted' \subseteq RpcAccepted
  BY <1>t, RpcMoved DEF RpcAccept
<1>2. RpcTypeOK'
  BY <1>1, <1>t DEF RpcAccept, RpcTypeOK, trustVars
<1>3. LateInv'
  BY <1>0, <1>1, <1>t DEF RpcAccept, LateInv
<1> QED
  BY <1>2, <1>3 DEF RpcIInv, AppendNeedsSession, RpcAccept, trustVars

\* An append that succeeds came over a connection that is trusted by now.
LEMMA RequestRpcIInv ==
  ASSUME RpcIInv, NEW p \in RpcPeers, NEW operation \in Operations,
         NEW known \in BOOLEAN, Request(p, operation, known)
  PROVE  RpcIInv'
<1>t. RpcTypeOK /\ AppendNeedsSession
  BY DEF RpcIInv
<1>1. p \in RpcHandlers
  BY DEF Request, RpcHandlers
<1>2. trusted' \subseteq presented' /\ presented' \subseteq RpcPeers
  BY <1>t DEF Request, RpcTypeOK
<1>3. presented \subseteq presented'
  BY DEF Request
<1>4. appended' \subseteq presented'
  <2>1. PICK response \in RpcDispatch(operation, p \in trusted') :
          appended' = IF operation = "append" /\ response = "SUCCESS"
                        THEN appended \cup {p} ELSE appended
    BY DEF Request
  <2>2. CASE operation = "append" /\ response = "SUCCESS"
    <3>1. p \in trusted'
      BY <2>1, <2>2 DEF RpcDispatch
    <3> QED
      BY <2>1, <2>2, <3>1, <1>2, <1>3, <1>t DEF AppendNeedsSession
  <2>3. CASE ~(operation = "append" /\ response = "SUCCESS")
    BY <2>1, <2>3, <1>3, <1>t DEF AppendNeedsSession
  <2> QED
    BY <2>2, <2>3
<1>5. /\ RpcMove(p, "write")
      /\ UNCHANGED <<shut, left, returning, rpcPhase, drained, rpcFailure, interrupted>>
  BY DEF Request
<1> QED
  BY <1>1, <1>2, <1>4, <1>5, <1>t, RpcHandlerGoesOn DEF RpcTypeOK

\* The other steps of a handler between its first and its last await.
LEMMA HandlerRpcIInv ==
  ASSUME RpcIInv, NEW p \in RpcPeers,
         RequestRaises(p) \/ BadFrame(p) \/ Written(p) \/ EndOfStream(p)
  PROVE  RpcIInv'
<1>t. RpcTypeOK /\ AppendNeedsSession
  BY DEF RpcIInv
<1>1. p \in RpcHandlers
  BY DEF RequestRaises, BadFrame, Written, EndOfStream, RpcHandlers
<1>2. /\ trusted' \subseteq presented' /\ presented' \subseteq RpcPeers
      /\ appended' \subseteq presented'
      /\ returning' \subseteq RpcPeers /\ rpcFailure' \in BOOLEAN
      /\ UNCHANGED <<shut, left, rpcPhase, drained, interrupted>>
  BY <1>t DEF RequestRaises, BadFrame, Written, EndOfStream, RpcTypeOK, AppendNeedsSession,
              trustVars
<1>3. PICK next \in {"read", "write", "finish"} : RpcMove(p, next)
  BY DEF RequestRaises, BadFrame, Written, EndOfStream
<1> QED
  BY <1>1, <1>2, <1>3, RpcHandlerGoesOn

\* The last handler sets the event, and only the last.
LEMMA HandlerDoneRpcIInv ==
  ASSUME RpcIInv, NEW p \in RpcPeers, HandlerDone(p)
  PROVE  RpcIInv'
<1>t. RpcTypeOK /\ LateInv
  BY DEF RpcIInv
<1>0. p \in RpcHandlers
  BY DEF HandlerDone, RpcHandlers
<1>1. /\ rpcConn' \in [RpcPeers -> {"none", "accepted", "read", "write", "finish", "over"}]
      /\ RpcHandlers' = RpcHandlers \ {p}
      /\ RpcAccepted' \subseteq RpcAccepted
  BY <1>t, RpcMoved DEF HandlerDone
<1>2. drained' = (RpcHandlers' = {})
  BY <1>0, <1>1 DEF HandlerDone
<1>3. RpcTypeOK'
  BY <1>1, <1>2, <1>t DEF HandlerDone, RpcTypeOK, trustVars
<1>4. LateInv'
  BY <1>1, <1>t DEF HandlerDone, LateInv
<1> QED
  BY <1>3, <1>4 DEF RpcIInv, AppendNeedsSession, HandlerDone, trustVars

\* The steps of the close.
LEMMA CleanupRpcIInv ==
  ASSUME RpcIInv, RpcBeginClose \/ Cleanup
  PROVE  RpcIInv'
<1>t. RpcTypeOK /\ LateInv
  BY DEF RpcIInv
<1>h. RpcHandlers \subseteq RpcPeers
  BY DEF RpcHandlers
<1>1. CASE RpcBeginClose
  BY <1>1, <1>t, RpcPhaseMoves DEF RpcBeginClose, Goes, connVars, RpcTypeOK, RpcPhases
<1>2. CASE RpcStopListening
  BY <1>2, <1>t, RpcPhaseMoves DEF RpcStopListening, Goes, connVars, RpcTypeOK, RpcPhases
<1>3. CASE CloseConnections("drain", "draining", "wait")
  BY <1>3, <1>t, <1>h, RpcPhaseMoves DEF CloseConnections, Goes, RpcTypeOK, RpcPhases
<1>4. CASE HandlersDrained("draining", "drain")
  BY <1>4, <1>t, RpcPhaseMoves DEF HandlersDrained, Goes, connVars, RpcTypeOK, RpcPhases
<1>5. CASE ServerClosed
  BY <1>5, <1>t, RpcPhaseMoves DEF ServerClosed, Goes, connVars, RpcTypeOK, RpcPhases
<1>6. CASE RpcTurnOver
  BY <1>6, <1>t, RpcPhaseMoves DEF RpcTurnOver, Goes, connVars, RpcTypeOK, RpcPhases
<1>7. CASE CloseConnections("drainLate", "drainingLate", "remove")
  BY <1>7, <1>t, <1>h, RpcPhaseMoves DEF CloseConnections, Goes, LateInv, RpcTypeOK, RpcPhases
<1>8. CASE HandlersDrained("drainingLate", "drainLate")
  BY <1>8, <1>t, RpcPhaseMoves DEF HandlersDrained, Goes, connVars, LateInv, RpcTypeOK, RpcPhases
<1>9. CASE CloseStore
  BY <1>9, <1>t, RpcPhaseMoves DEF CloseStore, connVars, LateInv, RpcTypeOK, RpcPhases
<1> QED
  BY <1>1, <1>2, <1>3, <1>4, <1>5, <1>6, <1>7, <1>8, <1>9 DEF Cleanup

\* The invariant is inductive.
LEMMA NextRpcIInv == RpcIInv /\ [RpcNext]_rpcVars => RpcIInv'
<1> SUFFICES ASSUME RpcIInv, [RpcNext]_rpcVars PROVE RpcIInv'
  OBVIOUS
<1>t. RpcTypeOK
  BY DEF RpcIInv
<1>1. CASE RpcBeginClose \/ Cleanup
  BY <1>1, CleanupRpcIInv
<1>2. CASE CancelClose
  BY <1>2, <1>t, RpcStill DEF CancelClose, connVars, RpcTypeOK
<1>3. ASSUME NEW p \in RpcPeers, Connect(p) PROVE RpcIInv'
  BY <1>3, ConnectRpcIInv
<1>4. ASSUME NEW p \in RpcPeers, RpcHandle(p) PROVE RpcIInv'
  BY <1>4, AcceptRpcIInv, HandlerRpcIInv, HandlerDoneRpcIInv DEF RpcHandle
<1>5. ASSUME NEW p \in RpcPeers, PeerLeaves(p) PROVE RpcIInv'
  BY <1>5, <1>t, RpcStill DEF PeerLeaves, RpcTypeOK
<1>6. ASSUME NEW p \in RpcPeers, NEW operation \in Operations, NEW known \in BOOLEAN,
             Request(p, operation, known)
      PROVE  RpcIInv'
  BY <1>6, RequestRpcIInv
<1>7. ASSUME NEW p \in RpcPeers, RequestRaises(p) \/ BadFrame(p) PROVE RpcIInv'
  BY <1>7, HandlerRpcIInv
<1>8. CASE UNCHANGED rpcVars
  BY <1>8, <1>t, RpcStill DEF rpcVars, connVars, RpcTypeOK
<1> QED
  BY <1>1, <1>2, <1>3, <1>4, <1>5, <1>6, <1>7, <1>8 DEF RpcNext

\* The invariant of the RPC server, in every reachable state (RpcServer).
THEOREM RpcInvariant == RpcSpec => []RpcIInv
<1> QED
  BY InitRpcIInv, NextRpcIInv, PTL DEF RpcSpec

\* Every value the server works with has its type, and _handlers_drained is set
\* exactly when no handler is left (_handler_done, _accept_connection).
THEOREM RpcTypes == RpcSpec => []RpcTypeOK
<1>1. RpcIInv => RpcTypeOK
  BY DEF RpcIInv
<1> QED
  BY RpcInvariant, <1>1, PTL

\* When StateService closes the store, no handler is left and none comes, however
\* many connections arrive during the close (RpcServer._cleanup).
THEOREM StoreClosesLast == RpcSpec => []NoHandlerOutlivesStore
<1>1. RpcIInv => NoHandlerOutlivesStore
  BY DEF RpcIInv, LateInv, NoHandlerOutlivesStore
<1> QED
  BY RpcInvariant, <1>1, PTL

\* An event is appended only over a connection that presented the service session,
\* for any number of connections (_handle_connection, dispatch_operation).
THEOREM AppendsAreAuthorized == RpcSpec => []AppendNeedsSession
<1>1. RpcIInv => AppendNeedsSession
  BY DEF RpcIInv
<1> QED
  BY RpcInvariant, <1>1, PTL

-----------------------------------------------------------------------------
(* The session broker and the capability gateway                           *)

\* Where the handler of a connection may stand.
ConnStates == {"none", "read", "shut", "granted", "refused", "serve", "target", "reply",
               "finish", "over"}

\* A handler has taken a session when it answers, and not before.
TakenInv ==
  \A p \in Peers :
    /\ conn[p] \in {"none", "read", "shut"} => session[p] = NoSession
    /\ conn[p] \in {"granted", "serve", "target", "reply"} => session[p] \in Sessions

\* A session that is registered was issued; one that is taken is registered no more
\* and belongs to one handler, because a session is issued and so registered once.
OnceInv ==
  /\ \A s \in pending : token[s] # "none"
  /\ \A p \in Peers : session[p] # NoSession =>
       /\ session[p] \notin pending /\ token[session[p]] # "none"
       /\ \A q \in Peers : session[q] = session[p] => q = p

\* A token goes to the genuine peer whose handler took the session, and to nobody
\* before it is granted.
GivenInv ==
  /\ \A s \in Sessions : \A p \in given[s] : p \in Genuine /\ session[p] = s
  /\ \A p \in Peers : conn[p] = "granted" => p \in Genuine /\ given[session[p]] = {}

\* The handlers that still have to wipe what they took.
MustWipe == {"granted", "refused", "serve", "target", "reply"}

\* Token bytes in memory are reached by whoever will wipe them.
HeldInv ==
  \A s \in Sessions : secret[s] = "held" =>
    s \in pending \/ \E p \in Peers : session[p] = s /\ conn[p] \in MustWipe

\* A closed broker registers nothing.
ClosedInv == gatewayPhase = "closed" => pending = {}

SessionInv == TakenInv /\ OnceInv /\ GivenInv /\ HeldInv /\ ClosedInv

\* A request counts once, as a denial or as a target reached.
CountInv ==
  /\ IsFiniteSet(Reached)
  /\ denials <= gatewayCalls
  /\ \A s \in Sessions : gatewayBegun[s] <= gatewayCalls
  /\ EveryCallAccounted

GatewayIInv == GatewayTypeOK /\ SessionInv /\ CountInv

\* Nothing is registered, taken or counted yet.
LEMMA InitGatewayIInv == GatewayInit => GatewayIInv
<1> SUFFICES ASSUME GatewayInit PROVE GatewayIInv
  OBVIOUS
<1>1. GatewayTypeOK
  <2>1. window \in [number : 0 .. MaxWindows, count : 0 .. RequestLimit]
    BY GatewayAssumption DEF GatewayInit
  <2>2. spent \in 0 .. RunBudget /\ 0 \in 0 .. GatewayMaxCalls
    BY GatewayAssumption DEF GatewayInit
  <2> QED
    BY <2>1, <2>2 DEF GatewayInit, GatewayTypeOK, GatewayPhases
<1>2. SessionInv
  BY DEF GatewayInit, SessionInv, TakenInv, OnceInv, GivenInv, HeldInv, ClosedInv
<1>3. Reached = {}
  BY DEF GatewayInit, Reached
<1>4. CountInv
  BY <1>3, FS_EmptySet DEF GatewayInit, CountInv, EveryCallAccounted
<1> QED
  BY <1>1, <1>2, <1>4 DEF GatewayIInv

\* The handlers' states when one of them has moved.
LEMMA ConnMoved ==
  ASSUME GatewayTypeOK, NEW p \in Peers, NEW to \in ConnStates, Move(p, to)
  PROVE  /\ conn' \in [Peers -> ConnStates]
         /\ conn'[p] = to
         /\ \A q \in Peers \ {p} : conn'[q] = conn[q]
BY DEF GatewayTypeOK, ConnStates, Move

\* A handler under way has not met the end of the close.
LEMMA HandlerNotClosed ==
  ASSUME GatewayTypeOK, NEW p \in Handlers
  PROVE  gatewayPhase # "closed"
BY DEF GatewayTypeOK, GatewayDrained

\* The types of what no handler step but a request touches.
StillTyped ==
  /\ window' \in [number : 0 .. MaxWindows, count : 0 .. RequestLimit]
  /\ spent' \in 0 .. RunBudget
  /\ gatewayBegun' \in [Sessions -> 0 .. GatewayMaxCalls]
  /\ gatewayCalls' \in 0 .. GatewayMaxCalls /\ denials' \in 0 .. GatewayMaxCalls
  /\ failure' \in BOOLEAN

\* A step that leaves the gateway's variables but for a failure keeps their types.
LEMMA StillTypedKept ==
  ASSUME GatewayTypeOK, UNCHANGED gatewayVars, failure' \in BOOLEAN
  PROVE  StillTyped
BY DEF GatewayTypeOK, StillTyped, gatewayVars

\* A token is given by a handler that was granted it and moves on.
LEMMA GivenKept ==
  ASSUME GatewayTypeOK, SessionInv, NEW p \in Peers,
         conn'[p] # "granted", \A q \in Peers \ {p} : conn'[q] = conn[q],
         UNCHANGED session,
         \/ UNCHANGED given
         \/ conn[p] = "granted" /\ given' = [given EXCEPT ![session[p]] = @ \cup {p}]
  PROVE  given' \in [Sessions -> SUBSET Peers] /\ GivenInv'
<1>g. /\ given' \in [Sessions -> SUBSET Peers]
      /\ \A s \in Sessions \ {session[p]} : given'[s] = given[s]
      /\ session[p] \in Sessions => given'[session[p]] \subseteq given[session[p]] \cup {p}
      /\ conn[p] # "granted" => given' = given
  BY DEF GatewayTypeOK
<1>1. ASSUME NEW s \in Sessions, NEW q \in given'[s] PROVE q \in Genuine /\ session'[q] = s
  <2>1. CASE q \in given[s]
    BY <2>1 DEF SessionInv, GivenInv
  <2>2. CASE q \notin given[s]
    <3>1. s = session[p] /\ q = p /\ conn[p] = "granted"
      BY <1>g, <1>1, <2>2
    <3> QED
      BY <3>1 DEF SessionInv, GivenInv
  <2> QED
    BY <2>1, <2>2
<1>2. ASSUME NEW q \in Peers, conn'[q] = "granted"
      PROVE  q \in Genuine /\ given'[session'[q]] = {}
  <2>1. q # p /\ conn[q] = "granted"
    BY <1>2
  <2>2. session[q] \in Sessions /\ session[q] # session[p]
    BY <2>1, GatewayAssumption DEF SessionInv, TakenInv, OnceInv
  <2> QED
    BY <2>1, <2>2, <1>g DEF SessionInv, GivenInv
<1> QED
  BY <1>g, <1>1, <1>2 DEF GivenInv

\* A handler goes on with the session it has, or has none and takes none.
LEMMA HandlerGoesOn ==
  ASSUME GatewayTypeOK, SessionInv, StillTyped, NEW p \in Peers, NEW to \in ConnStates,
         Move(p, to), UNCHANGED <<sessionVars, session, gatewayPhase>>,
         \/ UNCHANGED given
         \/ conn[p] = "granted" /\ given' = [given EXCEPT ![session[p]] = @ \cup {p}],
         gatewayPhase # "closed",
         to # "granted",
         to \in {"none", "read", "shut"} => conn[p] \in {"none", "read", "shut"},
         to \in {"serve", "target", "reply"} =>
           conn[p] \in {"granted", "serve", "target", "reply"},
         to \in {"finish", "over"} => conn[p] \notin MustWipe
  PROVE  GatewayTypeOK' /\ SessionInv'
<1>1. /\ conn' \in [Peers -> ConnStates]
      /\ conn'[p] = to
      /\ \A q \in Peers \ {p} : conn'[q] = conn[q]
  BY ConnMoved
<1>g. given' \in [Sessions -> SUBSET Peers] /\ GivenInv'
  BY <1>1, GivenKept
<1>2. GatewayTypeOK'
  BY <1>1, <1>g DEF GatewayTypeOK, StillTyped, sessionVars, ConnStates
<1>3. TakenInv'
  BY <1>1 DEF SessionInv, TakenInv
<1>4. OnceInv'
  BY DEF SessionInv, OnceInv, sessionVars
<1>6. HeldInv'
  <2> SUFFICES ASSUME NEW s \in Sessions, secret'[s] = "held", s \notin pending'
               PROVE  \E q \in Peers : session'[q] = s /\ conn'[q] \in MustWipe
    BY DEF HeldInv
  <2>1. PICK q \in Peers : session[q] = s /\ conn[q] \in MustWipe
    BY DEF SessionInv, HeldInv, sessionVars
  <2>2. CASE q # p
    BY <2>1, <2>2, <1>1
  <2>3. CASE q = p
    BY <2>1, <2>3, <1>1 DEF MustWipe, ConnStates
  <2> QED
    BY <2>2, <2>3
<1>7. ClosedInv'
  BY DEF ClosedInv
<1> QED
  BY <1>g, <1>2, <1>3, <1>4, <1>6, <1>7 DEF SessionInv

\* A handler that ends wipes the token of the session it took.
LEMMA HandlerLeaves ==
  ASSUME GatewayTypeOK, SessionInv, StillTyped, NEW p \in Peers,
         conn[p] \in ConnStates \ {"none", "finish", "over"},
         Leave(p), UNCHANGED <<pending, token, lapsed, session, gatewayPhase>>,
         \/ UNCHANGED given
         \/ conn[p] = "granted" /\ given' = [given EXCEPT ![session[p]] = @ \cup {p}]
  PROVE  GatewayTypeOK' /\ SessionInv'
<1>1. /\ conn' \in [Peers -> ConnStates]
      /\ conn'[p] = "finish"
      /\ \A q \in Peers \ {p} : conn'[q] = conn[q]
  BY ConnMoved DEF Leave, ConnStates
<1>2. secret' = [s \in Sessions |-> IF s = session[p] THEN "cleared" ELSE secret[s]]
  BY GatewayAssumption DEF Leave, Wipe
<1>3. gatewayPhase # "closed"
  BY HandlerNotClosed DEF Handlers, ConnStates
<1>g. given' \in [Sessions -> SUBSET Peers] /\ GivenInv'
  BY <1>1, GivenKept
<1>4. GatewayTypeOK'
  BY <1>1, <1>2, <1>3, <1>g DEF GatewayTypeOK, StillTyped, ConnStates
<1>5. TakenInv'
  BY <1>1 DEF SessionInv, TakenInv
<1>6. OnceInv'
  BY DEF SessionInv, OnceInv
<1>8. HeldInv'
  <2> SUFFICES ASSUME NEW s \in Sessions, secret'[s] = "held", s \notin pending'
               PROVE  \E q \in Peers : session'[q] = s /\ conn'[q] \in MustWipe
    BY DEF HeldInv
  <2>1. s # session[p] /\ secret[s] = "held"
    BY <1>2
  <2>2. PICK q \in Peers : session[q] = s /\ conn[q] \in MustWipe
    BY <2>1 DEF SessionInv, HeldInv
  <2> QED
    BY <2>1, <2>2, <1>1
<1>9. ClosedInv'
  BY <1>3 DEF ClosedInv
<1> QED
  BY <1>g, <1>4, <1>5, <1>6, <1>8, <1>9 DEF SessionInv

\* No handler moves, nothing is registered, taken or given.
LEMMA HandlersStill ==
  ASSUME GatewayTypeOK, SessionInv, StillTyped,
         UNCHANGED <<secret, pending, conn, session, given>>,
         token' \in [Sessions -> {"none", "valid", "revoked"}],
         \A s \in Sessions : token[s] # "none" => token'[s] # "none",
         lapsed' \subseteq Sessions, gatewayPhase' \in GatewayPhases,
         gatewayPhase' = "closed" => gatewayPhase = "closed"
  PROVE  GatewayTypeOK' /\ SessionInv'
<1>1. GatewayTypeOK'
  BY DEF GatewayTypeOK, StillTyped, GatewayDrained, Handlers
<1>2. TakenInv' /\ GivenInv'
  BY DEF SessionInv, TakenInv, GivenInv
<1>3. OnceInv'
  <2>1. pending \subseteq Sessions /\ \A p \in Peers : session[p] # NoSession => session[p] \in Sessions
    BY DEF GatewayTypeOK
  <2> QED
    BY <2>1 DEF SessionInv, OnceInv
<1>4. HeldInv' /\ ClosedInv'
  BY DEF SessionInv, HeldInv, ClosedInv
<1> QED
  BY <1>1, <1>2, <1>3, <1>4 DEF SessionInv

\* A session that is issued is registered, unless the broker is closed.
LEMMA IssueKeeps ==
  ASSUME GatewayTypeOK, SessionInv, NEW s \in Sessions, Issue(s)
  PROVE  GatewayTypeOK' /\ SessionInv'
<1>1. /\ token[s] = "none" /\ token' = [token EXCEPT ![s] = "valid"]
      /\ UNCHANGED <<lapsed, conn, session, given, gatewayVars, gatewayPhase, failure>>
  BY DEF Issue
<1>2. /\ secret' \in [Sessions -> {"none", "held", "cleared"}] /\ pending' \subseteq Sessions
      /\ pending \subseteq pending' /\ pending' \subseteq pending \cup {s}
      /\ \A r \in Sessions \ {s} : secret'[r] = secret[r]
      /\ s \in pending' \/ secret'[s] = secret[s]
      /\ gatewayPhase = "closed" => pending' = pending
  BY DEF Issue, GatewayTypeOK
<1>3. /\ token' \in [Sessions -> {"none", "valid", "revoked"}]
      /\ token'[s] = "valid" /\ \A r \in Sessions \ {s} : token'[r] = token[r]
  BY <1>1 DEF GatewayTypeOK
<1>4. GatewayTypeOK'
  BY <1>1, <1>2, <1>3 DEF GatewayTypeOK, gatewayVars, GatewayDrained, Handlers
<1>5. TakenInv' /\ GivenInv'
  BY <1>1 DEF SessionInv, TakenInv, GivenInv
<1>6. OnceInv'
  <2>1. \A p \in Peers : session[p] # s
    BY <1>1, GatewayAssumption DEF SessionInv, OnceInv
  <2>2. \A p \in Peers : session[p] # NoSession => session[p] \in Sessions
    BY DEF GatewayTypeOK
  <2> QED
    BY <1>1, <1>2, <1>3, <2>1, <2>2 DEF SessionInv, OnceInv
<1>7. HeldInv'
  BY <1>1, <1>2 DEF SessionInv, HeldInv
<1>8. ClosedInv'
  BY <1>1, <1>2 DEF SessionInv, ClosedInv
<1> QED
  BY <1>4, <1>5, <1>6, <1>7, <1>8 DEF SessionInv

\* A session that is redeemed passes from the registrations to one handler.
LEMMA RedeemKeeps ==
  ASSUME GatewayTypeOK, SessionInv, NEW p \in Peers, NEW s \in Sessions, Redeem(p, s)
  PROVE  GatewayTypeOK' /\ SessionInv'
<1>0. /\ conn[p] = "read" /\ gatewayPhase # "closed" /\ s \in pending
      /\ pending' = pending \ {s}
      /\ session' = [session EXCEPT ![p] = s]
      /\ UNCHANGED <<secret, token, lapsed, given, gatewayVars, gatewayPhase, failure>>
  BY DEF Redeem, GatewayRunning
<1>1. PICK to \in {"granted", "refused"} :
        Move(p, to) /\ (to = "granted" => p \in Genuine)
  BY DEF Redeem
<1>2. /\ conn' \in [Peers -> ConnStates]
      /\ conn'[p] = to
      /\ \A q \in Peers \ {p} : conn'[q] = conn[q]
  BY <1>1, ConnMoved DEF ConnStates
<1>3. /\ session' \in [Peers -> Sessions \cup {NoSession}]
      /\ session'[p] = s
      /\ \A q \in Peers \ {p} : session'[q] = session[q]
  BY <1>0 DEF GatewayTypeOK
<1>4. session[p] = NoSession /\ \A q \in Peers : session[q] # s
  BY <1>0, GatewayAssumption DEF SessionInv, TakenInv, OnceInv
<1>5. GatewayTypeOK'
  BY <1>0, <1>2, <1>3 DEF GatewayTypeOK, gatewayVars, ConnStates
<1>6. TakenInv'
  BY <1>1, <1>2, <1>3 DEF SessionInv, TakenInv
<1>7. OnceInv'
  <2>1. \A r \in pending' : token'[r] # "none"
    BY <1>0 DEF SessionInv, OnceInv
  <2>2. ASSUME NEW q \in Peers, session'[q] # NoSession
        PROVE  /\ session'[q] \notin pending' /\ token'[session'[q]] # "none"
               /\ \A r \in Peers : session'[r] = session'[q] => r = q
    <3>1. CASE q = p
      BY <3>1, <1>0, <1>3, <1>4 DEF SessionInv, OnceInv
    <3>2. CASE q # p
      BY <3>2, <2>2, <1>0, <1>3, <1>4 DEF SessionInv, OnceInv
    <3> QED
      BY <3>1, <3>2
  <2> QED
    BY <2>1, <2>2 DEF OnceInv
<1>8. GivenInv'
  <2>1. given[s] = {}
    BY <1>4 DEF SessionInv, GivenInv, GatewayTypeOK
  <2>2. ASSUME NEW r \in Sessions, NEW q \in given'[r] PROVE q \in Genuine /\ session'[q] = r
    <3>1. q \in Peers /\ q \in given[r]
      BY <1>0, <2>2 DEF GatewayTypeOK
    <3>2. q # p
      BY <3>1, <1>4, GatewayAssumption DEF SessionInv, GivenInv
    <3> QED
      BY <3>1, <3>2, <1>3 DEF SessionInv, GivenInv
  <2>3. ASSUME NEW q \in Peers, conn'[q] = "granted"
        PROVE  q \in Genuine /\ given'[session'[q]] = {}
    <3>1. CASE q = p
      BY <3>1, <2>1, <2>3, <1>0, <1>1, <1>2, <1>3
    <3>2. CASE q # p
      BY <3>2, <2>3, <1>0, <1>2, <1>3 DEF SessionInv, GivenInv
    <3> QED
      BY <3>1, <3>2
  <2> QED
    BY <2>2, <2>3 DEF GivenInv
<1>9. HeldInv'
  <2> SUFFICES ASSUME NEW r \in Sessions, secret'[r] = "held", r \notin pending'
               PROVE  \E q \in Peers : session'[q] = r /\ conn'[q] \in MustWipe
    BY DEF HeldInv
  <2>1. CASE r = s
    BY <2>1, <1>2, <1>3 DEF MustWipe
  <2>2. CASE r # s
    <3>1. PICK q \in Peers : session[q] = r /\ conn[q] \in MustWipe
      BY <2>2, <1>0 DEF SessionInv, HeldInv
    <3>2. q # p
      BY <3>1, <1>0 DEF MustWipe
    <3> QED
      BY <3>1, <3>2, <1>2, <1>3
  <2> QED
    BY <2>1, <2>2
<1>10. ClosedInv'
  BY <1>0 DEF ClosedInv
<1> QED
  BY <1>5, <1>6, <1>7, <1>8, <1>9, <1>10 DEF SessionInv

\* The end of the close wipes what was registered and never redeemed.
LEMMA FinishCloseKeeps ==
  ASSUME GatewayTypeOK, SessionInv, FinishClose
  PROVE  GatewayTypeOK' /\ SessionInv'
<1>1. /\ GatewayDrained /\ gatewayPhase' = "closed" /\ pending' = {}
      /\ secret' = [s \in Sessions |-> IF s \in pending THEN "cleared" ELSE secret[s]]
      /\ failure' = FALSE
      /\ UNCHANGED <<token, lapsed, conn, session, given, gatewayVars>>
  BY DEF FinishClose
<1>2. GatewayTypeOK'
  BY <1>1 DEF GatewayTypeOK, gatewayVars, GatewayDrained, Handlers, GatewayPhases
<1>3. TakenInv' /\ OnceInv' /\ GivenInv' /\ ClosedInv'
  BY <1>1 DEF SessionInv, TakenInv, OnceInv, GivenInv, ClosedInv
<1>4. HeldInv'
  BY <1>1 DEF SessionInv, HeldInv
<1> QED
  BY <1>2, <1>3, <1>4 DEF SessionInv

\* What a request does to the counts: it is denied, or it reaches a target of a
\* session whose capability is valid; either way its handler moves on.
CallOutcome(p) ==
  \/ Deny(p) /\ spent' \in {spent, spent + 1}
  \/ Dispatch(p) /\ spent' = spent + 1 /\ token[session[p]] = "valid"

\* A call of a session has one of these outcomes.
LEMMA CallHasOutcome ==
  ASSUME GatewayTypeOK, NEW p \in Peers, NEW minted \in BOOLEAN, GatewayCall(p, minted)
  PROVE  /\ CallOutcome(p)
         /\ spent' \in 0 .. RunBudget
         /\ window' \in [number : 0 .. MaxWindows, count : 0 .. RequestLimit]
         /\ gatewayCalls < GatewayMaxCalls /\ gatewayCalls' = gatewayCalls + 1
         /\ conn[p] = "serve" /\ gatewayPhase # "closed"
         /\ UNCHANGED <<sessionVars, session, given, gatewayPhase, failure>>
<1>1. /\ gatewayCalls < GatewayMaxCalls /\ gatewayCalls' = gatewayCalls + 1
      /\ conn[p] = "serve" /\ gatewayPhase # "closed"
      /\ UNCHANGED <<sessionVars, session, given, gatewayPhase, failure>>
  BY DEF GatewayCall, GatewayRunning
<1>2. CASE window.count >= RequestLimit
  <2>1. Deny(p) /\ UNCHANGED <<window, spent>>
    BY <1>2 DEF GatewayCall
  <2>2. spent' \in {spent, spent + 1}
    BY <2>1
  <2> QED
    BY <1>1, <2>1, <2>2 DEF CallOutcome, GatewayTypeOK
<1>3. CASE ~(window.count >= RequestLimit)
  <2>1. Spend(p, minted) /\ window' = [window EXCEPT !.count = @ + 1]
    BY <1>3 DEF GatewayCall
  <2>2. window' \in [number : 0 .. MaxWindows, count : 0 .. RequestLimit]
    BY <1>3, <2>1, GatewayAssumption DEF GatewayTypeOK
  <2>3. CASE spent >= RunBudget
    BY <1>1, <2>1, <2>2, <2>3 DEF Spend, CallOutcome, GatewayTypeOK
  <2>4. CASE ~(spent >= RunBudget)
    <3>1. spent' = spent + 1
      BY <2>1, <2>4 DEF Spend
    <3>2. spent' \in 0 .. RunBudget
      BY <3>1, <2>4, GatewayAssumption DEF GatewayTypeOK
    <3>3. CASE Authorised(session[p], minted)
      BY <1>1, <2>1, <2>2, <2>4, <3>1, <3>2, <3>3 DEF Spend, CallOutcome, Authorised
    <3>4. CASE ~Authorised(session[p], minted)
      BY <1>1, <2>1, <2>2, <2>4, <3>1, <3>2, <3>4 DEF Spend, CallOutcome
    <3> QED
      BY <3>3, <3>4
  <2> QED
    BY <2>3, <2>4
<1> QED
  BY <1>2, <1>3

\* A call that reaches a target adds one to the calls reached.
LEMMA ReachedGrows ==
  ASSUME GatewayTypeOK, IsFiniteSet(Reached), NEW s \in Sessions,
         gatewayBegun[s] < GatewayMaxCalls,
         gatewayBegun' = [gatewayBegun EXCEPT ![s] = @ + 1]
  PROVE  /\ IsFiniteSet(Reached')
         /\ Cardinality(Reached') = Cardinality(Reached) + 1
<1> DEFINE next == <<s, gatewayBegun[s] + 1>>
<1>1. gatewayBegun[s] \in 0 .. GatewayMaxCalls
  BY DEF GatewayTypeOK
<1>2. next \in Sessions \X (1 .. GatewayMaxCalls) /\ next \notin Reached
  BY <1>1, GatewayAssumption DEF Reached
<1>3. /\ gatewayBegun'[s] = gatewayBegun[s] + 1
      /\ \A r \in Sessions \ {s} : gatewayBegun'[r] = gatewayBegun[r]
  BY DEF GatewayTypeOK
<1>4. Reached' = Reached \cup {next}
  <2>1. ASSUME NEW r \in Sessions \X (1 .. GatewayMaxCalls)
        PROVE  r[2] <= gatewayBegun'[r[1]] <=> r[2] <= gatewayBegun[r[1]] \/ r = next
    <3>1. r[1] \in Sessions /\ r[2] \in 1 .. GatewayMaxCalls /\ r = <<r[1], r[2]>>
      OBVIOUS
    <3>2. CASE r[1] = s
      BY <3>1, <3>2, <1>1, <1>3, GatewayAssumption
    <3>3. CASE r[1] # s
      BY <3>1, <3>3, <1>3
    <3> QED
      BY <3>2, <3>3
  <2> QED
    BY <2>1, <1>2 DEF Reached
<1> QED
  BY <1>2, <1>4, FS_AddElement

\* Every request is counted once.
LEMMA CallKeepsCount ==
  ASSUME GatewayIInv, NEW p \in Peers, NEW minted \in BOOLEAN, GatewayCall(p, minted)
  PROVE  CountInv' /\ StillTyped
<1>t. GatewayTypeOK /\ SessionInv /\ CountInv
  BY DEF GatewayIInv
<1>1. /\ CallOutcome(p)
      /\ spent' \in 0 .. RunBudget
      /\ window' \in [number : 0 .. MaxWindows, count : 0 .. RequestLimit]
      /\ gatewayCalls < GatewayMaxCalls /\ gatewayCalls' = gatewayCalls + 1
      /\ conn[p] = "serve" /\ UNCHANGED failure
  BY <1>t, CallHasOutcome
<1>2. /\ spent \in 0 .. RunBudget /\ gatewayCalls \in Nat /\ denials \in Nat
      /\ gatewayCalls' \in 0 .. GatewayMaxCalls /\ failure' \in BOOLEAN
      /\ \A s \in Sessions : gatewayBegun[s] \in Nat
      /\ gatewayBegun \in [Sessions -> 0 .. GatewayMaxCalls]
  BY <1>1, <1>t, GatewayAssumption DEF GatewayTypeOK
<1>3. Cardinality(Reached) \in Nat
  BY <1>t, FS_CardinalityType DEF CountInv
<1>4. CASE Deny(p) /\ spent' \in {spent, spent + 1}
  <2>1. denials' = denials + 1 /\ gatewayBegun' = gatewayBegun
    BY <1>4 DEF Deny
  <2>2. Reached' = Reached
    BY <2>1 DEF Reached
  <2>3. CountInv'
    BY <2>1, <2>2, <1>1, <1>2, <1>3, <1>4, <1>t, GatewayAssumption
    DEF CountInv, EveryCallAccounted
  <2>4. denials' \in 0 .. GatewayMaxCalls
    BY <2>1, <1>1, <1>2, <1>t, GatewayAssumption DEF CountInv
  <2> QED
    BY <2>1, <2>3, <2>4, <1>1, <1>2 DEF StillTyped
<1>5. CASE Dispatch(p) /\ spent' = spent + 1
  <2>0. session[p] \in Sessions
    BY <1>1, <1>t DEF SessionInv, TakenInv
  <2>1. denials' = denials /\ gatewayBegun' = [gatewayBegun EXCEPT ![session[p]] = @ + 1]
    BY <1>5 DEF Dispatch
  <2>2. gatewayBegun[session[p]] <= gatewayCalls /\ gatewayBegun[session[p]] < GatewayMaxCalls
    BY <2>0, <1>1, <1>2, <1>t, GatewayAssumption DEF CountInv
  <2>3. IsFiniteSet(Reached') /\ Cardinality(Reached') = Cardinality(Reached) + 1
    BY <2>0, <2>1, <2>2, <1>t, ReachedGrows DEF CountInv
  <2>4. \A s \in Sessions : gatewayBegun'[s] <= gatewayCalls'
    BY <2>0, <2>1, <2>2, <1>1, <1>2, <1>t DEF CountInv
  <2>5. CountInv'
    BY <2>1, <2>3, <2>4, <1>1, <1>2, <1>3, <1>5, <1>t DEF CountInv, EveryCallAccounted
  <2>6. gatewayBegun' \in [Sessions -> 0 .. GatewayMaxCalls]
    BY <2>0, <2>1, <2>2, <1>2, GatewayAssumption
  <2>7. denials' \in 0 .. GatewayMaxCalls
    BY <2>1, <1>t DEF GatewayTypeOK
  <2> QED
    BY <2>5, <2>6, <2>7, <1>1, <1>2 DEF StillTyped
<1> QED
  BY <1>1, <1>4, <1>5 DEF CallOutcome

\* Every other step leaves the counts alone.
LEMMA CountStill ==
  ASSUME CountInv, UNCHANGED <<spent, gatewayBegun, gatewayCalls, denials>>
  PROVE  CountInv'
BY DEF CountInv, EveryCallAccounted, Reached

\* A step of a handler.
LEMMA HandleGatewayIInv ==
  ASSUME GatewayIInv, NEW p \in Peers, Accept(p) \/ Handle(p)
  PROVE  GatewayIInv'
<1>t. GatewayTypeOK /\ SessionInv /\ CountInv
  BY DEF GatewayIInv
<1>f. failure \in BOOLEAN
  BY <1>t DEF GatewayTypeOK
<1>c. \A s \in {"read", "shut", "granted", "refused", "serve", "target", "reply", "finish"} :
        conn[p] = s => gatewayPhase # "closed"
  BY <1>t, HandlerNotClosed DEF Handlers
<1> USE DEF ConnStates
<1>1. CASE Accept(p)
  <2>1. PICK to \in {"read", "shut"} : Move(p, to)
    BY <1>1 DEF Accept
  <2>2. /\ conn[p] = "none" /\ gatewayPhase # "closed"
        /\ UNCHANGED <<sessionVars, session, given, gatewayVars, gatewayPhase, failure>>
    BY <1>1 DEF Accept
  <2>3. GatewayTypeOK' /\ SessionInv'
    BY <2>1, <2>2, <1>t, <1>f, StillTypedKept, HandlerGoesOn
  <2> QED
    BY <2>2, <2>3, <1>t, CountStill DEF GatewayIInv, gatewayVars
<1>2. ASSUME NEW s \in Sessions, Redeem(p, s) PROVE GatewayIInv'
  BY <1>2, <1>t, RedeemKeeps, CountStill DEF Redeem, GatewayIInv, gatewayVars
<1>3. CASE RefuseFrame(p) \/ BadCall(p) \/ TargetReturns(p) \/ Reply(p) \/ Finish(p)
  <2>1. /\ UNCHANGED <<sessionVars, session, given, gatewayVars, gatewayPhase, failure>>
        /\ gatewayPhase # "closed"
    BY <1>3, <1>c DEF RefuseFrame, BadCall, TargetReturns, Reply, Finish, GatewayRunning
  <2>2. PICK to \in {"refused", "reply", "serve", "over"} :
          /\ Move(p, to)
          /\ to \in {"serve", "reply"} => conn[p] \in {"serve", "target", "reply"}
          /\ to = "over" => conn[p] = "finish"
    BY <1>3 DEF RefuseFrame, BadCall, TargetReturns, Reply, Finish
  <2>3. GatewayTypeOK' /\ SessionInv'
    BY <2>1, <2>2, <1>t, <1>f, StillTypedKept, HandlerGoesOn DEF MustWipe
  <2> QED
    BY <2>1, <2>3, <1>t, CountStill DEF GatewayIInv, gatewayVars
<1>4. CASE Disconnect(p) \/ TargetFails(p) \/ GatewayCancel(p)
  <2>1. /\ conn[p] \in ConnStates \ {"none", "finish", "over"} /\ Leave(p)
        /\ UNCHANGED <<pending, token, lapsed, session, given, gatewayVars, gatewayPhase>>
        /\ failure' \in BOOLEAN
    BY <1>4, <1>f DEF Disconnect, TargetFails, GatewayCancel
  <2>2. GatewayTypeOK' /\ SessionInv'
    BY <2>1, <1>t, StillTypedKept, HandlerLeaves
  <2> QED
    BY <2>1, <2>2, <1>t, CountStill DEF GatewayIInv, gatewayVars
<1>5. ASSUME NEW channel \in BOOLEAN, Answer(p, channel) PROVE GatewayIInv'
  <2>1. /\ conn[p] \in {"granted", "refused"} /\ gatewayPhase # "closed"
        /\ UNCHANGED <<pending, token, lapsed, session, gatewayVars, gatewayPhase, failure>>
        /\ \/ UNCHANGED given
           \/ conn[p] = "granted" /\ given' = [given EXCEPT ![session[p]] = @ \cup {p}]
    BY <1>5 DEF Answer, GatewayRunning
  <2>2. CASE conn[p] = "granted" /\ channel
    <3>1. Move(p, "serve") /\ UNCHANGED secret
      BY <1>5, <2>2 DEF Answer
    <3>2. GatewayTypeOK' /\ SessionInv'
      BY <2>1, <2>2, <3>1, <1>t, <1>f, StillTypedKept, HandlerGoesOn DEF sessionVars
    <3> QED
      BY <2>1, <3>2, <1>t, CountStill DEF GatewayIInv, gatewayVars
  <2>3. CASE ~(conn[p] = "granted" /\ channel)
    <3>1. Leave(p)
      BY <1>5, <2>3 DEF Answer
    <3>2. GatewayTypeOK' /\ SessionInv'
      BY <2>1, <3>1, <1>t, <1>f, StillTypedKept, HandlerLeaves
    <3> QED
      BY <2>1, <3>2, <1>t, CountStill DEF GatewayIInv, gatewayVars
  <2> QED
    BY <2>2, <2>3
<1>6. ASSUME NEW minted \in BOOLEAN, GatewayCall(p, minted) PROVE GatewayIInv'
  <2>1. CountInv' /\ StillTyped
    BY <1>6, CallKeepsCount
  <2>2. /\ CallOutcome(p) /\ conn[p] = "serve" /\ gatewayPhase # "closed"
        /\ UNCHANGED <<sessionVars, session, given, gatewayPhase>>
    BY <1>6, <1>t, CallHasOutcome
  <2>3. PICK to \in {"reply", "target"} : Move(p, to)
    BY <2>2 DEF CallOutcome, Deny, Dispatch
  <2>4. GatewayTypeOK' /\ SessionInv'
    BY <2>1, <2>2, <2>3, <1>t, HandlerGoesOn
  <2> QED
    BY <2>1, <2>4 DEF GatewayIInv
<1> QED
  BY <1>1, <1>2, <1>3, <1>4, <1>5, <1>6 DEF Handle

\* The invariant is inductive.
LEMMA NextGatewayIInv == GatewayIInv /\ [GatewayNext]_brokerVars => GatewayIInv'
<1> SUFFICES ASSUME GatewayIInv, [GatewayNext]_brokerVars PROVE GatewayIInv'
  OBVIOUS
<1>t. GatewayTypeOK /\ SessionInv /\ CountInv
  BY DEF GatewayIInv
<1>f. failure \in BOOLEAN
  BY <1>t DEF GatewayTypeOK
<1>1. ASSUME NEW s \in Sessions, Issue(s) PROVE GatewayIInv'
  BY <1>1, <1>t, IssueKeeps, CountStill DEF Issue, GatewayIInv, gatewayVars
<1>2. ASSUME NEW s \in Sessions, EndLease(s) \/ Lapse(s) PROVE GatewayIInv'
  <2>1. /\ UNCHANGED <<secret, pending, conn, session, given, gatewayVars, gatewayPhase, failure>>
        /\ token' \in [Sessions -> {"none", "valid", "revoked"}]
        /\ \A r \in Sessions : token[r] # "none" => token'[r] # "none"
        /\ lapsed' \subseteq Sessions
    BY <1>2, <1>t DEF EndLease, Lapse, GatewayTypeOK
  <2>2. GatewayTypeOK' /\ SessionInv'
    BY <2>1, <1>t, <1>f, StillTypedKept, HandlersStill DEF GatewayTypeOK
  <2> QED
    BY <2>1, <2>2, <1>t, CountStill DEF GatewayIInv, gatewayVars
<1>3. CASE NextWindow
  <2>1. /\ UNCHANGED <<sessionVars, conn, session, given, spent, gatewayBegun, gatewayCalls,
                       denials, gatewayPhase, failure>>
        /\ window' \in [number : 0 .. MaxWindows, count : 0 .. RequestLimit]
    BY <1>3, <1>t, GatewayAssumption DEF NextWindow, GatewayTypeOK
  <2>2. StillTyped
    BY <2>1, <1>t DEF StillTyped, GatewayTypeOK
  <2>3. GatewayTypeOK' /\ SessionInv'
    BY <2>1, <2>2, <1>t, HandlersStill DEF GatewayTypeOK, sessionVars
  <2> QED
    BY <2>1, <2>3, <1>t, CountStill DEF GatewayIInv
<1>4. ASSUME NEW p \in Peers, Accept(p) \/ Handle(p) PROVE GatewayIInv'
  BY <1>4, HandleGatewayIInv
<1>5. CASE BeginClose \/ StopListening \/ FirstDrained \/ TurnOver
  <2>1. /\ UNCHANGED <<sessionVars, conn, session, given, gatewayVars, failure>>
        /\ gatewayPhase' \in GatewayPhases \ {"closed"}
    BY <1>5 DEF BeginClose, StopListening, FirstDrained, TurnOver, GatewayPhases
  <2>2. GatewayTypeOK' /\ SessionInv'
    BY <2>1, <1>t, <1>f, StillTypedKept, HandlersStill DEF GatewayTypeOK, sessionVars
  <2> QED
    BY <2>1, <2>2, <1>t, CountStill DEF GatewayIInv, gatewayVars
<1>6. CASE FinishClose
  BY <1>6, <1>t, FinishCloseKeeps, CountStill DEF FinishClose, GatewayIInv, gatewayVars
<1>7. CASE UNCHANGED brokerVars
  <2>1. GatewayTypeOK' /\ SessionInv'
    BY <1>7, <1>t, <1>f, StillTypedKept, HandlersStill DEF brokerVars, sessionVars, GatewayTypeOK
  <2> QED
    BY <1>7, <2>1, <1>t, CountStill DEF GatewayIInv, brokerVars, gatewayVars
<1> QED
  BY <1>1, <1>2, <1>3, <1>4, <1>5, <1>6, <1>7 DEF GatewayNext, CloseStep

\* The invariant of the broker and the gateway, in every reachable state.
THEOREM GatewayInvariant == GatewaySpec => []GatewayIInv
<1> QED
  BY InitGatewayIInv, NextGatewayIInv, PTL DEF GatewaySpec

\* Every value the broker works with has its type, and when it is closed no handler
\* is left (GatewaySessionBroker, CapabilityGateway).
THEOREM GatewayTypes == GatewaySpec => []GatewayTypeOK
<1>1. GatewayIInv => GatewayTypeOK
  BY DEF GatewayIInv
<1> QED
  BY GatewayInvariant, <1>1, PTL

\* A session's token is sent to one peer at most, a genuine one, for any number of
\* connections that present the session (GatewaySessionBroker._handle).
THEOREM TokenGoesOnce == GatewaySpec => []RedeemedOnce
<1>1. ASSUME GatewayIInv PROVE RedeemedOnce
  <2> SUFFICES ASSUME NEW s \in Sessions
               PROVE  Cardinality(given[s]) <= 1 /\ given[s] \subseteq Genuine
    BY DEF RedeemedOnce
  <2>1. /\ given[s] \subseteq Peers
        /\ \A p \in given[s] : p \in Genuine /\ session[p] = s
    BY <1>1 DEF GatewayIInv, GatewayTypeOK, SessionInv, GivenInv
  <2>2. \A p, q \in given[s] : p = q
    BY <1>1, <2>1, GatewayAssumption DEF GatewayIInv, SessionInv, OnceInv
  <2>3. CASE given[s] = {}
    BY <2>1, <2>3, FS_EmptySet
  <2>4. CASE given[s] # {}
    <3>1. PICK p \in given[s] : given[s] = {p}
      BY <2>2, <2>4
    <3>2. Cardinality({p}) = 1
      BY FS_Singleton
    <3>3. Cardinality(given[s]) <= 1
      BY <3>1, <3>2
    <3> QED
      BY <2>1, <3>3
  <2> QED
    BY <2>3, <2>4
<1> QED
  BY <1>1, GatewayInvariant, PTL

\* Every request leaves a denial or reached a target, and the run's budget bounds the
\* targets reached in all of its sessions (CapabilityGateway.call, _deny).
THEOREM CallsAccounted == GatewaySpec => []EveryCallAccounted
<1>1. GatewayIInv => EveryCallAccounted
  BY DEF GatewayIInv, CountInv
<1> QED
  BY GatewayInvariant, <1>1, PTL

\* A closed broker keeps no token bytes, whichever way each session ended
\* (PendingSession.clear, GatewaySessionBroker._cleanup).
THEOREM SecretsAreCleared == GatewaySpec => []SecretsCleared
<1>1. ASSUME GatewayIInv PROVE SecretsCleared
  <2> SUFFICES ASSUME gatewayPhase = "closed", NEW s \in Sessions, secret[s] = "held"
               PROVE  FALSE
    BY DEF SecretsCleared
  <2>1. PICK p \in Peers : conn[p] \in MustWipe
    BY <1>1 DEF GatewayIInv, SessionInv, HeldInv, ClosedInv
  <2>2. p \in Handlers
    BY <2>1 DEF Handlers, MustWipe
  <2> QED
    BY <2>2, <1>1 DEF GatewayIInv, GatewayTypeOK, GatewayDrained
<1> QED
  BY <1>1, GatewayInvariant, PTL

\* No target begins a call for a session whose lease has ended, on any channel
\* (CapabilityGateway.call reads the capability record at every call).
THEOREM RevokedIsRefused == GatewaySpec => NoCallAfterLease
<1>1. ASSUME GatewayIInv, [GatewayNext]_brokerVars, NEW s \in Sessions, token[s] = "revoked"
      PROVE  gatewayBegun'[s] = gatewayBegun[s]
  <2>1. CASE \E p \in Peers, minted \in BOOLEAN : GatewayCall(p, minted)
    <3>1. PICK p \in Peers, minted \in BOOLEAN : GatewayCall(p, minted)
      BY <2>1
    <3>2. CallOutcome(p)
      BY <1>1, <3>1, CallHasOutcome DEF GatewayIInv
    <3> QED
      BY <1>1, <3>2 DEF CallOutcome, Deny, Dispatch, GatewayIInv, GatewayTypeOK
  <2>2. CASE ~\E p \in Peers, minted \in BOOLEAN : GatewayCall(p, minted)
    BY <1>1, <2>2
    DEF GatewayNext, Issue, EndLease, Lapse, NextWindow, Accept, Handle, Redeem, RefuseFrame,
        Disconnect, Finish, Answer, BadCall, TargetReturns, TargetFails, Reply, GatewayCancel,
        BeginClose, CloseStep, StopListening, FirstDrained, TurnOver, FinishClose,
        brokerVars, gatewayVars
  <2> QED
    BY <2>1, <2>2
<1>2. GatewayIInv /\ [GatewayNext]_brokerVars =>
        [\A s \in Sessions : token[s] = "revoked" => gatewayBegun'[s] = gatewayBegun[s]]_brokerVars
  BY <1>1
<1> QED
  BY <1>2, GatewayInvariant, PTL DEF GatewaySpec, NoCallAfterLease

-----------------------------------------------------------------------------
(* The sidecar's channel                                                   *)

\* Nothing is on its way between the calls and the gateway.
Quiet == requests = <<>> /\ serving = Nobody /\ replies = <<>> /\ queue = <<>>

\* The request of a call is somewhere on its way, as the only one.
OneFrame(c) ==
  \/ requests = <<c>> /\ serving = Nobody /\ replies = <<>> /\ queue = <<>>
  \/ requests = <<>> /\ serving = c /\ replies = <<>> /\ queue = <<>>
  \/ requests = <<>> /\ serving = Nobody /\ replies = <<c>> /\ queue = <<>>
  \/ requests = <<>> /\ serving = Nobody /\ replies = <<>> /\ queue = <<c>>

\* While the transport is open every frame belongs to the call that waits; once it
\* is closed, that call finds its reply or is told that there is none.
PipeInv ==
  /\ ~closed /\ channelLock = Nobody => Quiet
  /\ ~closed /\ channelLock # Nobody => Quiet \/ OneFrame(channelLock)
  /\ closed /\ channelLock # Nobody => queue \in {<<channelLock>>, <<NoReply>>}
  /\ closed => reader = "over"

ChannelIInv ==
  ChannelTypeOK /\ PipeInv /\ ReplyIsOwn /\ NothingOutlivesSidecar

\* No frame is a sequence of frames.
LEMMA EmptySeq == <<>> \in Seq(Calls) /\ <<>> \in Seq(Calls \cup {NoReply}) /\ Len(<<>>) = 0
OBVIOUS

\* The agent has asked for nothing yet.
LEMMA InitChannelIInv == ChannelInit => ChannelIInv
<1> SUFFICES ASSUME ChannelInit PROVE ChannelIInv
  OBVIOUS
<1>1. ChannelTypeOK
  <2>1. /\ channelCall \in [Calls -> {"idle", "lock", "wait", "returned", "unavailable", "cancelled"}]
        /\ channelGot \in [Calls -> Calls \cup {NoReply}]
    BY DEF ChannelInit
  <2>2. \A c \in Calls : (channelLock = c) = (channelCall[c] = "wait")
    BY ChannelAssumption DEF ChannelInit
  <2>3. requests \in Seq(Calls) /\ replies \in Seq(Calls)
    BY EmptySeq DEF ChannelInit
  <2>4. queue \in Seq(Calls \cup {NoReply}) /\ Len(queue) <= 1
    <3>1. queue = <<>>
      BY DEF ChannelInit
    <3> QED
      BY <3>1, EmptySeq
  <2> QED
    BY <2>1, <2>2, <2>3, <2>4 DEF ChannelInit, ChannelTypeOK
<1>2. PipeInv
  BY DEF ChannelInit, PipeInv, Quiet
<1>3. ReplyIsOwn /\ NothingOutlivesSidecar
  BY DEF ChannelInit, ReplyIsOwn, NothingOutlivesSidecar
<1> QED
  BY <1>1, <1>2, <1>3 DEF ChannelIInv

\* A call that is asked for sends nothing yet.
LEMMA AskChannelIInv ==
  ASSUME ChannelIInv, NEW c \in Calls, Ask(c)
  PROVE  ChannelIInv'
<1>1. ChannelTypeOK'
  BY DEF ChannelIInv, ChannelTypeOK, Ask, transportVars, wireVars
<1>2. PipeInv'
  BY DEF ChannelIInv, PipeInv, Quiet, OneFrame, Ask, transportVars, wireVars
<1>3. ReplyIsOwn' /\ NothingOutlivesSidecar'
  BY DEF ChannelIInv, ChannelTypeOK, ReplyIsOwn, NothingOutlivesSidecar, Ask
<1> QED
  BY <1>1, <1>2, <1>3 DEF ChannelIInv

\* A call that gets the lock of an open transport finds nothing on its way.
LEMMA EnterChannelIInv ==
  ASSUME ChannelIInv, NEW c \in Calls, Enter(c)
  PROVE  ChannelIInv'
<1>0. /\ channelCall[c] = "lock" /\ channelLock = Nobody
      /\ UNCHANGED <<channelGot, queue, reader, closed, closeDone, serving, replies, gone, sidecar>>
  BY DEF Enter
<1>t. ChannelTypeOK /\ PipeInv
  BY DEF ChannelIInv
<1>w. c \in ChannelWaiting
  BY <1>0 DEF ChannelWaiting
<1>s. sidecar \notin {"ended", "failed"}
  BY <1>w DEF ChannelIInv, NothingOutlivesSidecar
<1>1. CASE closed
  <2>1. /\ channelCall' = [channelCall EXCEPT ![c] = "unavailable"]
        /\ UNCHANGED <<channelLock, requests>>
    BY <1>1 DEF Enter
  <2>2. ChannelTypeOK'
    BY <1>0, <1>t, <2>1, ChannelAssumption DEF ChannelTypeOK
  <2>3. PipeInv'
    BY <1>0, <1>1, <1>t, <2>1 DEF PipeInv
  <2>4. ReplyIsOwn'
    BY <1>0, <2>1, <1>t DEF ChannelIInv, ChannelTypeOK, ReplyIsOwn
  <2> QED
    BY <1>0, <1>s, <2>2, <2>3, <2>4 DEF ChannelIInv, NothingOutlivesSidecar
<1>2. CASE ~closed
  <2>1. /\ channelCall' = [channelCall EXCEPT ![c] = "wait"]
        /\ channelLock' = c
        /\ requests' = Append(requests, c)
    BY <1>2 DEF Enter
  <2>2. Quiet
    BY <1>0, <1>2, <1>t DEF PipeInv
  <2>3. requests' = <<c>>
    BY <2>1, <2>2 DEF Quiet
  <2>4. ChannelTypeOK'
    <3>1. requests' \in Seq(Calls)
      BY <2>3
    <3>2. \A d \in Calls : (channelLock' = d) = (channelCall'[d] = "wait")
      BY <1>0, <1>t, <2>1, ChannelAssumption DEF ChannelTypeOK
    <3> QED
      BY <1>0, <1>t, <1>2, <2>1, <3>1, <3>2 DEF ChannelTypeOK
  <2>5. PipeInv'
    BY <1>0, <1>2, <2>1, <2>2, <2>3, ChannelAssumption DEF PipeInv, Quiet, OneFrame
  <2>6. ReplyIsOwn'
    BY <1>0, <2>1, <1>t DEF ChannelIInv, ChannelTypeOK, ReplyIsOwn
  <2> QED
    BY <1>0, <1>s, <2>4, <2>5, <2>6 DEF ChannelIInv, NothingOutlivesSidecar
<1> QED
  BY <1>1, <1>2

\* What _start_closing leaves: a closed transport whose reader is over.
LEMMA ClosingLeaves ==
  ASSUME ChannelTypeOK, PipeInv, NEW kept \in Seq(Calls \cup {NoReply}), Len(kept) <= 1,
         NEW byReader \in BOOLEAN, StartClosing(kept, byReader)
  PROVE  /\ closed' = TRUE /\ reader' = "over"
         /\ queue' \in Seq(Calls \cup {NoReply}) /\ Len(queue') <= 1
         /\ kept = <<>> => queue' = <<NoReply>>
         /\ kept # <<>> => queue' = kept
<1>1. <<NoReply>> \in Seq(Calls \cup {NoReply}) /\ Len(<<NoReply>>) = 1
  OBVIOUS
<1>2. CASE kept = <<>>
  BY <1>1, <1>2 DEF StartClosing, PipeInv, ChannelTypeOK
<1>3. CASE kept # <<>>
  BY <1>1, <1>3 DEF StartClosing, PipeInv, ChannelTypeOK
<1> QED
  BY <1>2, <1>3

\* A call that ends lets go of the lock.
LEMMA LockFreed ==
  ASSUME ChannelTypeOK, NEW c \in Calls, channelCall[c] = "wait",
         NEW to \in {"returned", "unavailable", "cancelled"},
         channelCall' = [channelCall EXCEPT ![c] = to], channelLock' = Nobody
  PROVE  /\ channelCall' \in [Calls -> {"idle", "lock", "wait", "returned", "unavailable", "cancelled"}]
         /\ \A d \in Calls : (channelLock' = d) = (channelCall'[d] = "wait")
         /\ channelLock = c
BY ChannelAssumption DEF ChannelTypeOK

\* The call that waits takes what is in the queue: its reply, or the news that the
\* transport is closed.
LEMMA ReturnChannelIInv ==
  ASSUME ChannelIInv, NEW c \in Calls, Return(c)
  PROVE  ChannelIInv'
<1>0. /\ channelCall[c] = "wait" /\ queue # <<>> /\ channelLock' = Nobody
      /\ UNCHANGED <<closeDone, wireVars, sidecar>>
  BY DEF Return
<1>t. ChannelTypeOK /\ PipeInv
  BY DEF ChannelIInv
<1>l. channelLock = c
  BY <1>0, <1>t DEF ChannelTypeOK
<1>w. c \in ChannelWaiting
  BY <1>0 DEF ChannelWaiting
<1>s. sidecar \notin {"ended", "failed"}
  BY <1>w DEF ChannelIInv, NothingOutlivesSidecar
<1>q. /\ queue \in {<<c>>, <<NoReply>>}
      /\ ~closed => queue = <<c>> /\ requests = <<>> /\ serving = Nobody /\ replies = <<>>
  BY <1>0, <1>t, <1>l, ChannelAssumption DEF PipeInv, Quiet, OneFrame
<1>e. Tail(queue) = <<>>
  <2>1. CASE queue = <<c>>
    BY <2>1
  <2>2. CASE queue = <<NoReply>>
    BY <2>2
  <2> QED
    BY <2>1, <2>2, <1>q
<1>1. CASE Head(queue) = NoReply
  <2>1. /\ channelCall' = [channelCall EXCEPT ![c] = "unavailable"]
        /\ UNCHANGED channelGot /\ StartClosing(Tail(queue), FALSE)
    BY <1>1 DEF Return
  <2>2. /\ closed' = TRUE /\ reader' = "over"
        /\ queue' \in Seq(Calls \cup {NoReply}) /\ Len(queue') <= 1
    <3>1. <<>> \in Seq(Calls \cup {NoReply}) /\ Len(<<>>) <= 1
      OBVIOUS
    <3> QED
      BY <2>1, <3>1, <1>e, <1>t, ClosingLeaves
  <2>3. ChannelTypeOK'
    BY <1>0, <1>t, <2>1, <2>2, LockFreed DEF ChannelTypeOK, wireVars
  <2>4. PipeInv'
    BY <1>0, <2>2 DEF PipeInv
  <2>5. ReplyIsOwn'
    BY <1>0, <2>1, <1>t DEF ChannelIInv, ChannelTypeOK, ReplyIsOwn
  <2> QED
    BY <1>0, <1>s, <2>3, <2>4, <2>5 DEF ChannelIInv, NothingOutlivesSidecar
<1>2. CASE Head(queue) # NoReply
  <2>1. /\ channelCall' = [channelCall EXCEPT ![c] = "returned"]
        /\ channelGot' = [channelGot EXCEPT ![c] = Head(queue)]
        /\ queue' = Tail(queue) /\ UNCHANGED <<reader, closed>>
    BY <1>2 DEF Return
  <2>2. Head(queue) = c
    BY <1>2, <1>q
  <2>3. queue' \in Seq(Calls \cup {NoReply}) /\ Len(queue') <= 1
    <3>1. queue' = <<>>
      BY <2>1, <1>e
    <3> QED
      BY <3>1, EmptySeq
  <2>4. channelGot' \in [Calls -> Calls \cup {NoReply}]
    BY <2>1, <2>2, <1>t DEF ChannelTypeOK
  <2>5. ChannelTypeOK'
    BY <1>0, <1>t, <2>1, <2>3, <2>4, LockFreed DEF ChannelTypeOK, wireVars
  <2>6. PipeInv'
    BY <1>0, <1>t, <1>q, <1>e, <2>1 DEF PipeInv, Quiet, wireVars
  <2>7. ReplyIsOwn'
    BY <1>0, <2>1, <2>2, <1>t DEF ChannelIInv, ChannelTypeOK, ReplyIsOwn
  <2> QED
    BY <1>0, <1>s, <2>5, <2>6, <2>7 DEF ChannelIInv, NothingOutlivesSidecar
<1> QED
  BY <1>1, <1>2

\* A call that is given up after its request was sent closes the transport, so that
\* nobody takes its reply.
LEMMA CancelChannelIInv ==
  ASSUME ChannelIInv, NEW c \in Calls, CancelCall(c)
  PROVE  ChannelIInv'
<1>0. /\ c \in ChannelWaiting
      /\ channelCall' = [channelCall EXCEPT ![c] = "cancelled"]
      /\ UNCHANGED <<channelGot, closeDone, wireVars, sidecar>>
  BY DEF CancelCall
<1>t. ChannelTypeOK /\ PipeInv
  BY DEF ChannelIInv
<1>s. sidecar \notin {"ended", "failed"}
  BY <1>0 DEF ChannelIInv, NothingOutlivesSidecar
<1>o. ReplyIsOwn' /\ NothingOutlivesSidecar'
  BY <1>0, <1>s, <1>t
  DEF ChannelIInv, ChannelTypeOK, ReplyIsOwn, NothingOutlivesSidecar
<1>1. CASE channelCall[c] = "wait"
  <2>1. channelLock' = Nobody /\ StartClosing(queue, FALSE)
    BY <1>1 DEF CancelCall
  <2>2. queue \in Seq(Calls \cup {NoReply}) /\ Len(queue) <= 1
    BY <1>t DEF ChannelTypeOK
  <2>3. /\ closed' = TRUE /\ reader' = "over"
        /\ queue' \in Seq(Calls \cup {NoReply}) /\ Len(queue') <= 1
    BY <2>1, <2>2, <1>t, ClosingLeaves
  <2>4. ChannelTypeOK'
    BY <1>0, <1>1, <1>t, <2>1, <2>3, LockFreed DEF ChannelTypeOK, wireVars
  <2>5. PipeInv'
    BY <2>1, <2>3 DEF PipeInv
  <2> QED
    BY <1>o, <2>4, <2>5 DEF ChannelIInv
<1>2. CASE channelCall[c] # "wait"
  <2>1. UNCHANGED <<channelLock, queue, reader, closed>>
    BY <1>2 DEF CancelCall
  <2>2. ChannelTypeOK'
    BY <1>0, <1>2, <1>t, <2>1 DEF ChannelTypeOK, wireVars
  <2>3. PipeInv'
    BY <1>0, <1>t, <2>1 DEF PipeInv, Quiet, OneFrame, wireVars
  <2> QED
    BY <1>o, <2>2, <2>3 DEF ChannelIInv
<1> QED
  BY <1>1, <1>2

\* A step that leaves the calls and the sidecar alone, and closes nothing that was
\* open, needs only types and a pipe.
LEMMA PipeStep ==
  ASSUME ChannelIInv, UNCHANGED <<channelCall, channelGot, channelLock, sidecar>>,
         requests' \in Seq(Calls), replies' \in Seq(Calls),
         serving' \in Calls \cup {Nobody},
         queue' \in Seq(Calls \cup {NoReply}), Len(queue') <= 1,
         reader' \in {"read", "over"},
         closed' \in BOOLEAN, closeDone' \in BOOLEAN, gone' \in BOOLEAN,
         closed => closed', closeDone => closeDone',
         PipeInv'
  PROVE  ChannelIInv'
<1>1. ChannelTypeOK'
  BY DEF ChannelIInv, ChannelTypeOK
<1>2. ReplyIsOwn' /\ NothingOutlivesSidecar'
  BY DEF ChannelIInv, ReplyIsOwn, NothingOutlivesSidecar, ChannelWaiting
<1> QED
  BY <1>1, <1>2 DEF ChannelIInv

\* The frames move from one place to the next.
LEMMA WireChannelIInv ==
  ASSUME ChannelIInv,
         ReadReply \/ ReadEnd \/ ChannelFinishClose \/ ChannelServe \/ WriteResult \/ Hangup
  PROVE  ChannelIInv'
<1>t. ChannelTypeOK /\ PipeInv
  BY DEF ChannelIInv
<1>u. /\ requests \in Seq(Calls) /\ replies \in Seq(Calls) /\ serving \in Calls \cup {Nobody}
      /\ queue \in Seq(Calls \cup {NoReply}) /\ Len(queue) <= 1
      /\ reader \in {"read", "over"} /\ channelLock \in Calls \cup {Nobody}
      /\ closed \in BOOLEAN /\ closeDone \in BOOLEAN /\ gone \in BOOLEAN
  BY <1>t DEF ChannelTypeOK
<1>1. CASE ReadReply
  <2>1. /\ reader = "read" /\ replies # <<>> /\ queue = <<>>
        /\ queue' = <<Head(replies)>> /\ replies' = Tail(replies)
        /\ UNCHANGED <<channelCall, channelGot, channelLock, reader, closed, closeDone, requests,
                       serving, gone, sidecar>>
    BY <1>1 DEF ReadReply
  <2>2. ~closed /\ channelLock # Nobody /\ replies = <<channelLock>>
    BY <1>t, <2>1 DEF PipeInv, Quiet, OneFrame
  <2>3. queue' = <<channelLock>> /\ replies' = <<>> /\ requests = <<>> /\ serving = Nobody
    BY <1>t, <2>1, <2>2 DEF PipeInv, Quiet, OneFrame
  <2>4. PipeInv'
    BY <2>1, <2>2, <2>3 DEF PipeInv, OneFrame
  <2> QED
    BY <1>u, <2>1, <2>2, <2>3, <2>4, PipeStep
<1>2. CASE ReadEnd
  <2>1. /\ reader = "read" /\ StartClosing(queue, TRUE)
        /\ UNCHANGED <<channelCall, channelGot, channelLock, closeDone, wireVars, sidecar>>
    BY <1>2 DEF ReadEnd
  <2>2. /\ closed' = TRUE /\ reader' = "over"
        /\ queue' \in Seq(Calls \cup {NoReply}) /\ Len(queue') <= 1
        /\ queue = <<>> => queue' = <<NoReply>>
        /\ queue # <<>> => queue' = queue
    BY <1>t, <1>u, <2>1, ClosingLeaves
  <2>3. ~closed
    BY <1>t, <2>1 DEF PipeInv
  <2>4. channelLock # Nobody => queue \in {<<>>, <<channelLock>>}
    BY <1>t, <2>3 DEF PipeInv, Quiet, OneFrame
  <2>5. PipeInv'
    BY <2>1, <2>2, <2>4 DEF PipeInv
  <2> QED
    BY <1>u, <2>1, <2>2, <2>3, <2>5, PipeStep DEF wireVars
<1>3. CASE ChannelFinishClose
  <2>1. PipeInv'
    BY <1>3, <1>t DEF ChannelFinishClose, PipeInv, Quiet, OneFrame, wireVars
  <2> QED
    BY <1>3, <1>u, <2>1, PipeStep DEF ChannelFinishClose, wireVars
<1>4. CASE ChannelServe
  <2>1. /\ serving = Nobody /\ requests # <<>>
        /\ serving' = Head(requests) /\ requests' = Tail(requests)
        /\ UNCHANGED <<channelCall, channelGot, transportVars, replies, gone, sidecar>>
    BY <1>4 DEF ChannelServe
  <2>2. serving' \in Calls /\ requests' \in Seq(Calls)
    BY <1>u, <2>1
  <2>3. CASE closed
    <3>1. PipeInv'
      BY <1>t, <2>1, <2>3 DEF PipeInv, transportVars
    <3> QED
      BY <1>u, <2>1, <2>2, <3>1, PipeStep DEF transportVars
  <2>4. CASE ~closed
    <3>1. channelLock # Nobody /\ requests = <<channelLock>> /\ replies = <<>> /\ queue = <<>>
      BY <1>t, <2>1, <2>4 DEF PipeInv, Quiet, OneFrame
    <3>2. serving' = channelLock /\ requests' = <<>>
      BY <2>1, <3>1
    <3>3. PipeInv'
      BY <2>1, <2>4, <3>1, <3>2 DEF PipeInv, OneFrame, transportVars
    <3> QED
      BY <1>u, <2>1, <2>2, <3>3, PipeStep DEF transportVars
  <2> QED
    BY <2>3, <2>4
<1>5. CASE WriteResult
  <2>1. /\ serving # Nobody
        /\ replies' = Append(replies, serving) /\ serving' = Nobody
        /\ UNCHANGED <<channelCall, channelGot, transportVars, requests, gone, sidecar>>
    BY <1>5 DEF WriteResult
  <2>2. replies' \in Seq(Calls)
    BY <1>u, <2>1
  <2>3. CASE closed
    <3>1. PipeInv'
      BY <1>t, <2>1, <2>3 DEF PipeInv, transportVars
    <3> QED
      BY <1>u, <2>1, <2>2, <3>1, PipeStep DEF transportVars
  <2>4. CASE ~closed
    <3>1. channelLock # Nobody /\ serving = channelLock /\ requests = <<>> /\ replies = <<>>
          /\ queue = <<>>
      BY <1>t, <2>1, <2>4 DEF PipeInv, Quiet, OneFrame
    <3>2. replies' = <<channelLock>>
      BY <2>1, <3>1
    <3>3. PipeInv'
      BY <2>1, <2>4, <3>1, <3>2 DEF PipeInv, OneFrame, transportVars
    <3> QED
      BY <1>u, <2>1, <2>2, <3>3, PipeStep DEF transportVars
  <2> QED
    BY <2>3, <2>4
<1>6. CASE Hangup
  <2>1. /\ gone' = TRUE /\ serving' = Nobody /\ requests' = <<>>
        /\ UNCHANGED <<channelCall, channelGot, transportVars, replies, sidecar>>
    BY <1>6 DEF Hangup
  <2>2. PipeInv'
    BY <1>t, <2>1 DEF PipeInv, Quiet, OneFrame, transportVars
  <2>3. requests' \in Seq(Calls)
    BY <2>1
  <2> QED
    BY <1>u, <2>1, <2>2, <2>3, PipeStep DEF transportVars
<1> QED
  BY <1>1, <1>2, <1>3, <1>4, <1>5, <1>6

\* The sidecar ends with no call under way, and its channel closed.
LEMMA SidecarChannelIInv ==
  ASSUME ChannelIInv, ServerEnds \/ SeeDisconnect \/ CloseSidecar
  PROVE  ChannelIInv'
<1>t. ChannelTypeOK /\ PipeInv
  BY DEF ChannelIInv
<1>1. CASE ServerEnds \/ SeeDisconnect
  <2>1. /\ sidecar' \in {"close", "cleanup"}
        /\ UNCHANGED <<channelCall, channelGot, transportVars, wireVars>>
    BY <1>1 DEF ServerEnds, SeeDisconnect
  <2>2. ChannelTypeOK'
    BY <2>1, <1>t DEF ChannelTypeOK, transportVars, wireVars
  <2>3. PipeInv'
    BY <2>1, <1>t DEF PipeInv, Quiet, OneFrame, transportVars, wireVars
  <2>4. ReplyIsOwn' /\ NothingOutlivesSidecar'
    BY <2>1 DEF ChannelIInv, ReplyIsOwn, NothingOutlivesSidecar
  <2> QED
    BY <2>2, <2>3, <2>4 DEF ChannelIInv
<1>2. CASE CloseSidecar
  <2>1. /\ ChannelWaiting = {}
        /\ UNCHANGED <<channelCall, channelGot, channelLock, closeDone, wireVars>>
    BY <1>2 DEF CloseSidecar
  <2>2. ChannelWaiting' = {}
    BY <2>1 DEF ChannelWaiting
  <2>3. CASE closed
    <3>1. closeDone /\ sidecar' \in {"failed", "ended"} /\ UNCHANGED <<queue, reader, closed>>
      BY <1>2, <2>3 DEF CloseSidecar
    <3>2. ChannelTypeOK'
      BY <2>1, <3>1, <1>t DEF ChannelTypeOK, wireVars
    <3>3. PipeInv'
      BY <2>1, <3>1, <1>t DEF PipeInv, Quiet, OneFrame, wireVars
    <3>4. ReplyIsOwn' /\ NothingOutlivesSidecar'
      BY <2>1, <2>2, <2>3, <3>1
      DEF ChannelIInv, ReplyIsOwn, NothingOutlivesSidecar
    <3> QED
      BY <3>2, <3>3, <3>4 DEF ChannelIInv
  <2>4. CASE ~closed
    <3>1. StartClosing(queue, FALSE) /\ UNCHANGED sidecar
      BY <1>2, <2>4 DEF CloseSidecar
    <3>2. queue \in Seq(Calls \cup {NoReply}) /\ Len(queue) <= 1
      BY <1>t DEF ChannelTypeOK
    <3>3. /\ closed' = TRUE /\ reader' = "over"
          /\ queue' \in Seq(Calls \cup {NoReply}) /\ Len(queue') <= 1
      BY <3>1, <3>2, <1>t, ClosingLeaves
    <3>4. channelLock = Nobody
      BY <2>1, <1>t DEF ChannelTypeOK, ChannelWaiting
    <3>5. ChannelTypeOK'
      BY <2>1, <3>1, <3>3, <1>t DEF ChannelTypeOK, wireVars
    <3>6. PipeInv'
      BY <2>1, <3>3, <3>4 DEF PipeInv
    <3>7. ReplyIsOwn' /\ NothingOutlivesSidecar'
      BY <2>1, <2>4, <3>1
      DEF ChannelIInv, ReplyIsOwn, NothingOutlivesSidecar
    <3> QED
      BY <3>5, <3>6, <3>7 DEF ChannelIInv
  <2> QED
    BY <2>3, <2>4
<1> QED
  BY <1>1, <1>2

\* The invariant is inductive.
LEMMA NextChannelIInv == ChannelIInv /\ [ChannelNext]_channelVars => ChannelIInv'
<1> SUFFICES ASSUME ChannelIInv, [ChannelNext]_channelVars PROVE ChannelIInv'
  OBVIOUS
<1>1. ASSUME NEW c \in Calls, Ask(c) \/ Enter(c) \/ Return(c) \/ CancelCall(c)
      PROVE  ChannelIInv'
  BY <1>1, AskChannelIInv, EnterChannelIInv, ReturnChannelIInv, CancelChannelIInv
<1>2. CASE ReadReply \/ ReadEnd \/ ChannelFinishClose \/ ChannelServe \/ WriteResult \/ Hangup
  BY <1>2, WireChannelIInv
<1>3. CASE ServerEnds \/ SeeDisconnect \/ CloseSidecar
  BY <1>3, SidecarChannelIInv
<1>4. CASE UNCHANGED channelVars
  <2>1. PipeInv'
    BY <1>4 DEF ChannelIInv, PipeInv, Quiet, OneFrame, channelVars, transportVars, wireVars
  <2> QED
    BY <1>4, <2>1, PipeStep
    DEF ChannelIInv, ChannelTypeOK, channelVars, transportVars, wireVars
<1> QED
  BY <1>1, <1>2, <1>3, <1>4 DEF ChannelNext

\* The invariant of the channel, in every reachable state (GatewayTransport).
THEOREM ChannelInvariant == ChannelSpec => []ChannelIInv
<1> QED
  BY InitChannelIInv, NextChannelIInv, PTL DEF ChannelSpec

\* Every value the transport works with has its type, and the call that waits for a
\* reply is the holder of the lock (GatewayTransport.call).
THEOREM ChannelTypes == ChannelSpec => []ChannelTypeOK
<1>1. ChannelIInv => ChannelTypeOK
  BY DEF ChannelIInv
<1> QED
  BY ChannelInvariant, <1>1, PTL

\* A call that returns has the reply to its own request, for any number of calls and
\* whichever of them were given up before (GatewayTransport.call, _start_closing).
THEOREM RepliesAreOwn == ChannelSpec => []ReplyIsOwn
<1>1. ChannelIInv => ReplyIsOwn
  BY DEF ChannelIInv
<1> QED
  BY ChannelInvariant, <1>1, PTL

\* While the transport is open the only frame there is, wherever it is, is that of the
\* call that holds the lock, for any number of calls, replies and cancellations: an
\* unnumbered reply can be taken for nobody else's (GatewayTransport.call).
THEOREM OnlyFrame == ChannelSpec => []FramesAreOfTheHolder
<1>1. ASSUME ChannelIInv, ~closed
      PROVE  Len(InFlight) <= 1 /\ \A i \in DOMAIN InFlight : InFlight[i] = channelLock
  <2>1. Quiet \/ (channelLock # Nobody /\ OneFrame(channelLock))
    BY <1>1 DEF ChannelIInv, PipeInv
  <2>2. \A c : /\ <<c>> \o <<>> \o <<>> \o <<>> = <<c>> /\ <<>> \o <<c>> \o <<>> \o <<>> = <<c>>
               /\ <<>> \o <<>> \o <<c>> \o <<>> = <<c>> /\ <<>> \o <<>> \o <<>> \o <<c>> = <<c>>
    OBVIOUS
  <2>3. CASE Quiet
    BY <2>3 DEF Quiet, InFlight
  <2>4. CASE channelLock # Nobody /\ OneFrame(channelLock)
    <3>1. InFlight = <<channelLock>>
      BY <2>2, <2>4 DEF OneFrame, InFlight
    <3> QED
      BY <3>1
  <2> QED
    BY <2>1, <2>3, <2>4
<1>2. ChannelIInv => FramesAreOfTheHolder
  BY <1>1 DEF FramesAreOfTheHolder
<1> QED
  BY ChannelInvariant, <1>2, PTL

\* A sidecar that has ended left no call under way and no open channel behind
\* (_close_sidecar).
THEOREM SidecarEndsLast == ChannelSpec => []NothingOutlivesSidecar
<1>1. ChannelIInv => NothingOutlivesSidecar
  BY DEF ChannelIInv
<1> QED
  BY ChannelInvariant, <1>1, PTL

-----------------------------------------------------------------------------
(* The event store: transactions as runs of the reducer, one event after   *)
(* the other.                                                              *)

\* A set of numbers that is not empty has a least one.
LEMMA LeastNumber ==
  ASSUME NEW T \in SUBSET Nat, T # {}
  PROVE  \E m \in T : \A n \in T : m <= n
<1> DEFINE R == OpToRel(<, Nat)
<1>1. IsWellFoundedOn(R, Nat)
  BY NatLessThanWellFounded, Zenon
<1>2. \A x, y \in Nat : y < x => <<y, x>> \in R
  BY DEF OpToRel
<1> HIDE DEF R
<1>3. PICK m \in T : \A y \in T : ~(<<y, m>> \in R)
  BY <1>1, WFMin, Zenon
<1>4. \A n \in T : ~(n < m)
  BY <1>2, <1>3, Zenon
<1>5. \A n \in T : m <= n
  BY <1>4
<1> QED
  BY <1>5

\* The states of a transaction after each of its first n events.
IsRun(s, events, n, f) ==
  f = [i \in 0..n |-> IF i = 0 THEN [fine |-> TRUE, store |-> s] ELSE WriteNext(f[i - 1], events[i])]

\* A run of the first events can be continued by one more.
LEMMA RunGoesOn ==
  ASSUME NEW s, NEW events, NEW n \in Nat, NEW h, IsRun(s, events, n, h)
  PROVE  \E g : /\ IsRun(s, events, n + 1, g)
                /\ \A i \in 0..n : g[i] = h[i]
                /\ g[n + 1] = WriteNext(h[n], events[n + 1])
<1> DEFINE g == [i \in 0..(n + 1) |-> IF i <= n THEN h[i] ELSE WriteNext(h[n], events[n + 1])]
<1>1. \A i \in 0..n : h[i] = IF i = 0 THEN [fine |-> TRUE, store |-> s] ELSE WriteNext(h[i - 1], events[i])
  BY DEF IsRun
<1>2. \A i \in 0..n : g[i] = h[i]
  OBVIOUS
<1>3. g[n + 1] = WriteNext(h[n], events[n + 1])
  OBVIOUS
<1>4. \A i \in 0..(n + 1) : g[i] = IF i = 0 THEN [fine |-> TRUE, store |-> s]
                                   ELSE WriteNext(g[i - 1], events[i])
  <2> HIDE DEF g
  <2> SUFFICES ASSUME NEW i \in 0..(n + 1)
               PROVE  g[i] = IF i = 0 THEN [fine |-> TRUE, store |-> s]
                             ELSE WriteNext(g[i - 1], events[i])
    OBVIOUS
  <2>1. CASE i \in 0..n /\ i # 0
    <3>1. i - 1 \in 0..n
      BY <2>1
    <3> QED
      BY <1>1, <1>2, <2>1, <3>1
  <2>2. CASE i = 0
    <3>1. 0 \in 0..n
      OBVIOUS
    <3> QED
      BY <1>1, <1>2, <2>2, <3>1
  <2>3. CASE i = n + 1
    <3>1. i - 1 = n /\ n \in 0..n /\ i # 0
      BY <2>3
    <3> QED
      BY <1>2, <1>3, <2>3, <3>1
  <2> QED
    BY <2>1, <2>2, <2>3
<1>5. IsRun(s, events, n + 1, g)
  BY <1>4 DEF IsRun
<1> QED
  BY <1>2, <1>3, <1>5

\* A transaction has a run, and its outcome is the last state of one.
LEMMA OutcomeIsRun ==
  ASSUME NEW s, NEW events, Len(events) \in Nat
  PROVE  \E f : IsRun(s, events, Len(events), f) /\ StoreOutcome(s, events) = f[Len(events)]
<1> DEFINE T == {n \in Nat : ~\E f : IsRun(s, events, n, f)}
<1>1. T = {}
  <2> SUFFICES ASSUME T # {} PROVE FALSE
    OBVIOUS
  <2>1. PICK m \in T : \A k \in T : m <= k
    <3> T \in SUBSET Nat
      OBVIOUS
    <3> HIDE DEF T
    <3> QED
      BY LeastNumber, Zenon
  <2>2. m # 0
    <3>1. IsRun(s, events, 0, [i \in 0..0 |-> [fine |-> TRUE, store |-> s]])
      BY DEF IsRun
    <3> QED
      BY <3>1
  <2>3. PICK n \in Nat : m = n + 1 /\ n \notin T
    <3>1. m - 1 \in Nat /\ m = (m - 1) + 1 /\ ~(m <= m - 1)
      BY <2>2
    <3> QED
      BY <2>1, <3>1
  <2>4. PICK h : IsRun(s, events, n, h)
    BY <2>3
  <2>5. \E g : IsRun(s, events, n + 1, g)
    BY <2>4, RunGoesOn
  <2> QED
    BY <2>3, <2>5
<1>2. \E f : IsRun(s, events, Len(events), f)
  BY <1>1
<1> QED
  BY <1>2 DEF StoreOutcome, IsRun

\* There is one run only.
LEMMA RunIsUnique ==
  ASSUME NEW s, NEW events, NEW n \in Nat, NEW f, NEW g,
         IsRun(s, events, n, f), IsRun(s, events, n, g)
  PROVE  \A i \in 0..n : f[i] = g[i]
<1> DEFINE T == {i \in 0..n : f[i] # g[i]}
<1> SUFFICES ASSUME T # {} PROVE FALSE
  OBVIOUS
<1>1. PICK m \in T : \A k \in T : m <= k
  <2> T \in SUBSET Nat
    OBVIOUS
  <2> HIDE DEF T
  <2> QED
    BY LeastNumber, Zenon
<1>2. /\ \A i \in 0..n : f[i] = IF i = 0 THEN [fine |-> TRUE, store |-> s]
                                          ELSE WriteNext(f[i - 1], events[i])
      /\ \A i \in 0..n : g[i] = IF i = 0 THEN [fine |-> TRUE, store |-> s]
                                          ELSE WriteNext(g[i - 1], events[i])
  BY DEF IsRun
<1>3. m # 0
  BY <1>2
<1>4. m - 1 \in 0..n /\ m - 1 \notin T
  BY <1>1, <1>3
<1> QED
  BY <1>2, <1>3, <1>4

\* A run of some events is one of every sequence that begins with them.
LEMMA RunOfPrefix ==
  ASSUME NEW s, NEW events, NEW others, NEW n \in Nat, NEW f, IsRun(s, events, n, f),
         \A i \in 1..n : others[i] = events[i]
  PROVE  IsRun(s, others, n, f)
<1>1. \A i \in 0..n : i # 0 => i \in 1..n
  OBVIOUS
<1> QED
  BY <1>1 DEF IsRun

-----------------------------------------------------------------------------
\* The events that the operations append, and the rows of the capabilities.
AllEvents == {Event(id, type, run, e, x) : id \in Nat, type \in EventTypes, run \in Runs \cup {NoRun},
                                           e \in Entities \cup Values, x \in Values}
TokenRow == [hash : Tokens, run : Runs, lease : Entities, revoked : BOOLEAN, minted : Nat]

\* The tables of the store.
IsStore(s) ==
  /\ s = [log |-> s.log, proj |-> s.proj, artifacts |-> s.artifacts,
          associations |-> s.associations, tokens |-> s.tokens]
  /\ s.log \in Seq(AllEvents)
  /\ s.tokens \in SUBSET TokenRow

\* The reducer sees all tables but the capabilities.
SameTables(s, r) ==
  s.log = r.log /\ s.proj = r.proj /\ s.artifacts = r.artifacts /\ s.associations = r.associations

\* What the fields of an event are.
LEMMA EventFields ==
  ASSUME NEW ev \in AllEvents
  PROVE  /\ ev.id \in Nat /\ ev.type \in EventTypes /\ ev.run \in Runs \cup {NoRun}
         /\ DOMAIN ev.payload = RequiredFields(ev.type)
         /\ ev.key[1] = ProjectionOf(ev.type)
         /\ ev.key = <<ev.key[1], ev.key[2]>>
<1>1. PICK id \in Nat, type \in EventTypes, run \in Runs \cup {NoRun},
         e \in Entities \cup Values, x \in Values : ev = Event(id, type, run, e, x)
  BY DEF AllEvents
<1>2. /\ ev.id = id /\ ev.type = type /\ ev.run = run /\ ev.payload = Payload(type, e, x)
      /\ ev.key = <<ProjectionOf(type), EntityId(id, type, run, Payload(type, e, x))>>
  BY <1>1 DEF Event
<1>3. DOMAIN Payload(type, e, x) = RequiredFields(type)
  BY DEF Payload
<1> QED
  BY <1>2, <1>3

\* Revoking changes the mark of a capability only.
LEMMA RevokedRows ==
  ASSUME NEW tokens \in SUBSET TokenRow, NEW ev
  PROVE  RevokeLeaseCapabilities(tokens, ev) \in SUBSET TokenRow
  BY DEF RevokeLeaseCapabilities, TokenRow

\* The tables with an event, its changes and its revocations.
Rewritten(s, ev) ==
  [log |-> Append(s.log, ev), proj |-> Merged(Changes(s.proj, ev), s.proj), artifacts |-> s.artifacts,
   associations |-> s.associations, tokens |-> RevokeLeaseCapabilities(s.tokens, ev)]

\* What AddArtifact leaves in the two tables of artifacts.
ArtifactsWith(artifacts, ev) ==
  IF \E a \in artifacts : a.hash = ev.payload["content_hash"] \/ a.path = ev.payload["relative_path"]
  THEN artifacts
  ELSE artifacts \cup {[hash |-> ev.payload["content_hash"], path |-> ev.payload["relative_path"],
                        media |-> ev.payload["media_type"]]}
AssociationsWith(associations, ev) ==
  IF \E a \in associations : a.run = ev.run /\ a.path = ev.payload["relative_path"]
  THEN associations
  ELSE associations \cup {[run |-> ev.run, path |-> ev.payload["relative_path"],
                           hash |-> ev.payload["content_hash"], media |-> ev.payload["media_type"]]}

\* The five tables.
Tables(l, p, a, b, t) == [log |-> l, proj |-> p, artifacts |-> a, associations |-> b, tokens |-> t]

\* Replacing one of them.
WithLog(s, new) == [s EXCEPT !.log = new]
WithProj(s, new) == [s EXCEPT !.proj = new]
WithArtifacts(s, new) == [s EXCEPT !.artifacts = new]
WithAssociations(s, new) == [s EXCEPT !.associations = new]
WithTokens(s, new) == [s EXCEPT !.tokens = new]

\* One table replaced by another.
LEMMA ReplacedFields ==
  ASSUME NEW l, NEW p, NEW a, NEW b, NEW t, NEW new
  PROVE  /\ WithLog(Tables(l, p, a, b, t), new) = Tables(new, p, a, b, t)
         /\ WithProj(Tables(l, p, a, b, t), new) = Tables(l, new, a, b, t)
         /\ WithArtifacts(Tables(l, p, a, b, t), new) = Tables(l, p, new, b, t)
         /\ WithAssociations(Tables(l, p, a, b, t), new) = Tables(l, p, a, new, t)
         /\ WithTokens(Tables(l, p, a, b, t), new) = Tables(l, p, a, b, new)
<1>1. WithLog(Tables(l, p, a, b, t), new) = Tables(new, p, a, b, t)
  BY DEF Tables, WithLog
<1>2. WithProj(Tables(l, p, a, b, t), new) = Tables(l, new, a, b, t)
  BY DEF Tables, WithProj
<1>3. WithArtifacts(Tables(l, p, a, b, t), new) = Tables(l, p, new, b, t)
  BY DEF Tables, WithArtifacts
<1>4. WithAssociations(Tables(l, p, a, b, t), new) = Tables(l, p, a, new, t)
  BY DEF Tables, WithAssociations
<1>5. WithTokens(Tables(l, p, a, b, t), new) = Tables(l, p, a, b, new)
  BY DEF Tables, WithTokens
<1> QED
  BY <1>1, <1>2, <1>3, <1>4, <1>5

\* Write as the tables it gives.
LEMMA RewrittenTables ==
  ASSUME NEW s, IsStore(s), NEW ev
  PROVE  Write(s, ev) = IF ev.type = "ArtifactRegistered" THEN AddArtifact(Rewritten(s, ev), ev)
                        ELSE Rewritten(s, ev)
<1>1. PICK l, p, a, b, t : s = Tables(l, p, a, b, t)
  BY DEF IsStore, Tables
<1>2. s.log = l /\ s.proj = p /\ s.artifacts = a /\ s.associations = b /\ s.tokens = t
  BY <1>1 DEF Tables
<1> DEFINE log2 == Append(s.log, ev)
           proj2 == Merged(Changes(s.proj, ev), s.proj)
           tokens2 == RevokeLeaseCapabilities(s.tokens, ev)
<1> HIDE DEF log2, proj2, tokens2
<1>3. [s EXCEPT !.log = log2, !.proj = proj2, !.tokens = tokens2] = Tables(log2, proj2, a, b, tokens2)
  <2>1. [s EXCEPT !.log = log2, !.proj = proj2, !.tokens = tokens2]
          = WithTokens(WithProj(WithLog(s, log2), proj2), tokens2)
    BY Zenon DEF WithTokens, WithProj, WithLog
  <2>2. WithLog(s, log2) = Tables(log2, p, a, b, t)
    BY <1>1, ReplacedFields
  <2>3. WithProj(Tables(log2, p, a, b, t), proj2) = Tables(log2, proj2, a, b, t)
    BY ReplacedFields
  <2>4. WithTokens(Tables(log2, proj2, a, b, t), tokens2) = Tables(log2, proj2, a, b, tokens2)
    BY ReplacedFields
  <2> QED
    BY <2>1, <2>2, <2>3, <2>4
<1>4. Tables(log2, proj2, a, b, tokens2) = Rewritten(s, ev)
  BY <1>2 DEF Rewritten, Tables, log2, proj2, tokens2
<1> QED
  BY <1>3, <1>4 DEF Write, log2, proj2, tokens2

\* AddArtifact as the tables it gives.
LEMMA ArtifactTables ==
  ASSUME NEW s, NEW ev
  PROVE  AddArtifact(Rewritten(s, ev), ev)
           = Tables(Append(s.log, ev), Merged(Changes(s.proj, ev), s.proj), ArtifactsWith(s.artifacts, ev),
                    AssociationsWith(s.associations, ev), RevokeLeaseCapabilities(s.tokens, ev))
<1> DEFINE l == Append(s.log, ev)
           p == Merged(Changes(s.proj, ev), s.proj)
           t == RevokeLeaseCapabilities(s.tokens, ev)
<1>1. Rewritten(s, ev) = Tables(l, p, s.artifacts, s.associations, t)
  BY DEF Rewritten, Tables
<1> HIDE DEF l, p, t
<1>2. Rewritten(s, ev).artifacts = s.artifacts /\ Rewritten(s, ev).associations = s.associations
  BY <1>1 DEF Tables
<1> DEFINE a2 == ArtifactsWith(s.artifacts, ev)
           b2 == AssociationsWith(s.associations, ev)
<1>3. AddArtifact(Rewritten(s, ev), ev) = [Rewritten(s, ev) EXCEPT !.artifacts = a2, !.associations = b2]
  BY <1>2 DEF AddArtifact, ArtifactsWith, AssociationsWith
<1> HIDE DEF a2, b2
<1>4. AddArtifact(Rewritten(s, ev), ev) = Tables(l, p, a2, b2, t)
  <2>1. AddArtifact(Rewritten(s, ev), ev) = WithAssociations(WithArtifacts(Rewritten(s, ev), a2), b2)
    BY <1>3, Zenon DEF WithAssociations, WithArtifacts
  <2>2. WithArtifacts(Rewritten(s, ev), a2) = Tables(l, p, a2, s.associations, t)
    BY <1>1, ReplacedFields
  <2>3. WithAssociations(Tables(l, p, a2, s.associations, t), b2) = Tables(l, p, a2, b2, t)
    BY ReplacedFields
  <2> QED
    BY <2>1, <2>2, <2>3
<1> QED
  BY <1>4 DEF l, p, t, a2, b2

\* What writing an event makes of the tables.
LEMMA WrittenTables ==
  ASSUME NEW s, IsStore(s), NEW ev \in AllEvents
  PROVE  /\ IsStore(Write(s, ev))
         /\ Write(s, ev).log = Append(s.log, ev)
         /\ Write(s, ev).proj = Merged(Changes(s.proj, ev), s.proj)
         /\ Write(s, ev).tokens = RevokeLeaseCapabilities(s.tokens, ev)
         /\ ev.type # "ArtifactRegistered" =>
              Write(s, ev).artifacts = s.artifacts /\ Write(s, ev).associations = s.associations
<1>1. Write(s, ev) = IF ev.type = "ArtifactRegistered" THEN AddArtifact(Rewritten(s, ev), ev)
                     ELSE Rewritten(s, ev)
  BY RewrittenTables
<1>2. Append(s.log, ev) \in Seq(AllEvents) /\ RevokeLeaseCapabilities(s.tokens, ev) \in SUBSET TokenRow
  BY RevokedRows DEF IsStore
<1>3. CASE ev.type # "ArtifactRegistered"
  BY <1>1, <1>2, <1>3 DEF IsStore, Rewritten
<1>4. CASE ev.type = "ArtifactRegistered"
  <2>1. PICK x, y : Write(s, ev) = [log |-> Append(s.log, ev), proj |-> Merged(Changes(s.proj, ev), s.proj),
                                    artifacts |-> x, associations |-> y,
                                    tokens |-> RevokeLeaseCapabilities(s.tokens, ev)]
    BY <1>1, <1>4, ArtifactTables DEF Tables
  <2> QED
    BY <1>2, <1>4, <2>1 DEF IsStore
<1> QED
  BY <1>3, <1>4

\* Stores that differ in their capabilities take the same events and write them alike.
LEMMA SameWrite ==
  ASSUME NEW s, NEW r, IsStore(s), IsStore(r), SameTables(s, r), NEW ev \in AllEvents
  PROVE  StoreAccepted(s, ev) = StoreAccepted(r, ev) /\ SameTables(Write(s, ev), Write(r, ev))
<1>1. StoreAccepted(s, ev) = StoreAccepted(r, ev)
  BY DEF SameTables, StoreAccepted, ArtifactFits
<1>2. SameTables(Rewritten(s, ev), Rewritten(r, ev))
  BY DEF SameTables, Rewritten
<1>3. SameTables(AddArtifact(Rewritten(s, ev), ev), AddArtifact(Rewritten(r, ev), ev))
  <2>1. \A l, p, a, b, u, v : SameTables(Tables(l, p, a, b, u), Tables(l, p, a, b, v))
    BY DEF SameTables, Tables
  <2>2. s.log = r.log /\ s.proj = r.proj /\ s.artifacts = r.artifacts
        /\ s.associations = r.associations
    BY DEF SameTables
  <2>3. /\ AddArtifact(Rewritten(s, ev), ev)
             = Tables(Append(s.log, ev), Merged(Changes(s.proj, ev), s.proj),
                      ArtifactsWith(s.artifacts, ev), AssociationsWith(s.associations, ev),
                      RevokeLeaseCapabilities(s.tokens, ev))
        /\ AddArtifact(Rewritten(r, ev), ev)
             = Tables(Append(s.log, ev), Merged(Changes(s.proj, ev), s.proj),
                      ArtifactsWith(s.artifacts, ev), AssociationsWith(s.associations, ev),
                      RevokeLeaseCapabilities(r.tokens, ev))
    BY <2>2, ArtifactTables
  <2> QED
    BY <2>1, <2>3, Zenon
<1> QED
  BY <1>1, <1>2, <1>3, RewrittenTables

\* The log, reduced again from the beginning, gives the tables.
Replays(s) ==
  \E f : /\ IsRun(Fresh, s.log, Len(s.log), f) /\ f[Len(s.log)].fine
         /\ IsStore(f[Len(s.log)].store) /\ SameTables(f[Len(s.log)].store, s)

\* An event that is accepted keeps it so.
LEMMA ReplaysOneMore ==
  ASSUME NEW s, IsStore(s), NEW ev \in AllEvents, StoreAccepted(s, ev), Replays(s)
  PROVE  Replays(Write(s, ev))
<1> DEFINE n == Len(s.log)
           w == Write(s, ev)
<1>1. n \in Nat /\ w.log = Append(s.log, ev) /\ Len(w.log) = n + 1 /\ w.log[n + 1] = ev
      /\ \A i \in 1..n : w.log[i] = s.log[i]
  BY WrittenTables DEF IsStore
<1>2. PICK f : /\ IsRun(Fresh, s.log, n, f) /\ f[n].fine
               /\ IsStore(f[n].store) /\ SameTables(f[n].store, s)
  BY DEF Replays
<1> HIDE DEF n, w
<1>3. IsRun(Fresh, w.log, n, f)
  BY <1>1, <1>2, RunOfPrefix
<1>4. PICK g : IsRun(Fresh, w.log, n + 1, g) /\ g[n + 1] = WriteNext(f[n], w.log[n + 1])
  <2> DEFINE log == w.log
  <2>1. IsRun(Fresh, log, n, f) /\ n \in Nat
    BY <1>1, <1>3
  <2> HIDE DEF log
  <2>2. \E g : IsRun(Fresh, log, n + 1, g) /\ g[n + 1] = WriteNext(f[n], log[n + 1])
    BY <2>1, RunGoesOn
  <2> QED
    BY <2>2 DEF log
<1>5. StoreAccepted(f[n].store, ev) /\ SameTables(Write(f[n].store, ev), w)
  BY <1>2, SameWrite DEF w
<1>6. g[n + 1] = [fine |-> TRUE, store |-> Write(f[n].store, ev)]
  BY <1>1, <1>2, <1>4, <1>5 DEF WriteNext
<1>7. IsStore(Write(f[n].store, ev))
  BY <1>2, WrittenTables
<1> QED
  BY <1>1, <1>4, <1>5, <1>6, <1>7 DEF Replays, w

-----------------------------------------------------------------------------
(* The tables of the schema, read entry by entry                           *)

\* The three tables of fields are about different types.
LEMMA FieldTables ==
  /\ \A type \in DOMAIN Required : RequiredFields(type) = Required[type]
  /\ \A type \in DOMAIN RequiredOfOrchestration : RequiredFields(type) = RequiredOfOrchestration[type]
  /\ \A type \in DOMAIN RequiredOfExecution : RequiredFields(type) = RequiredOfExecution[type]
  /\ RequiredFields("ResearchRecordUpdated") = {"record_id"}
<1>1. "ResearchRecordUpdated" \notin DOMAIN Required
  BY DEF Required
<1>2. \A type \in DOMAIN RequiredOfOrchestration :
        type \notin DOMAIN Required /\ type # "ResearchRecordUpdated"
  BY DEF RequiredOfOrchestration, Required
<1>3. \A type \in DOMAIN RequiredOfExecution :
        /\ type \notin DOMAIN Required /\ type \notin DOMAIN RequiredOfOrchestration
        /\ type # "ResearchRecordUpdated"
  BY DEF RequiredOfExecution, RequiredOfOrchestration, Required
<1> QED
  BY <1>1, <1>2, <1>3 DEF RequiredFields

\* Every type of event has a projection (_EVENT_PROJECTION).
LEMMA EveryTypeIsProjected ==
  \A type \in EventTypes : \E name \in ProjectionNames : type \in EventsOf[name]
<1>1. \A type \in {"ResearchRecordUpdated"} :
        type \in EventsOf["research"]
  BY DEF EventsOf
<1>2. \A type \in {"ProjectInitialized", "EnvironmentTransitionProposed",
                   "EnvironmentTransitionApproved", "EnvironmentTransitionRejected"} :
        type \in EventsOf["project"]
  BY DEF EventsOf
<1>3. \A type \in {"RunCreated", "RunCompleted", "RunAborted"} :
        type \in EventsOf["runs"]
  BY DEF EventsOf
<1>4. \A type \in {"ArtifactRegistered"} :
        type \in EventsOf["artifacts"]
  BY DEF EventsOf
<1>5. \A type \in {"FormalTraceSealed", "EvaluationTransitionRejected",
                   "PromotionVerificationRecorded"} :
        type \in EventsOf["evaluations"]
  BY DEF EventsOf
<1>6. \A type \in {"ScheduleProposed"} :
        type \in EventsOf["schedules"]
  BY DEF EventsOf
<1>7. \A type \in {"ControllerConfigured"} :
        type \in EventsOf["controller"]
  BY DEF EventsOf
<1>8. \A type \in {"WorkerRegistered", "WorkerStarted", "WorkerStopped", "WorkerCrashed",
                   "WorkerTimedOut", "AgentRunCompleted"} :
        type \in EventsOf["workers"]
  BY DEF EventsOf
<1>9. \A type \in {"WorkerConfigured"} :
        type \in EventsOf["worker_roster"]
  BY DEF EventsOf
<1>10. \A type \in {"WorkerTaskAssigned"} :
        type \in EventsOf["worker_assignments"]
  BY DEF EventsOf
<1>11. \A type \in {"ControllerStarted", "ControllerStopped", "ControllerCrashed"} :
        type \in EventsOf["controller_runtime"]
  BY DEF EventsOf, OrchestrationEvents
<1>12. \A type \in {"WorkerTaskClaimed", "WorkerTaskDispatchPlanned", "WorkerTaskCompleted",
                    "WorkerTaskFailed", "WorkerTaskInterrupted"} :
        type \in EventsOf["worker_executions"]
  BY DEF EventsOf, OrchestrationEvents
<1>13. \A type \in {"WorkerCursorSaved"} :
        type \in EventsOf["worker_cursors"]
  BY DEF EventsOf
<1>14. \A type \in {"LeaseGranted", "LeaseReleased", "LeaseRecovered"} :
        type \in EventsOf["leases"]
  BY DEF EventsOf
<1>15. \A type \in {"DocumentEditPrepared", "DocumentEdited", "DocumentEditRecovered"} :
        type \in EventsOf["documents"]
  BY DEF EventsOf
<1>16. \A type \in {"FormalActionRecorded"} :
        type \in EventsOf["formal_actions"]
  BY DEF EventsOf
<1>17. \A type \in {"ContributionSubmitted", "ContributionRebased", "ContributionEnqueued",
                    "PromotionStateChanged", "PromotionPrepared", "PromotionFailed"} :
        type \in EventsOf["contributions"]
  BY DEF EventsOf
<1>18. \A type \in {"DeclarationPublished"} :
        type \in EventsOf["verified_declarations"]
  BY DEF EventsOf
<1>19. \A type \in {"KnowledgeDeltaPublished"} :
        type \in EventsOf["knowledge_deltas"]
  BY DEF EventsOf
<1>20. \A type \in {"KnowledgeDeltaAcknowledged"} :
        type \in EventsOf["knowledge_acknowledgements"]
  BY DEF EventsOf
<1>21. \A type \in {"CapabilityDenied", "SandboxProbeDenied", "SandboxProbeFailed"} :
        type \in EventsOf["denials"]
  BY DEF EventsOf
<1>22. \A type \in {"CapabilityMinted", "SandboxProbeStarted", "SandboxProbePassed",
                    "LeanRuntimeStarted", "LeanRuntimeCrashed", "LeanRuntimeRestarted",
                    "LeanRuntimeStopped"} :
        type \in EventsOf["resources"]
  BY DEF EventsOf
<1>23. \A type \in {"AlignmentReviewed"} :
        type \in EventsOf["alignment_reviews"]
  BY DEF EventsOf
<1>24. \A type \in {"InterventionRecorded"} :
        type \in EventsOf["interventions"]
  BY DEF EventsOf
<1>25. {"research", "project", "runs", "artifacts", "evaluations", "schedules", "controller",
       "workers", "worker_roster", "worker_assignments", "controller_runtime",
       "worker_executions", "worker_cursors", "leases", "documents", "formal_actions",
       "contributions", "verified_declarations", "knowledge_deltas",
       "knowledge_acknowledgements", "denials", "resources", "alignment_reviews",
       "interventions"} \subseteq ProjectionNames
  BY DEF ProjectionNames, EventsOf
<1>26. DOMAIN Required =
           {"ProjectInitialized", "EnvironmentTransitionProposed",
            "EnvironmentTransitionApproved", "EnvironmentTransitionRejected"}
      \cup {"RunCreated", "RunCompleted", "RunAborted"}
      \cup {"WorkerRegistered", "WorkerStarted", "WorkerStopped", "WorkerCrashed"}
      \cup {"LeaseGranted", "LeaseReleased", "LeaseRecovered"}
      \cup {"DocumentEditPrepared", "DocumentEdited", "DocumentEditRecovered"}
      \cup {"FormalActionRecorded"}
      \cup {"ContributionSubmitted", "ContributionRebased", "ContributionEnqueued",
            "PromotionStateChanged", "PromotionPrepared", "PromotionFailed"}
      \cup {"DeclarationPublished"}
      \cup {"KnowledgeDeltaPublished"}
      \cup {"KnowledgeDeltaAcknowledged"}
      \cup {"CapabilityDenied", "SandboxProbeDenied", "SandboxProbeFailed"}
      \cup {"CapabilityMinted", "SandboxProbeStarted", "SandboxProbePassed",
            "LeanRuntimeStarted", "LeanRuntimeCrashed", "LeanRuntimeRestarted"}
      \cup {"AlignmentReviewed"}
      \cup {"InterventionRecorded"}
  BY DEF Required
<1>27. DOMAIN RequiredOfOrchestration =
           {"ArtifactRegistered"}
      \cup {"FormalTraceSealed", "EvaluationTransitionRejected", "PromotionVerificationRecorded"}
      \cup {"ScheduleProposed"}
      \cup {"ControllerConfigured"}
      \cup {"WorkerTimedOut", "AgentRunCompleted"}
      \cup {"WorkerConfigured"}
      \cup {"WorkerTaskAssigned"}
      \cup {"WorkerCursorSaved"}
      \cup {"LeanRuntimeStopped"}
  BY DEF RequiredOfOrchestration
<1>28. DOMAIN RequiredOfExecution =
           {"ControllerStarted", "ControllerStopped", "ControllerCrashed"}
      \cup {"WorkerTaskClaimed", "WorkerTaskDispatchPlanned", "WorkerTaskCompleted",
            "WorkerTaskFailed", "WorkerTaskInterrupted"}
  BY DEF RequiredOfExecution
<1>29. \A type \in DOMAIN Required : \E name \in ProjectionNames : type \in EventsOf[name]
  BY <1>1, <1>2, <1>3, <1>4, <1>5, <1>6, <1>7, <1>8, <1>9, <1>10, <1>11, <1>12, <1>13,
     <1>14, <1>15, <1>16, <1>17, <1>18, <1>19, <1>20, <1>21, <1>22, <1>23, <1>24, <1>25,
     <1>26
<1>30. \A type \in DOMAIN RequiredOfOrchestration : \E name \in ProjectionNames : type \in EventsOf[name]
  BY <1>1, <1>2, <1>3, <1>4, <1>5, <1>6, <1>7, <1>8, <1>9, <1>10, <1>11, <1>12, <1>13,
     <1>14, <1>15, <1>16, <1>17, <1>18, <1>19, <1>20, <1>21, <1>22, <1>23, <1>24, <1>25,
     <1>27
<1>31. \A type \in DOMAIN RequiredOfExecution : \E name \in ProjectionNames : type \in EventsOf[name]
  BY <1>1, <1>2, <1>3, <1>4, <1>5, <1>6, <1>7, <1>8, <1>9, <1>10, <1>11, <1>12, <1>13,
     <1>14, <1>15, <1>16, <1>17, <1>18, <1>19, <1>20, <1>21, <1>22, <1>23, <1>24, <1>25,
     <1>28
<1> QED
  BY <1>1, <1>25, <1>29, <1>30, <1>31 DEF EventTypes

\* An event carries the field that names its entity (_ENTITY_FIELD, validate_payload).
LEMMA EntityIsRequired ==
  \A f \in DOMAIN EntityFieldOf : \A type \in EntityFieldOf[f] : f \in RequiredFields(type)
<1>1. EntityFieldOf["record_id"] = {"ResearchRecordUpdated"}
  BY DEF EntityFieldOf, EventsOf, OrchestrationEvents
<1>2. \A type \in EntityFieldOf["record_id"] : "record_id" \in RequiredFields(type)
  BY <1>1, FieldTables
<1>3. EntityFieldOf["project_id"] = {"ProjectInitialized"}
  BY DEF EntityFieldOf, EventsOf, OrchestrationEvents
<1>4. \A type \in {"ProjectInitialized"} :
        type \in DOMAIN Required /\ "project_id" \in Required[type]
  BY DEF Required
<1>5. \A type \in EntityFieldOf["project_id"] : "project_id" \in RequiredFields(type)
  BY <1>3, <1>4, FieldTables
<1>6. EntityFieldOf["content_hash"] = {"ArtifactRegistered"}
  BY DEF EntityFieldOf, EventsOf, OrchestrationEvents
<1>7. \A type \in {"ArtifactRegistered"} :
        type \in DOMAIN RequiredOfOrchestration /\ "content_hash" \in RequiredOfOrchestration[type]
  BY DEF RequiredOfOrchestration
<1>8. \A type \in EntityFieldOf["content_hash"] : "content_hash" \in RequiredFields(type)
  BY <1>6, <1>7, FieldTables
<1>9. EntityFieldOf["requested_hash"] = {"EvaluationTransitionRejected"}
  BY DEF EntityFieldOf, EventsOf, OrchestrationEvents
<1>10. \A type \in {"EvaluationTransitionRejected"} :
         type \in DOMAIN RequiredOfOrchestration /\ "requested_hash" \in RequiredOfOrchestration[type]
  BY DEF RequiredOfOrchestration
<1>11. \A type \in EntityFieldOf["requested_hash"] : "requested_hash" \in RequiredFields(type)
  BY <1>9, <1>10, FieldTables
<1>12. EntityFieldOf["controller_id"] = {"ControllerConfigured", "ControllerStarted",
                                         "ControllerStopped", "ControllerCrashed"}
  BY DEF EntityFieldOf, EventsOf, OrchestrationEvents
<1>13. \A type \in {"ControllerConfigured"} :
         type \in DOMAIN RequiredOfOrchestration /\ "controller_id" \in RequiredOfOrchestration[type]
  BY DEF RequiredOfOrchestration
<1>14. \A type \in {"ControllerStarted", "ControllerStopped", "ControllerCrashed"} :
         type \in DOMAIN RequiredOfExecution /\ "controller_id" \in RequiredOfExecution[type]
  BY DEF RequiredOfExecution
<1>15. \A type \in EntityFieldOf["controller_id"] : "controller_id" \in RequiredFields(type)
  BY <1>12, <1>13, <1>14, FieldTables
<1>16. EntityFieldOf["worker_id"] = {"WorkerConfigured", "WorkerTaskAssigned",
                                     "WorkerCursorSaved", "WorkerRegistered", "WorkerStarted",
                                     "WorkerStopped", "WorkerCrashed", "WorkerTimedOut",
                                     "AgentRunCompleted"}
  BY DEF EntityFieldOf, EventsOf, OrchestrationEvents
<1>17. \A type \in {"WorkerRegistered", "WorkerStarted", "WorkerStopped", "WorkerCrashed"} :
         type \in DOMAIN Required /\ "worker_id" \in Required[type]
  BY DEF Required
<1>18. \A type \in {"WorkerConfigured", "WorkerTaskAssigned", "WorkerCursorSaved",
                    "WorkerTimedOut", "AgentRunCompleted"} :
         type \in DOMAIN RequiredOfOrchestration /\ "worker_id" \in RequiredOfOrchestration[type]
  BY DEF RequiredOfOrchestration
<1>19. \A type \in EntityFieldOf["worker_id"] : "worker_id" \in RequiredFields(type)
  BY <1>16, <1>17, <1>18, FieldTables
<1>20. EntityFieldOf["directive_id"] = {"ScheduleProposed"}
  BY DEF EntityFieldOf, EventsOf, OrchestrationEvents
<1>21. \A type \in {"ScheduleProposed"} :
         type \in DOMAIN RequiredOfOrchestration /\ "directive_id" \in RequiredOfOrchestration[type]
  BY DEF RequiredOfOrchestration
<1>22. \A type \in EntityFieldOf["directive_id"] : "directive_id" \in RequiredFields(type)
  BY <1>20, <1>21, FieldTables
<1>23. EntityFieldOf["request_id"] = {"CapabilityDenied"}
  BY DEF EntityFieldOf, EventsOf, OrchestrationEvents
<1>24. \A type \in {"CapabilityDenied"} :
         type \in DOMAIN Required /\ "request_id" \in Required[type]
  BY DEF Required
<1>25. \A type \in EntityFieldOf["request_id"] : "request_id" \in RequiredFields(type)
  BY <1>23, <1>24, FieldTables
<1>26. EntityFieldOf["probe_id"] = {"SandboxProbeStarted", "SandboxProbeDenied",
                                    "SandboxProbePassed", "SandboxProbeFailed"}
  BY DEF EntityFieldOf, EventsOf, OrchestrationEvents
<1>27. \A type \in {"SandboxProbeStarted", "SandboxProbeDenied", "SandboxProbePassed",
                    "SandboxProbeFailed"} :
         type \in DOMAIN Required /\ "probe_id" \in Required[type]
  BY DEF Required
<1>28. \A type \in EntityFieldOf["probe_id"] : "probe_id" \in RequiredFields(type)
  BY <1>26, <1>27, FieldTables
<1>29. EntityFieldOf["lease_id"] = {"LeaseGranted", "LeaseReleased", "LeaseRecovered"}
  BY DEF EntityFieldOf, EventsOf, OrchestrationEvents
<1>30. \A type \in {"LeaseGranted", "LeaseReleased", "LeaseRecovered"} :
         type \in DOMAIN Required /\ "lease_id" \in Required[type]
  BY DEF Required, DocumentFields
<1>31. \A type \in EntityFieldOf["lease_id"] : "lease_id" \in RequiredFields(type)
  BY <1>29, <1>30, FieldTables
<1>32. EntityFieldOf["document_id"] = {"DocumentEditPrepared", "DocumentEdited",
                                       "DocumentEditRecovered"}
  BY DEF EntityFieldOf, EventsOf, OrchestrationEvents
<1>33. \A type \in {"DocumentEditPrepared", "DocumentEdited", "DocumentEditRecovered"} :
         type \in DOMAIN Required /\ "document_id" \in Required[type]
  BY DEF Required, DocumentFields
<1>34. \A type \in EntityFieldOf["document_id"] : "document_id" \in RequiredFields(type)
  BY <1>32, <1>33, FieldTables
<1>35. EntityFieldOf["action_id"] = {"FormalActionRecorded"}
  BY DEF EntityFieldOf, EventsOf, OrchestrationEvents
<1>36. \A type \in {"FormalActionRecorded"} :
         type \in DOMAIN Required /\ "action_id" \in Required[type]
  BY DEF Required
<1>37. \A type \in EntityFieldOf["action_id"] : "action_id" \in RequiredFields(type)
  BY <1>35, <1>36, FieldTables
<1>38. EntityFieldOf["contribution_id"] = {"PromotionVerificationRecorded",
                                           "ContributionSubmitted", "ContributionRebased",
                                           "ContributionEnqueued", "PromotionStateChanged",
                                           "PromotionPrepared", "PromotionFailed"}
  BY DEF EntityFieldOf, EventsOf, OrchestrationEvents
<1>39. \A type \in {"ContributionSubmitted", "ContributionRebased", "ContributionEnqueued",
                    "PromotionStateChanged", "PromotionPrepared", "PromotionFailed"} :
         type \in DOMAIN Required /\ "contribution_id" \in Required[type]
  BY DEF Required
<1>40. \A type \in {"PromotionVerificationRecorded"} :
         type \in DOMAIN RequiredOfOrchestration /\ "contribution_id" \in RequiredOfOrchestration[type]
  BY DEF RequiredOfOrchestration
<1>41. \A type \in EntityFieldOf["contribution_id"] : "contribution_id" \in RequiredFields(type)
  BY <1>38, <1>39, <1>40, FieldTables
<1>42. EntityFieldOf["declaration_id"] = {"DeclarationPublished"}
  BY DEF EntityFieldOf, EventsOf, OrchestrationEvents
<1>43. \A type \in {"DeclarationPublished"} :
         type \in DOMAIN Required /\ "declaration_id" \in Required[type]
  BY DEF Required
<1>44. \A type \in EntityFieldOf["declaration_id"] : "declaration_id" \in RequiredFields(type)
  BY <1>42, <1>43, FieldTables
<1>45. EntityFieldOf["delta_id"] = {"KnowledgeDeltaPublished"}
  BY DEF EntityFieldOf, EventsOf, OrchestrationEvents
<1>46. \A type \in {"KnowledgeDeltaPublished"} :
         type \in DOMAIN Required /\ "delta_id" \in Required[type]
  BY DEF Required
<1>47. \A type \in EntityFieldOf["delta_id"] : "delta_id" \in RequiredFields(type)
  BY <1>45, <1>46, FieldTables
<1>48. EntityFieldOf["acknowledgement_id"] = {"KnowledgeDeltaAcknowledged"}
  BY DEF EntityFieldOf, EventsOf, OrchestrationEvents
<1>49. \A type \in {"KnowledgeDeltaAcknowledged"} :
         type \in DOMAIN Required /\ "acknowledgement_id" \in Required[type]
  BY DEF Required
<1>50. \A type \in EntityFieldOf["acknowledgement_id"] : "acknowledgement_id" \in RequiredFields(type)
  BY <1>48, <1>49, FieldTables
<1>51. EntityFieldOf["runtime_id"] = {"LeanRuntimeStarted", "LeanRuntimeCrashed",
                                      "LeanRuntimeRestarted", "LeanRuntimeStopped"}
  BY DEF EntityFieldOf, EventsOf, OrchestrationEvents
<1>52. \A type \in {"LeanRuntimeStarted", "LeanRuntimeCrashed", "LeanRuntimeRestarted"} :
         type \in DOMAIN Required /\ "runtime_id" \in Required[type]
  BY DEF Required
<1>53. \A type \in {"LeanRuntimeStopped"} :
         type \in DOMAIN RequiredOfOrchestration /\ "runtime_id" \in RequiredOfOrchestration[type]
  BY DEF RequiredOfOrchestration
<1>54. \A type \in EntityFieldOf["runtime_id"] : "runtime_id" \in RequiredFields(type)
  BY <1>51, <1>52, <1>53, FieldTables
<1>55. EntityFieldOf["transition_id"] = {"EnvironmentTransitionProposed",
                                         "EnvironmentTransitionApproved",
                                         "EnvironmentTransitionRejected"}
  BY DEF EntityFieldOf, EventsOf, OrchestrationEvents
<1>56. \A type \in {"EnvironmentTransitionProposed", "EnvironmentTransitionApproved",
                    "EnvironmentTransitionRejected"} :
         type \in DOMAIN Required /\ "transition_id" \in Required[type]
  BY DEF Required
<1>57. \A type \in EntityFieldOf["transition_id"] : "transition_id" \in RequiredFields(type)
  BY <1>55, <1>56, FieldTables
<1>58. EntityFieldOf["review_id"] = {"AlignmentReviewed"}
  BY DEF EntityFieldOf, EventsOf, OrchestrationEvents
<1>59. \A type \in {"AlignmentReviewed"} :
         type \in DOMAIN Required /\ "review_id" \in Required[type]
  BY DEF Required
<1>60. \A type \in EntityFieldOf["review_id"] : "review_id" \in RequiredFields(type)
  BY <1>58, <1>59, FieldTables
<1>61. EntityFieldOf["intervention_id"] = {"InterventionRecorded"}
  BY DEF EntityFieldOf, EventsOf, OrchestrationEvents
<1>62. \A type \in {"InterventionRecorded"} :
         type \in DOMAIN Required /\ "intervention_id" \in Required[type]
  BY DEF Required
<1>63. \A type \in EntityFieldOf["intervention_id"] : "intervention_id" \in RequiredFields(type)
  BY <1>61, <1>62, FieldTables
<1>64. EntityFieldOf["assignment_id"] = {"WorkerTaskClaimed", "WorkerTaskDispatchPlanned",
                                         "WorkerTaskCompleted", "WorkerTaskFailed",
                                         "WorkerTaskInterrupted"}
  BY DEF EntityFieldOf, EventsOf, OrchestrationEvents
<1>65. \A type \in {"WorkerTaskClaimed", "WorkerTaskDispatchPlanned",
                    "WorkerTaskCompleted", "WorkerTaskFailed", "WorkerTaskInterrupted"} :
         type \in DOMAIN RequiredOfExecution /\ "assignment_id" \in RequiredOfExecution[type]
  BY DEF RequiredOfExecution
<1>66. \A type \in EntityFieldOf["assignment_id"] : "assignment_id" \in RequiredFields(type)
  BY <1>64, <1>65, FieldTables
<1>67. DOMAIN EntityFieldOf = {"record_id", "project_id", "content_hash", "requested_hash", "controller_id",
             "worker_id", "directive_id", "request_id", "probe_id", "lease_id", "document_id",
             "action_id", "contribution_id", "declaration_id", "delta_id", "acknowledgement_id",
             "runtime_id", "transition_id", "review_id", "intervention_id", "assignment_id"}
  BY DEF EntityFieldOf
<1> QED
  BY <1>2, <1>5, <1>8, <1>11, <1>15, <1>19, <1>22, <1>25, <1>28, <1>31, <1>34, <1>37, <1>41,
     <1>44, <1>47, <1>50, <1>54, <1>57, <1>60, <1>63, <1>66, <1>67

\* An event that no field names goes by its run.
LEMMA EveryTypeHasEntity ==
  \A type \in EventTypes : type \in ByRun \/ \E f \in DOMAIN EntityFieldOf : type \in EntityFieldOf[f]
<1>1. \A type \in {"ResearchRecordUpdated"} :
        type \in EntityFieldOf["record_id"]
  BY DEF EntityFieldOf, EventsOf, OrchestrationEvents
<1>2. \A type \in {"ProjectInitialized"} :
        type \in EntityFieldOf["project_id"]
  BY DEF EntityFieldOf, EventsOf, OrchestrationEvents
<1>3. \A type \in {"ArtifactRegistered"} :
        type \in EntityFieldOf["content_hash"]
  BY DEF EntityFieldOf, EventsOf, OrchestrationEvents
<1>4. \A type \in {"EvaluationTransitionRejected"} :
        type \in EntityFieldOf["requested_hash"]
  BY DEF EntityFieldOf, EventsOf, OrchestrationEvents
<1>5. \A type \in {"ControllerConfigured", "ControllerStarted", "ControllerStopped",
                   "ControllerCrashed"} :
        type \in EntityFieldOf["controller_id"]
  BY DEF EntityFieldOf, EventsOf, OrchestrationEvents
<1>6. \A type \in {"WorkerConfigured", "WorkerTaskAssigned", "WorkerCursorSaved",
                   "WorkerRegistered", "WorkerStarted", "WorkerStopped", "WorkerCrashed",
                   "WorkerTimedOut", "AgentRunCompleted"} :
        type \in EntityFieldOf["worker_id"]
  BY DEF EntityFieldOf, EventsOf, OrchestrationEvents
<1>7. \A type \in {"ScheduleProposed"} :
        type \in EntityFieldOf["directive_id"]
  BY DEF EntityFieldOf, EventsOf, OrchestrationEvents
<1>8. \A type \in {"CapabilityDenied"} :
        type \in EntityFieldOf["request_id"]
  BY DEF EntityFieldOf, EventsOf, OrchestrationEvents
<1>9. \A type \in {"SandboxProbeStarted", "SandboxProbeDenied", "SandboxProbePassed",
                   "SandboxProbeFailed"} :
        type \in EntityFieldOf["probe_id"]
  BY DEF EntityFieldOf, EventsOf, OrchestrationEvents
<1>10. \A type \in {"LeaseGranted", "LeaseReleased", "LeaseRecovered"} :
        type \in EntityFieldOf["lease_id"]
  BY DEF EntityFieldOf, EventsOf, OrchestrationEvents
<1>11. \A type \in {"DocumentEditPrepared", "DocumentEdited", "DocumentEditRecovered"} :
        type \in EntityFieldOf["document_id"]
  BY DEF EntityFieldOf, EventsOf, OrchestrationEvents
<1>12. \A type \in {"FormalActionRecorded"} :
        type \in EntityFieldOf["action_id"]
  BY DEF EntityFieldOf, EventsOf, OrchestrationEvents
<1>13. \A type \in {"PromotionVerificationRecorded", "ContributionSubmitted",
                    "ContributionRebased", "ContributionEnqueued", "PromotionStateChanged",
                    "PromotionPrepared", "PromotionFailed"} :
        type \in EntityFieldOf["contribution_id"]
  BY DEF EntityFieldOf, EventsOf, OrchestrationEvents
<1>14. \A type \in {"DeclarationPublished"} :
        type \in EntityFieldOf["declaration_id"]
  BY DEF EntityFieldOf, EventsOf, OrchestrationEvents
<1>15. \A type \in {"KnowledgeDeltaPublished"} :
        type \in EntityFieldOf["delta_id"]
  BY DEF EntityFieldOf, EventsOf, OrchestrationEvents
<1>16. \A type \in {"KnowledgeDeltaAcknowledged"} :
        type \in EntityFieldOf["acknowledgement_id"]
  BY DEF EntityFieldOf, EventsOf, OrchestrationEvents
<1>17. \A type \in {"LeanRuntimeStarted", "LeanRuntimeCrashed", "LeanRuntimeRestarted",
                    "LeanRuntimeStopped"} :
        type \in EntityFieldOf["runtime_id"]
  BY DEF EntityFieldOf, EventsOf, OrchestrationEvents
<1>18. \A type \in {"EnvironmentTransitionProposed", "EnvironmentTransitionApproved",
                    "EnvironmentTransitionRejected"} :
        type \in EntityFieldOf["transition_id"]
  BY DEF EntityFieldOf, EventsOf, OrchestrationEvents
<1>19. \A type \in {"AlignmentReviewed"} :
        type \in EntityFieldOf["review_id"]
  BY DEF EntityFieldOf, EventsOf, OrchestrationEvents
<1>20. \A type \in {"InterventionRecorded"} :
        type \in EntityFieldOf["intervention_id"]
  BY DEF EntityFieldOf, EventsOf, OrchestrationEvents
<1>21. \A type \in {"WorkerTaskClaimed", "WorkerTaskDispatchPlanned", "WorkerTaskCompleted",
                    "WorkerTaskFailed", "WorkerTaskInterrupted"} :
        type \in EntityFieldOf["assignment_id"]
  BY DEF EntityFieldOf, EventsOf, OrchestrationEvents
<1>22. {"record_id", "project_id", "content_hash", "requested_hash", "controller_id",
       "worker_id", "directive_id", "request_id", "probe_id", "lease_id", "document_id",
       "action_id", "contribution_id", "declaration_id", "delta_id", "acknowledgement_id",
       "runtime_id", "transition_id", "review_id", "intervention_id", "assignment_id"}
        \subseteq DOMAIN EntityFieldOf
  BY DEF EntityFieldOf
<1>23. DOMAIN Required =
           {"ProjectInitialized"}
      \cup {"WorkerRegistered", "WorkerStarted", "WorkerStopped", "WorkerCrashed"}
      \cup {"CapabilityDenied"}
      \cup {"SandboxProbeStarted", "SandboxProbeDenied", "SandboxProbePassed",
            "SandboxProbeFailed"}
      \cup {"LeaseGranted", "LeaseReleased", "LeaseRecovered"}
      \cup {"DocumentEditPrepared", "DocumentEdited", "DocumentEditRecovered"}
      \cup {"FormalActionRecorded"}
      \cup {"ContributionSubmitted", "ContributionRebased", "ContributionEnqueued",
            "PromotionStateChanged", "PromotionPrepared", "PromotionFailed"}
      \cup {"DeclarationPublished"}
      \cup {"KnowledgeDeltaPublished"}
      \cup {"KnowledgeDeltaAcknowledged"}
      \cup {"LeanRuntimeStarted", "LeanRuntimeCrashed", "LeanRuntimeRestarted"}
      \cup {"EnvironmentTransitionProposed", "EnvironmentTransitionApproved",
            "EnvironmentTransitionRejected"}
      \cup {"AlignmentReviewed"}
      \cup {"InterventionRecorded"}
      \cup {"CapabilityMinted", "RunAborted", "RunCompleted", "RunCreated"}
  BY DEF Required
<1>24. DOMAIN RequiredOfOrchestration =
           {"ArtifactRegistered"}
      \cup {"EvaluationTransitionRejected"}
      \cup {"ControllerConfigured"}
      \cup {"WorkerConfigured", "WorkerTaskAssigned", "WorkerCursorSaved", "WorkerTimedOut",
            "AgentRunCompleted"}
      \cup {"ScheduleProposed"}
      \cup {"PromotionVerificationRecorded"}
      \cup {"LeanRuntimeStopped"}
      \cup {"FormalTraceSealed"}
  BY DEF RequiredOfOrchestration
<1>25. DOMAIN RequiredOfExecution =
           {"ControllerStarted", "ControllerStopped", "ControllerCrashed"}
      \cup {"WorkerTaskClaimed", "WorkerTaskDispatchPlanned", "WorkerTaskCompleted",
            "WorkerTaskFailed", "WorkerTaskInterrupted"}
  BY DEF RequiredOfExecution
<1>26. \A type \in DOMAIN Required :
         type \in ByRun \/ \E f \in DOMAIN EntityFieldOf : type \in EntityFieldOf[f]
  BY <1>1, <1>2, <1>3, <1>4, <1>5, <1>6, <1>7, <1>8, <1>9, <1>10, <1>11, <1>12, <1>13,
     <1>14, <1>15, <1>16, <1>17, <1>18, <1>19, <1>20, <1>21, <1>22, <1>23 DEF ByRun
<1>27. \A type \in DOMAIN RequiredOfOrchestration :
         type \in ByRun \/ \E f \in DOMAIN EntityFieldOf : type \in EntityFieldOf[f]
  BY <1>1, <1>2, <1>3, <1>4, <1>5, <1>6, <1>7, <1>8, <1>9, <1>10, <1>11, <1>12, <1>13,
     <1>14, <1>15, <1>16, <1>17, <1>18, <1>19, <1>20, <1>21, <1>22, <1>24 DEF ByRun
<1>28. \A type \in DOMAIN RequiredOfExecution :
         type \in ByRun \/ \E f \in DOMAIN EntityFieldOf : type \in EntityFieldOf[f]
  BY <1>1, <1>2, <1>3, <1>4, <1>5, <1>6, <1>7, <1>8, <1>9, <1>10, <1>11, <1>12, <1>13,
     <1>14, <1>15, <1>16, <1>17, <1>18, <1>19, <1>20, <1>21, <1>22, <1>25 DEF ByRun
<1> QED
  BY <1>1, <1>22, <1>26, <1>27, <1>28 DEF EventTypes

-----------------------------------------------------------------------------
(* What the tables say about the log                                       *)

\* The events that changed an entity.
ChangesOf(s, key) == {i \in DOMAIN s.log : key \in ChangedKeys(s.log[i])}

\* The version of an entity counts its events, and an entity without a record has none.
VersionInv(s) ==
  /\ \A key \in DOMAIN s.proj : key[1] \in ProjectionNames /\ s.proj[key].version \in Nat
  /\ \A key : key # EpochKey =>
       /\ key \in DOMAIN s.proj => s.proj[key].version = Cardinality(ChangesOf(s, key))
       /\ key \notin DOMAIN s.proj => ChangesOf(s, key) = {}

\* An artifact that is registered has a row, and its path one in its run.
ArtifactInv(s) ==
  \A i \in DOMAIN s.log : s.log[i].type = "ArtifactRegistered" =>
    /\ s.log[i].run # NoRun
    /\ \E a \in s.artifacts : /\ a.hash = s.log[i].payload["content_hash"]
                              /\ a.media = s.log[i].payload["media_type"]
    /\ \E a \in s.associations : /\ a.run = s.log[i].run /\ a.path = s.log[i].payload["relative_path"]
                                 /\ a.hash = s.log[i].payload["content_hash"]

\* A capability minted before the end of its lease is revoked.
TokenInv(s) ==
  \A t \in s.tokens : \A i \in DOMAIN s.log :
    EndsLease(s.log[i]) /\ s.log[i].run = t.run
      /\ s.log[i].payload["lease_id"] = t.lease /\ t.minted < i => t.revoked

\* The log after one more event.
LEMMA LogAfter ==
  ASSUME NEW s, IsStore(s), NEW ev \in AllEvents
  PROVE  /\ Len(s.log) \in Nat /\ DOMAIN s.log = 1..Len(s.log)
         /\ Len(Write(s, ev).log) = Len(s.log) + 1
         /\ DOMAIN Write(s, ev).log = DOMAIN s.log \cup {Len(s.log) + 1}
         /\ Len(s.log) + 1 \notin DOMAIN s.log
         /\ Write(s, ev).log[Len(s.log) + 1] = ev
         /\ \A i \in DOMAIN s.log : Write(s, ev).log[i] = s.log[i] /\ i < Len(s.log) + 1
         /\ \A i \in DOMAIN s.log : s.log[i] \in AllEvents
<1>1. s.log \in Seq(AllEvents) /\ Write(s, ev).log = Append(s.log, ev)
  BY WrittenTables DEF IsStore
<1> QED
  BY <1>1

\* An event files under its own projection, and a granted lease under the documents too.
LEMMA ChangedKeysAre ==
  ASSUME NEW ev \in AllEvents, NEW key \in ChangedKeys(ev)
  PROVE  /\ key[1] \in ProjectionNames
         /\ key = ev.key \/ key[1] \in {"documents", "epochs"}
<1>1. ev.key[1] \in ProjectionNames
  BY EventFields, EveryTypeIsProjected DEF ProjectionOf
<1>2. {"documents", "epochs"} \subseteq ProjectionNames
  BY DEF ProjectionNames, EventsOf
<1>3. key = ev.key \/ (\E x : key = <<"documents", <<x>>>>) \/ key = EpochKey
  BY DEF ChangedKeys
<1> QED
  BY <1>1, <1>2, <1>3 DEF EpochKey

\* What the projections are after an event.
LEMMA ProjAfter ==
  ASSUME NEW s, IsStore(s), NEW ev \in AllEvents
  PROVE  /\ DOMAIN Write(s, ev).proj = DOMAIN s.proj \cup ChangedKeys(ev)
         /\ \A key \in ChangedKeys(ev) : Write(s, ev).proj[key] = Changes(s.proj, ev)[key]
         /\ \A key \in DOMAIN s.proj : key \notin ChangedKeys(ev) => Write(s, ev).proj[key] = s.proj[key]
         /\ \A key \in ChangedKeys(ev) : Changes(s.proj, ev)[key].version = NextVersion(s.proj, key)
<1>1. Write(s, ev).proj = Merged(Changes(s.proj, ev), s.proj)
  BY WrittenTables
<1>2. DOMAIN Changes(s.proj, ev) = ChangedKeys(ev)
  BY DEF Changes
<1>3. \A key \in ChangedKeys(ev) : Changes(s.proj, ev)[key].version = NextVersion(s.proj, key)
  BY DEF Changes
<1> QED
  BY <1>1, <1>2, <1>3 DEF Merged

\* Versions keep counting.
LEMMA VersionsKeep ==
  ASSUME NEW s, IsStore(s), NEW ev \in AllEvents, VersionInv(s)
  PROVE  VersionInv(Write(s, ev))
<1> DEFINE w == Write(s, ev)
           n == Len(s.log)
<1>1. /\ n \in Nat /\ DOMAIN s.log = 1..n /\ DOMAIN w.log = DOMAIN s.log \cup {n + 1}
      /\ n + 1 \notin DOMAIN s.log /\ w.log[n + 1] = ev /\ \A i \in DOMAIN s.log : w.log[i] = s.log[i]
  BY LogAfter
<1>2. /\ DOMAIN w.proj = DOMAIN s.proj \cup ChangedKeys(ev)
      /\ \A key \in ChangedKeys(ev) : w.proj[key].version = NextVersion(s.proj, key)
      /\ \A key \in DOMAIN s.proj : key \notin ChangedKeys(ev) => w.proj[key] = s.proj[key]
  BY ProjAfter
<1> HIDE DEF w, n
<1>3. \A key : ChangesOf(w, key) = IF key \in ChangedKeys(ev) THEN ChangesOf(s, key) \cup {n + 1}
                                   ELSE ChangesOf(s, key)
  BY <1>1 DEF ChangesOf
<1>4. \A key : IsFiniteSet(ChangesOf(s, key)) /\ n + 1 \notin ChangesOf(s, key)
  <2>1. IsFiniteSet(1..n)
    BY <1>1, FS_Interval
  <2> QED
    BY <1>1, <2>1, FS_Subset DEF ChangesOf
<1>5. /\ Cardinality({}) = 0
      /\ \A key : Cardinality(ChangesOf(s, key) \cup {n + 1}) = Cardinality(ChangesOf(s, key)) + 1
  BY <1>4, FS_AddElement, FS_EmptySet
<1>6. ASSUME NEW key \in DOMAIN w.proj
      PROVE  key[1] \in ProjectionNames /\ w.proj[key].version \in Nat
  <2>1. CASE key \in ChangedKeys(ev)
    BY <1>2, <2>1, ChangedKeysAre DEF NextVersion, VersionInv
  <2>2. CASE key \notin ChangedKeys(ev)
    BY <1>2, <1>6, <2>2 DEF VersionInv
  <2> QED
    BY <2>1, <2>2
<1>7. ASSUME NEW key, key # EpochKey
      PROVE  /\ key \in DOMAIN w.proj => w.proj[key].version = Cardinality(ChangesOf(w, key))
             /\ key \notin DOMAIN w.proj => ChangesOf(w, key) = {}
  <2>1. /\ key \in DOMAIN s.proj => s.proj[key].version = Cardinality(ChangesOf(s, key))
        /\ key \notin DOMAIN s.proj => ChangesOf(s, key) = {}
    BY <1>7 DEF VersionInv
  <2>2. CASE key \in ChangedKeys(ev)
    <3>1. key \in DOMAIN w.proj /\ w.proj[key].version = NextVersion(s.proj, key)
      BY <1>2, <2>2
    <3>2. ChangesOf(w, key) = ChangesOf(s, key) \cup {n + 1}
      BY <1>3, <2>2
    <3>3. Cardinality(ChangesOf(w, key)) = Cardinality(ChangesOf(s, key)) + 1
      BY <1>5, <3>2
    <3>4. NextVersion(s.proj, key) = Cardinality(ChangesOf(s, key)) + 1
      BY <1>5, <2>1 DEF NextVersion
    <3> QED
      BY <3>1, <3>3, <3>4
  <2>3. CASE key \notin ChangedKeys(ev)
    BY <1>2, <1>3, <2>1, <2>3
  <2> QED
    BY <2>2, <2>3
<1> QED
  BY <1>6, <1>7 DEF VersionInv, w

\* What registering an artifact adds.
LEMMA ArtifactsAfter ==
  ASSUME NEW s, IsStore(s), NEW ev \in AllEvents, ev.type = "ArtifactRegistered"
  PROVE  /\ Write(s, ev).artifacts = ArtifactsWith(s.artifacts, ev)
         /\ Write(s, ev).associations = AssociationsWith(s.associations, ev)
  BY RewrittenTables, ArtifactTables DEF Tables

\* No row of an artifact is ever lost.
LEMMA ArtifactsStay ==
  ASSUME NEW s, IsStore(s), NEW ev \in AllEvents
  PROVE  s.artifacts \subseteq Write(s, ev).artifacts /\ s.associations \subseteq Write(s, ev).associations
<1>1. CASE ev.type # "ArtifactRegistered"
  <2>1. Write(s, ev).artifacts = s.artifacts /\ Write(s, ev).associations = s.associations
    BY <1>1, WrittenTables
  <2> QED
    BY <2>1
<1>2. CASE ev.type = "ArtifactRegistered"
  <2>1. s.artifacts \subseteq ArtifactsWith(s.artifacts, ev)
    BY DEF ArtifactsWith
  <2>2. s.associations \subseteq AssociationsWith(s.associations, ev)
    BY DEF AssociationsWith
  <2> QED
    BY <1>2, <2>1, <2>2, ArtifactsAfter
<1> QED
  BY <1>1, <1>2

\* Registered artifacts keep their rows, and a new one gets its own.
LEMMA ArtifactsKeep ==
  ASSUME NEW s, IsStore(s), NEW ev \in AllEvents, StoreAccepted(s, ev), ArtifactInv(s)
  PROVE  ArtifactInv(Write(s, ev))
<1> DEFINE w == Write(s, ev)
           n == Len(s.log)
<1>1. /\ DOMAIN w.log = DOMAIN s.log \cup {n + 1} /\ w.log[n + 1] = ev
      /\ \A i \in DOMAIN s.log : w.log[i] = s.log[i]
  BY LogAfter
<1>2. s.artifacts \subseteq w.artifacts /\ s.associations \subseteq w.associations
  BY ArtifactsStay
<1>3. ev.type = "ArtifactRegistered" =>
        /\ w.artifacts = ArtifactsWith(s.artifacts, ev)
        /\ w.associations = AssociationsWith(s.associations, ev)
  BY ArtifactsAfter
<1> HIDE DEF w, n
<1> SUFFICES ASSUME NEW i \in DOMAIN w.log, w.log[i].type = "ArtifactRegistered"
             PROVE  /\ w.log[i].run # NoRun
                    /\ \E a \in w.artifacts : /\ a.hash = w.log[i].payload["content_hash"]
                                              /\ a.media = w.log[i].payload["media_type"]
                    /\ \E a \in w.associations :
                         /\ a.run = w.log[i].run /\ a.path = w.log[i].payload["relative_path"]
                         /\ a.hash = w.log[i].payload["content_hash"]
  BY DEF ArtifactInv, w
<1>4. CASE i \in DOMAIN s.log
  BY <1>1, <1>2, <1>4 DEF ArtifactInv
<1>5. CASE i = n + 1
  <2>1. w.log[i] = ev /\ ev.type = "ArtifactRegistered" /\ ArtifactFits(s, ev)
    BY <1>1, <1>5 DEF StoreAccepted
  <2>2. ev.run # NoRun
    BY <2>1 DEF ArtifactFits
  <2>3. \E a \in w.artifacts : a.hash = ev.payload["content_hash"] /\ a.media = ev.payload["media_type"]
    <3>1. CASE \E a \in s.artifacts : a.hash = ev.payload["content_hash"]
      BY <1>2, <2>1, <3>1 DEF ArtifactFits
    <3>2. CASE ~\E a \in s.artifacts : a.hash = ev.payload["content_hash"]
      <4>1. ~\E a \in s.artifacts : a.path = ev.payload["relative_path"]
        BY <2>1, <3>2 DEF ArtifactFits
      <4>2. [hash |-> ev.payload["content_hash"], path |-> ev.payload["relative_path"],
             media |-> ev.payload["media_type"]] \in w.artifacts
        BY <1>3, <2>1, <3>2, <4>1 DEF ArtifactsWith
      <4> QED
        BY <4>2
    <3> QED
      BY <3>1, <3>2
  <2>4. \E a \in w.associations : /\ a.run = ev.run /\ a.path = ev.payload["relative_path"]
                                  /\ a.hash = ev.payload["content_hash"]
    <3>1. CASE \E a \in s.associations : a.run = ev.run /\ a.path = ev.payload["relative_path"]
      BY <1>2, <2>1, <3>1 DEF ArtifactFits
    <3>2. CASE ~\E a \in s.associations : a.run = ev.run /\ a.path = ev.payload["relative_path"]
      <4>1. [run |-> ev.run, path |-> ev.payload["relative_path"], hash |-> ev.payload["content_hash"],
             media |-> ev.payload["media_type"]] \in w.associations
        BY <1>3, <2>1, <3>2 DEF AssociationsWith
      <4> QED
        BY <4>1
    <3> QED
      BY <3>1, <3>2
  <2> QED
    BY <2>1, <2>2, <2>3, <2>4
<1> QED
  BY <1>1, <1>4, <1>5

\* An event that ends a lease revokes its capabilities.
LEMMA TokensKeep ==
  ASSUME NEW s, IsStore(s), NEW ev \in AllEvents, TokenInv(s)
  PROVE  TokenInv(Write(s, ev))
<1> DEFINE w == Write(s, ev)
           n == Len(s.log)
<1>1. /\ DOMAIN w.log = DOMAIN s.log \cup {n + 1} /\ w.log[n + 1] = ev
      /\ \A i \in DOMAIN s.log : w.log[i] = s.log[i]
  BY LogAfter
<1>2. w.tokens = RevokeLeaseCapabilities(s.tokens, ev) /\ s.tokens \in SUBSET TokenRow
  BY WrittenTables DEF IsStore
<1>3. ASSUME NEW u \in w.tokens
      PROVE  \E t \in s.tokens : /\ u.run = t.run /\ u.lease = t.lease /\ u.minted = t.minted
                                 /\ t.revoked => u.revoked
                                 /\ EndsLease(ev) /\ t.run = ev.run /\ t.lease = ev.payload["lease_id"] => u.revoked
  <2>1. PICK t \in s.tokens : u = IF EndsLease(ev) /\ t.run = ev.run /\ t.lease = ev.payload["lease_id"]
                                  THEN [t EXCEPT !.revoked = TRUE] ELSE t
    BY <1>2, <1>3 DEF RevokeLeaseCapabilities
  <2>2. t \in TokenRow
    BY <1>2
  <2>3. [t EXCEPT !.revoked = TRUE].revoked /\ [t EXCEPT !.revoked = TRUE].run = t.run
        /\ [t EXCEPT !.revoked = TRUE].lease = t.lease /\ [t EXCEPT !.revoked = TRUE].minted = t.minted
    BY <2>2 DEF TokenRow
  <2> QED
    BY <2>1, <2>3
<1> HIDE DEF w, n
<1> SUFFICES ASSUME NEW u \in w.tokens, NEW i \in DOMAIN w.log, EndsLease(w.log[i]), w.log[i].run = u.run,
                    w.log[i].payload["lease_id"] = u.lease, u.minted < i
             PROVE  u.revoked
  BY DEF TokenInv, w
<1>4. PICK t \in s.tokens : /\ u.run = t.run /\ u.lease = t.lease /\ u.minted = t.minted
                            /\ t.revoked => u.revoked
                            /\ EndsLease(ev) /\ t.run = ev.run /\ t.lease = ev.payload["lease_id"] => u.revoked
  BY <1>3
<1>5. CASE i \in DOMAIN s.log
  BY <1>1, <1>4, <1>5 DEF TokenInv
<1>6. CASE i = n + 1
  BY <1>1, <1>4, <1>6
<1> QED
  BY <1>1, <1>5, <1>6

-----------------------------------------------------------------------------
(* The history of a controller and of an execution                         *)

SessionEvents == {"ControllerStarted", "ControllerStopped", "ControllerCrashed"}
ExecutionEvents == {"WorkerTaskClaimed", "WorkerTaskDispatchPlanned", "WorkerTaskCompleted",
               "WorkerTaskFailed", "WorkerTaskInterrupted"}

\* The field that tells sessions, or executions, apart.
IdOf(key) == IF key[1] = "controller_runtime" THEN "controller_session_id" ELSE "execution_id"

\* The events of an entity.
EntityEvents(s, key) == {i \in DOMAIN s.log : s.log[i].key = key}

\* What the checks of the reducer say of an event and the next one of its entity.
Succeeds(key, a, b) ==
  /\ TargetStatus[a.type] \in AllowedPrevious[b.type]
  /\ b.type # "ControllerStarted" => a.payload[IdOf(key)] = b.payload[IdOf(key)]

\* The record of a controller or an execution is that of its last event, and each of
\* its events was allowed after the one before.
HistoryOf(s, key) ==
  LET mine == EntityEvents(s, key)
  IN /\ mine = {} => key \notin DOMAIN s.proj
     /\ \A m \in mine : (\A k \in mine : k <= m) =>
          /\ key \in DOMAIN s.proj
          /\ s.proj[key].payload["status"] = TargetStatus[s.log[m].type]
          /\ IdOf(key) \in DOMAIN s.proj[key].payload
          /\ s.proj[key].payload[IdOf(key)] = s.log[m].payload[IdOf(key)]
     /\ \A i \in mine : (\A k \in mine : i <= k) => "none" \in AllowedPrevious[s.log[i].type]
     /\ \A i, j \in mine : Follows(mine, i, j) => Succeeds(key, s.log[i], s.log[j])
HistoryInv(s) ==
  \A key : key[1] \in {"controller_runtime", "worker_executions"} => HistoryOf(s, key)

\* The events filed under a controller or an execution, and their ids.
LEMMA FiledEvents ==
  ASSUME NEW ev \in AllEvents
  PROVE  /\ ev.key[1] = "controller_runtime" => ev.type \in SessionEvents
         /\ ev.key[1] = "worker_executions" => ev.type \in ExecutionEvents
         /\ ev.type \in SessionEvents => "controller_session_id" \in DOMAIN ev.payload
         /\ ev.type \in ExecutionEvents => "execution_id" \in DOMAIN ev.payload
<1>1. ev.type \in EventsOf[ev.key[1]]
  BY EventFields, EveryTypeIsProjected DEF ProjectionOf
<1>2. EventsOf["controller_runtime"] = SessionEvents /\ EventsOf["worker_executions"] = ExecutionEvents
  BY DEF EventsOf, OrchestrationEvents, SessionEvents, ExecutionEvents
<1>3. SessionEvents \cup ExecutionEvents \subseteq DOMAIN RequiredOfExecution
  BY DEF RequiredOfExecution, SessionEvents, ExecutionEvents
<1>4. /\ \A type \in SessionEvents : "controller_session_id" \in RequiredOfExecution[type]
      /\ \A type \in ExecutionEvents : "execution_id" \in RequiredOfExecution[type]
  BY DEF RequiredOfExecution, SessionEvents, ExecutionEvents
<1> QED
  BY <1>1, <1>2, <1>3, <1>4, EventFields, FieldTables

\* The record that a transition leaves.
LEMMA RecordAfter ==
  ASSUME NEW s, IsStore(s), NEW ev \in AllEvents, NEW id \in DOMAIN ev.payload, id # "status",
         ev.key[1] \in {"controller_runtime", "worker_executions"}
  PROVE  LET r == Changes(s.proj, ev)[ev.key].payload
         IN  r["status"] = TargetStatus[ev.type] /\ id \in DOMAIN r /\ r[id] = ev.payload[id]
<1>1. IsOrchestration(ev.type)
  BY FiledEvents DEF IsOrchestration, TargetStatus, SessionEvents, ExecutionEvents
<1>2. ev.key \in ChangedKeys(ev) /\ ev.key # EpochKey
  BY DEF ChangedKeys, EpochKey
<1>3. Changes(s.proj, ev)[ev.key].payload = ProjectionPayload(s.proj, ev)
  BY <1>2 DEF Changes
<1>4. PICK earlier : ProjectionPayload(s.proj, ev) =
        Merged(Merged([status |-> TargetStatus[ev.type]], ev.payload), earlier)
  BY <1>1 DEF ProjectionPayload
<1>5. LET m == Merged([status |-> TargetStatus[ev.type]], ev.payload)
      IN  /\ "status" \in DOMAIN m /\ id \in DOMAIN m
          /\ m["status"] = TargetStatus[ev.type] /\ m[id] = ev.payload[id]
  BY DEF Merged
<1> QED
  BY <1>3, <1>4, <1>5 DEF Merged

\* A transition is checked against the record of its entity.
LEMMA CheckedEvent ==
  ASSUME NEW s, NEW ev \in AllEvents, StoreAccepted(s, ev),
         ev.key[1] \in {"controller_runtime", "worker_executions"}
  PROVE  /\ IdOf(ev.key) \in DOMAIN ev.payload
         /\ ev.key \notin DOMAIN s.proj => "none" \in AllowedPrevious[ev.type]
         /\ ev.key \in DOMAIN s.proj =>
              /\ s.proj[ev.key].payload["status"] \in AllowedPrevious[ev.type]
              /\ ev.type # "ControllerStarted" /\ IdOf(ev.key) \in DOMAIN s.proj[ev.key].payload =>
                   s.proj[ev.key].payload[IdOf(ev.key)] = ev.payload[IdOf(ev.key)]
<1>1. /\ ev.key[1] = "controller_runtime" => ev.type \in SessionEvents
      /\ ev.key[1] # "controller_runtime" => ev.type \in ExecutionEvents
      /\ IdOf(ev.key) \in DOMAIN ev.payload
  BY FiledEvents DEF IdOf
<1>2. TransitionAllowed(s.proj, ev)
  BY <1>1 DEF StoreAccepted, IsOrchestration, TargetStatus, SessionEvents, ExecutionEvents
<1>3. ASSUME ev.key \in DOMAIN s.proj, ev.type # "ControllerStarted",
             IdOf(ev.key) \in DOMAIN s.proj[ev.key].payload
      PROVE  s.proj[ev.key].payload[IdOf(ev.key)] = ev.payload[IdOf(ev.key)]
  <2>1. IdOf(ev.key) = IF ev.type \in {"ControllerStopped", "ControllerCrashed"}
                       THEN "controller_session_id" ELSE "execution_id"
    BY <1>1, <1>3 DEF IdOf, SessionEvents, ExecutionEvents
  <2>2. SameExecution(s.proj[ev.key].payload, ev)
    BY <1>2, <1>3 DEF TransitionAllowed
  <2>3. {s.proj[ev.key].payload[IdOf(ev.key)]} = {ev.payload[IdOf(ev.key)]}
    BY <1>1, <1>3, <2>1, <2>2 DEF SameExecution
  <2> QED
    BY <2>3
<1> QED
  BY <1>1, <1>2, <1>3 DEF TransitionAllowed

\* The history of an entity goes on with an event that is accepted.
LEMMA HistoryGoesOn ==
  ASSUME NEW s, IsStore(s), NEW ev \in AllEvents, StoreAccepted(s, ev), NEW key, HistoryOf(s, key),
         key[1] \in {"controller_runtime", "worker_executions"}
  PROVE  HistoryOf(Write(s, ev), key)
<1> DEFINE w == Write(s, ev)
           n == Len(s.log)
           mine == EntityEvents(s, key)
           now == EntityEvents(w, key)
<1>1. /\ n \in Nat /\ DOMAIN s.log = 1..n /\ DOMAIN w.log = DOMAIN s.log \cup {n + 1} /\ w.log[n + 1] = ev
      /\ \A i \in DOMAIN s.log : w.log[i] = s.log[i] /\ i < n + 1
  BY LogAfter
<1>2. /\ DOMAIN w.proj = DOMAIN s.proj \cup ChangedKeys(ev)
      /\ \A k \in ChangedKeys(ev) : w.proj[k] = Changes(s.proj, ev)[k]
      /\ \A k \in DOMAIN s.proj : k \notin ChangedKeys(ev) => w.proj[k] = s.proj[k]
  BY ProjAfter
<1>3. /\ mine = {} => key \notin DOMAIN s.proj
      /\ \A m \in mine : (\A k \in mine : k <= m) =>
           /\ key \in DOMAIN s.proj
           /\ s.proj[key].payload["status"] = TargetStatus[s.log[m].type]
           /\ IdOf(key) \in DOMAIN s.proj[key].payload
           /\ s.proj[key].payload[IdOf(key)] = s.log[m].payload[IdOf(key)]
      /\ \A i \in mine : (\A k \in mine : i <= k) => "none" \in AllowedPrevious[s.log[i].type]
      /\ \A i, j \in mine : Follows(mine, i, j) => Succeeds(key, s.log[i], s.log[j])
  BY DEF HistoryOf
<1>4. /\ now = IF ev.key = key THEN mine \cup {n + 1} ELSE mine
      /\ mine \subseteq 1..n /\ \A i \in mine : w.log[i] = s.log[i]
  BY <1>1 DEF EntityEvents
<1> HIDE DEF w, n, mine, now
<1>5. CASE ev.key # key
  <2>1. key \notin ChangedKeys(ev)
    BY <1>5, ChangedKeysAre
  <2>2. key \in DOMAIN w.proj <=> key \in DOMAIN s.proj
    BY <1>2, <2>1
  <2>3. key \in DOMAIN s.proj => w.proj[key] = s.proj[key]
    BY <1>2, <2>1
  <2>4. now = mine
    BY <1>4, <1>5
  <2>5. \A m \in now : (\A k \in now : k <= m) =>
          /\ key \in DOMAIN w.proj
          /\ w.proj[key].payload["status"] = TargetStatus[w.log[m].type]
          /\ IdOf(key) \in DOMAIN w.proj[key].payload
          /\ w.proj[key].payload[IdOf(key)] = w.log[m].payload[IdOf(key)]
    BY <1>3, <1>4, <2>2, <2>3, <2>4
  <2> QED
    BY <1>3, <1>4, <2>2, <2>4, <2>5 DEF HistoryOf, now, w
<1>6. CASE ev.key = key
  <2>1. now = mine \cup {n + 1} /\ w.log[n + 1] = ev
    BY <1>1, <1>4, <1>6
  <2>2. /\ IdOf(key) \in DOMAIN ev.payload
        /\ key \notin DOMAIN s.proj => "none" \in AllowedPrevious[ev.type]
        /\ key \in DOMAIN s.proj =>
             /\ s.proj[key].payload["status"] \in AllowedPrevious[ev.type]
             /\ ev.type # "ControllerStarted" /\ IdOf(key) \in DOMAIN s.proj[key].payload =>
                  s.proj[key].payload[IdOf(key)] = ev.payload[IdOf(key)]
    BY <1>6, CheckedEvent
  <2>3. /\ key \in DOMAIN w.proj /\ w.proj[key].payload["status"] = TargetStatus[ev.type]
        /\ IdOf(key) \in DOMAIN w.proj[key].payload
        /\ w.proj[key].payload[IdOf(key)] = ev.payload[IdOf(key)]
    <3>1. key \in ChangedKeys(ev)
      BY <1>6 DEF ChangedKeys
    <3>2. w.proj[key] = Changes(s.proj, ev)[key] /\ key \in DOMAIN w.proj
      BY <1>2, <3>1
    <3>3. IdOf(key) # "status"
      BY DEF IdOf
    <3> QED
      BY <1>6, <2>2, <3>2, <3>3, RecordAfter
  <2>4. now # {}
    BY <2>1
  <2>5. ASSUME NEW m \in now, \A k \in now : k <= m
        PROVE  m = n + 1
    BY <1>1, <1>4, <2>1, <2>5
  <2>6. ASSUME NEW i \in now, \A k \in now : i <= k
        PROVE  "none" \in AllowedPrevious[w.log[i].type]
    <3>1. CASE i \in mine
      BY <1>3, <1>4, <2>1, <2>6, <3>1
    <3>2. CASE i = n + 1
      <4>1. mine = {}
        BY <1>1, <1>4, <2>1, <2>6, <3>2
      <4> QED
        BY <1>3, <2>1, <2>2, <3>2, <4>1
    <3> QED
      BY <2>1, <3>1, <3>2
  <2>7. ASSUME NEW i \in now, NEW j \in now, Follows(now, i, j)
        PROVE  Succeeds(key, w.log[i], w.log[j])
    <3>1. CASE j \in mine
      <4>1. i \in mine /\ Follows(mine, i, j)
        BY <1>1, <1>4, <2>1, <2>7, <3>1 DEF Follows
      <4> QED
        BY <1>3, <1>4, <3>1, <4>1
    <3>2. CASE j = n + 1
      <4>1. i \in mine /\ \A k \in mine : k <= i
        BY <1>1, <1>4, <2>1, <2>7, <3>2 DEF Follows
      <4>2. /\ key \in DOMAIN s.proj /\ s.proj[key].payload["status"] = TargetStatus[s.log[i].type]
            /\ IdOf(key) \in DOMAIN s.proj[key].payload
            /\ s.proj[key].payload[IdOf(key)] = s.log[i].payload[IdOf(key)]
        BY <1>3, <4>1
      <4> QED
        BY <1>4, <2>1, <2>2, <3>2, <4>1, <4>2 DEF Succeeds
    <3> QED
      BY <2>1, <3>1, <3>2
  <2>8. \A m \in now : (\A k \in now : k <= m) =>
          /\ key \in DOMAIN w.proj
          /\ w.proj[key].payload["status"] = TargetStatus[w.log[m].type]
          /\ IdOf(key) \in DOMAIN w.proj[key].payload
          /\ w.proj[key].payload[IdOf(key)] = w.log[m].payload[IdOf(key)]
    BY <2>1, <2>3, <2>5
  <2> QED
    BY <2>4, <2>6, <2>7, <2>8 DEF HistoryOf, now, w
<1> QED
  BY <1>5, <1>6

\* So does every history.
LEMMA HistoryKeeps ==
  ASSUME NEW s, IsStore(s), NEW ev \in AllEvents, StoreAccepted(s, ev), HistoryInv(s)
  PROVE  HistoryInv(Write(s, ev))
  BY HistoryGoesOn DEF HistoryInv

-----------------------------------------------------------------------------
(* Transactions                                                            *)

\* Two registrations agree on the content of a path and on the medium of a content.
Agree(a, b) ==
  /\ a.run = b.run /\ a.payload["relative_path"] = b.payload["relative_path"]
       => a.payload["content_hash"] = b.payload["content_hash"]
  /\ a.payload["content_hash"] = b.payload["content_hash"]
       => a.payload["media_type"] = b.payload["media_type"]
AgreeInv(s) ==
  \A i, j \in DOMAIN s.log :
    s.log[i].type = "ArtifactRegistered" /\ s.log[j].type = "ArtifactRegistered"
      => Agree(s.log[i], s.log[j])

\* A registration that is accepted agrees with the earlier ones, by the rows they have.
LEMMA AgreeKeeps ==
  ASSUME NEW s, IsStore(s), NEW ev \in AllEvents, StoreAccepted(s, ev), ArtifactInv(s), AgreeInv(s)
  PROVE  AgreeInv(Write(s, ev))
<1> DEFINE w == Write(s, ev)
           n == Len(s.log)
<1>1. /\ DOMAIN w.log = DOMAIN s.log \cup {n + 1} /\ w.log[n + 1] = ev
      /\ \A i \in DOMAIN s.log : w.log[i] = s.log[i]
  BY LogAfter
<1>2. ASSUME NEW i \in DOMAIN s.log, s.log[i].type = "ArtifactRegistered", ev.type = "ArtifactRegistered"
      PROVE  Agree(s.log[i], ev) /\ Agree(ev, s.log[i])
  <2>1. ArtifactFits(s, ev)
    BY <1>2 DEF StoreAccepted
  <2>2. PICK a \in s.artifacts : /\ a.hash = s.log[i].payload["content_hash"]
                                 /\ a.media = s.log[i].payload["media_type"]
    BY <1>2 DEF ArtifactInv
  <2>3. PICK b \in s.associations : /\ b.run = s.log[i].run /\ b.path = s.log[i].payload["relative_path"]
                                    /\ b.hash = s.log[i].payload["content_hash"]
    BY <1>2 DEF ArtifactInv
  <2>4. a.hash = ev.payload["content_hash"] => a.media = ev.payload["media_type"]
    BY <2>1 DEF ArtifactFits
  <2>5. b.run = ev.run /\ b.path = ev.payload["relative_path"] => b.hash = ev.payload["content_hash"]
    BY <2>1 DEF ArtifactFits
  <2> QED
    BY <2>2, <2>3, <2>4, <2>5 DEF Agree
<1>3. Agree(ev, ev)
  BY DEF Agree
<1> QED
  BY <1>1, <1>2, <1>3 DEF AgreeInv

\* What holds of the tables between two transactions, and within one.
StoreInv(s) ==
  /\ IsStore(s) /\ Replays(s) /\ VersionInv(s) /\ ArtifactInv(s) /\ AgreeInv(s)
  /\ TokenInv(s) /\ HistoryInv(s)

\* An event that is accepted keeps it.
LEMMA WriteKeeps ==
  ASSUME NEW s, StoreInv(s), NEW ev \in AllEvents, StoreAccepted(s, ev)
  PROVE  StoreInv(Write(s, ev))
  BY WrittenTables, ReplaysOneMore, VersionsKeep, ArtifactsKeep, AgreeKeeps, TokensKeep,
     HistoryKeeps DEF StoreInv

\* So does a transaction that is committed, however many events it has.
LEMMA OutcomeKeeps ==
  ASSUME NEW s, StoreInv(s), NEW events \in Seq(AllEvents), StoreOutcome(s, events).fine
  PROVE  /\ StoreInv(StoreOutcome(s, events).store)
         /\ Len(StoreOutcome(s, events).store.log) = Len(s.log) + Len(events)
<1>1. Len(events) \in Nat /\ \A i \in 1..Len(events) : events[i] \in AllEvents
  OBVIOUS
<1>2. PICK f : IsRun(s, events, Len(events), f) /\ StoreOutcome(s, events) = f[Len(events)]
  BY <1>1, OutcomeIsRun
<1>3. \A i \in 0..Len(events) : f[i] = IF i = 0 THEN [fine |-> TRUE, store |-> s]
                                       ELSE WriteNext(f[i - 1], events[i])
  BY <1>2 DEF IsRun
<1> DEFINE Good(i) == f[i].fine => StoreInv(f[i].store) /\ Len(f[i].store.log) = Len(s.log) + i
           T == {i \in 0..Len(events) : ~Good(i)}
<1>4. Len(s.log) \in Nat
  BY DEF StoreInv, IsStore
<1>5. T = {}
  <2> SUFFICES ASSUME T # {} PROVE FALSE
    OBVIOUS
  <2>1. PICK m \in T : \A k \in T : m <= k
    <3> T \in SUBSET Nat
      BY <1>1
    <3> HIDE DEF T
    <3> QED
      BY LeastNumber, Zenon
  <2>2. m \in 0..Len(events) /\ ~Good(m)
    BY <2>1
  <2>3. Good(0)
    <3>1. 0 \in 0..Len(events)
      BY <1>1
    <3>2. f[0] = [fine |-> TRUE, store |-> s]
      BY <1>3, <3>1
    <3>3. f[0].store = s /\ Len(s.log) = Len(s.log) + 0
      BY <1>4, <3>2
    <3> QED
      BY <3>3
  <2>4. m # 0
    BY <2>2, <2>3
  <2>5. PICK p \in 0..Len(events) : m = p + 1
    <3>1. m - 1 \in 0..Len(events) /\ m = (m - 1) + 1
      BY <1>1, <2>2, <2>4
    <3> QED
      BY <3>1
  <2>6. Good(p)
    BY <1>1, <2>1, <2>5
  <2>7. f[m] = WriteNext(f[p], events[m]) /\ events[m] \in AllEvents
    <3>1. m - 1 = p /\ m \in 1..Len(events)
      BY <1>1, <2>2, <2>5
    <3> QED
      BY <1>1, <1>3, <2>2, <2>4, <3>1
  <2> HIDE DEF Good, T
  <2>8. Good(m)
    <3> SUFFICES ASSUME f[m].fine
                 PROVE  StoreInv(f[m].store) /\ Len(f[m].store.log) = Len(s.log) + m
      BY DEF Good
    <3>1. f[p].fine /\ StoreAccepted(f[p].store, events[m]) /\ f[m].store = Write(f[p].store, events[m])
      <4>1. CASE f[p].fine /\ StoreAccepted(f[p].store, events[m])
        BY <2>7, <4>1 DEF WriteNext
      <4>2. CASE ~(f[p].fine /\ StoreAccepted(f[p].store, events[m]))
        <5>1. f[m] = [f[p] EXCEPT !.fine = FALSE]
          BY <2>7, <4>2 DEF WriteNext
        <5> QED
          BY <5>1
      <4> QED
        BY <4>1, <4>2
    <3>2. StoreInv(f[p].store) /\ Len(f[p].store.log) = Len(s.log) + p
      BY <2>6, <3>1 DEF Good
    <3>3. StoreInv(f[m].store)
      BY <2>7, <3>1, <3>2, WriteKeeps
    <3>4. Len(f[m].store.log) = Len(f[p].store.log) + 1
      <4>1. IsStore(f[p].store)
        BY <3>2 DEF StoreInv
      <4>2. Len(Write(f[p].store, events[m]).log) = Len(f[p].store.log) + 1
        BY <2>7, <4>1, LogAfter
      <4> QED
        BY <3>1, <4>2
    <3>5. Len(s.log) + m = (Len(s.log) + p) + 1
      <4>1. p \in Nat
        BY <1>1
      <4>2. \A a, b \in Nat : a + (b + 1) = (a + b) + 1
        OBVIOUS
      <4> QED
        BY <1>4, <2>5, <4>1, <4>2
    <3> QED
      BY <3>2, <3>3, <3>4, <3>5
  <2> QED
    BY <2>2, <2>8
<1>6. Good(Len(events))
  BY <1>1, <1>5
<1> QED
  BY <1>2, <1>6

-----------------------------------------------------------------------------
(* The operations of the store                                             *)

\* A transaction whose only event is not accepted is refused.
LEMMA RefusedOutcome ==
  ASSUME NEW s, NEW ev, ~StoreAccepted(s, ev)
  PROVE  ~StoreOutcome(s, <<ev>>).fine
<1>1. Len(<<ev>>) = 1 /\ <<ev>>[1] = ev
  OBVIOUS
<1>2. PICK f : IsRun(s, <<ev>>, 1, f) /\ StoreOutcome(s, <<ev>>) = f[1]
  BY <1>1, OutcomeIsRun
<1>3. f[0] = [fine |-> TRUE, store |-> s] /\ f[1] = WriteNext(f[0], <<ev>>[1])
  <2>1. 0 \in 0..1 /\ 1 \in 0..1 /\ 1 - 1 = 0
    OBVIOUS
  <2>2. \A i \in 0..1 : f[i] = IF i = 0 THEN [fine |-> TRUE, store |-> s]
                               ELSE WriteNext(f[i - 1], <<ev>>[i])
    BY <1>2 DEF IsRun
  <2> QED
    BY <2>1, <2>2
<1> QED
  BY <1>1, <1>2, <1>3 DEF WriteNext

\* The tables of a database just created.
LEMMA FreshStore == StoreInv(Fresh)
<1>1. /\ Fresh.log = <<>> /\ Fresh.tokens = {} /\ Fresh.artifacts = {} /\ Fresh.associations = {}
      /\ DOMAIN Fresh.proj = {EpochKey} /\ Fresh.proj[EpochKey].version = 0
      /\ IsStore(Fresh)
  BY DEF Fresh, IsStore
<1>2. Len(Fresh.log) = 0 /\ DOMAIN Fresh.log = {}
  BY <1>1
<1>3. Replays(Fresh)
  <2> DEFINE f == [i \in 0..0 |-> [fine |-> TRUE, store |-> Fresh]]
  <2>1. IsRun(Fresh, Fresh.log, 0, f)
    BY DEF IsRun
  <2>2. f[0].fine /\ f[0].store = Fresh
    OBVIOUS
  <2> HIDE DEF f
  <2>3. SameTables(Fresh, Fresh)
    BY DEF SameTables
  <2> QED
    BY <1>1, <1>2, <2>1, <2>2, <2>3 DEF Replays
<1>4. VersionInv(Fresh)
  <2>1. EpochKey[1] \in ProjectionNames
    BY DEF EpochKey, ProjectionNames, EventsOf
  <2>2. \A key : ChangesOf(Fresh, key) = {}
    BY <1>2 DEF ChangesOf
  <2> QED
    BY <1>1, <2>1, <2>2 DEF VersionInv
<1>5. ArtifactInv(Fresh) /\ AgreeInv(Fresh) /\ TokenInv(Fresh)
  BY <1>1, <1>2 DEF ArtifactInv, AgreeInv, TokenInv
<1>6. HistoryInv(Fresh)
  <2>1. \A key : EntityEvents(Fresh, key) = {}
    BY <1>2 DEF EntityEvents
  <2>2. EpochKey[1] = "epochs"
    BY DEF EpochKey
  <2> QED
    BY <1>1, <2>1, <2>2 DEF HistoryInv, HistoryOf
<1> QED
  BY <1>1, <1>3, <1>4, <1>5, <1>6 DEF StoreInv

\* Other capabilities change nothing else.
LEMMA OtherTokens ==
  ASSUME NEW s, StoreInv(s), NEW tokens \in SUBSET TokenRow,
         \A t \in tokens : \A i \in DOMAIN s.log :
           EndsLease(s.log[i]) /\ s.log[i].run = t.run
             /\ s.log[i].payload["lease_id"] = t.lease /\ t.minted < i => t.revoked
  PROVE  /\ StoreInv([s EXCEPT !.tokens = tokens])
         /\ [s EXCEPT !.tokens = tokens].log = s.log
<1> DEFINE r == [s EXCEPT !.tokens = tokens]
<1>1. s = [log |-> s.log, proj |-> s.proj, artifacts |-> s.artifacts,
           associations |-> s.associations, tokens |-> s.tokens]
  BY DEF StoreInv, IsStore
<1>2. r = Tables(s.log, s.proj, s.artifacts, s.associations, tokens)
  BY <1>1 DEF Tables
<1> HIDE DEF r
<1>3. /\ r.log = s.log /\ r.proj = s.proj /\ r.artifacts = s.artifacts
      /\ r.associations = s.associations /\ r.tokens = tokens
  BY <1>2 DEF Tables
<1>4. IsStore(r)
  BY <1>2, <1>3 DEF StoreInv, IsStore, Tables
<1>5. Replays(r)
  BY <1>3 DEF StoreInv, Replays, SameTables
<1>6. VersionInv(r)
  BY <1>3 DEF StoreInv, VersionInv, ChangesOf
<1>7. ArtifactInv(r) /\ AgreeInv(r)
  BY <1>3 DEF StoreInv, ArtifactInv, AgreeInv
<1>8. TokenInv(r)
  BY <1>3 DEF TokenInv
<1>9. HistoryInv(r)
  BY <1>3 DEF StoreInv, HistoryInv, HistoryOf, EntityEvents
<1> QED
  BY <1>3, <1>4, <1>5, <1>6, <1>7, <1>8, <1>9 DEF StoreInv, r

\* What holds between two operations.
StoreIInv ==
  /\ opened \in BOOLEAN
  /\ userVersion \in 0 .. 2
  /\ opened => userVersion = 1
  /\ userVersion # 1 => store = Empty
  /\ userVersion = 1 => StoreInv(store)
  /\ Len(store.log) <= MaxEvents

\* A transaction keeps the tables, committed or not.
LEMMA TransactKeeps ==
  ASSUME StoreIInv, opened, NEW s, StoreInv(s), Len(s.log) = Len(store.log),
         NEW events \in Seq(AllEvents), Len(store.log) + Len(events) <= MaxEvents,
         Transact(s, events)
  PROVE  StoreInv(store') /\ Len(store'.log) <= MaxEvents
<1>1. PICK o : o = StoreOutcome(s, events) /\ store' = IF o.fine THEN o.store ELSE store
  BY DEF Transact
<1>2. CASE o.fine
  BY <1>1, <1>2, OutcomeKeeps
<1>3. CASE ~o.fine
  BY <1>1, <1>3 DEF StoreIInv
<1> QED
  BY <1>2, <1>3

\* The inductive invariant.
LEMMA StoreSteps == StoreIInv /\ [StoreNext]_storeVars => StoreIInv'
<1> SUFFICES ASSUME StoreIInv, [StoreNext]_storeVars PROVE StoreIInv'
  OBVIOUS
<1>1. MaxEvents \in Nat /\ Types \subseteq EventTypes /\ \A b \in StoreBatches : b \in Seq(EventTypes)
  BY StoreAssumption
<1>2. CASE UNCHANGED storeVars
  BY <1>2 DEF StoreIInv, storeVars
<1>3. CASE Open
  <2>1. Len(Fresh.log) = 0
    BY DEF Fresh
  <2>2. CASE userVersion = 0
    <3>1. store' = Fresh /\ userVersion' = 1 /\ opened' = TRUE
      BY <1>3, <2>2 DEF Open
    <3> QED
      BY <1>1, <2>1, <3>1, FreshStore DEF StoreIInv
  <2>3. CASE userVersion = 1
    <3>1. opened' = TRUE /\ store' = store /\ userVersion' = userVersion
      BY <1>3, <2>3 DEF Open
    <3> QED
      BY <2>3, <3>1 DEF StoreIInv
  <2>4. CASE userVersion = 2
    <3>1. opened' = opened /\ store' = store /\ userVersion' = userVersion
      BY <1>3, <2>4 DEF Open
    <3> QED
      BY <2>4, <3>1 DEF StoreIInv
  <2> QED
    BY <2>2, <2>3, <2>4 DEF StoreIInv
<1>4. CASE FailToOpen
  BY <1>4 DEF FailToOpen, StoreIInv
<1>5. CASE Close
  BY <1>5 DEF Close, StoreIInv
<1>6. ASSUME opened, opened' = opened, userVersion' = userVersion,
             StoreInv(store') /\ Len(store'.log) <= MaxEvents
      PROVE  StoreIInv'
  BY <1>6 DEF StoreIInv
<1>7. ASSUME opened
      PROVE  StoreInv(store) /\ Len(store.log) \in Nat /\ Len(store.log) <= MaxEvents
  BY <1>7 DEF StoreIInv, StoreInv, IsStore
<1>8. CASE AppendEvent
  <2>1. opened /\ opened' = opened /\ userVersion' = userVersion /\ Len(store.log) < MaxEvents
    BY <1>8 DEF AppendEvent
  <2>2. PICK type \in Types, run \in Runs \cup {NoRun}, e \in Entities, x \in Values, id \in Ids :
               Transact(store, <<Event(id, type, run, e, x)>>)
    BY <1>8 DEF AppendEvent
  <2>3. Event(id, type, run, e, x) \in AllEvents
    <3>1. id \in Nat
      BY <1>7, <2>1, <2>2 DEF Ids
    <3>2. type \in EventTypes /\ e \in Entities \cup Values
      BY <1>1, <2>2
    <3> QED
      BY <2>2, <3>1, <3>2 DEF AllEvents
  <2> DEFINE ev == Event(id, type, run, e, x)
  <2> HIDE DEF ev
  <2>4. <<ev>> \in Seq(AllEvents) /\ Len(<<ev>>) = 1
    BY <2>3 DEF ev
  <2>5. Len(store.log) + Len(<<ev>>) <= MaxEvents
    BY <1>1, <1>7, <2>1, <2>4
  <2>6. Transact(store, <<ev>>)
    BY <2>2 DEF ev
  <2>7. StoreInv(store') /\ Len(store'.log) <= MaxEvents
    BY <1>7, <2>1, <2>4, <2>5, <2>6, TransactKeeps
  <2> QED
    BY <1>6, <2>1, <2>7
<1>9. CASE AppendMalformed
  <2>1. opened /\ opened' = opened /\ userVersion' = userVersion
    BY <1>9 DEF AppendMalformed
  <2>2. PICK type \in Types :
          /\ RequiredFields(type) # {}
          /\ Transact(store, <<[id |-> Len(store.log) + 1, type |-> type, run |-> NoRun,
                                payload |-> <<>>]>>)
    BY <1>9 DEF AppendMalformed
  <2> DEFINE ev == [id |-> Len(store.log) + 1, type |-> type, run |-> NoRun, payload |-> <<>>]
  <2>3. ~StoreAccepted(store, ev)
    <3>1. DOMAIN ev.payload = {} /\ ev.type = type
      OBVIOUS
    <3> HIDE DEF ev
    <3> QED
      BY <2>2, <3>1 DEF StoreAccepted
  <2> HIDE DEF ev
  <2>4. store' = store
    <3>1. ~StoreOutcome(store, <<ev>>).fine
      BY <2>3, RefusedOutcome
    <3>2. Transact(store, <<ev>>)
      BY <2>2 DEF ev
    <3> QED
      BY <3>1, <3>2 DEF Transact
  <2> QED
    BY <1>6, <1>7, <2>1, <2>4
<1>10. CASE AppendBatch
  <2>1. opened /\ opened' = opened /\ userVersion' = userVersion
    BY <1>10 DEF AppendBatch
  <2>2. PICK b \in StoreBatches, run \in Runs, e \in Entities, x \in Values, id \in Ids :
          /\ Len(store.log) + Len(b) <= MaxEvents
          /\ Transact(store, [i \in 1 .. Len(b) |-> Event(id + i - 1, b[i], run, e, x)])
    BY <1>10 DEF AppendBatch
  <2> DEFINE events == [i \in 1 .. Len(b) |-> Event(id + i - 1, b[i], run, e, x)]
  <2>3. b \in Seq(EventTypes) /\ Len(b) \in Nat
    BY <1>1, <2>2
  <2>4. id \in Nat /\ id > 0
    BY <1>7, <2>1, <2>2 DEF Ids
  <2>5. \A i \in 1 .. Len(b) : Event(id + i - 1, b[i], run, e, x) \in AllEvents
    <3> SUFFICES ASSUME NEW i \in 1 .. Len(b)
                 PROVE  Event(id + i - 1, b[i], run, e, x) \in AllEvents
      OBVIOUS
    <3>1. id + i - 1 \in Nat
      BY <2>3, <2>4
    <3>2. b[i] \in EventTypes
      BY <2>3
    <3>3. run \in Runs \cup {NoRun} /\ e \in Entities \cup Values
      BY <2>2
    <3> QED
      BY <2>2, <3>1, <3>2, <3>3 DEF AllEvents
  <2>6. events \in Seq(AllEvents) /\ Len(events) = Len(b)
    BY <2>3, <2>5
  <2> HIDE DEF events
  <2>7. Transact(store, events)
    BY <2>2 DEF events
  <2>8. StoreInv(store') /\ Len(store'.log) <= MaxEvents
    BY <1>7, <2>1, <2>2, <2>6, <2>7, TransactKeeps
  <2> QED
    BY <1>6, <2>1, <2>8
<1>11. CASE PersistCapability
  <2>1. opened /\ opened' = opened /\ userVersion' = userVersion /\ Len(store.log) < MaxEvents
    BY <1>11 DEF PersistCapability
  <2>2. PICK t \in Tokens, run \in Runs, lease \in Entities, x \in Values :
          IF \E old \in store.tokens : old.hash = t
          THEN storeAnswer' = "refused" /\ UNCHANGED store
          ELSE Transact([store EXCEPT !.tokens = @ \cup {CapabilityRecord(t, run, lease)}],
                        <<Event(Len(store.log) + 1, "CapabilityMinted", run, x, x)>>)
    BY <1>11 DEF PersistCapability
  <2>3. CASE \E old \in store.tokens : old.hash = t
    BY <1>6, <1>7, <2>1, <2>2, <2>3
  <2>4. CASE ~\E old \in store.tokens : old.hash = t
    <3> DEFINE tokens == store.tokens \cup {CapabilityRecord(t, run, lease)}
               s == [store EXCEPT !.tokens = tokens]
               ev == Event(Len(store.log) + 1, "CapabilityMinted", run, x, x)
    <3>1. Transact(s, <<ev>>)
      BY <2>2, <2>4
    <3>2. tokens \in SUBSET TokenRow
      <4>1. CapabilityRecord(t, run, lease) \in TokenRow
        BY <1>7, <2>1, <2>2 DEF CapabilityRecord, TokenRow
      <4>2. store.tokens \in SUBSET TokenRow
        BY <1>7, <2>1 DEF StoreInv, IsStore
      <4> QED
        BY <4>1, <4>2
    <3>3. \A u \in tokens : \A i \in DOMAIN store.log :
            EndsLease(store.log[i]) /\ store.log[i].run = u.run
              /\ store.log[i].payload["lease_id"] = u.lease /\ u.minted < i => u.revoked
      <4>1. DOMAIN store.log = 1..Len(store.log)
        BY <1>7, <2>1 DEF StoreInv, IsStore
      <4>2. \A i \in DOMAIN store.log : ~(CapabilityRecord(t, run, lease).minted < i)
        BY <1>7, <2>1, <4>1 DEF CapabilityRecord
      <4>3. TokenInv(store)
        BY <1>7, <2>1 DEF StoreInv
      <4> QED
        BY <4>2, <4>3 DEF TokenInv
    <3> HIDE DEF tokens
    <3>4. StoreInv(s) /\ s.log = store.log
      BY <1>7, <2>1, <3>2, <3>3, OtherTokens
    <3>5. ev \in AllEvents
      <4>1. "CapabilityMinted" \in EventTypes /\ Len(store.log) + 1 \in Nat
        BY <1>7, <2>1 DEF EventTypes, Required
      <4>2. run \in Runs \cup {NoRun} /\ x \in Entities \cup Values
        BY <2>2
      <4> QED
        BY <2>2, <4>1, <4>2 DEF AllEvents
    <3> HIDE DEF s, ev
    <3>6. <<ev>> \in Seq(AllEvents) /\ Len(<<ev>>) = 1
      BY <3>5
    <3>7. Len(store.log) + Len(<<ev>>) <= MaxEvents
      BY <1>1, <1>7, <2>1, <3>6
    <3>8. StoreInv(store') /\ Len(store'.log) <= MaxEvents
      BY <2>1, <3>1, <3>4, <3>6, <3>7, TransactKeeps
    <3> QED
      BY <1>6, <2>1, <3>8
  <2> QED
    BY <2>3, <2>4
<1>12. CASE RevokeCapability
  <2>1. opened /\ opened' = opened /\ userVersion' = userVersion
    BY <1>12 DEF RevokeCapability
  <2>2. PICK t \in store.tokens :
          store' = [store EXCEPT !.tokens = (@ \ {t}) \cup {[t EXCEPT !.revoked = TRUE]}]
    BY <1>12 DEF RevokeCapability
  <2> DEFINE tokens == (store.tokens \ {t}) \cup {[t EXCEPT !.revoked = TRUE]}
  <2>3. store.tokens \in SUBSET TokenRow /\ TokenInv(store)
    BY <1>7, <2>1 DEF StoreInv, IsStore
  <2>4. [t EXCEPT !.revoked = TRUE] \in TokenRow /\ [t EXCEPT !.revoked = TRUE].revoked
    BY <2>2, <2>3 DEF TokenRow
  <2>5. tokens \in SUBSET TokenRow
    BY <2>3, <2>4
  <2>6. \A u \in tokens : \A i \in DOMAIN store.log :
          EndsLease(store.log[i]) /\ store.log[i].run = u.run
            /\ store.log[i].payload["lease_id"] = u.lease /\ u.minted < i => u.revoked
    BY <2>3, <2>4 DEF TokenInv
  <2>7. store' = [store EXCEPT !.tokens = tokens]
    BY <2>2
  <2> HIDE DEF tokens
  <2>8. StoreInv(store') /\ store'.log = store.log
    BY <1>7, <2>1, <2>5, <2>6, <2>7, OtherTokens
  <2> QED
    BY <1>6, <1>7, <2>1, <2>8
<1> QED
  BY <1>2, <1>3, <1>4, <1>5, <1>8, <1>9, <1>10, <1>11, <1>12 DEF StoreNext

\* Empty tables: no event, no record, no capability.
LEMMA EmptyTables ==
  /\ Len(Empty.log) = 0 /\ DOMAIN Empty.log = {} /\ DOMAIN Empty.proj = {} /\ Empty.tokens = {}
<1>1. PICK p : Fresh = Tables(<<>>, p, {}, {}, {})
  BY DEF Fresh, Tables
<1>2. Empty = Tables(<<>>, <<>>, {}, {}, {})
  <2>1. Empty = WithProj(Fresh, <<>>)
    BY Zenon DEF Empty, WithProj
  <2> QED
    BY <1>1, <2>1, ReplacedFields
<1> QED
  BY <1>2 DEF Tables

\* The store keeps its tables in every behaviour.
THEOREM StoreInvariant == StoreSpec => []StoreIInv
<1>1. StoreInit => StoreIInv
  <2> SUFFICES ASSUME StoreInit PROVE StoreIInv
    OBVIOUS
  <2>1. Len(Empty.log) = 0
    BY EmptyTables
  <2>2. opened = FALSE /\ userVersion \in 0..2 /\ userVersion # 1 /\ store = Empty
    BY DEF StoreInit
  <2>3. Len(store.log) <= MaxEvents
    BY <2>1, <2>2, StoreAssumption
  <2> QED
    BY <2>2, <2>3 DEF StoreIInv
<1>2. StoreIInv /\ [StoreNext]_storeVars => StoreIInv'
  BY StoreSteps
<1> QED
  BY <1>1, <1>2, PTL DEF StoreSpec

-----------------------------------------------------------------------------
(* What the tables promise                                                 *)

\* Every logged event names an entity that it carries.
LEMMA LoggedEntities ==
  ASSUME NEW type \in EventTypes
  PROVE  \/ type \in ByRun
         \/ type \in NamedByField /\ FieldOf(type) \in RequiredFields(type)
<1>1. type \in ByRun \/ \E f \in DOMAIN EntityFieldOf : type \in EntityFieldOf[f]
  BY EveryTypeHasEntity
<1>2. ASSUME NEW f \in DOMAIN EntityFieldOf, type \in EntityFieldOf[f]
      PROVE  type \in NamedByField /\ FieldOf(type) \in RequiredFields(type)
  <2>1. FieldOf(type) \in DOMAIN EntityFieldOf /\ type \in EntityFieldOf[FieldOf(type)]
    BY <1>2 DEF FieldOf
  <2> QED
    BY <1>2, <2>1, EntityIsRequired DEF NamedByField
<1> QED
  BY <1>1, <1>2

\* The log, fed to the reducer again, gives the projections.
LEMMA ReplayGives ==
  ASSUME Replays(store), Len(store.log) \in Nat
  PROVE  Replayed.fine /\ Replayed.store.proj = store.proj
<1> DEFINE n == Len(store.log)
<1>1. PICK f : /\ IsRun(Fresh, store.log, n, f) /\ f[n].fine /\ SameTables(f[n].store, store)
  BY DEF Replays
<1>2. PICK g : IsRun(Fresh, store.log, n, g) /\ Replayed = g[n]
  BY OutcomeIsRun DEF Replayed
<1>3. n \in 0..n
  OBVIOUS
<1> HIDE DEF n
<1>4. \A i \in 0..n : f[i] = g[i]
  <2>1. n \in Nat
    BY DEF n
  <2> QED
    BY <1>1, <1>2, <2>1, RunIsUnique
<1> QED
  BY <1>1, <1>2, <1>3, <1>4 DEF SameTables

\* The projections, the versions and the artifacts are what the log says.
THEOREM TablesAlwaysFollowLog == StoreSpec => []TablesFollowLog
<1>1. StoreIInv => TablesFollowLog
  <2> SUFFICES ASSUME StoreIInv PROVE TablesFollowLog
    OBVIOUS
  <2>1. CASE userVersion # 1
    <3>1. DOMAIN store.log = {} /\ DOMAIN store.proj = {}
      BY <2>1, EmptyTables DEF StoreIInv
    <3>2. StoreTypeOK
      BY <2>1, <3>1 DEF StoreIInv, StoreTypeOK
    <3>3. ReplayMatches /\ VersionsCountEvents /\ ArtifactsAgree
      BY <2>1, <3>1 DEF ReplayMatches, VersionsCountEvents, ArtifactsAgree
    <3> QED
      BY <3>2, <3>3 DEF TablesFollowLog
  <2>2. CASE userVersion = 1
    <3>1. StoreInv(store)
      BY <2>2 DEF StoreIInv
    <3>2. /\ Len(store.log) \in Nat /\ DOMAIN store.log = 1..Len(store.log)
          /\ \A i \in DOMAIN store.log : store.log[i] \in AllEvents
      BY <3>1 DEF StoreInv, IsStore
    <3>3. StoreTypeOK
      <4>1. \A key \in DOMAIN store.proj : key[1] \in ProjectionNames /\ store.proj[key].version \in Nat
        BY <3>1 DEF StoreInv, VersionInv
      <4>2. \A i \in DOMAIN store.log : store.log[i].type \in EventTypes
        BY <3>2, EventFields
      <4>3. \A i \in DOMAIN store.log :
              \/ store.log[i].type \in ByRun
              \/ /\ store.log[i].type \in NamedByField
                 /\ FieldOf(store.log[i].type) \in RequiredFields(store.log[i].type)
        BY <4>2, LoggedEntities
      <4> QED
        BY <4>1, <4>3 DEF StoreIInv, StoreTypeOK
    <3>4. ReplayMatches
      BY <3>1, <3>2, ReplayGives DEF StoreInv, ReplayMatches
    <3>5. VersionsCountEvents
      BY <3>1 DEF StoreInv, VersionInv, VersionsCountEvents, ChangesOf
    <3>6. ArtifactsAgree
      <4>1. AgreeInv(store)
        BY <3>1 DEF StoreInv
      <4> QED
        BY <4>1 DEF AgreeInv, Agree, ArtifactsAgree
    <3> QED
      BY <3>3, <3>4, <3>5, <3>6 DEF TablesFollowLog
  <2> QED
    BY <2>1, <2>2
<1> QED
  BY <1>1, StoreInvariant, PTL

\* No capability of an ended lease is valid.
THEOREM TokensDieWithLease == StoreSpec => []TokenDiesWithLease
<1>1. StoreIInv => TokenDiesWithLease
  <2> SUFFICES ASSUME StoreIInv PROVE TokenDiesWithLease
    OBVIOUS
  <2>1. CASE userVersion # 1
    BY <2>1, EmptyTables DEF StoreIInv, TokenDiesWithLease
  <2>2. CASE userVersion = 1
    <3>1. TokenInv(store)
      BY <2>2 DEF StoreIInv, StoreInv
    <3> QED
      BY <3>1 DEF TokenInv, EndsLease, TokenDiesWithLease
  <2> QED
    BY <2>1, <2>2
<1> QED
  BY <1>1, StoreInvariant, PTL

\* The sessions of a controller alternate with their ends, and the events of an
\* assignment are of one execution.
THEOREM HistoriesAreKept == StoreSpec => []OrchestrationHistory
<1>1. StoreIInv => OrchestrationHistory
  <2> SUFFICES ASSUME StoreIInv PROVE OrchestrationHistory
    OBVIOUS
  <2>1. CASE userVersion # 1
    <3>1. \A name, e : EventsFor(name, e) = {}
      BY <2>1, EmptyTables DEF StoreIInv, EventsFor
    <3> QED
      BY <3>1 DEF OrchestrationHistory
  <2>2. CASE userVersion = 1
    <3>1. HistoryInv(store) /\ \A i \in DOMAIN store.log : store.log[i] \in AllEvents
      BY <2>2 DEF StoreIInv, StoreInv, IsStore
    <3> SUFFICES ASSUME NEW e \in Entities
                 PROVE  LET c == EventsFor("controller_runtime", e)
                            w == EventsFor("worker_executions", e)
                            typeAt(i) == store.log[i].type
                            at(i) == store.log[i].payload
                        IN /\ \A i \in c : (\A k \in c : i <= k) => typeAt(i) = "ControllerStarted"
                           /\ \A i, j \in c : Follows(c, i, j) =>
                                /\ (typeAt(i) = "ControllerStarted") # (typeAt(j) = "ControllerStarted")
                                /\ typeAt(i) = "ControllerStarted" =>
                                     at(i)["controller_session_id"] = at(j)["controller_session_id"]
                           /\ \A i \in w : (\A k \in w : i <= k) => typeAt(i) = "WorkerTaskClaimed"
                           /\ \A i, j \in w : Follows(w, i, j) =>
                                /\ at(i)["execution_id"] = at(j)["execution_id"]
                                /\ \/ typeAt(i) = "WorkerTaskClaimed" /\ typeAt(j) = "WorkerTaskDispatchPlanned"
                                   \/ /\ typeAt(i) \in {"WorkerTaskClaimed", "WorkerTaskDispatchPlanned"}
                                      /\ typeAt(j) \in {"WorkerTaskFailed", "WorkerTaskInterrupted"}
                                   \/ typeAt(i) = "WorkerTaskDispatchPlanned" /\ typeAt(j) = "WorkerTaskCompleted"
      BY DEF OrchestrationHistory
    <3> DEFINE c == EventsFor("controller_runtime", e)
               w == EventsFor("worker_executions", e)
               keyC == <<"controller_runtime", <<e>>>>
               keyW == <<"worker_executions", <<e>>>>
    <3>2. c = EntityEvents(store, keyC) /\ w = EntityEvents(store, keyW)
      BY DEF EventsFor, EntityEvents
    <3>3. keyC[1] = "controller_runtime" /\ keyW[1] = "worker_executions"
      OBVIOUS
    <3>4. \A i \in c : store.log[i].type \in SessionEvents
      BY <3>1, <3>3, FiledEvents DEF EventsFor
    <3>5. \A i \in w : store.log[i].type \in ExecutionEvents
      BY <3>1, <3>3, FiledEvents DEF EventsFor
    <3> HIDE DEF c, w, keyC, keyW
    <3>6. /\ \A i \in c : (\A k \in c : i <= k) => "none" \in AllowedPrevious[store.log[i].type]
          /\ \A i, j \in c : Follows(c, i, j) => Succeeds(keyC, store.log[i], store.log[j])
      BY <3>1, <3>2, <3>3 DEF HistoryInv, HistoryOf
    <3>7. /\ \A i \in w : (\A k \in w : i <= k) => "none" \in AllowedPrevious[store.log[i].type]
          /\ \A i, j \in w : Follows(w, i, j) => Succeeds(keyW, store.log[i], store.log[j])
      BY <3>1, <3>2, <3>3 DEF HistoryInv, HistoryOf
    <3>8. /\ IdOf(keyC) = "controller_session_id" /\ IdOf(keyW) = "execution_id"
      BY <3>3 DEF IdOf
    <3>9. /\ \A type \in SessionEvents : "none" \in AllowedPrevious[type] => type = "ControllerStarted"
          /\ \A type \in ExecutionEvents : "none" \in AllowedPrevious[type] => type = "WorkerTaskClaimed"
      BY DEF SessionEvents, ExecutionEvents, AllowedPrevious
    <3>10. \A type, next \in SessionEvents : TargetStatus[type] \in AllowedPrevious[next] =>
             (type = "ControllerStarted") # (next = "ControllerStarted")
      BY DEF SessionEvents, AllowedPrevious, TargetStatus
    <3>11. \A type, next \in ExecutionEvents : TargetStatus[type] \in AllowedPrevious[next] =>
             \/ type = "WorkerTaskClaimed" /\ next = "WorkerTaskDispatchPlanned"
             \/ /\ type \in {"WorkerTaskClaimed", "WorkerTaskDispatchPlanned"}
                /\ next \in {"WorkerTaskFailed", "WorkerTaskInterrupted"}
             \/ type = "WorkerTaskDispatchPlanned" /\ next = "WorkerTaskCompleted"
      BY DEF ExecutionEvents, AllowedPrevious, TargetStatus
    <3>12. \A type \in ExecutionEvents : type # "ControllerStarted"
      BY DEF ExecutionEvents
    <3>13. \A i \in c : (\A k \in c : i <= k) => store.log[i].type = "ControllerStarted"
      BY <3>4, <3>6, <3>9
    <3>14. ASSUME NEW i \in c, NEW j \in c, Follows(c, i, j)
           PROVE  /\ (store.log[i].type = "ControllerStarted") # (store.log[j].type = "ControllerStarted")
                  /\ store.log[i].type = "ControllerStarted" =>
                       store.log[i].payload["controller_session_id"]
                         = store.log[j].payload["controller_session_id"]
      <4>1. Succeeds(keyC, store.log[i], store.log[j])
        BY <3>6, <3>14
      <4>2. (store.log[i].type = "ControllerStarted") # (store.log[j].type = "ControllerStarted")
        BY <3>4, <3>10, <4>1 DEF Succeeds
      <4> QED
        BY <3>8, <4>1, <4>2 DEF Succeeds
    <3>15. \A i \in w : (\A k \in w : i <= k) => store.log[i].type = "WorkerTaskClaimed"
      BY <3>5, <3>7, <3>9
    <3>16. ASSUME NEW i \in w, NEW j \in w, Follows(w, i, j)
           PROVE  /\ store.log[i].payload["execution_id"] = store.log[j].payload["execution_id"]
                  /\ \/ /\ store.log[i].type = "WorkerTaskClaimed"
                        /\ store.log[j].type = "WorkerTaskDispatchPlanned"
                     \/ /\ store.log[i].type \in {"WorkerTaskClaimed", "WorkerTaskDispatchPlanned"}
                        /\ store.log[j].type \in {"WorkerTaskFailed", "WorkerTaskInterrupted"}
                     \/ /\ store.log[i].type = "WorkerTaskDispatchPlanned"
                        /\ store.log[j].type = "WorkerTaskCompleted"
      <4>1. Succeeds(keyW, store.log[i], store.log[j])
        BY <3>7, <3>16
      <4>2. store.log[j].type # "ControllerStarted"
        BY <3>5, <3>12
      <4>3. store.log[i].payload["execution_id"] = store.log[j].payload["execution_id"]
        BY <3>8, <4>1, <4>2 DEF Succeeds
      <4> QED
        BY <3>5, <3>11, <4>1, <4>3 DEF Succeeds
    <3> QED
      BY <3>13, <3>14, <3>15, <3>16 DEF c, w
  <2> QED
    BY <2>1, <2>2
<1> QED
  BY <1>1, StoreInvariant, PTL
=============================================================================
