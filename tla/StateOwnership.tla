--------------------------- MODULE StateOwnership ---------------------------
(***************************************************************************)
(* Who owns a project's state: the pid record (state_process.py), the lock *)
(* of the store and the socket (service_ownership.py), as long-lived       *)
(* processes start, serve, stop and die (state_command.py), and as control *)
(* commands find the owner or stand in for it (state_client.py).           *)
(*                                                                         *)
(* A process of the operating system is a pair of a program and the number *)
(* of its start, and no pid is used twice.  A file identity contains inode *)
(* and change time, so a record is its own identity: whoever finds the     *)
(* same record finds the same file, unchanged.                             *)
(***************************************************************************)
EXTENDS Naturals

CONSTANTS
  Servers,      \* programs that serve the state: state serve, controller, research
  Clients,      \* control commands
  Batches,      \* programs that open the store and keep no pid record: aizim run
  MaxStarts,    \* bound on the starts of one server
  MaxCalls,     \* bound on the calls of one client
  StoreOpens,   \* whether the store can always be opened once it is locked
  Spared,       \* the phases in which no server is killed
  None,         \* no file, no lock holder, no answer
  Alone         \* a client that opened the store itself

VARIABLES
  pidfile,     \* state.pid
  socket,      \* state.sock
  lock,        \* who holds the flock on state.lock
  start,       \* the number of each server's current start
  ownerPhase,  \* where each server stands
  seen,        \* the pid record a starting or closing server compares with
  checked,     \* checked_dead_pid of acquire_state_process
  call,        \* where each client stands in call_control_operation
  ownerCalls,  \* how many calls each client has made
  before,      \* the identities a client saw first
  servedBy,    \* history: the owner that committed the client's request
  answer       \* what the client reported

files == <<pidfile, socket, lock>>
serverVars == <<start, ownerPhase, seen, checked>>
clientVars == <<call, ownerCalls, before, servedBy, answer>>
ownerVars == <<files, serverVars, clientVars>>

Pids == Servers \X (1..MaxStarts)
PidRecords == [pid : Pids, written : BOOLEAN]
SocketFiles == [by : Pids, private : BOOLEAN]

\* Processes of different programs are different processes, and None is no
\* process and no file.
ASSUME OwnerAssumption ==
  /\ MaxStarts \in Nat /\ MaxCalls \in Nat
  /\ (Clients \cup Batches \cup {None, Alone}) \cap Pids = {}
  /\ None \notin Clients \cup Batches \cup PidRecords \cup SocketFiles \cup {"ok", "failed"}

Pid(s) == <<s, start[s]>>

ServerPhases == {"off", "look", "read", "confirm", "remove", "unlink", "socket",
                 "create", "write", "lock", "probe", "bind", "chmod", "serve",
                 "unsocket", "unlock", "disown", "unrecord"}

Running(s) == ownerPhase[s] # "off"

\* _alive
Alive(pid) == \E s \in Servers : pid = Pid(s) /\ Running(s)

\* From bind until the server is closed it accepts connections.
Listening(pid) == \E s \in Servers : pid = Pid(s) /\ ownerPhase[s] \in {"chmod", "serve"}

OwnerTypeOK ==
  /\ pidfile \in PidRecords \cup {None}
  /\ socket \in SocketFiles \cup {None}
  /\ lock \in Pids \cup Clients \cup Batches \cup {None}
  /\ start \in [Servers -> 0..MaxStarts]
  /\ ownerPhase \in [Servers -> ServerPhases]
  /\ seen \in [Servers -> PidRecords \cup {None}]
  /\ checked \in [Servers -> BOOLEAN]
  /\ call \in [Clients -> {"idle", "before", "alone", "commit", "validate", "rpc",
                           "revalidate", "after"}]
  /\ ownerCalls \in [Clients -> 0..MaxCalls]
  /\ before \in [Clients -> (PidRecords \cup {None}) \X (SocketFiles \cup {None})]
  /\ servedBy \in [Clients -> Pids \cup {None, Alone}]
  /\ answer \in [Clients -> {None, "ok", "failed"}]

OwnerInit ==
  /\ pidfile = None /\ socket = None /\ lock = None
  /\ start = [s \in Servers |-> 0]
  /\ ownerPhase = [s \in Servers |-> "off"]
  /\ seen = [s \in Servers |-> None]
  /\ checked = [s \in Servers |-> FALSE]
  /\ call = [c \in Clients |-> "idle"]
  /\ ownerCalls = [c \in Clients |-> 0]
  /\ before = [c \in Clients |-> <<None, None>>]
  /\ servedBy = [c \in Clients |-> None]
  /\ answer = [c \in Clients |-> None]

-----------------------------------------------------------------------------
(* acquire_state_process                                                   *)

At(s, here) == ownerPhase[s] = here
GoTo(s, next) == ownerPhase' = [ownerPhase EXCEPT ![s] = next]

\* The process ends; what it keeps in memory is gone.
Gone(s) ==
  /\ GoTo(s, "off")
  /\ seen' = [seen EXCEPT ![s] = None]
  /\ checked' = [checked EXCEPT ![s] = FALSE]

Launch(s) ==
  /\ At(s, "off")
  /\ start[s] < MaxStarts
  /\ start' = [start EXCEPT ![s] = @ + 1]
  /\ GoTo(s, "look")
  /\ UNCHANGED <<files, seen, checked, clientVars>>

LookForRecord(s) ==
  /\ At(s, "look")
  /\ GoTo(s, IF pidfile = None THEN "socket" ELSE "read")
  /\ UNCHANGED <<files, start, seen, checked, clientVars>>

\* _read_pid and _alive; a record without a pid is invalid.
ReadRecord(s) ==
  /\ At(s, "read")
  /\ IF pidfile = None \/ ~pidfile.written \/ Alive(pidfile.pid)
       THEN Gone(s)
       ELSE /\ seen' = [seen EXCEPT ![s] = pidfile]
            /\ GoTo(s, "confirm")
            /\ UNCHANGED checked
  /\ UNCHANGED <<files, start, clientVars>>

ConfirmRecord(s) ==
  /\ At(s, "confirm")
  /\ IF pidfile = seen[s]
       THEN GoTo(s, "remove") /\ UNCHANGED <<seen, checked>>
       ELSE Gone(s)
  /\ UNCHANGED <<files, start, clientVars>>

\* The comparisons of _remove_owned; a record that is another one by now stays.
CompareRecord(s) ==
  /\ At(s, "remove")
  /\ checked' = [checked EXCEPT ![s] = TRUE]
  /\ GoTo(s, IF pidfile = seen[s] THEN "unlink" ELSE "socket")
  /\ UNCHANGED <<files, start, seen, clientVars>>

\* Unlinking names the path, not the file that was compared.
UnlinkRecord(s) ==
  /\ At(s, "unlink")
  /\ IF pidfile = None
       THEN Gone(s) /\ UNCHANGED pidfile
       ELSE /\ pidfile' = None
            /\ GoTo(s, "socket")
            /\ UNCHANGED <<seen, checked>>
  /\ UNCHANGED <<socket, lock, start, clientVars>>

LookForSocket(s) ==
  /\ At(s, "socket")
  /\ IF socket # None /\ ~checked[s]
       THEN Gone(s)
       ELSE GoTo(s, "create") /\ UNCHANGED <<seen, checked>>
  /\ UNCHANGED <<files, start, clientVars>>

CreateRecord(s) ==
  /\ At(s, "create")
  /\ IF pidfile # None
       THEN Gone(s) /\ UNCHANGED pidfile
       ELSE /\ pidfile' = [pid |-> Pid(s), written |-> FALSE]
            /\ GoTo(s, "write")
            /\ UNCHANGED <<seen, checked>>
  /\ UNCHANGED <<socket, lock, start, clientVars>>

\* The pid is written through the descriptor, wherever the file is by now;
\* the identity kept for close is the one after the write.
WriteRecord(s) ==
  /\ At(s, "write")
  /\ pidfile' = IF pidfile = [pid |-> Pid(s), written |-> FALSE]
                  THEN [pid |-> Pid(s), written |-> TRUE] ELSE pidfile
  /\ seen' = [seen EXCEPT ![s] = [pid |-> Pid(s), written |-> TRUE]]
  /\ GoTo(s, "lock")
  /\ UNCHANGED <<socket, lock, start, checked, clientVars>>

-----------------------------------------------------------------------------
(* StateService and its RPC server                                         *)

\* acquire_state_ownership: flock without waiting.
TakeLock(who) == lock = None /\ lock' = who

\* StateOwnership.close, or the death of the holder.
DropLock(who) == lock' = IF lock = who THEN None ELSE lock

\* StateService.__init__: the lock, then the store, which opens or does not.
OpenService(s) ==
  /\ At(s, "lock")
  /\ \/ /\ lock = None
        /\ lock' = Pid(s)
        /\ GoTo(s, "probe")
     \/ /\ lock # None \/ ~StoreOpens
        /\ UNCHANGED lock
        /\ GoTo(s, "disown")
  /\ UNCHANGED <<pidfile, socket, start, seen, checked, clientVars>>

\* reclaim_stale_socket: a socket somebody listens on is left alone.
ReclaimSocket(s) ==
  /\ At(s, "probe")
  /\ IF socket # None /\ Listening(socket.by)
       THEN GoTo(s, "unlock") /\ UNCHANGED socket
       ELSE socket' = None /\ GoTo(s, "bind")
  /\ UNCHANGED <<pidfile, lock, start, seen, checked, clientVars>>

Bind(s) ==
  /\ At(s, "bind")
  /\ socket' = [by |-> Pid(s), private |-> FALSE]
  /\ GoTo(s, "chmod")
  /\ UNCHANGED <<pidfile, lock, start, seen, checked, clientVars>>

\* record_owned_socket and chmod; a failure closes the server again.
Chmod(s) ==
  /\ At(s, "chmod")
  /\ \/ /\ socket' = [socket EXCEPT !.private = TRUE]
        /\ GoTo(s, "serve")
     \/ /\ UNCHANGED socket
        /\ GoTo(s, "unsocket")
  /\ UNCHANGED <<pidfile, lock, start, seen, checked, clientVars>>

\* SIGTERM or SIGINT: aclose closes the server first.
Stop(s) ==
  /\ At(s, "serve")
  /\ GoTo(s, "unsocket")
  /\ UNCHANGED <<files, start, seen, checked, clientVars>>

OwnsSocket(s) == socket # None /\ socket.by = Pid(s)

\* remove_owned_socket
RemoveSocket(s) ==
  /\ At(s, "unsocket")
  /\ socket' = IF OwnsSocket(s) THEN None ELSE socket
  /\ GoTo(s, "unlock")
  /\ UNCHANGED <<pidfile, lock, start, seen, checked, clientVars>>

\* StateService.close: the store, then the lock.
CloseService(s) ==
  /\ At(s, "unlock")
  /\ DropLock(Pid(s))
  /\ GoTo(s, "disown")
  /\ UNCHANGED <<pidfile, socket, start, seen, checked, clientVars>>

\* StateProcessOwnership.close: _remove_owned again, compared here ...
CompareOwnRecord(s) ==
  /\ At(s, "disown")
  /\ IF pidfile = seen[s]
       THEN GoTo(s, "unrecord") /\ UNCHANGED <<seen, checked>>
       ELSE Gone(s)
  /\ UNCHANGED <<files, start, clientVars>>

\* ... and unlinked there.
UnlinkOwnRecord(s) ==
  /\ At(s, "unrecord")
  /\ pidfile' = None
  /\ Gone(s)
  /\ UNCHANGED <<socket, lock, start, clientVars>>

\* The process is killed; the kernel drops its lock and its listening socket.
OwnerCrash(s) ==
  /\ Running(s) /\ ownerPhase[s] \notin Spared
  /\ Gone(s)
  /\ DropLock(Pid(s))
  /\ UNCHANGED <<pidfile, socket, start, clientVars>>

-----------------------------------------------------------------------------
(* aizim run: a StateService without record and socket.                    *)

OpenBatch(b) ==
  /\ TakeLock(b)
  /\ UNCHANGED <<pidfile, socket, serverVars, clientVars>>

\* It ends or is killed.
CloseBatch(b) ==
  /\ lock = b
  /\ DropLock(b)
  /\ UNCHANGED <<pidfile, socket, serverVars, clientVars>>

-----------------------------------------------------------------------------
(* call_control_operation                                                  *)

Report(c, result) ==
  /\ answer' = [answer EXCEPT ![c] = result]
  /\ call' = [call EXCEPT ![c] = "idle"]

Proceed(c, next) == call' = [call EXCEPT ![c] = next] /\ UNCHANGED answer

\* The first of the two identities.
Call(c) ==
  /\ call[c] = "idle"
  /\ ownerCalls[c] < MaxCalls
  /\ ownerCalls' = [ownerCalls EXCEPT ![c] = @ + 1]
  /\ before' = [before EXCEPT ![c] = <<pidfile, None>>]
  /\ servedBy' = [servedBy EXCEPT ![c] = None]
  /\ answer' = [answer EXCEPT ![c] = None]
  /\ call' = [call EXCEPT ![c] = "before"]
  /\ UNCHANGED <<files, serverVars>>

SeeSocket(c) ==
  /\ call[c] = "before"
  /\ before' = [before EXCEPT ![c] = <<before[c][1], socket>>]
  /\ LET pair == <<before[c][1], socket>> IN
       IF pair = <<None, None>> THEN Proceed(c, "alone")
       ELSE IF pair[1] = None \/ pair[2] = None THEN Report(c, "failed")
       ELSE Proceed(c, "validate")
  /\ UNCHANGED <<files, serverVars, ownerCalls, servedBy>>

\* A short-lived StateService.
OpenAlone(c) ==
  /\ call[c] = "alone"
  /\ IF lock = None
       THEN TakeLock(c) /\ Proceed(c, "commit")
       ELSE UNCHANGED lock /\ Report(c, "failed")
  /\ UNCHANGED <<pidfile, socket, serverVars, ownerCalls, before, servedBy>>

CommitAlone(c) ==
  /\ call[c] = "commit"
  /\ servedBy' = [servedBy EXCEPT ![c] = Alone]
  /\ DropLock(c)
  /\ Report(c, "ok")
  /\ UNCHANGED <<pidfile, socket, serverVars, ownerCalls, before>>

\* validate_live_state_process
OwnerLooksLive ==
  /\ pidfile # None /\ pidfile.written /\ Alive(pidfile.pid)
  /\ socket # None /\ socket.private

Validate(c) ==
  /\ call[c] = "validate"
  /\ IF OwnerLooksLive THEN Proceed(c, "rpc") ELSE Report(c, "failed")
  /\ UNCHANGED <<files, serverVars, ownerCalls, before, servedBy>>

\* rpc_call: whoever listens at the path commits the request and answers, or
\* the connection is refused or lost, after the commit or before it.
CallService(c) ==
  /\ call[c] = "rpc"
  /\ \/ /\ socket # None /\ Listening(socket.by)
        /\ servedBy' = [servedBy EXCEPT ![c] = socket.by]
        /\ \/ Proceed(c, "revalidate")
           \/ Report(c, "failed")
     \/ UNCHANGED servedBy /\ Report(c, "failed")
  /\ UNCHANGED <<files, serverVars, ownerCalls, before>>

Revalidate(c) ==
  /\ call[c] = "revalidate"
  /\ IF OwnerLooksLive THEN Proceed(c, "after") ELSE Report(c, "failed")
  /\ UNCHANGED <<files, serverVars, ownerCalls, before, servedBy>>

\* Mutant: two validations are believed to say the same as one identity.
TrustValidation(c) ==
  /\ call[c] = "after"
  /\ Report(c, "ok")
  /\ UNCHANGED <<files, serverVars, ownerCalls, before, servedBy>>

CompareOwners(c) ==
  /\ call[c] = "after"
  /\ Report(c, IF before[c] = <<pidfile, socket>> THEN "ok" ELSE "failed")
  /\ UNCHANGED <<files, serverVars, ownerCalls, before, servedBy>>

-----------------------------------------------------------------------------
\* Mutant: _serve closes its ownership before the service.
CloseOwnershipFirst(s) ==
  \/ /\ At(s, "unsocket") /\ pidfile = seen[s]
     /\ pidfile' = None
     /\ UNCHANGED <<socket, lock, serverVars, clientVars>>
  \/ pidfile # seen[s] /\ RemoveSocket(s)
  \/ CloseService(s)
  \/ CompareOwnRecord(s)
  \/ UnlinkOwnRecord(s)

\* The finally clauses of _serve.
CloseAll(s) ==
  \/ RemoveSocket(s)
  \/ CloseService(s)
  \/ CompareOwnRecord(s)
  \/ UnlinkOwnRecord(s)

Acquire(s) ==
  \/ LookForRecord(s)
  \/ ReadRecord(s)
  \/ ConfirmRecord(s)
  \/ CompareRecord(s)
  \/ UnlinkRecord(s)
  \/ LookForSocket(s)
  \/ CreateRecord(s)
  \/ WriteRecord(s)

Serve(s) ==
  \/ OpenService(s)
  \/ ReclaimSocket(s)
  \/ Bind(s)
  \/ Chmod(s)
  \/ Stop(s)

Control(c) ==
  \/ Call(c)
  \/ SeeSocket(c)
  \/ OpenAlone(c)
  \/ CommitAlone(c)
  \/ Validate(c)
  \/ CallService(c)
  \/ Revalidate(c)
  \/ CompareOwners(c)

OwnerNext ==
  \/ \E s \in Servers : Launch(s) \/ Acquire(s) \/ Serve(s) \/ CloseAll(s) \/ OwnerCrash(s)
  \/ \E c \in Clients : Control(c)
  \/ \E b \in Batches : OpenBatch(b) \/ CloseBatch(b)

OwnerSpec == OwnerInit /\ [][OwnerNext]_ownerVars

-----------------------------------------------------------------------------
(* Properties                                                              *)

\* A server that serves is reached through the socket path, and only it has
\* the store: whoever reclaims, binds or removes a socket (rpc.py start and
\* _cleanup) does so under the lock, so nobody takes away the socket of a
\* live server, even where two processes fought over the pid record.
ServerIsReachable ==
  \A s \in Servers :
    ownerPhase[s] = "serve" =>
      /\ lock = Pid(s)
      /\ socket = [by |-> Pid(s), private |-> TRUE]

\* A control command that reports success was committed by the very process
\* whose socket it saw before it asked (call_control_operation compares the
\* identities again at the end), or by itself when nobody served.
AnswerFromSeenOwner ==
  \A c \in Clients :
    answer[c] = "ok" =>
      \/ before[c] = <<None, None>> /\ servedBy[c] = Alone
      \/ before[c][2] # None /\ servedBy[c] = before[c][2].by

NobodyRuns == \A s \in Servers : ~Running(s)

\* When no server is left, acquire_state_process accepts what it finds: no
\* record that cannot be read, and no socket without a record of a dead owner.
NextStartIsPossible ==
  NobodyRuns =>
    /\ pidfile # None => pidfile.written
    /\ socket # None => pidfile # None
=============================================================================
