------------------------------ MODULE StateRpc ------------------------------
(***************************************************************************)
(* The RPC server of the state service (rpc.py): connections, the requests *)
(* dispatched on them (operations.py) and the shutdown that must end every *)
(* handler before StateService closes the store under them.  One action is *)
(* what the event loop runs between two awaits.  A connection the loop has *)
(* accepted reaches _accept_connection some turns later; asyncio lets it   *)
(* do so at the latest in the turn given up after wait_closed.             *)
(***************************************************************************)
EXTENDS FiniteSets

CONSTANTS RpcPeers   \* connections, each used once

VARIABLES
  rpcConn,     \* where the handler of each connection stands
  shut,        \* the connections whose writer the server has closed
  left,        \* the peers that have closed their end
  returning,   \* the handlers that end after the response they write
  trusted,     \* the connections on which the service session was presented
  presented,   \* history: the connections whose peer knows the session
  appended,    \* history: the connections on which an event was appended
  rpcPhase,    \* where RpcServer._cleanup stands
  drained,     \* the event _handlers_drained
  rpcFailure,  \* _handler_failure is set
  interrupted  \* RpcServer.close has been cancelled and keeps waiting

connVars == <<rpcConn, shut, left, returning>>
trustVars == <<trusted, presented, appended>>
rpcVars == <<connVars, trustVars, rpcPhase, drained, rpcFailure, interrupted>>

RpcHandlers == {p \in RpcPeers : rpcConn[p] \in {"read", "write", "finish"}}
RpcAccepted == {p \in RpcPeers : rpcConn[p] = "accepted"}

\* _closing
RpcClosing == rpcPhase # "open"

RpcPhases == {"open", "flagged", "drain", "draining", "wait", "turn",
           "drainLate", "drainingLate", "remove", "closed"}

RpcTypeOK ==
  /\ rpcConn \in [RpcPeers -> {"none", "accepted", "read", "write", "finish", "over"}]
  /\ shut \subseteq RpcPeers /\ left \subseteq RpcPeers /\ returning \subseteq RpcPeers
  /\ trusted \subseteq presented /\ appended \subseteq RpcPeers /\ presented \subseteq RpcPeers
  /\ rpcPhase \in RpcPhases
  /\ drained = (RpcHandlers = {})
  /\ rpcFailure \in BOOLEAN
  /\ interrupted \in BOOLEAN

RpcInit ==
  /\ rpcConn = [p \in RpcPeers |-> "none"]
  /\ shut = {} /\ left = {} /\ returning = {}
  /\ trusted = {} /\ presented = {} /\ appended = {}
  /\ rpcPhase = "open"
  /\ drained = TRUE
  /\ rpcFailure = FALSE
  /\ interrupted = FALSE

RpcMove(p, next) == rpcConn' = [rpcConn EXCEPT ![p] = next]

-----------------------------------------------------------------------------
(* Connections                                                             *)

RpcListening == rpcPhase \in {"open", "flagged"}

Connect(p) ==
  /\ RpcListening
  /\ rpcConn[p] = "none"
  /\ RpcMove(p, "accepted")
  /\ UNCHANGED <<shut, left, returning, trustVars, rpcPhase, drained, rpcFailure, interrupted>>

\* _accept_connection
RpcAccept(p) ==
  /\ rpcConn[p] = "accepted"
  /\ RpcMove(p, "read")
  /\ drained' = FALSE
  /\ shut' = IF RpcClosing THEN shut \cup {p} ELSE shut
  /\ UNCHANGED <<left, returning, trustVars, rpcPhase, rpcFailure, interrupted>>

PeerLeaves(p) ==
  /\ rpcConn[p] \notin {"none", "over"}
  /\ p \notin left
  /\ left' = left \cup {p}
  /\ UNCHANGED <<rpcConn, shut, returning, trustVars, rpcPhase, drained, rpcFailure, interrupted>>

Operations == {"append", "query", "control", "unknown"}

\* dispatch_operation: what an operation may answer.  Untrusted control
\* operations are allowed, appends are not.
RpcDispatch(operation, isTrusted) ==
  CASE operation = "append" ->
         IF isTrusted THEN {"SUCCESS", "INVALID_EVENT", "DUPLICATE_EVENT", "INVALID_PARAMS"}
                      ELSE {"NOT_AUTHORIZED"}
    [] operation = "query" -> {"SUCCESS", "INVALID_PARAMS", "INVALID_PROJECTION"}
    [] operation = "control" -> {"SUCCESS", "CONTROL_ERROR", "INVALID_PARAMS"}
    [] operation = "unknown" -> {"UNKNOWN_OPERATION"}

\* A whole request arrives, with or without the session, and is dispatched.
Request(p, operation, session) ==
  /\ rpcConn[p] = "read"
  /\ p \notin shut
  /\ presented' = IF session THEN presented \cup {p} ELSE presented
  /\ trusted' = IF session THEN trusted \cup {p} ELSE trusted
  /\ \E response \in RpcDispatch(operation, p \in trusted') :
       appended' = IF operation = "append" /\ response = "SUCCESS"
                     THEN appended \cup {p} ELSE appended
  /\ RpcMove(p, "write")
  /\ UNCHANGED <<shut, left, returning, rpcPhase, drained, rpcFailure, interrupted>>

\* The store raises something dispatch_operation does not answer.
RequestRaises(p) ==
  /\ rpcConn[p] = "read"
  /\ p \notin shut
  /\ RpcMove(p, "finish")
  /\ rpcFailure' = TRUE
  /\ UNCHANGED <<shut, left, returning, trustVars, rpcPhase, drained, interrupted>>

\* A frame that is incomplete, too large or malformed: one answer, then the end.
BadFrame(p) ==
  /\ rpcConn[p] = "read"
  /\ RpcMove(p, "write")
  /\ returning' = returning \cup {p}
  /\ UNCHANGED <<shut, left, trustVars, rpcPhase, drained, rpcFailure, interrupted>>

\* _write_response returns; on a connection that is lost drain may raise.
Written(p) ==
  /\ rpcConn[p] = "write"
  /\ \/ /\ RpcMove(p, IF p \in returning THEN "finish" ELSE "read")
        /\ UNCHANGED rpcFailure
     \/ /\ p \in shut \cup left
        /\ RpcMove(p, "finish")
        /\ rpcFailure' = TRUE
  /\ UNCHANGED <<shut, left, returning, trustVars, rpcPhase, drained, interrupted>>

\* readexactly finds the end of the stream.
EndOfStream(p) ==
  /\ rpcConn[p] = "read"
  /\ p \in shut \cup left
  /\ RpcMove(p, "finish")
  /\ UNCHANGED <<shut, left, returning, trustVars, rpcPhase, drained, rpcFailure, interrupted>>

\* The finally clause, then _handler_done.
HandlerDone(p) ==
  /\ rpcConn[p] = "finish"
  /\ RpcMove(p, "over")
  /\ shut' = shut \cup {p}
  /\ drained' = (RpcHandlers = {p})
  /\ UNCHANGED <<left, returning, trustVars, rpcPhase, rpcFailure, interrupted>>

-----------------------------------------------------------------------------
(* _cleanup                                                                *)

Goes(next) == rpcPhase' = next /\ UNCHANGED <<trustVars, drained, rpcFailure, interrupted>>

RpcBeginClose ==
  /\ rpcPhase = "open"
  /\ Goes("flagged")
  /\ UNCHANGED connVars

RpcStopListening ==
  /\ rpcPhase = "flagged"
  /\ Goes("drain")
  /\ UNCHANGED connVars

\* One turn of _close_connections: nothing to do, or close and wait.
CloseConnections(here, waiting, done) ==
  /\ rpcPhase = here
  /\ Goes(IF RpcHandlers = {} THEN done ELSE waiting)
  /\ shut' = shut \cup RpcHandlers
  /\ UNCHANGED <<rpcConn, left, returning>>

HandlersDrained(waiting, here) ==
  /\ rpcPhase = waiting
  /\ drained
  /\ Goes(here)
  /\ UNCHANGED connVars

\* server.wait_closed
ServerClosed ==
  /\ rpcPhase = "wait"
  /\ RpcHandlers = {}
  /\ Goes("turn")
  /\ UNCHANGED connVars

\* The loop gets its turn; then once more _close_connections.
RpcTurnOver ==
  /\ rpcPhase = "turn"
  /\ RpcAccepted = {}
  /\ Goes("drainLate")
  /\ UNCHANGED connVars

\* Mutant: the cancelled close returns and the service closes the store.
CancelAbandons ==
  /\ rpcPhase \notin {"open", "closed"}
  /\ ~interrupted
  /\ interrupted' = TRUE
  /\ rpcPhase' = "closed"
  /\ UNCHANGED <<connVars, trustVars, drained, rpcFailure>>

\* RpcServer.close is cancelled: it keeps waiting for its cleanup task.
CancelClose ==
  /\ rpcPhase \notin {"open", "closed"}
  /\ ~interrupted
  /\ interrupted' = TRUE
  /\ UNCHANGED <<connVars, trustVars, rpcPhase, drained, rpcFailure>>

\* The socket is removed and StateService.close closes the store; a failure
\* of a handler is raised only now.
CloseStore ==
  /\ rpcPhase = "remove"
  /\ rpcPhase' = "closed"
  /\ rpcFailure' = FALSE
  /\ UNCHANGED <<connVars, trustVars, drained, interrupted>>

Cleanup ==
  \/ RpcStopListening
  \/ CloseConnections("drain", "draining", "wait")
  \/ HandlersDrained("draining", "drain")
  \/ ServerClosed
  \/ RpcTurnOver
  \/ CloseConnections("drainLate", "drainingLate", "remove")
  \/ HandlersDrained("drainingLate", "drainLate")
  \/ CloseStore

RpcHandle(p) == RpcAccept(p) \/ Written(p) \/ EndOfStream(p) \/ HandlerDone(p)

RpcNext ==
  \/ RpcBeginClose
  \/ Cleanup
  \/ CancelClose
  \/ \E p \in RpcPeers :
       \/ Connect(p)
       \/ RpcHandle(p)
       \/ PeerLeaves(p)
       \/ \E operation \in Operations, session \in BOOLEAN : Request(p, operation, session)
       \/ RequestRaises(p)
       \/ BadFrame(p)

\* The loop runs every ready task; a peer reads what it is sent or goes away.
RpcFairness ==
  WF_rpcVars(Cleanup) /\ \A p \in RpcPeers : WF_rpcVars(RpcHandle(p))

RpcSpec == RpcInit /\ [][RpcNext]_rpcVars /\ RpcFairness

-----------------------------------------------------------------------------
(* Properties                                                              *)

\* When StateService closes the store no handler is left that could dispatch
\* a request to it, whatever connections came in during the close and however
\* often the close was cancelled (RpcServer.close, _cleanup).
NoHandlerOutlivesStore == rpcPhase = "closed" => RpcHandlers = {} /\ RpcAccepted = {}

\* Only a connection that presented the service session appends events
\* (_handle_connection, _append), whatever the other connections presented.
AppendNeedsSession == appended \subseteq presented

\* A close that has begun ends, even with idle peers that stay connected and
\* with connections that arrive while it runs.
RpcCloseEnds == RpcClosing ~> (rpcPhase = "closed")
=============================================================================
