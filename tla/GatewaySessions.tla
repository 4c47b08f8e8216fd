-------------------------- MODULE GatewaySessions --------------------------
(***************************************************************************)
(* The gateway: a worker's token is minted and registered as a session     *)
(* (worker_authority.py), redeemed once by the sidecar that connects to    *)
(* the broker's socket (session_broker.py), and used for calls that the    *)
(* capability gateway authorises one by one (gateway/service.py) while the *)
(* lease may end, time passes and the broker closes.                       *)
(*                                                                         *)
(* A session has one token with the claims it was registered with; every   *)
(* session belongs to one run.  One action is what the event loop runs     *)
(* between two awaits.                                                     *)
(***************************************************************************)
EXTENDS Naturals, FiniteSets

CONSTANTS
  Sessions,        \* session ids, each registered once
  Peers,           \* connections, each used once
  Genuine,         \* the peers with the owner's user id and the sidecar's image
  NoSession,       \* a connection that has not presented a session
  RequestLimit,    \* GatewayLimits.request_limit
  RunBudget,       \* GatewayLimits.run_budget
  MaxWindows,      \* bound: windows of window_seconds
  GatewayMaxCalls  \* bound: requests sent on the channels

ASSUME GatewayAssumption ==
  /\ Genuine \subseteq Peers
  /\ NoSession \notin Sessions
  /\ RequestLimit \in Nat \ {0} /\ RunBudget \in Nat \ {0}
  /\ MaxWindows \in Nat /\ GatewayMaxCalls \in Nat

VARIABLES
  secret,        \* the token bytes of each session: none, held, cleared
  pending,       \* the registrations a connection may redeem
  token,         \* the capability record of each session
  lapsed,        \* the sessions past their expires_at
  conn,          \* where the handler of each connection stands
  session,       \* the session each handler has taken
  given,         \* history: the peers a session's token was sent to
  window,        \* the window of the request rate and the requests in it
  spent,         \* requests counted against the run
  gatewayBegun,  \* history: calls that reached a target, by session
  gatewayCalls,  \* history: requests handed to the gateway
  denials,       \* CapabilityDenied events
  gatewayPhase,  \* where GatewaySessionBroker._cleanup stands
  failure        \* _handler_failure is set

sessionVars == <<secret, pending, token, lapsed>>
gatewayVars == <<window, spent, gatewayBegun, gatewayCalls, denials>>
brokerVars == <<sessionVars, conn, session, given, gatewayVars, gatewayPhase, failure>>

Handlers == {p \in Peers : conn[p] \notin {"none", "over"}}
GatewayDrained == Handlers = {}
Closing == gatewayPhase # "open"
\* Until _close_connections the handlers go on; then they are cancelled where they wait.
GatewayRunning == gatewayPhase \in {"open", "flagged"}
GatewayPhases == {"open", "flagged", "draining", "turn", "drainingLate", "closed"}

\* What an answer to a call may be: a result, a denial, a malformed request
GatewayTypeOK ==
  /\ secret \in [Sessions -> {"none", "held", "cleared"}]
  /\ pending \subseteq Sessions
  /\ token \in [Sessions -> {"none", "valid", "revoked"}]
  /\ lapsed \subseteq Sessions
  /\ conn \in [Peers -> {"none", "read", "shut", "granted", "refused", "serve", "target",
                         "reply", "finish", "over"}]
  /\ session \in [Peers -> Sessions \cup {NoSession}]
  /\ given \in [Sessions -> SUBSET Peers]
  /\ window \in [number : 0 .. MaxWindows, count : 0 .. RequestLimit]
  /\ spent \in 0 .. RunBudget
  /\ gatewayBegun \in [Sessions -> 0 .. GatewayMaxCalls]
  /\ gatewayCalls \in 0 .. GatewayMaxCalls /\ denials \in 0 .. GatewayMaxCalls
  /\ gatewayPhase \in GatewayPhases
  /\ failure \in BOOLEAN
  /\ gatewayPhase = "closed" => GatewayDrained

GatewayInit ==
  /\ secret = [s \in Sessions |-> "none"]
  /\ pending = {}
  /\ token = [s \in Sessions |-> "none"]
  /\ lapsed = {}
  /\ conn = [p \in Peers |-> "none"]
  /\ session = [p \in Peers |-> NoSession]
  /\ given = [s \in Sessions |-> {}]
  /\ window = [number |-> 0, count |-> 0]
  /\ spent = 0 /\ gatewayCalls = 0 /\ denials = 0
  /\ gatewayBegun = [s \in Sessions |-> 0]
  /\ gatewayPhase = "open"
  /\ failure = FALSE

Move(p, to) == conn' = [conn EXCEPT ![p] = to]

-----------------------------------------------------------------------------
(* Sessions and leases                                                     *)

\* BrokerWorkerAuthority.issue: mint, then register, which a closed broker refuses
Issue(s) ==
  /\ token[s] = "none"
  /\ token' = [token EXCEPT ![s] = "valid"]
  /\ IF gatewayPhase # "closed"
     THEN secret' = [secret EXCEPT ![s] = "held"] /\ pending' = pending \cup {s}
     ELSE UNCHANGED <<secret, pending>>
  /\ UNCHANGED <<lapsed, conn, session, given, gatewayVars, gatewayPhase, failure>>

\* The lease ends and the store revokes its capabilities.
EndLease(s) ==
  /\ token[s] = "valid"
  /\ token' = [token EXCEPT ![s] = "revoked"]
  /\ UNCHANGED <<secret, pending, lapsed, conn, session, given, gatewayVars, gatewayPhase, failure>>

Lapse(s) ==
  /\ token[s] # "none" /\ s \notin lapsed
  /\ lapsed' = lapsed \cup {s}
  /\ UNCHANGED <<secret, pending, token, conn, session, given, gatewayVars, gatewayPhase, failure>>

NextWindow ==
  /\ window.number < MaxWindows
  /\ window' = [number |-> window.number + 1, count |-> 0]
  /\ UNCHANGED <<sessionVars, conn, session, given, spent, gatewayBegun, gatewayCalls, denials, gatewayPhase, failure>>

-----------------------------------------------------------------------------
(* A connection of the broker                                              *)

\* _accept; a connection made before the server stopped listening may come as late as
\* the turn after wait_closed, and finds its writer shut
Accept(p) ==
  /\ gatewayPhase \in {"open", "flagged", "draining", "turn"}
  /\ conn[p] = "none"
  /\ Move(p, IF Closing THEN "shut" ELSE "read")
  /\ UNCHANGED <<sessionVars, session, given, gatewayVars, gatewayPhase, failure>>

\* Mutant: the registration is looked up and left for the next.
RedeemKeeping(p, s) ==
  /\ conn[p] = "read" /\ GatewayRunning
  /\ s \in pending
  /\ session' = [session EXCEPT ![p] = s]
  /\ Move(p, IF p \in Genuine /\ s \notin lapsed THEN "granted" ELSE "refused")
  /\ UNCHANGED <<sessionVars, given, gatewayVars, gatewayPhase, failure>>

\* _handle: the registration is taken before the peer is looked at, so whoever
\* presents a session uses it up
Redeem(p, s) ==
  /\ conn[p] = "read" /\ GatewayRunning
  /\ s \in pending
  /\ pending' = pending \ {s}
  /\ session' = [session EXCEPT ![p] = s]
  /\ Move(p, IF p \in Genuine /\ s \notin lapsed THEN "granted" ELSE "refused")
  /\ UNCHANGED <<secret, token, lapsed, given, gatewayVars, gatewayPhase, failure>>

\* A frame that is no request, or names no registered session
RefuseFrame(p) ==
  /\ conn[p] = "read" /\ GatewayRunning
  /\ Move(p, "refused")
  /\ UNCHANGED <<sessionVars, session, given, gatewayVars, gatewayPhase, failure>>

\* Mutant: only a denied session is wiped, a channel leaves its token behind.
WipeDenied(p) == IF session[p] # NoSession /\ conn[p] = "refused" THEN {session[p]} ELSE {}

\* pending.clear()
Wipe(p) == IF session[p] # NoSession THEN {session[p]} ELSE {}

Leave(p) ==
  /\ secret' = [s \in Sessions |-> IF s \in Wipe(p) THEN "cleared" ELSE secret[s]]
  /\ Move(p, "finish")

\* write_frame of the answer to a redemption; a request may ask for no channel
Answer(p, channel) ==
  /\ conn[p] \in {"granted", "refused"} /\ GatewayRunning
  /\ IF conn[p] = "granted"
     THEN given' = [given EXCEPT ![session[p]] = @ \cup {p}]
     ELSE UNCHANGED given
  /\ IF conn[p] = "granted" /\ channel
     THEN Move(p, "serve") /\ UNCHANGED secret
     ELSE Leave(p)
  /\ UNCHANGED <<pending, token, lapsed, session, gatewayVars, gatewayPhase, failure>>

\* The peer has gone or its writer was closed: the read or the write in the handler ends.
Disconnect(p) ==
  /\ conn[p] \in {"read", "shut", "granted", "refused", "serve", "reply"}
  /\ Leave(p)
  /\ UNCHANGED <<pending, token, lapsed, session, given, gatewayVars, gatewayPhase, failure>>

\* The writer is closed and the handler's task ends.
Finish(p) ==
  /\ conn[p] = "finish"
  /\ Move(p, "over")
  /\ UNCHANGED <<sessionVars, session, given, gatewayVars, gatewayPhase, failure>>

-----------------------------------------------------------------------------
(* serve_gateway_channel and CapabilityGateway.call                        *)

\* decode_call refuses the frame: it is answered, not handed on and not recorded.
BadCall(p) ==
  /\ conn[p] = "serve" /\ GatewayRunning
  /\ Move(p, "reply")
  /\ UNCHANGED <<sessionVars, session, given, gatewayVars, gatewayPhase, failure>>

Deny(p) ==
  /\ denials' = denials + 1
  /\ Move(p, "reply")
  /\ UNCHANGED gatewayBegun

Dispatch(p) ==
  /\ gatewayBegun' = [gatewayBegun EXCEPT ![session[p]] = @ + 1]
  /\ Move(p, "target")
  /\ UNCHANGED denials

\* Mutant: a channel once opened is trusted, the record is not read again.
AuthorisedOnce(s, minted) == minted

\* The checks after the budget: expiry, revocation, then the role, the operations
\* minted and the targets.  The claims of a channel are those of its token.
Authorised(s, minted) == s \notin lapsed /\ token[s] = "valid" /\ minted

\* _take_run_request and what follows it
Spend(p, minted) ==
  IF spent >= RunBudget THEN UNCHANGED spent /\ Deny(p)
  ELSE /\ spent' = spent + 1
       /\ IF Authorised(session[p], minted) THEN Dispatch(p) ELSE Deny(p)

\* A request whose token matches; `minted`: the operation is one of the token's
GatewayCall(p, minted) ==
  /\ conn[p] = "serve" /\ GatewayRunning /\ gatewayCalls < GatewayMaxCalls
  /\ gatewayCalls' = gatewayCalls + 1
  /\ IF window.count >= RequestLimit
     THEN Deny(p) /\ UNCHANGED <<window, spent>>
     ELSE window' = [window EXCEPT !.count = @ + 1] /\ Spend(p, minted)
  /\ UNCHANGED <<sessionVars, session, given, gatewayPhase, failure>>

TargetReturns(p) ==
  /\ conn[p] = "target" /\ GatewayRunning
  /\ Move(p, "reply")
  /\ UNCHANGED <<sessionVars, session, given, gatewayVars, gatewayPhase, failure>>

\* An error of the target ends the handler, and with it the channel.
TargetFails(p) ==
  /\ conn[p] = "target"
  /\ Leave(p)
  /\ failure' = TRUE
  /\ UNCHANGED <<pending, token, lapsed, session, given, gatewayVars, gatewayPhase>>

Reply(p) ==
  /\ conn[p] = "reply" /\ GatewayRunning
  /\ Move(p, "serve")
  /\ UNCHANGED <<sessionVars, session, given, gatewayVars, gatewayPhase, failure>>

-----------------------------------------------------------------------------
(* Closing                                                                 *)

\* aclose: closed for new sessions only at the end
BeginClose ==
  /\ gatewayPhase = "open"
  /\ gatewayPhase' = "flagged"
  /\ UNCHANGED <<sessionVars, conn, session, given, gatewayVars, failure>>

StopListening ==
  /\ gatewayPhase = "flagged"
  /\ gatewayPhase' = "draining"
  /\ UNCHANGED <<sessionVars, conn, session, given, gatewayVars, failure>>

\* Mutant: a handler whose target is running is left to it.
CancelIdle(p) ==
  /\ gatewayPhase \in {"draining", "drainingLate"}
  /\ conn[p] \in {"read", "shut", "granted", "refused", "serve", "reply"}
  /\ Leave(p)
  /\ UNCHANGED <<pending, token, lapsed, session, given, gatewayVars, gatewayPhase, failure>>

\* _close_connections: writers are closed and handlers cancelled at their await
GatewayCancel(p) ==
  /\ gatewayPhase \in {"draining", "drainingLate"}
  /\ conn[p] \in {"read", "shut", "granted", "refused", "serve", "target", "reply"}
  /\ Leave(p)
  /\ UNCHANGED <<pending, token, lapsed, session, given, gatewayVars, gatewayPhase, failure>>

\* wait_closed, then a turn of the loop for connections accepted meanwhile
FirstDrained ==
  /\ gatewayPhase = "draining" /\ GatewayDrained
  /\ gatewayPhase' = "turn"
  /\ UNCHANGED <<sessionVars, conn, session, given, gatewayVars, failure>>

TurnOver ==
  /\ gatewayPhase = "turn"
  /\ gatewayPhase' = "drainingLate"
  /\ UNCHANGED <<sessionVars, conn, session, given, gatewayVars, failure>>

\* The registrations are cleared and the failure of a handler is raised.
FinishClose ==
  /\ gatewayPhase = "drainingLate" /\ GatewayDrained
  /\ gatewayPhase' = "closed"
  /\ secret' = [s \in Sessions |-> IF s \in pending THEN "cleared" ELSE secret[s]]
  /\ pending' = {}
  /\ failure' = FALSE
  /\ UNCHANGED <<token, lapsed, conn, session, given, gatewayVars>>

Handle(p) ==
  \/ \E s \in Sessions : Redeem(p, s)
  \/ RefuseFrame(p) \/ Disconnect(p) \/ Finish(p)
  \/ \E channel \in BOOLEAN : Answer(p, channel)
  \/ BadCall(p) \/ \E minted \in BOOLEAN : GatewayCall(p, minted)
  \/ TargetReturns(p) \/ TargetFails(p) \/ Reply(p) \/ GatewayCancel(p)

CloseStep == StopListening \/ FirstDrained \/ TurnOver \/ FinishClose

GatewayNext ==
  \/ \E s \in Sessions : Issue(s) \/ EndLease(s) \/ Lapse(s)
  \/ NextWindow
  \/ \E p \in Peers : Accept(p) \/ Handle(p)
  \/ BeginClose \/ CloseStep

\* The event loop runs what is ready: the steps of the close, the handlers it has
\* cancelled and those whose writer is shut.
GatewayFairness ==
  /\ WF_brokerVars(CloseStep)
  /\ \A p \in Peers : WF_brokerVars(GatewayCancel(p)) /\ WF_brokerVars(Finish(p))

GatewaySpec == GatewayInit /\ [][GatewayNext]_brokerVars /\ GatewayFairness

-----------------------------------------------------------------------------
(* Properties                                                              *)

\* A session's token is sent to one peer at most, the genuine one, however many
\* connections present the session.
RedeemedOnce ==
  \A s \in Sessions : Cardinality(given[s]) <= 1 /\ given[s] \subseteq Genuine

\* Once the lease of a session has ended no target begins a call for it, on a channel
\* that was opened before as on any other.
NoCallAfterLease ==
  [][\A s \in Sessions : token[s] = "revoked" => gatewayBegun'[s] = gatewayBegun[s]]_brokerVars

\* The calls that reached a target, one for each session and number.
Reached == {r \in Sessions \X (1..GatewayMaxCalls) : r[2] <= gatewayBegun[r[1]]}

\* Every request handed to the gateway reaches a target or leaves a denial in the log,
\* and the run's budget bounds the targets reached in all of its sessions together.
EveryCallAccounted ==
  gatewayCalls = denials + Cardinality(Reached) /\ Cardinality(Reached) <= spent

\* When the broker is closed no token bytes are left in its memory, neither of a session
\* that was redeemed, nor of one that was refused, nor of one registered during the close.
SecretsCleared ==
  gatewayPhase = "closed" => \A s \in Sessions : secret[s] # "held"

\* A close ends, whatever the handlers are doing.
CloseEnds == gatewayPhase = "flagged" ~> gatewayPhase = "closed"
=============================================================================
