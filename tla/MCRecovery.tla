----------------------------- MODULE MCRecovery -----------------------------
(* Everything that must come to an end or start again, side by side (see     *)
(* MCControl): the recovery of documents, a research run, the close of the   *)
(* store's and of the gateway's sockets, the gateway's channel, a tool's     *)
(* exchange with its launcher, and the next start of the state process.      *)
EXTENDS DocumentBroker, ResearchEngine, StateRpc, GatewaySessions, GatewayChannel,
        ProcessLaunch, StateOwnership

CONSTANTS w1, u, v, p1, p2, q1, g1, x, k1, k2, k3, s1

\* One worker and two bodies, so that one is edited over the other.
MCWorkers == {w1}
MCContents == {u, v}

MCTargets == {1, 2}

\* Two connections: one may be idle or at work when the other arrives during
\* the close.
MCRpcPeers == {p1, p2}

\* One session, a genuine sidecar and a stranger.
MCSessions == {q1}
MCPeers == {g1, x}
MCGenuine == {g1}

\* Three calls: one that is given up, one behind it, one that comes later.
MCCalls == {k1, k2, k3}

\* One server that starts again and again; it is spared in the two windows
\* that leave an unusable record: after the record of a dead owner is unlinked,
\* and before the own pid is written.
MCServers == {s1}
Nobodies == {}
Windows == {"socket", "create", "write"}

VARIABLE component

MCVars == <<component, vars, researchVars, rpcVars, brokerVars, channelVars, launchVars, ownerVars>>

\* What is left of a launch that has returned, where no launch is looked at.
LaunchOver ==
  /\ kind = "host" /\ at = "returned" /\ why = "none" /\ outcome = "output" /\ asked = 0
  /\ child = "reaped" /\ code = "zero" /\ kid = "none" /\ signal = "none"
  /\ stdin = [todo |-> 0, pipe |-> 0, open |-> FALSE] /\ heard = Input
  /\ wrote = [s \in Streams |-> 0] /\ pipe = [s \in Streams |-> 0]
  /\ got = [s \in Streams |-> 0] /\ ended = Streams

\* A broker that has recovered, where no documents are looked at.
BrokerIdle ==
  /\ docs = <<>> /\ run = 0 /\ recovered = TRUE /\ doing = Rest /\ faults = 0
  /\ file = [p \in Runs \X Workers |-> NoFile]
  /\ snapshot = [s \in Runs \X Contents |-> "absent"]

MCInit ==
  /\ component \in {"documents", "research", "rpc", "gateway", "channel", "launch", "ownership"}
  /\ IF component = "documents" THEN Init ELSE BrokerIdle
  /\ ResearchInit /\ RpcInit /\ GatewayInit /\ ChannelInit /\ OwnerInit
  /\ IF component = "launch" THEN LaunchInit ELSE LaunchOver

\* Whatever arrives while it is at work, each of them ends: the close of the gateway
\* and of the store's server, a sidecar whose gateway is gone, and an exchange with
\* a tool that writes before it reads.
EachEnds == CloseEnds /\ RpcCloseEnds /\ HangupEndsSidecar /\ ExchangeEnds

MCNext ==
  \/ component = "documents" /\ Next
     /\ UNCHANGED <<component, researchVars, rpcVars, brokerVars, channelVars, launchVars, ownerVars>>
  \/ component = "research" /\ ResearchNext
     /\ UNCHANGED <<component, vars, rpcVars, brokerVars, channelVars, launchVars, ownerVars>>
  \/ component = "rpc" /\ RpcNext
     /\ UNCHANGED <<component, vars, researchVars, brokerVars, channelVars, launchVars, ownerVars>>
  \/ component = "gateway" /\ GatewayNext
     /\ UNCHANGED <<component, vars, researchVars, rpcVars, channelVars, launchVars, ownerVars>>
  \/ component = "channel" /\ ChannelNext
     /\ UNCHANGED <<component, vars, researchVars, rpcVars, brokerVars, launchVars, ownerVars>>
  \/ component = "launch" /\ LaunchNext
     /\ UNCHANGED <<component, vars, researchVars, rpcVars, brokerVars, channelVars, ownerVars>>
  \/ component = "ownership" /\ OwnerNext
     /\ UNCHANGED <<component, vars, researchVars, rpcVars, brokerVars, channelVars, launchVars>>

\* No component has a fair step in its initial state, so the fairness of those
\* that keep theirs asks for nothing.
MCSpec ==
  /\ MCInit /\ [][MCNext]_MCVars
  /\ BrokerFairness /\ ResearchFairness /\ RpcFairness /\ GatewayFairness /\ ChannelFairness
  /\ LaunchFairness /\ ChildFairness
=============================================================================
