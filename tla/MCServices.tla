----------------------------- MODULE MCServices -----------------------------
(* The processes around the store, side by side (see MCControl): the broker  *)
(* of the workers' documents, the research engine, the ownership of the      *)
(* state process, the gateway's sessions and two shared runs with the fake   *)
(* backend, one after the other.                                             *)
EXTENDS DocumentBroker, ResearchEngine, StateOwnership, GatewaySessions,
        SharedRun, TLC

CONSTANTS w1, w2, u, v, s1, s2, o1, b1, q1, q2, g1, g2

\* Two workers of a run and two bodies.
MCWorkers == {w1, w2}
MCContents == {u, v}

\* Two targets, independent or one after the other, two rounds each.
MCTargets == {1, 2}

\* Servers that start and are killed anywhere, one of them starts again, with a control
\* command and a run that holds the store beside them.
MCServers == {s1, s2}
MCClients == {o1}
MCBatches == {b1}
NoPhase == {}

\* Two sessions of a run and two genuine sidecars; MCRecovery has a stranger.
MCSessions == {q1, q2}
MCPeers == {g1, g2}

Symmetry == Permutations(MCWorkers)

VARIABLE component

MCVars == <<component, vars, researchVars, ownerVars, brokerVars, sharedVars>>

MCInit ==
  /\ component \in {"documents", "research", "ownership", "gateway", "shared"}
  /\ Init /\ ResearchInit /\ OwnerInit /\ GatewayInit /\ SharedInit

\* Bound: the first server starts twice, the other one once.
SecondStartsOnce == start'[s2] <= 1

MCNext ==
  \/ component = "documents" /\ Next
     /\ UNCHANGED <<component, researchVars, ownerVars, brokerVars, sharedVars>>
  \/ component = "research" /\ ResearchNext
     /\ UNCHANGED <<component, vars, ownerVars, brokerVars, sharedVars>>
  \/ component = "ownership" /\ OwnerNext /\ SecondStartsOnce
     /\ UNCHANGED <<component, vars, researchVars, brokerVars, sharedVars>>
  \/ component = "gateway" /\ GatewayNext
     /\ UNCHANGED <<component, vars, researchVars, ownerVars, sharedVars>>
  \/ component = "shared" /\ SharedNext
     /\ UNCHANGED <<component, vars, researchVars, ownerVars, brokerVars>>

MCSpec == MCInit /\ [][MCNext]_MCVars
=============================================================================
