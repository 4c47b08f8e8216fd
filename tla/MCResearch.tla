----------------------------- MODULE MCResearch -----------------------------
(* Two targets, independent or one after the other, two rounds each.       *)
EXTENDS ResearchEngine

MCTargets == {1, 2}
=============================================================================
