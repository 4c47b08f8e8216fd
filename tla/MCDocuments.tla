----------------------------- MODULE MCDocuments -----------------------------
(* DocumentBroker for TLC: two workers of a run, two bodies. *)
EXTENDS DocumentBroker, TLC

Symmetry == Permutations(Workers) \cup Permutations(Contents)
==============================================================================
