----------------------------- MODULE MCConsumer -----------------------------
(* One reader and one waiter beside the shared consumer; two rows, so that *)
(* a second submission or a rebase follows the first.                      *)
EXTENDS PromotionConsumer

CONSTANTS c1, c2, r1

MCContributions == {c1, c2}
MCOwners == {Shared}
MCReaders == {r1}
=============================================================================
