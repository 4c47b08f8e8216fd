------------------------------ MODULE MCRecords ------------------------------
(* What a run leaves behind: the publications of the promotion service, and  *)
(* the events and the projections of the store, side by side (see MCControl).*)
EXTENDS Promotion, EventStore

CONSTANTS c1, c2, a, b, e1, e2, x1, x2, r1, r2, t1

\* Two submissions and room for one rebase; two services that take over each
\* other's claims.
MCContributions == {c1, c2}
MCOwners == {a, b}

\* Leases and documents, artifacts, and the ends of a run, with two runs.
MCTypes == {"LeaseGranted", "LeaseReleased", "LeaseRecovered", "ArtifactRegistered",
            "DocumentEdited", "RunCompleted", "ProjectInitialized"}
MCBatches == {<<"ContributionSubmitted", "ContributionEnqueued">>,
              <<"DeclarationPublished", "KnowledgeDeltaPublished", "PromotionStateChanged">>,
              <<"PromotionFailed", "PromotionStateChanged">>}
MCEntities == {e1, e2}
MCValues == {x1, x2}
MCRuns == {r1, r2}
MCTokens == {t1}

Symmetry == Permutations(MCEntities) \cup Permutations(MCValues) \cup Permutations(MCRuns)

VARIABLE component

MCVars == <<component, vars, storeVars>>

MCInit ==
  /\ component \in {"promotion", "store"}
  /\ Init /\ StoreInit
  /\ component # "store" => userVersion = 0

\* The other components keep their states while one of them takes a step.
Promoting == component = "promotion" /\ UNCHANGED <<component, storeVars>>
Storing == component = "store" /\ UNCHANGED <<component, vars>>

\* Action by action, so that TLC counts each of them.
MCNext ==
  \/ \E c \in Contributions, patch \in BOOLEAN : \E e \in KnownEpochs :
       Submit(c, patch, e) /\ Promoting
  \/ \E i \in Rows :
       ClaimExpires(i) /\ Promoting
  \/ (Crash /\ Promoting)
  \/ \E o \in Owners :
       \/ (ClaimNext(o) /\ Promoting) \/ (RecoverExpired(o) /\ Promoting)
       \/ (Heartbeat(o) /\ Promoting) \/ (Rebase(o) /\ Promoting)
       \/ (BeginVerify(o) /\ Promoting) \/ (VerifyAccepts(o) /\ Promoting)
       \/ (StoreModule(o) /\ Promoting) \/ (Materialize(o) /\ Promoting)
       \/ (Prepare(o) /\ Promoting) \/ (Publish(o) /\ Promoting) \/ (Fail(o) /\ Promoting)
       \/ (Abandon(o) /\ Promoting)
  \/ (Open /\ Storing) \/ (FailToOpen /\ Storing) \/ (Close /\ Storing)
  \/ (AppendEvent /\ Storing) \/ (AppendMalformed /\ Storing) \/ (AppendBatch /\ Storing)
  \/ (PersistCapability /\ Storing) \/ (RevokeCapability /\ Storing)

MCSpec == MCInit /\ [][MCNext]_MCVars
=============================================================================
