----------------------------- MODULE EventStore -----------------------------
(***************************************************************************)
(* The event store (state/store.py): an append-only log of events and the  *)
(* tables derived from it.  A transaction writes one event, or the several *)
(* events of a publication, with the projections the reducer computes from *)
(* the stored ones, registers an artifact and revokes the capabilities of  *)
(* an ended lease; it is committed whole or rolled back whole.             *)
(* replay_verify feeds the log to the reducer again in a fresh database.   *)
(*                                                                         *)
(* Of a payload only the names of the fields and which values are equal    *)
(* matter here: the field that names the entity holds an entity, the other *)
(* ones one value of the event.                                            *)
(***************************************************************************)
EXTENDS EventSchema, Naturals, Sequences, FiniteSets, TLC

CONSTANTS
  Types,         \* the event types that are appended one at a time
  StoreBatches,  \* the sequences of event types a publication appends at once
  Entities,      \* entity ids
  Values,        \* what the other fields may hold
  Runs,          \* run ids
  NoRun,         \* an event of no run
  Tokens,        \* hashes of capability tokens
  MaxEvents      \* bound: length of the log

ASSUME StoreAssumption ==
  /\ Types \subseteq EventTypes
  /\ \A b \in StoreBatches : b \in Seq(EventTypes)
  /\ NoRun \notin Runs
  /\ MaxEvents \in Nat

VARIABLES
  opened,       \* the store holds its connection
  userVersion,  \* PRAGMA user_version of the file
  store,        \* the tables, see Fresh
  storeAnswer   \* what the last operation answered

storeVars == <<opened, userVersion, store, storeAnswer>>

-----------------------------------------------------------------------------
(* Events                                                                  *)

Payload(type, e, x) ==
  [f \in RequiredFields(type) |->
     IF type \in NamedByField /\ f = FieldOf(type) THEN e ELSE x]

\* _entity_id; an entity is a sequence, so that the cases stay apart
EntityId(id, type, run, payload) ==
  CASE type = "ArtifactRegistered" /\ run # NoRun -> <<run, payload["relative_path"]>>
    [] type \in NamedByField -> <<payload[FieldOf(type)]>>
    [] OTHER -> <<IF run # NoRun THEN run ELSE id>>

\* An event, with the projection and the entity the reducer files it under
Event(id, type, run, e, x) ==
  LET payload == Payload(type, e, x)
  IN [id |-> id, type |-> type, run |-> run, payload |-> payload,
      key |-> <<ProjectionOf(type), EntityId(id, type, run, payload)>>]

EpochKey == <<"epochs", <<"global">>>>

-----------------------------------------------------------------------------
(* The reducer                                                             *)

\* The entries of a table with new ones, which take the place of the old
Merged(new, old) ==
  [x \in DOMAIN new \cup DOMAIN old |-> IF x \in DOMAIN new THEN new[x] ELSE old[x]]

NextVersion(snap, key) == IF key \in DOMAIN snap THEN snap[key].version + 1 ELSE 1

IsOrchestration(type) == type \in DOMAIN TargetStatus

EndsLease(ev) == ev.type \in {"LeaseReleased", "LeaseRecovered"}

\* Mutant: an ended session is matched by the field of an execution.
SameExecutionAlways(previous, ev) ==
  LET field == "execution_id"
      of(payload) == IF field \in DOMAIN payload THEN {payload[field]} ELSE {}
  IN of(previous) = of(ev.payload)

\* _require_same_execution; a field neither payload has is equal
SameExecution(previous, ev) ==
  LET field == IF ev.type \in {"ControllerStopped", "ControllerCrashed"}
               THEN "controller_session_id" ELSE "execution_id"
      of(payload) == IF field \in DOMAIN payload THEN {payload[field]} ELSE {}
  IN of(previous) = of(ev.payload)

\* The checks of reduce_orchestration_payload
TransitionAllowed(snap, ev) ==
  IF ev.key \in DOMAIN snap
  THEN /\ snap[ev.key].payload["status"] \in AllowedPrevious[ev.type]
       /\ SameExecution(snap[ev.key].payload, ev)
  ELSE "none" \in AllowedPrevious[ev.type]

\* _projection_payload: what the event adds and whether the stored payload stays
ProjectionPayload(snap, ev) ==
  LET earlier == IF ev.key \in DOMAIN snap /\ (IsOrchestration(ev.type) \/ EndsLease(ev))
                 THEN snap[ev.key].payload ELSE <<>>
      status == IF IsOrchestration(ev.type) THEN [status |-> TargetStatus[ev.type]] ELSE <<>>
  IN Merged(Merged(status, ev.payload), earlier)

\* The keys of the records apply_event returns
ChangedKeys(ev) ==
  {ev.key}
    \cup (IF ev.type = "LeaseGranted"
          THEN {<<"documents", <<ev.payload["document_id"]>>>>} ELSE {})
    \cup (IF ev.type \in {"ProjectInitialized", "KnowledgeDeltaPublished"} THEN {EpochKey} ELSE {})

\* apply_event.  An epoch record keeps the two epochs only, and no event.
Changes(snap, ev) ==
  [key \in ChangedKeys(ev) |->
     IF key = EpochKey
     THEN [version |-> NextVersion(snap, key), id |-> 0, type |-> "none", run |-> NoRun,
           payload |-> [f \in {"base_epoch", "knowledge_epoch"} |-> ev.payload[f]]]
     ELSE [version |-> NextVersion(snap, key), id |-> ev.id, type |-> ev.type, run |-> ev.run,
           payload |-> ProjectionPayload(snap, ev)]]

-----------------------------------------------------------------------------
(* Writing an event                                                        *)

\* register_artifact.  INSERT OR IGNORE keeps what the table holds under the same
\* hash or path; the row read back must be the one that was to be written.
ArtifactFits(s, ev) ==
  LET hash == ev.payload["content_hash"]
      path == ev.payload["relative_path"]
      rows == {a \in s.artifacts : a.hash = hash}
      associated == {a \in s.associations : a.run = ev.run /\ a.path = path}
  IN /\ ev.run # NoRun
     /\ \A a \in rows : a.media = ev.payload["media_type"]
     /\ rows = {} => ~\E a \in s.artifacts : a.path = path
     /\ \A a \in associated : a.hash = hash /\ a.media = ev.payload["media_type"]

AddArtifact(s, ev) ==
  LET hash == ev.payload["content_hash"]
      path == ev.payload["relative_path"]
      media == ev.payload["media_type"]
  IN [s EXCEPT
        !.artifacts = IF \E a \in @ : a.hash = hash \/ a.path = path THEN @
                      ELSE @ \cup {[hash |-> hash, path |-> path, media |-> media]},
        !.associations = IF \E a \in @ : a.run = ev.run /\ a.path = path THEN @
                         ELSE @ \cup {[run |-> ev.run, path |-> path, hash |-> hash,
                                       media |-> media]}]

\* Mutant: only a release revokes, a recovery of the lease does not.
RevokeOnRelease(tokens, ev) ==
  {IF ev.type = "LeaseReleased" /\ t.run = ev.run /\ t.lease = ev.payload["lease_id"]
   THEN [t EXCEPT !.revoked = TRUE] ELSE t : t \in tokens}

\* revoke_lease_capabilities
RevokeLeaseCapabilities(tokens, ev) ==
  {IF EndsLease(ev) /\ t.run = ev.run /\ t.lease = ev.payload["lease_id"]
   THEN [t EXCEPT !.revoked = TRUE] ELSE t : t \in tokens}

\* What raises inside the transaction: a malformed payload, an id the log holds,
\* a transition or an artifact that does not fit, an ended lease of no run.
StoreAccepted(s, ev) ==
  /\ DOMAIN ev.payload = RequiredFields(ev.type)
  /\ \A i \in DOMAIN s.log : s.log[i].id # ev.id
  /\ IsOrchestration(ev.type) => TransitionAllowed(s.proj, ev)
  /\ ev.type = "ArtifactRegistered" => ArtifactFits(s, ev)
  /\ EndsLease(ev) => ev.run # NoRun

\* apply_event_mutation and what _append adds to it
Write(s, ev) ==
  LET written == [s EXCEPT !.log = Append(@, ev),
                           !.proj = Merged(Changes(s.proj, ev), @),
                           !.tokens = RevokeLeaseCapabilities(@, ev)]
  IN IF ev.type = "ArtifactRegistered" THEN AddArtifact(written, ev) ELSE written

\* The next event of a transaction, unless an earlier one was refused
WriteNext(o, ev) ==
  IF o.fine /\ StoreAccepted(o.store, ev)
  THEN [fine |-> TRUE, store |-> Write(o.store, ev)]
  ELSE [o EXCEPT !.fine = FALSE]

\* Mutant: every event of a transaction is reduced against the projections that
\* were there before it.
OutcomeFromStale(s, events) ==
  LET after[i \in 0 .. Len(events)] ==
        IF i = 0 THEN [fine |-> TRUE, store |-> s]
        ELSE IF after[i - 1].fine /\ StoreAccepted(after[i - 1].store, events[i])
        THEN [after[i - 1] EXCEPT
                !.store = [Write(@, events[i]) EXCEPT
                             !.proj = Merged(Changes(s.proj, events[i]), after[i - 1].store.proj)]]
        ELSE [after[i - 1] EXCEPT !.fine = FALSE]
  IN after[Len(events)]

\* The outcome of a transaction: `fine` is FALSE once an event was refused.
StoreOutcome(s, events) ==
  LET after[i \in 0 .. Len(events)] ==
        IF i = 0 THEN [fine |-> TRUE, store |-> s]
        ELSE WriteNext(after[i - 1], events[i])
  IN after[Len(events)]

Transact(s, events) ==
  \E o \in {StoreOutcome(s, events)} :
    /\ store' = IF o.fine THEN o.store ELSE store
    /\ storeAnswer' = IF o.fine THEN "committed" ELSE "refused"

-----------------------------------------------------------------------------
(* Opening the database                                                    *)

\* The tables of a database just created
Fresh ==
  [log |-> <<>>,
   proj |-> [key \in {EpochKey} |->
               [version |-> 0, id |-> 0, type |-> "none", run |-> NoRun,
                payload |-> [f \in {"knowledge_epoch"} |-> 0]]],
   artifacts |-> {}, associations |-> {}, tokens |-> {}]

Empty == [Fresh EXCEPT !.proj = <<>>]

\* A file without a schema, or one of a later version
StoreInit ==
  /\ opened = FALSE
  /\ userVersion \in {0, 2}
  /\ store = Empty
  /\ storeAnswer = "none"

\* _connect and _initialize: the schema is created in one transaction
Open ==
  /\ ~opened
  /\ CASE userVersion = 0 -> /\ store' = Fresh /\ userVersion' = 1
                             /\ opened' = TRUE /\ storeAnswer' = "opened"
       [] userVersion = 1 -> /\ opened' = TRUE /\ storeAnswer' = "opened"
                             /\ UNCHANGED <<store, userVersion>>
       [] OTHER -> /\ storeAnswer' = "INCOMPATIBLE_EVENT_SCHEMA"
                   /\ UNCHANGED <<opened, store, userVersion>>

\* The process ends before the schema's transaction is committed.
FailToOpen ==
  /\ ~opened /\ userVersion = 0
  /\ storeAnswer' = "failed"
  /\ UNCHANGED <<opened, store, userVersion>>

\* close, or the end of the process; a transaction under way is rolled back
Close ==
  /\ opened
  /\ opened' = FALSE
  /\ storeAnswer' = "closed"
  /\ UNCHANGED <<userVersion, store>>

-----------------------------------------------------------------------------
(* The operations of the open store                                        *)

\* replay_verify appends the events of the log, one after the other, to a fresh database.
Replayed == StoreOutcome(Fresh, store.log)

Ids == 1 .. Len(store.log) + 1

AppendEvent ==
  /\ opened
  /\ Len(store.log) < MaxEvents
  /\ \E type \in Types, run \in Runs \cup {NoRun}, e \in Entities, x \in Values, id \in Ids :
       Transact(store, <<Event(id, type, run, e, x)>>)
  /\ UNCHANGED <<opened, userVersion>>

\* An event that lacks its fields
AppendMalformed ==
  /\ opened
  /\ \E type \in Types :
       /\ RequiredFields(type) # {}
       /\ Transact(store, <<[id |-> Len(store.log) + 1, type |-> type, run |-> NoRun,
                             payload |-> <<>>]>>)
  /\ UNCHANGED <<opened, userVersion>>

\* The transactions of a publication (enqueue, publish, quarantine): events of one
\* contribution, each reduced after the one before it was written
AppendBatch ==
  /\ opened
  /\ \E b \in StoreBatches, run \in Runs, e \in Entities, x \in Values, id \in Ids :
       /\ Len(store.log) + Len(b) <= MaxEvents
       /\ Transact(store, [i \in 1 .. Len(b) |-> Event(id + i - 1, b[i], run, e, x)])
  /\ UNCHANGED <<opened, userVersion>>

\* A capability; `minted` is the position of its CapabilityMinted event in the log.
CapabilityRecord(t, run, lease) ==
  [hash |-> t, run |-> run, lease |-> lease, revoked |-> FALSE, minted |-> Len(store.log) + 1]

PersistCapability ==
  /\ opened
  /\ Len(store.log) < MaxEvents
  /\ \E t \in Tokens, run \in Runs, lease \in Entities, x \in Values :
       /\ IF \E old \in store.tokens : old.hash = t
          THEN storeAnswer' = "refused" /\ UNCHANGED store
          ELSE Transact([store EXCEPT !.tokens = @ \cup {CapabilityRecord(t, run, lease)}],
                        <<Event(Len(store.log) + 1, "CapabilityMinted", run, x, x)>>)
  /\ UNCHANGED <<opened, userVersion>>

RevokeCapability ==
  /\ opened
  /\ \E t \in store.tokens :
       /\ ~t.revoked
       /\ store' = [store EXCEPT !.tokens = (@ \ {t}) \cup {[t EXCEPT !.revoked = TRUE]}]
       /\ storeAnswer' = "revoked"
  /\ UNCHANGED <<opened, userVersion>>

StoreNext ==
  \/ Open \/ FailToOpen \/ Close
  \/ AppendEvent \/ AppendMalformed \/ AppendBatch
  \/ PersistCapability \/ RevokeCapability

StoreSpec == StoreInit /\ [][StoreNext]_storeVars

-----------------------------------------------------------------------------
(* Properties                                                              *)

\* The events name registered projections, an entity they must carry, and the
\* tables of the store have their shape.
StoreTypeOK ==
  /\ opened \in BOOLEAN
  /\ userVersion \in 0 .. 2
  /\ opened => userVersion = 1
  /\ userVersion # 1 => store = Empty
  /\ Len(store.log) <= MaxEvents
  /\ \A key \in DOMAIN store.proj : key[1] \in ProjectionNames /\ store.proj[key].version \in Nat
  /\ \A i \in DOMAIN store.log :
       LET type == store.log[i].type
       IN \/ type \in ByRun
          \/ type \in NamedByField /\ FieldOf(type) \in RequiredFields(type)

\* replay_verify matches: reducing the log again, event by event and from a fresh
\* database, is never refused and gives the stored projections, however the events
\* were grouped into transactions, refused ones in between.
ReplayMatches ==
  userVersion = 1 => \E o \in {Replayed} : o.fine /\ o.store.proj = store.proj

\* Once a lease has ended in a run, whichever way, no token minted for it in that run
\* before is valid.
TokenDiesWithLease ==
  \A t \in store.tokens : \A i \in DOMAIN store.log :
    /\ store.log[i].type \in {"LeaseReleased", "LeaseRecovered"}
    /\ store.log[i].run = t.run /\ store.log[i].payload["lease_id"] = t.lease
    /\ t.minted < i
    => t.revoked

\* The positions of an entity's events, and which of them is the next after i
EventsFor(name, e) == {i \in DOMAIN store.log : store.log[i].key = <<name, <<e>>>>}
Follows(positions, i, j) == i < j /\ \A k \in positions : k <= i \/ j <= k

\* In the log the sessions of a controller follow one another, each ended by an event
\* of the same session before the next begins, and the events of an assignment are of
\* one execution: a claim, a plan, and at most one end that nothing follows.
OrchestrationHistory ==
  \A e \in Entities :
    LET c == EventsFor("controller_runtime", e)
        w == EventsFor("worker_executions", e)
        typeAt(i) == store.log[i].type
        at(i) == store.log[i].payload
    IN /\ \A i \in c : (\A k \in c : i <= k) => typeAt(i) = "ControllerStarted"
       /\ \A i, j \in c : Follows(c, i, j) =>
            /\ (typeAt(i) = "ControllerStarted") # (typeAt(j) = "ControllerStarted")
            /\ typeAt(i) = "ControllerStarted" =>
                 at(i)["controller_session_id"] = at(j)["controller_session_id"]
       /\ \A i \in w : (\A k \in w : i <= k) => typeAt(i) = "WorkerTaskClaimed"
       /\ \A i, j \in w : Follows(w, i, j) =>
            /\ at(i)["execution_id"] = at(j)["execution_id"]
            /\ \/ typeAt(i) = "WorkerTaskClaimed" /\ typeAt(j) = "WorkerTaskDispatchPlanned"
               \/ /\ typeAt(i) \in {"WorkerTaskClaimed", "WorkerTaskDispatchPlanned"}
                  /\ typeAt(j) \in {"WorkerTaskFailed", "WorkerTaskInterrupted"}
               \/ typeAt(i) = "WorkerTaskDispatchPlanned" /\ typeAt(j) = "WorkerTaskCompleted"

\* The version of an entity counts the events that changed it, which is what a
\* compare and set on it relies on.
VersionsCountEvents ==
  \A key \in DOMAIN store.proj \ {EpochKey} :
    store.proj[key].version = Cardinality({i \in DOMAIN store.log : key \in ChangedKeys(store.log[i])})

\* In the log a path of a run names one content and a content has one media type.
ArtifactsAgree ==
  LET registered == {store.log[i] : i \in {j \in DOMAIN store.log :
                                             store.log[j].type = "ArtifactRegistered"}}
  IN \A a, b \in registered :
       /\ a.run = b.run /\ a.payload["relative_path"] = b.payload["relative_path"]
            => a.payload["content_hash"] = b.payload["content_hash"]
       /\ a.payload["content_hash"] = b.payload["content_hash"]
            => a.payload["media_type"] = b.payload["media_type"]

\* The projections are what the log says, the versions and the artifacts included.
TablesFollowLog == StoreTypeOK /\ ReplayMatches /\ VersionsCountEvents /\ ArtifactsAgree
=============================================================================
