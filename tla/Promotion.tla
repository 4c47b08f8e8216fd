------------------------------ MODULE Promotion ------------------------------
(***************************************************************************)
(* The publication queue and the promotion services that work on it.  The  *)
(* queue is a table of the event store (store_publication*.py); a service  *)
(* (promotion.py) claims the oldest queued row, verifies, materializes and *)
(* activates its module, and publishes it with the next epoch.  Services   *)
(* share one event loop: a step below is what one of them does in one      *)
(* transaction, and another service may run only while this one awaits.    *)
(* A claim whose heartbeats stop expires and may be taken over, while the  *)
(* former owner still believes it holds it.                                *)
(***************************************************************************)
EXTENDS Naturals, Sequences, FiniteSets

CONSTANTS
  Contributions,  \* contribution ids that workers submit
  Owners,         \* promotion services, each with its owner id
  NoOwner,        \* claimed_by IS NULL
  MaxRows         \* bound on the rows of the queue, rebased ones included

ASSUME NoOwnerAssumption == NoOwner \notin Owners
ASSUME MaxRowsAssumption == MaxRows \in Nat

VARIABLES
  \* Durable: the queue table, the events about promotion, the projection.
  queue,     \* publication_queue by enqueue_sequence, with the submission
  enqueued,  \* how many rows there are
  prepared,  \* PromotionPrepared events
  deltas,    \* DeclarationPublished and KnowledgeDeltaPublished, in order
  epoch,     \* the "epochs" projection, an EpochPair
  \* Memory of the services.
  pc,        \* where a service stands in _promote, "idle" when in none
  entry      \* its PublicationQueueEntry and the epoch it read

durable == <<queue, enqueued, prepared, deltas, epoch>>
vars == <<durable, pc, entry>>

-----------------------------------------------------------------------------
Rows == 1..MaxRows
Live == {"staged", "verified", "materialized"}
Settled == {"published", "quarantined"}
States == {"none", "queued"} \cup Live \cup Settled

\* The base epoch is a hash over the modules of the project; the name of a
\* published module holds its epoch and its enqueue sequence.
Modules == Nat \X Rows
EpochPairs == [base : SUBSET Modules, knowledge : Nat]
FirstEpoch == [base |-> {}, knowledge |-> 0]

\* materialize and publication_delta: the epoch a row gets when it is
\* published on top of e.
NextEpoch(e, i) == [base |-> e.base \cup {<<e.knowledge + 1, i>>},
                    knowledge |-> e.knowledge + 1]

RowRecords == [source : Contributions \cup {"none"}, parent : {0} \cup Rows,
               patch : BOOLEAN, epoch : EpochPairs, state : States,
               owner : Owners \cup {NoOwner}, fresh : BOOLEAN]
EntryRecords == [row : {0} \cup Rows, state : States, epoch : EpochPairs]
PreparedEvents == [row : Rows, epoch : EpochPairs]
DeltaEvents == [row : Rows, previous : EpochPairs, epoch : EpochPairs]

NoRow == [source |-> "none", parent |-> 0, patch |-> FALSE, epoch |-> FirstEpoch,
          state |-> "none", owner |-> NoOwner, fresh |-> FALSE]
NoEntry == [row |-> 0, state |-> "none", epoch |-> FirstEpoch]

Init ==
  /\ queue = [i \in Rows |-> NoRow]
  /\ enqueued = 0
  /\ prepared = {}
  /\ deltas = <<>>
  /\ epoch = FirstEpoch
  /\ pc = [o \in Owners |-> "idle"]
  /\ entry = [o \in Owners |-> NoEntry]

-----------------------------------------------------------------------------
(* Services await in verify, materialize and activate (and before they     *)
(* resume with a result); elsewhere they keep the event loop.              *)
Awaits == {"idle", "verify", "materialize", "prepare", "activate"}
Working == (Awaits \ {"idle"}) \cup {"claimed", "verified"}

Turn(o) == \A p \in Owners \ {o} : pc[p] \in Awaits

Row(o) == queue[entry[o].row]

\* The check of every update of a claimed row.
Holds(o) == Row(o).owner = o /\ Row(o).state \in Live

can_transition(state, target) ==
  \/ state = "staged" /\ target \in {"verified", "quarantined"}
  \/ state = "verified" /\ target \in {"materialized", "quarantined"}
  \/ state = "materialized" /\ target \in {"published", "quarantined"}

\* Mutant: a quarantine does not reach the row.
UpdatedForward(i, o, target) ==
  [queue[i] EXCEPT !.state = IF target = "quarantined" THEN @ ELSE target,
                   !.owner = o, !.fresh = TRUE]

\* _update: a claim is renewed by every change of its row.
Updated(i, o, target) ==
  [queue[i] EXCEPT !.state = target, !.owner = o, !.fresh = TRUE]

LeaveAt(o, where) == pc' = [pc EXCEPT ![o] = where]
LetGo(o) == LeaveAt(o, "idle") /\ entry' = [entry EXCEPT ![o] = NoEntry]

-----------------------------------------------------------------------------
(* ContributionService.submit and enqueue.  The draft carries the epoch of *)
(* its document, which may be older than the current one.  A contribution  *)
(* that is already queued is returned as it stands.                        *)

KnownEpochs == {epoch} \cup {deltas[n].previous : n \in 1..Len(deltas)}

Submit(c, patch, e) ==
  /\ \A o \in Owners : pc[o] \in Awaits
  /\ enqueued < MaxRows
  /\ \A i \in 1..enqueued : queue[i].parent = 0 => queue[i].source # c
  /\ e \in KnownEpochs
  /\ enqueued' = enqueued + 1
  /\ queue' = [queue EXCEPT ![enqueued + 1] =
       [NoRow EXCEPT !.source = c, !.patch = patch, !.epoch = e, !.state = "queued"]]
  /\ UNCHANGED <<prepared, deltas, epoch, pc, entry>>

-----------------------------------------------------------------------------
(* promote_next and recover_next.                                          *)

Claimed(i) == queue[i].owner # NoOwner /\ queue[i].state \in Live

Take(o, i, state) ==
  /\ queue' = [queue EXCEPT ![i] = Updated(i, o, state)]
  /\ entry' = [entry EXCEPT ![o] = [row |-> i, state |-> state, epoch |-> epoch]]
  /\ LeaveAt(o, "claimed")
  /\ UNCHANGED <<enqueued, prepared, deltas, epoch>>

\* Mutant: claim_next without the check for an active row.
ClaimAnyNext(o) ==
  /\ pc[o] = "idle"
  /\ Turn(o)
  /\ \E i \in Rows :
       /\ queue[i].state = "queued"
       /\ \A j \in Rows : queue[j].state = "queued" => i <= j
       /\ Take(o, i, "staged")

ClaimNext(o) ==
  /\ pc[o] = "idle"
  /\ Turn(o)
  /\ \A i \in Rows : ~Claimed(i)
  /\ \E i \in Rows :
       /\ queue[i].state = "queued"
       /\ \A j \in Rows : queue[j].state = "queued" => i <= j
       /\ Take(o, i, "staged")

Expired(i) == Claimed(i) /\ ~queue[i].fresh

RecoverExpired(o) ==
  /\ pc[o] = "idle"
  /\ Turn(o)
  /\ \E i \in Rows :
       /\ Expired(i)
       /\ \A j \in Rows : Expired(j) => i <= j
       /\ Take(o, i, queue[i].state)

\* Time passes and no heartbeat of the owner has been recorded.
ClaimExpires(i) ==
  /\ Claimed(i)
  /\ queue[i].fresh
  /\ queue' = [queue EXCEPT ![i].fresh = FALSE]
  /\ UNCHANGED <<enqueued, prepared, deltas, epoch, pc, entry>>

Heartbeat(o) ==
  /\ pc[o] \in {"verify", "materialize", "activate"}
  /\ Turn(o)
  /\ Holds(o)
  /\ queue' = [queue EXCEPT ![entry[o].row] = Updated(entry[o].row, o, Row(o).state)]
  /\ UNCHANGED <<enqueued, prepared, deltas, epoch, pc, entry>>

-----------------------------------------------------------------------------
(* _promote.                                                               *)

Submitted(o) == Row(o).epoch

\* is_stale: the epoch has moved, or the document of a patch has.
Rebase(o) ==
  /\ pc[o] = "claimed"
  /\ Turn(o)
  /\ Submitted(o) # entry[o].epoch \/ Row(o).patch
  /\ Holds(o)
  /\ enqueued < MaxRows
  /\ \A i \in 1..enqueued : ~(queue[i].parent = entry[o].row
                              /\ queue[i].epoch = entry[o].epoch)
  /\ enqueued' = enqueued + 1
  /\ queue' = [queue EXCEPT
       ![entry[o].row] = Updated(entry[o].row, o, "quarantined"),
       ![enqueued + 1] = [NoRow EXCEPT !.source = Row(o).source, !.parent = entry[o].row,
                          !.patch = Row(o).patch, !.epoch = entry[o].epoch,
                          !.state = "queued"]]
  /\ LetGo(o)
  /\ UNCHANGED <<prepared, deltas, epoch>>

BeginVerify(o) ==
  /\ pc[o] = "claimed"
  /\ Turn(o)
  /\ Submitted(o) = entry[o].epoch
  /\ LeaveAt(o, "verify")
  /\ UNCHANGED <<durable, entry>>

\* advance_promotion, skipped when a recovered row is already past target.
Advance(o, target, where) ==
  /\ Turn(o)
  /\ LeaveAt(o, where)
  /\ \/ /\ can_transition(entry[o].state, target)
        /\ Row(o).owner = o
        /\ can_transition(Row(o).state, target)
        /\ queue' = [queue EXCEPT ![entry[o].row] = Updated(entry[o].row, o, target)]
        /\ entry' = [entry EXCEPT ![o].state = target]
     \/ /\ ~can_transition(entry[o].state, target)
        /\ UNCHANGED <<queue, entry>>
  /\ UNCHANGED <<enqueued, prepared, deltas, epoch>>

\* The verifier accepts: the evidence is recorded and the row advances.
VerifyAccepts(o) == pc[o] = "verify" /\ Advance(o, "verified", "verified")

\* The rendered module is stored and the row advances again.
StoreModule(o) == pc[o] = "verified" /\ Advance(o, "materialized", "materialize")

\* The project the materializer works in holds the modules published so far.
ProjectBase == {<<deltas[n].epoch.knowledge, deltas[n].row>> : n \in 1..Len(deltas)}

Materialize(o) ==
  /\ pc[o] = "materialize"
  /\ Turn(o)
  /\ ProjectBase = entry[o].epoch.base
  /\ LeaveAt(o, "prepare")
  /\ UNCHANGED <<durable, entry>>

Preparation(o) == [row |-> entry[o].row, epoch |-> NextEpoch(entry[o].epoch, entry[o].row)]

Prepare(o) ==
  /\ pc[o] = "prepare"
  /\ Turn(o)
  /\ Row(o).owner = o
  /\ Row(o).state = "materialized"
  /\ \A p \in prepared : p.row = entry[o].row => p = Preparation(o)
  /\ prepared' = prepared \cup {Preparation(o)}
  /\ LeaveAt(o, "activate")
  /\ UNCHANGED <<queue, enqueued, deltas, epoch, entry>>

\* Mutant: publish trusts the entry in memory instead of the row.
PublishUnchecked(o) ==
  /\ pc[o] = "activate"
  /\ Turn(o)
  /\ Preparation(o) \in prepared
  /\ queue' = [queue EXCEPT ![entry[o].row] = Updated(entry[o].row, o, "published")]
  /\ deltas' = Append(deltas, [row |-> entry[o].row, previous |-> entry[o].epoch,
                               epoch |-> Preparation(o).epoch])
  /\ epoch' = Preparation(o).epoch
  /\ LetGo(o)
  /\ UNCHANGED <<enqueued, prepared>>

\* The module is activated; declaration, delta, epoch and row change in one
\* transaction.  The projection takes the epoch the delta carries.
Publish(o) ==
  /\ pc[o] = "activate"
  /\ Turn(o)
  /\ Row(o).owner = o
  /\ can_transition(Row(o).state, "published")
  /\ Preparation(o) \in prepared
  /\ queue' = [queue EXCEPT ![entry[o].row] = Updated(entry[o].row, o, "published")]
  /\ deltas' = Append(deltas, [row |-> entry[o].row, previous |-> entry[o].epoch,
                               epoch |-> Preparation(o).epoch])
  /\ epoch' = Preparation(o).epoch
  /\ LetGo(o)
  /\ UNCHANGED <<enqueued, prepared>>

\* Any exception, a rejected verification and a denied update included: the
\* row is quarantined if the service still holds it, else the error escapes.
Fail(o) ==
  /\ pc[o] \in Working
  /\ Turn(o)
  /\ \/ /\ Holds(o)
        /\ queue' = [queue EXCEPT ![entry[o].row] = Updated(entry[o].row, o, "quarantined")]
     \/ ~Holds(o) /\ UNCHANGED queue
  /\ LetGo(o)
  /\ UNCHANGED <<enqueued, prepared, deltas, epoch>>

\* CancelledError passes every handler, and so does an error while the
\* failure itself is being recorded: the row stays claimed.
Abandon(o) ==
  /\ pc[o] \in Working
  /\ Turn(o)
  /\ LetGo(o)
  /\ UNCHANGED durable

Crash ==
  /\ pc' = [o \in Owners |-> "idle"]
  /\ entry' = [o \in Owners |-> NoEntry]
  /\ UNCHANGED durable

-----------------------------------------------------------------------------
Service(o) ==
  \/ ClaimNext(o) \/ RecoverExpired(o) \/ Heartbeat(o) \/ Rebase(o) \/ BeginVerify(o)
  \/ VerifyAccepts(o) \/ StoreModule(o) \/ Materialize(o) \/ Prepare(o) \/ Publish(o)
  \/ Fail(o) \/ Abandon(o)

Environment ==
  \/ \E c \in Contributions, patch \in BOOLEAN, e \in KnownEpochs : Submit(c, patch, e)
  \/ \E i \in Rows : ClaimExpires(i)
  \/ Crash

Next == Environment \/ \E o \in Owners : Service(o)

Spec == Init /\ [][Next]_vars

-----------------------------------------------------------------------------
(* Properties.                                                             *)

\* Every variable has the type of the table, event or field it stands for.
TypeOK ==
  /\ queue \in [Rows -> RowRecords]
  /\ enqueued \in 0..MaxRows
  /\ prepared \subseteq PreparedEvents
  /\ deltas \in Seq(DeltaEvents)
  /\ epoch \in EpochPairs
  /\ pc \in [Owners -> Awaits \cup Working]
  /\ entry \in [Owners -> EntryRecords]

\* The queue is served one row at a time and in enqueue order, whoever
\* serves it: every row before one that was ever claimed is settled.
ServedInOrder ==
  \A i, j \in Rows :
    i < j /\ queue[j].state \notin {"none", "queued"} => queue[i].state \in Settled

\* A contribution and its rebased versions never have two unsettled or
\* published rows: what a worker submitted once is published at most once.
OneVersionCounts ==
  \A i, j \in 1..enqueued :
    /\ queue[i].source = queue[j].source
    /\ queue[i].state # "quarantined"
    /\ queue[j].state # "quarantined"
    => i = j

\* Recovery never meets a preparation that contradicts its own: the epoch a
\* live row was prepared for is still the one it would be published with.
PreparationStaysValid ==
  \A p \in prepared :
    queue[p.row].state \in Live => p.epoch = NextEpoch(epoch, p.row)

\* Readers see the abstract log: no row is published twice, and the epoch
\* projection, which takes whatever a delta carries, always counts the log,
\* through crashes, takeovers and late writers.
Log == INSTANCE KnowledgeLog WITH
  Entries <- Rows,
  log <- [n \in 1..Len(deltas) |-> deltas[n].row]

LogSpec == Log!Spec

\* A settled row is never touched again: not by a former owner whose claim
\* was taken over while it verified, and not by a recovery.
SettledIsFinal ==
  [][\A i \in Rows : queue[i].state \in Settled => queue'[i] = queue[i]]_vars

-----------------------------------------------------------------------------
(* The inductive strengthening: the shape of the queue, what a service     *)
(* that still holds its row knows, and what the events say of the rows.    *)

QueueInv ==
  \A i \in Rows :
    /\ queue[i].state = "none" <=> i > enqueued
    /\ queue[i].state \in {"none", "queued"} => queue[i].owner = NoOwner
    /\ queue[i].state \in Live => queue[i].owner # NoOwner

FamilyInv ==
  \A i \in 1..enqueued :
    \E j \in 1..enqueued : queue[j].parent = 0 /\ queue[j].source = queue[i].source

HolderInv ==
  \A o \in Owners :
    pc[o] # "idle" =>
      /\ entry[o].row \in 1..enqueued
      /\ Holds(o) => entry[o].epoch = epoch /\ entry[o].state = Row(o).state

EventInv ==
  /\ \A p \in prepared : queue[p.row].state \notin {"none", "queued"}
  /\ \A n \in 1..Len(deltas) : queue[deltas[n].row].state = "published"

\* Everything above, as one inductive invariant of the queue.
IInv ==
  /\ TypeOK
  /\ QueueInv
  /\ ServedInOrder
  /\ FamilyInv
  /\ OneVersionCounts
  /\ HolderInv
  /\ EventInv
  /\ PreparationStaysValid
=============================================================================
