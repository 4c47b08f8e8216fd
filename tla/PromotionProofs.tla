--------------------------- MODULE PromotionProofs ---------------------------
(***************************************************************************)
(* For every number of services, contributions and rows, the queue of      *)
(* Promotion is served in order, counts a contribution once, keeps its     *)
(* preparations valid and implements KnowledgeLog.  IInv is inductive: a   *)
(* step changes one live row, claims the first queued one, or appends one. *)
(*                                                                         *)
(* The hosts of PromotionConsumer are one such service; what they leave    *)
(* claimed stays so.                                                       *)
(***************************************************************************)
EXTENDS PromotionConsumer, TLAPS

(* The initial states satisfy the inductive invariant.                     *)
LEMMA InitIInv == Init => IInv
<1> SUFFICES ASSUME Init PROVE IInv
  OBVIOUS
<1>1. FirstEpoch \in EpochPairs
  BY DEF FirstEpoch, EpochPairs
<1>2. NoRow \in RowRecords
  BY <1>1 DEF NoRow, RowRecords, States
<1>3. NoEntry \in EntryRecords
  BY <1>1 DEF NoEntry, EntryRecords, States
<1>4. TypeOK
  BY <1>1, <1>2, <1>3, MaxRowsAssumption DEF Init, TypeOK, Awaits
<1>5. \A i \in Rows : queue[i].state = "none" /\ queue[i].owner = NoOwner
  BY DEF Init, NoRow
<1>6. QueueInv /\ ServedInOrder
  BY <1>5, MaxRowsAssumption DEF Init, QueueInv, ServedInOrder, Live, Rows
<1>7. FamilyInv /\ OneVersionCounts
  BY DEF Init, FamilyInv, OneVersionCounts
<1>8. HolderInv /\ EventInv /\ PreparationStaysValid
  BY DEF Init, HolderInv, EventInv, PreparationStaysValid
<1> QED
  BY <1>4, <1>6, <1>7, <1>8 DEF IInv

(* Two live rows are the same row.                                         *)
LEMMA OneLive ==
  ASSUME ServedInOrder, NEW i \in Rows, NEW j \in Rows,
         queue[i].state \in Live, queue[j].state \in Live
  PROVE  i = j
BY MaxRowsAssumption DEF ServedInOrder, Live, Settled, Rows

(* A step that changes one live row, and leaves it claimed or settled,     *)
(* keeps the shape of the queue.                                           *)
LEMMA LiveRowChanges ==
  ASSUME IInv, NEW i \in Rows, queue[i].state \in Live,
         queue'[i].state \in Live \cup Settled, queue'[i].owner # NoOwner,
         queue'[i].source = queue[i].source, queue'[i].parent = queue[i].parent,
         \A k \in Rows \ {i} : queue'[k] = queue[k], enqueued' = enqueued
  PROVE  QueueInv' /\ ServedInOrder' /\ FamilyInv' /\ OneVersionCounts'
<1> USE DEF IInv, TypeOK
<1>1. i \in 1..enqueued /\ 1..enqueued \subseteq Rows
  BY MaxRowsAssumption DEF QueueInv, Live, Rows
<1>2. QueueInv'
  BY <1>1, MaxRowsAssumption DEF QueueInv, Live, Settled, Rows
<1>3. ServedInOrder'
  BY <1>1, MaxRowsAssumption DEF ServedInOrder, Live, Settled
<1>4. FamilyInv'
  <2>1. \A k \in Rows : queue'[k].source = queue[k].source /\ queue'[k].parent = queue[k].parent
    OBVIOUS
  <2> SUFFICES ASSUME NEW k \in 1..enqueued
               PROVE  \E j \in 1..enqueued : /\ queue'[j].parent = 0
                                            /\ queue'[j].source = queue'[k].source
    BY DEF FamilyInv
  <2>2. PICK j \in 1..enqueued : queue[j].parent = 0 /\ queue[j].source = queue[k].source
    BY DEF FamilyInv
  <2> QED
    BY <1>1, <2>1, <2>2
<1>5. OneVersionCounts'
  BY <1>1 DEF OneVersionCounts, Live
<1> QED
  BY <1>2, <1>3, <1>4, <1>5

(* What a step does to the other services is only to take their row: what  *)
(* a service that still holds its row knows stays true.                    *)
LEMMA OthersKeep ==
  ASSUME IInv, NEW o \in Owners, NEW i \in Rows,
         queue'[i].owner = o, \A k \in Rows \ {i} : queue'[k] = queue[k],
         enqueued' = enqueued, epoch' = epoch,
         \A q \in Owners \ {o} : pc'[q] = pc[q] /\ entry'[q] = entry[q]
  PROVE  \A p \in Owners \ {o} :
           pc'[p] # "idle" =>
             /\ entry'[p].row \in 1..enqueued'
             /\ Holds(p)' => entry'[p].epoch = epoch' /\ entry'[p].state = Row(p)'.state
BY MaxRowsAssumption DEF IInv, TypeOK, HolderInv, Holds, Row, Rows

(* The row a working service refers to is a row of the queue.              *)
LEMMA WorkingRow ==
  ASSUME IInv, NEW o \in Owners, pc[o] # "idle"
  PROVE  entry[o].row \in Rows /\ entry[o].row \in 1..enqueued
BY MaxRowsAssumption DEF IInv, TypeOK, HolderInv, Rows

(* Where the services stand after one of them moved.                       *)
LEMMA ServiceTypes ==
  ASSUME TypeOK, NEW o \in Owners, NEW where \in Awaits \cup Working,
         NEW e \in EntryRecords, LeaveAt(o, where), entry' = [entry EXCEPT ![o] = e]
  PROVE  /\ pc' \in [Owners -> Awaits \cup Working]
         /\ entry' \in [Owners -> EntryRecords]
         /\ pc'[o] = where /\ entry'[o] = e
         /\ \A q \in Owners \ {o} : pc'[q] = pc[q] /\ entry'[q] = entry[q]
BY DEF TypeOK, LeaveAt

(* Services that let go of their entry are typed, and idle.                *)
LEMMA LetGoTypes ==
  ASSUME TypeOK, NEW o \in Owners, LetGo(o)
  PROVE  /\ pc' \in [Owners -> Awaits \cup Working]
         /\ entry' \in [Owners -> EntryRecords]
         /\ pc'[o] = "idle"
         /\ \A q \in Owners \ {o} : pc'[q] = pc[q] /\ entry'[q] = entry[q]
<1>1. NoEntry \in EntryRecords
  BY DEF NoEntry, FirstEpoch, EpochPairs, EntryRecords, States
<1> QED
  BY <1>1 DEF TypeOK, LetGo, LeaveAt, Awaits

(* What an update leaves of a row.                                         *)
LEMMA UpdatedRow ==
  ASSUME TypeOK, NEW i \in Rows, NEW o \in Owners, NEW s \in States
  PROVE  /\ Updated(i, o, s) \in RowRecords
         /\ Updated(i, o, s).state = s
         /\ Updated(i, o, s).owner = o
         /\ Updated(i, o, s).source = queue[i].source
         /\ Updated(i, o, s).parent = queue[i].parent
<1>1. queue[i] \in RowRecords
  BY DEF TypeOK
<1> QED
  BY <1>1 DEF RowRecords, Updated

(* One updated row, and no other, changes.                                 *)
LEMMA UpdatedQueue ==
  ASSUME TypeOK, NEW i \in Rows, NEW o \in Owners, NEW s \in States,
         queue' = [queue EXCEPT ![i] = Updated(i, o, s)]
  PROVE  /\ queue' \in [Rows -> RowRecords]
         /\ queue'[i] = Updated(i, o, s)
         /\ \A k \in Rows \ {i} : queue'[k] = queue[k]
<1>1. queue \in [Rows -> RowRecords] /\ Updated(i, o, s) \in RowRecords
  BY UpdatedRow DEF TypeOK
<1> QED
  BY <1>1

(* Events are about rows.                                                  *)
LEMMA EventRows ==
  ASSUME TypeOK
  PROVE  /\ \A q \in prepared : q.row \in Rows
         /\ \A n \in 1..Len(deltas) : deltas[n] \in DeltaEvents /\ deltas[n].row \in Rows
<1>1. prepared \subseteq PreparedEvents /\ deltas \in Seq(DeltaEvents)
  BY DEF TypeOK
<1>2. \A q \in prepared : q.row \in Rows
  BY <1>1 DEF PreparedEvents
<1>3. \A n \in 1..Len(deltas) : deltas[n] \in DeltaEvents
  BY <1>1
<1>4. \A d \in DeltaEvents : d.row \in Rows
  BY DEF DeltaEvents
<1> QED
  BY <1>2, <1>3, <1>4

(* A step of o on the live row it holds that publishes nothing: heartbeat, *)
(* advance and failure.                                                    *)
LEMMA HeldRowStep ==
  ASSUME IInv, NEW o \in Owners, pc[o] # "idle", Holds(o),
         NEW s \in Live \cup {"quarantined"},
         queue' = [queue EXCEPT ![entry[o].row] = Updated(entry[o].row, o, s)],
         enqueued' = enqueued, prepared' = prepared, deltas' = deltas, epoch' = epoch,
         \/ LetGo(o)
         \/ /\ \E where \in Awaits \cup Working : LeaveAt(o, where)
            /\ entry' = [entry EXCEPT ![o].state = s]
  PROVE  IInv'
<1> DEFINE i == entry[o].row
<1>0. TypeOK /\ entry[o] \in EntryRecords
  BY DEF IInv, TypeOK
<1>1. i \in Rows /\ i \in 1..enqueued
  BY WorkingRow
<1>2. queue[i].state \in Live /\ queue[i].owner = o /\ o # NoOwner
  BY NoOwnerAssumption DEF Holds, Row
<1>3. s \in States /\ s \in Live \cup Settled
  BY DEF States, Settled
<1> HIDE DEF i
<1>4. /\ queue' \in [Rows -> RowRecords]
      /\ queue'[i] = Updated(i, o, s)
      /\ \A k \in Rows \ {i} : queue'[k] = queue[k]
  BY <1>0, <1>1, <1>3, UpdatedQueue DEF i
<1>5. queue'[i].state = s /\ queue'[i].owner = o /\ queue'[i].source = queue[i].source
      /\ queue'[i].parent = queue[i].parent
  BY <1>0, <1>1, <1>3, <1>4, UpdatedRow
<1>6. /\ pc' \in [Owners -> Awaits \cup Working]
      /\ entry' \in [Owners -> EntryRecords]
      /\ \A q \in Owners \ {o} : pc'[q] = pc[q] /\ entry'[q] = entry[q]
      /\ pc'[o] # "idle" => entry'[o] = [entry[o] EXCEPT !.state = s]
  <2>1. CASE LetGo(o)
    BY <1>0, <2>1, LetGoTypes
  <2>2. CASE /\ \E where \in Awaits \cup Working : LeaveAt(o, where)
             /\ entry' = [entry EXCEPT ![o].state = s]
    <3>1. PICK where \in Awaits \cup Working : LeaveAt(o, where)
      BY <2>2
    <3>2. [entry[o] EXCEPT !.state = s] \in EntryRecords
      BY <1>0, <1>3 DEF EntryRecords
    <3>3. entry' = [entry EXCEPT ![o] = [entry[o] EXCEPT !.state = s]]
      BY <2>2, <1>0 DEF TypeOK
    <3> QED
      BY <1>0, <3>1, <3>2, <3>3, ServiceTypes
  <2> QED
    BY <2>1, <2>2
<1>7. QueueInv' /\ ServedInOrder' /\ FamilyInv' /\ OneVersionCounts'
  BY <1>1, <1>2, <1>3, <1>4, <1>5, LiveRowChanges
<1>8. TypeOK'
  BY <1>4, <1>6 DEF IInv, TypeOK
<1>9. HolderInv'
  <2>1. \A p \in Owners \ {o} :
          pc'[p] # "idle" =>
            /\ entry'[p].row \in 1..enqueued'
            /\ Holds(p)' => entry'[p].epoch = epoch' /\ entry'[p].state = Row(p)'.state
    BY <1>1, <1>4, <1>5, <1>6, OthersKeep
  <2>2. ASSUME pc'[o] # "idle"
        PROVE  entry'[o].row = i /\ entry'[o].epoch = epoch /\ entry'[o].state = s
    BY <1>0, <1>6, <2>2 DEF i, IInv, HolderInv, EntryRecords
  <2> QED
    BY <1>1, <1>5, <2>1, <2>2 DEF HolderInv, Row
<1>10. EventInv' /\ PreparationStaysValid'
  <2>1. \A k \in Rows : queue'[k].state # queue[k].state => k = i
    BY <1>4
  <2>2. \A q \in prepared : q.row \in Rows
    BY <1>0, EventRows
  <2>3. \A n \in 1..Len(deltas) : deltas[n].row \in Rows
    BY <1>0, EventRows
  <2>4. EventInv'
    <3>1. queue'[i].state \notin {"none", "queued"} /\ queue[i].state # "published"
      BY <1>2, <1>5 DEF Live
    <3>2. \A q \in prepared : queue'[q.row].state \notin {"none", "queued"}
      BY <2>1, <2>2, <3>1 DEF IInv, EventInv
    <3>3. \A n \in 1..Len(deltas) : queue'[deltas[n].row].state = "published"
      BY <2>1, <2>3, <3>1 DEF IInv, EventInv
    <3> QED
      BY <3>2, <3>3 DEF EventInv
  <2>5. PreparationStaysValid'
    BY <1>2, <2>1, <2>2 DEF IInv, PreparationStaysValid
  <2> QED
    BY <2>4, <2>5
<1> QED
  BY <1>7, <1>8, <1>9, <1>10 DEF IInv

(* Services that only move, or let go, while the store stays as it is.     *)
LEMMA ServiceMoves ==
  ASSUME IInv, NEW o \in Owners, UNCHANGED durable, pc[o] # "idle",
         \/ LetGo(o)
         \/ (\E where \in Awaits \cup Working : LeaveAt(o, where)) /\ entry' = entry
  PROVE  IInv'
<1>0. TypeOK
  BY DEF IInv
<1>1. /\ pc' \in [Owners -> Awaits \cup Working]
      /\ entry' \in [Owners -> EntryRecords]
      /\ \A q \in Owners : pc'[q] # "idle" => pc[q] # "idle" /\ entry'[q] = entry[q]
  <2>1. CASE LetGo(o)
    BY <1>0, <2>1, LetGoTypes
  <2>2. CASE (\E where \in Awaits \cup Working : LeaveAt(o, where)) /\ entry' = entry
    BY <1>0, <2>2 DEF LeaveAt, TypeOK
  <2> QED
    BY <2>1, <2>2
<1>2. queue' = queue /\ enqueued' = enqueued /\ prepared' = prepared /\ deltas' = deltas
      /\ epoch' = epoch
  BY DEF durable
<1>3. TypeOK'
  BY <1>0, <1>1, <1>2 DEF TypeOK
<1>4. QueueInv' /\ ServedInOrder' /\ FamilyInv' /\ OneVersionCounts' /\ EventInv'
      /\ PreparationStaysValid'
  BY <1>2 DEF IInv, QueueInv, ServedInOrder, FamilyInv, OneVersionCounts, EventInv,
              PreparationStaysValid
<1>5. HolderInv'
  BY <1>1, <1>2 DEF IInv, HolderInv, Holds, Row
<1> QED
  BY <1>3, <1>4, <1>5 DEF IInv

(* A row is taken: the first queued one when none is live, or a live one   *)
(* whose claim has expired.                                                *)
LEMMA TakeStep ==
  ASSUME IInv, NEW o \in Owners, pc[o] = "idle", NEW i \in Rows, NEW s \in Live,
         Take(o, i, s),
         \/ /\ queue[i].state = "queued"
            /\ \A j \in Rows : ~Claimed(j)
            /\ \A j \in Rows : queue[j].state = "queued" => i <= j
         \/ queue[i].state = s
  PROVE  IInv'
<1>0. TypeOK /\ QueueInv /\ s \in States /\ o # NoOwner /\ epoch \in EpochPairs
  BY NoOwnerAssumption DEF IInv, TypeOK, States
<1>1. i \in 1..enqueued
  BY <1>0, MaxRowsAssumption DEF QueueInv, Live, Rows, TypeOK
<1>2. /\ queue' \in [Rows -> RowRecords]
      /\ queue'[i] = Updated(i, o, s)
      /\ \A k \in Rows \ {i} : queue'[k] = queue[k]
  BY <1>0, UpdatedQueue DEF Take
<1>3. queue'[i].state = s /\ queue'[i].owner = o /\ queue'[i].source = queue[i].source
      /\ queue'[i].parent = queue[i].parent
  BY <1>0, <1>2, UpdatedRow
<1>4. enqueued' = enqueued /\ prepared' = prepared /\ deltas' = deltas /\ epoch' = epoch
  BY DEF Take
<1>5. /\ pc' \in [Owners -> Awaits \cup Working]
      /\ entry' \in [Owners -> EntryRecords]
      /\ pc'[o] = "claimed" /\ entry'[o] = [row |-> i, state |-> s, epoch |-> epoch]
      /\ \A q \in Owners \ {o} : pc'[q] = pc[q] /\ entry'[q] = entry[q]
  <2>1. [row |-> i, state |-> s, epoch |-> epoch] \in EntryRecords
    BY <1>0 DEF EntryRecords
  <2>2. "claimed" \in Awaits \cup Working
    BY DEF Working
  <2> QED
    BY <1>0, <2>1, <2>2, ServiceTypes DEF Take
<1>6. TypeOK'
  BY <1>0, <1>2, <1>4, <1>5 DEF TypeOK
<1>7. QueueInv' /\ ServedInOrder' /\ FamilyInv' /\ OneVersionCounts'
  <2>1. CASE queue[i].state = s
    BY <1>0, <1>2, <1>3, <1>4, <2>1, LiveRowChanges
  <2>2. CASE /\ queue[i].state = "queued"
             /\ \A j \in Rows : ~Claimed(j)
             /\ \A j \in Rows : queue[j].state = "queued" => i <= j
    <3>1. \A j \in Rows : queue[j].state \notin Live
      BY <1>0, <2>2 DEF Claimed, QueueInv
    <3>2. \A j \in Rows : j < i => queue[j].state \in Settled
      <4> SUFFICES ASSUME NEW j \in Rows, j < i PROVE queue[j].state \in Settled
        OBVIOUS
      <4>1. queue[j].state # "queued" /\ queue[j].state # "none"
        BY <1>0, <1>1, <2>2, MaxRowsAssumption DEF QueueInv, Rows, TypeOK
      <4>2. queue[j].state \in States
        BY <1>0 DEF TypeOK, RowRecords
      <4> QED
        BY <3>1, <4>1, <4>2 DEF States
    <3>3. \A j \in Rows : i < j => queue[j].state \in {"none", "queued"}
      BY <2>2 DEF IInv, ServedInOrder, Settled
    <3>4. QueueInv'
      BY <1>0, <1>1, <1>2, <1>3, <1>4, MaxRowsAssumption DEF QueueInv, Live, Rows, TypeOK
    <3>5. ServedInOrder'
      <4> SUFFICES ASSUME NEW j \in Rows, NEW k \in Rows, j < k,
                          queue'[k].state \notin {"none", "queued"}
                   PROVE  queue'[j].state \in Settled
        BY DEF ServedInOrder
      <4>1. k <= i
        BY <1>2, <3>3, MaxRowsAssumption DEF Rows
      <4>2. j # i /\ j < i
        BY <4>1, MaxRowsAssumption DEF Rows
      <4> QED
        BY <1>2, <3>2, <4>2
    <3>6. 1..enqueued \subseteq Rows
      BY <1>0, MaxRowsAssumption DEF TypeOK, Rows
    <3>7. \A k \in Rows : queue'[k].source = queue[k].source /\ queue'[k].parent = queue[k].parent
      BY <1>2, <1>3
    <3>8. FamilyInv'
      BY <1>4, <3>6, <3>7 DEF IInv, FamilyInv
    <3>9. \A k \in Rows : queue'[k].state = "quarantined" <=> queue[k].state = "quarantined"
      BY <1>2, <1>3, <2>2 DEF Live
    <3>10. OneVersionCounts'
      BY <1>4, <3>6, <3>7, <3>9 DEF IInv, OneVersionCounts
    <3> QED
      BY <3>4, <3>5, <3>8, <3>10
  <2> QED
    BY <2>1, <2>2
<1>8. HolderInv'
  <2>1. \A p \in Owners \ {o} :
          pc'[p] # "idle" =>
            /\ entry'[p].row \in 1..enqueued'
            /\ Holds(p)' => entry'[p].epoch = epoch' /\ entry'[p].state = Row(p)'.state
    BY <1>2, <1>3, <1>4, <1>5, OthersKeep
  <2> QED
    BY <1>1, <1>3, <1>4, <1>5, <2>1 DEF HolderInv, Row
<1>9. EventInv' /\ PreparationStaysValid'
  <2>1. \A q \in prepared : q.row \in Rows
    BY <1>0, EventRows
  <2>2. \A n \in 1..Len(deltas) : deltas[n].row \in Rows
    BY <1>0, EventRows
  <2>3. queue[i].state \in Live \cup {"queued"} /\ s \in Live
    OBVIOUS
  <2>4. queue'[i].state \notin {"none", "queued"} /\ queue[i].state # "published"
    BY <1>3, <2>3 DEF Live
  <2>5. \A q \in prepared : queue'[q.row].state \notin {"none", "queued"}
    BY <1>2, <2>1, <2>4 DEF IInv, EventInv
  <2>6. \A n \in 1..Len(deltas) : queue'[deltas[n].row].state = "published"
    BY <1>2, <2>2, <2>4 DEF IInv, EventInv
  <2>7. \A q \in prepared : q.row = i => queue[i].state \in Live
    BY <2>3 DEF IInv, EventInv
  <2>8. PreparationStaysValid'
    BY <1>2, <1>3, <1>4, <2>1, <2>7 DEF IInv, PreparationStaysValid
  <2> QED
    BY <1>4, <2>5, <2>6, <2>8 DEF EventInv
<1> QED
  BY <1>6, <1>7, <1>8, <1>9 DEF IInv

(* A claim that expires is still a claim.                                  *)
LEMMA ExpiryStep ==
  ASSUME IInv, NEW i \in Rows, ClaimExpires(i)
  PROVE  IInv'
<1>0. TypeOK /\ queue[i] \in RowRecords /\ queue \in [Rows -> RowRecords]
  BY DEF IInv, TypeOK
<1>1. /\ queue' = [queue EXCEPT ![i] = [queue[i] EXCEPT !.fresh = FALSE]]
      /\ [queue[i] EXCEPT !.fresh = FALSE] \in RowRecords
  BY <1>0 DEF ClaimExpires, RowRecords
<1>2. /\ queue' \in [Rows -> RowRecords]
      /\ \A k \in Rows : /\ queue'[k].state = queue[k].state
                         /\ queue'[k].owner = queue[k].owner
                         /\ queue'[k].source = queue[k].source
                         /\ queue'[k].parent = queue[k].parent
      /\ \A k \in Rows \ {i} : queue'[k] = queue[k]
  BY <1>0, <1>1 DEF RowRecords
<1>3. /\ enqueued' = enqueued /\ prepared' = prepared /\ deltas' = deltas
      /\ epoch' = epoch /\ pc' = pc /\ entry' = entry
  BY DEF ClaimExpires
<1>4. TypeOK'
  BY <1>0, <1>2, <1>3 DEF TypeOK
<1>5. QueueInv' /\ ServedInOrder' /\ FamilyInv' /\ OneVersionCounts'
  <2>1. queue[i].state \in Live /\ queue[i].owner # NoOwner
    BY DEF ClaimExpires, Claimed
  <2> QED
    BY <1>2, <1>3, <2>1, LiveRowChanges
<1>6. HolderInv'
  BY <1>2, <1>3, WorkingRow DEF IInv, HolderInv, Holds, Row
<1>7. EventInv' /\ PreparationStaysValid'
  BY <1>0, <1>2, <1>3, EventRows DEF IInv, EventInv, PreparationStaysValid
<1> QED
  BY <1>4, <1>5, <1>6, <1>7 DEF IInv

(* A submission is one more queued row, of a contribution that has none.   *)
LEMMA SubmitStep ==
  ASSUME IInv, NEW c \in Contributions, NEW patch \in BOOLEAN, NEW e \in KnownEpochs,
         Submit(c, patch, e)
  PROVE  IInv'
<1> DEFINE n == enqueued + 1
           r == [NoRow EXCEPT !.source = c, !.patch = patch, !.epoch = e, !.state = "queued"]
<1>0. TypeOK /\ QueueInv
  BY DEF IInv
<1>1. n \in Rows /\ n \notin 1..enqueued /\ 1..enqueued \subseteq Rows /\ 1..n = 1..enqueued \cup {n}
      /\ enqueued \in Nat /\ n \in 0..MaxRows
  BY <1>0, MaxRowsAssumption DEF Submit, TypeOK, Rows
<1>2. e \in EpochPairs
  <2>1. \A k \in 1..Len(deltas) : deltas[k].previous \in EpochPairs
    BY <1>0, EventRows DEF DeltaEvents
  <2> QED
    BY <1>0, <2>1 DEF KnownEpochs, TypeOK
<1>3. r \in RowRecords /\ r.state = "queued" /\ r.owner = NoOwner /\ r.source = c /\ r.parent = 0
  BY <1>2 DEF NoRow, RowRecords, States
<1> HIDE DEF r, n
<1>4. /\ queue' \in [Rows -> RowRecords]
      /\ queue'[n] = r
      /\ \A k \in Rows \ {n} : queue'[k] = queue[k]
      /\ enqueued' = n
  BY <1>0, <1>1, <1>3 DEF Submit, TypeOK, n, r
<1>5. /\ prepared' = prepared /\ deltas' = deltas /\ epoch' = epoch /\ pc' = pc
      /\ entry' = entry
  BY DEF Submit
<1>6. TypeOK'
  BY <1>0, <1>1, <1>4, <1>5 DEF TypeOK
<1>7. queue[n].state = "none"
  BY <1>0, <1>1, MaxRowsAssumption DEF QueueInv, Rows, n
<1>8. QueueInv'
  BY <1>0, <1>1, <1>3, <1>4, MaxRowsAssumption DEF QueueInv, Rows, Live, n
<1>9. ServedInOrder'
  <2>1. \A k \in Rows : queue'[k].state \notin {"none", "queued"} => k # n
    BY <1>3, <1>4
  <2> QED
    BY <1>4, <1>7, <2>1 DEF IInv, ServedInOrder, Settled
<1>10. \A k \in 1..enqueued : queue[k].source # c
  BY DEF Submit, IInv, FamilyInv
<1>11. FamilyInv'
  <2> SUFFICES ASSUME NEW k \in 1..n
               PROVE  \E j \in 1..n : queue'[j].parent = 0 /\ queue'[j].source = queue'[k].source
    BY <1>4 DEF FamilyInv
  <2>1. CASE k = n
    BY <1>1, <1>3, <1>4, <2>1
  <2>2. CASE k \in 1..enqueued
    <3>1. PICK j \in 1..enqueued : queue[j].parent = 0 /\ queue[j].source = queue[k].source
      BY <2>2 DEF IInv, FamilyInv
    <3>2. queue'[j] = queue[j] /\ queue'[k] = queue[k] /\ j \in 1..n
      BY <1>1, <1>4, <2>2
    <3> QED
      BY <3>1, <3>2
  <2> QED
    BY <1>1, <2>1, <2>2
<1>12. OneVersionCounts'
  BY <1>1, <1>3, <1>4, <1>10 DEF IInv, OneVersionCounts
<1>13. HolderInv'
  <2> SUFFICES ASSUME NEW o \in Owners, pc[o] # "idle"
               PROVE  /\ entry[o].row \in 1..enqueued'
                      /\ Holds(o)' => entry[o].epoch = epoch /\ entry[o].state = Row(o)'.state
    BY <1>5 DEF HolderInv
  <2>1. entry[o].row \in 1..enqueued /\ entry[o].row \in Rows
    BY WorkingRow
  <2>2. queue'[entry[o].row] = queue[entry[o].row]
    BY <1>1, <1>4, <2>1
  <2> QED
    BY <1>1, <1>4, <1>5, <2>1, <2>2 DEF IInv, HolderInv, Holds, Row
<1>14. EventInv' /\ PreparationStaysValid'
  <2>1. \A q \in prepared : q.row \in Rows /\ q.row # n
    BY <1>0, <1>7, EventRows DEF IInv, EventInv
  <2>2. \A k \in 1..Len(deltas) : deltas[k].row \in Rows /\ deltas[k].row # n
    BY <1>0, <1>7, EventRows DEF IInv, EventInv
  <2> QED
    BY <1>4, <1>5, <2>1, <2>2 DEF IInv, EventInv, PreparationStaysValid
<1> QED
  BY <1>6, <1>8, <1>9, <1>11, <1>12, <1>13, <1>14 DEF IInv

(* A rebase quarantines the live row o holds and queues its successor.     *)
LEMMA RebaseStep ==
  ASSUME IInv, NEW o \in Owners, Rebase(o)
  PROVE  IInv'
<1> DEFINE i == entry[o].row
           n == enqueued + 1
           r == [NoRow EXCEPT !.source = Row(o).source, !.parent = i, !.patch = Row(o).patch,
                              !.epoch = entry[o].epoch, !.state = "queued"]
<1>0. TypeOK /\ QueueInv /\ pc[o] # "idle"
  BY DEF IInv, Rebase
<1>1. n \in Rows /\ n \notin 1..enqueued /\ 1..enqueued \subseteq Rows /\ 1..n = 1..enqueued \cup {n}
      /\ enqueued \in Nat /\ n \in 0..MaxRows
  BY <1>0, MaxRowsAssumption DEF Rebase, TypeOK, Rows
<1>2. i \in Rows /\ i \in 1..enqueued /\ i # n
  BY <1>0, <1>1, WorkingRow
<1>3. queue[i].state \in Live /\ queue[i].owner = o /\ o # NoOwner
  BY NoOwnerAssumption DEF Rebase, Holds, Row
<1>4. /\ r \in RowRecords /\ r.state = "queued" /\ r.owner = NoOwner
      /\ r.source = queue[i].source /\ r.parent = i
  <2>1. queue[i].source \in Contributions \cup {"none"} /\ queue[i].patch \in BOOLEAN
    BY <1>0, <1>2 DEF TypeOK, RowRecords
  <2>2. entry[o].epoch \in EpochPairs
    BY <1>0 DEF TypeOK, EntryRecords
  <2> QED
    BY <1>2, <2>1, <2>2 DEF NoRow, RowRecords, States, Row
<1>5. "quarantined" \in States
  BY DEF States, Settled
<1>6. queue' = [queue EXCEPT ![i] = Updated(i, o, "quarantined"), ![n] = r]
      /\ enqueued' = n
  BY DEF Rebase
<1> HIDE DEF r, n, i
<1>7. /\ Updated(i, o, "quarantined") \in RowRecords
      /\ Updated(i, o, "quarantined").state = "quarantined"
      /\ Updated(i, o, "quarantined").owner = o
      /\ Updated(i, o, "quarantined").source = queue[i].source
      /\ Updated(i, o, "quarantined").parent = queue[i].parent
  BY <1>0, <1>2, <1>5, UpdatedRow
<1>8. /\ queue' \in [Rows -> RowRecords]
      /\ queue'[n] = r
      /\ queue'[i] = Updated(i, o, "quarantined")
      /\ \A k \in Rows \ {n, i} : queue'[k] = queue[k]
  BY <1>0, <1>1, <1>2, <1>4, <1>6, <1>7 DEF TypeOK
<1>9. prepared' = prepared /\ deltas' = deltas /\ epoch' = epoch /\ LetGo(o)
  BY DEF Rebase
<1>10. /\ pc' \in [Owners -> Awaits \cup Working]
       /\ entry' \in [Owners -> EntryRecords]
       /\ pc'[o] = "idle"
       /\ \A q \in Owners \ {o} : pc'[q] = pc[q] /\ entry'[q] = entry[q]
  BY <1>0, <1>9, LetGoTypes
<1>11. TypeOK'
  BY <1>0, <1>1, <1>6, <1>8, <1>9, <1>10 DEF TypeOK
<1>12. queue[n].state = "none"
  BY <1>0, <1>1, MaxRowsAssumption DEF QueueInv, Rows, n
<1>13. QueueInv'
  BY <1>0, <1>1, <1>2, <1>3, <1>4, <1>6, <1>7, <1>8, MaxRowsAssumption
     DEF QueueInv, Rows, Live, n
<1>14. ServedInOrder'
  <2>1. \A k \in Rows : queue'[k].state \notin {"none", "queued"} =>
                          k # n /\ queue[k].state \notin {"none", "queued"}
    BY <1>3, <1>4, <1>8 DEF Live
  <2>2. \A k \in Rows : queue[k].state \in Settled => queue'[k].state \in Settled
    BY <1>3, <1>7, <1>8, <1>12 DEF Settled, Live
  <2> QED
    BY <2>1, <2>2 DEF IInv, ServedInOrder
<1>15. \A k \in Rows \ {n} : queue'[k].source = queue[k].source /\ queue'[k].parent = queue[k].parent
  BY <1>7, <1>8
<1>16. FamilyInv'
  <2>1. \A k \in 1..enqueued : \E j \in 1..enqueued :
          queue'[j].parent = 0 /\ queue'[j].source = queue[k].source
    <3> TAKE k \in 1..enqueued
    <3>1. PICK j \in 1..enqueued : queue[j].parent = 0 /\ queue[j].source = queue[k].source
      BY DEF IInv, FamilyInv
    <3> QED
      BY <1>1, <1>15, <3>1
  <2> SUFFICES ASSUME NEW k \in 1..n
               PROVE  \E j \in 1..n : queue'[j].parent = 0 /\ queue'[j].source = queue'[k].source
    BY <1>6 DEF FamilyInv
  <2>2. CASE k = n
    BY <1>1, <1>2, <1>4, <1>8, <2>1, <2>2
  <2>3. CASE k \in 1..enqueued
    BY <1>1, <1>15, <2>1, <2>3
  <2> QED
    BY <1>1, <2>2, <2>3
<1>17. OneVersionCounts'
  <2> SUFFICES ASSUME NEW k \in 1..n, NEW j \in 1..n,
                      queue'[k].source = queue'[j].source,
                      queue'[k].state # "quarantined", queue'[j].state # "quarantined"
               PROVE  k = j
    BY <1>6 DEF OneVersionCounts
  <2>1. k # i /\ j # i
    BY <1>7, <1>8
  <2>2. queue[i].state # "quarantined"
    BY <1>3 DEF Live
  <2>3. \A m \in 1..enqueued : m # i /\ queue'[m].state # "quarantined"
                                 => queue'[m].source # queue[i].source
    BY <1>1, <1>2, <1>8, <2>2 DEF IInv, OneVersionCounts
  <2>4. CASE k = n \/ j = n
    BY <1>1, <1>4, <1>8, <2>1, <2>3, <2>4
  <2>5. CASE k # n /\ j # n
    BY <1>1, <1>8, <2>1, <2>5 DEF IInv, OneVersionCounts
  <2> QED
    BY <2>4, <2>5
<1>18. HolderInv'
  <2> SUFFICES ASSUME NEW p \in Owners, pc'[p] # "idle"
               PROVE  /\ entry'[p].row \in 1..enqueued'
                      /\ Holds(p)' => entry'[p].epoch = epoch' /\ entry'[p].state = Row(p)'.state
    BY DEF HolderInv
  <2>1. p # o /\ pc[p] # "idle" /\ entry'[p] = entry[p]
    BY <1>10
  <2>2. entry[p].row \in 1..enqueued /\ entry[p].row \in Rows
    BY <2>1, WorkingRow
  <2>3. CASE entry[p].row = i
    BY <1>1, <1>2, <1>6, <1>7, <1>8, <2>1, <2>2, <2>3 DEF Holds, Row
  <2>4. CASE entry[p].row # i
    BY <1>1, <1>6, <1>8, <1>9, <2>1, <2>2, <2>4 DEF IInv, HolderInv, Holds, Row
  <2> QED
    BY <2>3, <2>4
<1>19. EventInv' /\ PreparationStaysValid'
  <2>1. \A q \in prepared : q.row \in Rows /\ q.row # n
    BY <1>0, <1>12, EventRows DEF IInv, EventInv
  <2>2. \A k \in 1..Len(deltas) : deltas[k].row \in Rows /\ deltas[k].row # n /\ deltas[k].row # i
    BY <1>0, <1>3, <1>12, EventRows DEF IInv, EventInv, Live
  <2>3. \A q \in prepared : queue'[q.row].state \notin {"none", "queued"}
    BY <1>7, <1>8, <2>1 DEF IInv, EventInv
  <2>4. \A k \in 1..Len(deltas) : queue'[deltas[k].row].state = "published"
    BY <1>8, <2>2 DEF IInv, EventInv
  <2>5. PreparationStaysValid'
    BY <1>3, <1>8, <1>9, <2>1 DEF IInv, PreparationStaysValid
  <2> QED
    BY <1>9, <2>3, <2>4, <2>5 DEF EventInv
<1> QED
  BY <1>11, <1>13, <1>14, <1>16, <1>17, <1>18, <1>19 DEF IInv

(* The epoch a row would be published with is an epoch.                    *)
LEMMA NextEpochType ==
  ASSUME NEW e \in EpochPairs, NEW i \in Rows
  PROVE  NextEpoch(e, i) \in EpochPairs
<1>1. e.base \subseteq Modules /\ e.knowledge \in Nat
  BY DEF EpochPairs
<1>2. <<e.knowledge + 1, i>> \in Modules
  BY <1>1 DEF Modules
<1> QED
  BY <1>1, <1>2 DEF NextEpoch, EpochPairs

(* What a working service would prepare.                                   *)
LEMMA PreparationType ==
  ASSUME IInv, NEW o \in Owners, pc[o] # "idle"
  PROVE  /\ Preparation(o) \in PreparedEvents
         /\ Preparation(o).row = entry[o].row
         /\ Preparation(o).epoch = NextEpoch(entry[o].epoch, entry[o].row)
         /\ entry[o].epoch \in EpochPairs
<1>1. entry[o] \in EntryRecords /\ entry[o].row \in Rows
  BY WorkingRow DEF IInv, TypeOK
<1>2. entry[o].epoch \in EpochPairs
  BY <1>1 DEF EntryRecords
<1>3. NextEpoch(entry[o].epoch, entry[o].row) \in EpochPairs
  BY <1>1, <1>2, NextEpochType
<1> QED
  BY <1>1, <1>2, <1>3 DEF Preparation, PreparedEvents

(* A preparation is recorded for the epoch the holder knows is current.    *)
LEMMA PrepareStep ==
  ASSUME IInv, NEW o \in Owners, Prepare(o)
  PROVE  IInv'
<1>0. TypeOK /\ pc[o] # "idle"
  BY DEF IInv, Prepare
<1>1. /\ queue' = queue /\ enqueued' = enqueued /\ deltas' = deltas /\ epoch' = epoch
      /\ entry' = entry /\ prepared' = prepared \cup {Preparation(o)}
  BY DEF Prepare
<1>2. /\ Preparation(o) \in PreparedEvents
      /\ Preparation(o).row = entry[o].row
      /\ Preparation(o).epoch = NextEpoch(entry[o].epoch, entry[o].row)
  BY <1>0, PreparationType
<1>3. queue[entry[o].row].state = "materialized" /\ entry[o].epoch = epoch
  BY <1>0 DEF Prepare, IInv, HolderInv, Holds, Row, Live
<1>4. pc' \in [Owners -> Awaits \cup Working]
      /\ \A q \in Owners : pc'[q] # "idle" => pc[q] # "idle"
  BY <1>0 DEF Prepare, LeaveAt, TypeOK, Awaits
<1>5. TypeOK'
  BY <1>0, <1>1, <1>2, <1>4 DEF TypeOK
<1>6. QueueInv' /\ ServedInOrder' /\ FamilyInv' /\ OneVersionCounts'
  BY <1>1 DEF IInv, QueueInv, ServedInOrder, FamilyInv, OneVersionCounts
<1>7. HolderInv'
  BY <1>1, <1>4 DEF IInv, HolderInv, Holds, Row
<1>8. EventInv'
  BY <1>1, <1>2, <1>3 DEF IInv, EventInv
<1>9. PreparationStaysValid'
  BY <1>1, <1>2, <1>3 DEF IInv, PreparationStaysValid
<1> QED
  BY <1>5, <1>6, <1>7, <1>8, <1>9 DEF IInv

(* What a publication does: the live row becomes published, one delta is   *)
(* appended, and the epoch is the one after the current epoch.             *)
LEMMA PublishFacts ==
  ASSUME IInv, NEW o \in Owners, Publish(o)
  PROVE  /\ entry[o].row \in Rows
         /\ queue[entry[o].row].state = "materialized"
         /\ queue' \in [Rows -> RowRecords]
         /\ queue'[entry[o].row] = Updated(entry[o].row, o, "published")
         /\ \A k \in Rows \ {entry[o].row} : queue'[k] = queue[k]
         /\ epoch' = NextEpoch(epoch, entry[o].row)
         /\ epoch' \in EpochPairs
         /\ \E d \in DeltaEvents : d.row = entry[o].row /\ deltas' = Append(deltas, d)
<1> DEFINE i == entry[o].row
           d == [row |-> i, previous |-> entry[o].epoch, epoch |-> Preparation(o).epoch]
<1>0. TypeOK /\ pc[o] # "idle" /\ "published" \in States
  BY DEF IInv, Publish, States, Settled
<1>1. i \in Rows
  BY <1>0, WorkingRow
<1>2. queue[i].state = "materialized" /\ queue[i].owner = o
  BY DEF Publish, can_transition, Row
<1>3. entry[o].epoch = epoch
  BY <1>0, <1>2 DEF IInv, HolderInv, Holds, Row, Live
<1>4. /\ Preparation(o).epoch = NextEpoch(entry[o].epoch, i)
      /\ entry[o].epoch \in EpochPairs
  BY <1>0, PreparationType
<1>5. NextEpoch(entry[o].epoch, i) \in EpochPairs
  BY <1>1, <1>4, NextEpochType
<1>6. d \in DeltaEvents /\ d.row = i
  BY <1>1, <1>4, <1>5 DEF DeltaEvents
<1>7. queue' = [queue EXCEPT ![i] = Updated(i, o, "published")]
      /\ deltas' = Append(deltas, d) /\ epoch' = Preparation(o).epoch
  BY DEF Publish
<1> HIDE DEF d, i
<1>8. /\ queue' \in [Rows -> RowRecords]
      /\ queue'[i] = Updated(i, o, "published")
      /\ \A k \in Rows \ {i} : queue'[k] = queue[k]
  BY <1>0, <1>1, <1>7, UpdatedQueue
<1> QED
  BY <1>1, <1>2, <1>3, <1>4, <1>5, <1>6, <1>7, <1>8 DEF i

(* A publication settles the only live row, so that no other preparation   *)
(* and no other holder is left with the previous epoch.                    *)
LEMMA PublishStep ==
  ASSUME IInv, NEW o \in Owners, Publish(o)
  PROVE  IInv'
<1> DEFINE i == entry[o].row
<1>0. TypeOK /\ pc[o] # "idle" /\ "published" \in States /\ o # NoOwner
      /\ prepared' = prepared /\ enqueued' = enqueued /\ LetGo(o)
  BY NoOwnerAssumption DEF IInv, Publish, States, Settled
<1>1. /\ i \in Rows
      /\ queue[i].state = "materialized"
      /\ queue' \in [Rows -> RowRecords]
      /\ queue'[i] = Updated(i, o, "published")
      /\ \A k \in Rows \ {i} : queue'[k] = queue[k]
      /\ epoch' \in EpochPairs
      /\ \E d \in DeltaEvents : d.row = i /\ deltas' = Append(deltas, d)
  BY PublishFacts
<1>2. PICK d \in DeltaEvents : d.row = i /\ deltas' = Append(deltas, d)
  BY <1>1
<1> HIDE DEF i
<1>3. queue'[i].state = "published" /\ queue'[i].owner = o
      /\ queue'[i].source = queue[i].source /\ queue'[i].parent = queue[i].parent
  BY <1>0, <1>1, UpdatedRow
<1>4. /\ deltas' \in Seq(DeltaEvents)
      /\ Len(deltas') = Len(deltas) + 1 /\ Len(deltas) \in Nat
      /\ deltas'[Len(deltas) + 1] = d
      /\ \A n \in 1..Len(deltas) : deltas'[n] = deltas[n]
  BY <1>0, <1>2 DEF TypeOK
<1>5. /\ pc' \in [Owners -> Awaits \cup Working]
      /\ entry' \in [Owners -> EntryRecords]
      /\ pc'[o] = "idle"
      /\ \A q \in Owners \ {o} : pc'[q] = pc[q] /\ entry'[q] = entry[q]
  BY <1>0, LetGoTypes
<1>6. TypeOK'
  BY <1>0, <1>1, <1>4, <1>5 DEF TypeOK
<1>7. QueueInv' /\ ServedInOrder' /\ FamilyInv' /\ OneVersionCounts'
  BY <1>0, <1>1, <1>3, LiveRowChanges DEF Live, Settled
<1>8. \A k \in Rows : queue'[k].state \notin Live
  <2>1. queue[i].state \in Live
    BY <1>1 DEF Live
  <2>2. \A k \in Rows \ {i} : queue[k].state \notin Live
    BY <1>1, <2>1, OneLive DEF IInv
  <2> QED
    BY <1>1, <1>3, <2>2 DEF Live
<1>9. HolderInv'
  <2> SUFFICES ASSUME NEW p \in Owners, pc'[p] # "idle"
               PROVE  entry'[p].row \in 1..enqueued' /\ ~Holds(p)'
    BY DEF HolderInv
  <2>1. pc[p] # "idle" /\ entry'[p] = entry[p]
    BY <1>5
  <2>2. entry[p].row \in Rows /\ entry[p].row \in 1..enqueued
    BY <2>1, WorkingRow
  <2> QED
    BY <1>0, <1>8, <2>1, <2>2 DEF Holds, Row
<1>10. \A q \in prepared : q.row \in Rows
  BY <1>0, EventRows
<1>11. EventInv'
  <2>1. \A q \in prepared' : queue'[q.row].state \notin {"none", "queued"}
    BY <1>0, <1>1, <1>3, <1>10 DEF IInv, EventInv
  <2>2. \A n \in 1..Len(deltas) : deltas[n].row \in Rows \ {i}
    BY <1>0, <1>1, EventRows DEF IInv, EventInv
  <2>3. ASSUME NEW n \in 1..Len(deltas')
        PROVE  queue'[deltas'[n].row].state = "published"
    <3>1. CASE n = Len(deltas) + 1
      BY <1>2, <1>3, <1>4, <3>1
    <3>2. CASE n \in 1..Len(deltas)
      BY <1>1, <1>4, <2>2, <3>2 DEF IInv, EventInv
    <3> QED
      BY <1>4, <3>1, <3>2
  <2> QED
    BY <2>1, <2>3 DEF EventInv
<1>12. PreparationStaysValid'
  BY <1>0, <1>8, <1>10 DEF PreparationStaysValid
<1> QED
  BY <1>6, <1>7, <1>9, <1>11, <1>12 DEF IInv

(* After a crash no service works and the store is as it was.              *)
LEMMA CrashStep ==
  ASSUME IInv, Crash
  PROVE  IInv'
<1>1. NoEntry \in EntryRecords
  BY DEF NoEntry, FirstEpoch, EpochPairs, EntryRecords, States
<1>2. queue' = queue /\ enqueued' = enqueued /\ prepared' = prepared /\ deltas' = deltas
      /\ epoch' = epoch
  BY DEF Crash, durable
<1>3. pc' \in [Owners -> Awaits \cup Working] /\ entry' \in [Owners -> EntryRecords]
      /\ \A q \in Owners : pc'[q] = "idle"
  BY <1>1 DEF Crash, Awaits
<1>4. TypeOK'
  BY <1>2, <1>3 DEF IInv, TypeOK
<1>5. QueueInv' /\ ServedInOrder' /\ FamilyInv' /\ OneVersionCounts' /\ EventInv'
      /\ PreparationStaysValid'
  BY <1>2 DEF IInv, QueueInv, ServedInOrder, FamilyInv, OneVersionCounts, EventInv,
              PreparationStaysValid
<1>6. HolderInv'
  BY <1>3 DEF HolderInv
<1> QED
  BY <1>4, <1>5, <1>6 DEF IInv

(* An advance of a row o holds, or none when the row is past the target.   *)
LEMMA AdvanceStep ==
  ASSUME IInv, NEW o \in Owners, NEW target \in Live, NEW where \in Awaits \cup Working,
         pc[o] # "idle", Advance(o, target, where)
  PROVE  IInv'
<1>1. CASE /\ Row(o).owner = o
           /\ can_transition(Row(o).state, target)
           /\ queue' = [queue EXCEPT ![entry[o].row] = Updated(entry[o].row, o, target)]
           /\ entry' = [entry EXCEPT ![o].state = target]
  <2>1. Holds(o)
    BY <1>1 DEF Holds, can_transition, Live
  <2>2. LeaveAt(o, where) /\ enqueued' = enqueued /\ prepared' = prepared
        /\ deltas' = deltas /\ epoch' = epoch
    BY DEF Advance
  <2> QED
    BY <1>1, <2>1, <2>2, HeldRowStep
<1>2. CASE UNCHANGED <<queue, entry>>
  BY <1>2, ServiceMoves DEF Advance, durable
<1> QED
  BY <1>1, <1>2 DEF Advance

(* Every step of a service keeps the invariant.                            *)
LEMMA ServiceStep ==
  ASSUME IInv, NEW o \in Owners, Service(o)
  PROVE  IInv'
<1>0. "claimed" \in Awaits \cup Working /\ "verify" \in Awaits \cup Working
      /\ "verified" \in Awaits \cup Working /\ "materialize" \in Awaits \cup Working
      /\ "prepare" \in Awaits \cup Working /\ "idle" \notin Working
  BY DEF Awaits, Working
<1>1. CASE ClaimNext(o)
  BY <1>1, TakeStep DEF ClaimNext, Live
<1>2. CASE RecoverExpired(o)
  BY <1>2, TakeStep DEF RecoverExpired, Expired, Claimed
<1>3. CASE Heartbeat(o)
  <2>1. /\ pc[o] # "idle" /\ Holds(o) /\ Row(o).state \in Live /\ entry[o] \in EntryRecords
        /\ pc' = pc /\ entry' = entry
    BY <1>3 DEF Heartbeat, Holds, IInv, TypeOK
  <2>2. entry[o].state = Row(o).state
    BY <2>1 DEF IInv, HolderInv
  <2>3. entry' = [entry EXCEPT ![o].state = Row(o).state]
    BY <2>1, <2>2 DEF IInv, TypeOK, EntryRecords
  <2>4. \E where \in Awaits \cup Working : LeaveAt(o, where)
    BY <2>1 DEF IInv, TypeOK, LeaveAt
  <2> QED
    BY <1>3, <2>1, <2>3, <2>4, HeldRowStep DEF Heartbeat
<1>4. CASE Rebase(o)
  BY <1>4, RebaseStep
<1>5. CASE BeginVerify(o)
  BY <1>0, <1>5, ServiceMoves DEF BeginVerify
<1>6. CASE VerifyAccepts(o)
  BY <1>0, <1>6, AdvanceStep DEF VerifyAccepts, Live
<1>7. CASE StoreModule(o)
  BY <1>0, <1>7, AdvanceStep DEF StoreModule, Live
<1>8. CASE Materialize(o)
  BY <1>0, <1>8, ServiceMoves DEF Materialize
<1>9. CASE Prepare(o)
  BY <1>9, PrepareStep
<1>10. CASE Publish(o)
  BY <1>10, PublishStep
<1>11. CASE Fail(o)
  <2>1. pc[o] # "idle" /\ LetGo(o) /\ enqueued' = enqueued /\ prepared' = prepared
        /\ deltas' = deltas /\ epoch' = epoch
    BY <1>0, <1>11 DEF Fail
  <2>2. CASE /\ Holds(o)
             /\ queue' = [queue EXCEPT ![entry[o].row] = Updated(entry[o].row, o, "quarantined")]
    BY <2>1, <2>2, HeldRowStep
  <2>3. CASE UNCHANGED queue
    BY <2>1, <2>3, ServiceMoves DEF durable
  <2> QED
    BY <1>11, <2>2, <2>3 DEF Fail
<1>12. CASE Abandon(o)
  BY <1>0, <1>12, ServiceMoves DEF Abandon
<1> QED
  BY <1>1, <1>2, <1>3, <1>4, <1>5, <1>6, <1>7, <1>8, <1>9, <1>10, <1>11, <1>12 DEF Service

(* IInv is inductive.                                                      *)
LEMMA Inductive == IInv /\ [Next]_vars => IInv'
<1> SUFFICES ASSUME IInv, [Next]_vars PROVE IInv'
  OBVIOUS
<1>1. CASE \E c \in Contributions, patch \in BOOLEAN, e \in KnownEpochs : Submit(c, patch, e)
  BY <1>1, SubmitStep
<1>2. CASE \E i \in Rows : ClaimExpires(i)
  BY <1>2, ExpiryStep
<1>3. CASE Crash
  BY <1>3, CrashStep
<1>4. CASE \E o \in Owners : Service(o)
  BY <1>4, ServiceStep
<1>5. CASE UNCHANGED vars
  BY <1>5 DEF vars, durable, IInv, TypeOK, QueueInv, ServedInOrder, FamilyInv,
              OneVersionCounts, HolderInv, Holds, Row, EventInv, PreparationStaysValid
<1> QED
  BY <1>1, <1>2, <1>3, <1>4, <1>5 DEF Next, Environment

(* IInv, and with it the type invariant, holds in every reachable state.   *)
THEOREM Safety == Spec => []IInv
<1>1. Init => IInv
  BY InitIInv
<1>2. IInv /\ [Next]_vars => IInv'
  BY Inductive
<1> QED
  BY <1>1, <1>2, PTL DEF Spec

(* Rows, services, preparations and the published log keep their types, and *)
(* no submission or rebase goes beyond the bound on rows.                   *)
THEOREM QueueTypes == Spec => []TypeOK
<1>1. IInv => TypeOK
  BY DEF IInv
<1> QED
  BY <1>1, Safety, PTL

(* claim_next serves the queue in enqueue order and one row at a time, for *)
(* any number of services.                                                 *)
THEOREM InOrder == Spec => []ServedInOrder
<1>1. IInv => ServedInOrder
  BY DEF IInv
<1> QED
  BY <1>1, Safety, PTL

(* A contribution has one row that counts, however often it is rebased.    *)
THEOREM OneVersion == Spec => []OneVersionCounts
<1>1. IInv => OneVersionCounts
  BY DEF IInv
<1> QED
  BY <1>1, Safety, PTL

(* The preparation of a live row is the one its recovery would make again. *)
THEOREM PreparationValid == Spec => []PreparationStaysValid
<1>1. IInv => PreparationStaysValid
  BY DEF IInv
<1> QED
  BY <1>1, Safety, PTL

(* No step changes a settled row: every update of a claimed row checks the *)
(* owner and the state in its own transaction.                             *)
THEOREM SettledFinal == Spec => SettledIsFinal
<1> DEFINE Keeps == \A i \in Rows : queue[i].state \in Settled => queue'[i] = queue[i]
<1>1. IInv /\ [Next]_vars => [Keeps]_vars
  <2> SUFFICES ASSUME IInv, Next, NEW i \in Rows, queue[i].state \in Settled
               PROVE  queue'[i] = queue[i]
    OBVIOUS
  <2>0. TypeOK /\ QueueInv /\ queue \in [Rows -> RowRecords]
        /\ queue[i].state \notin Live \cup {"none", "queued"}
    BY DEF IInv, TypeOK, Settled, Live
  <2>1. CASE \E c \in Contributions, patch \in BOOLEAN, e \in KnownEpochs : Submit(c, patch, e)
    <3>1. i <= enqueued /\ enqueued \in Nat
      BY <2>0, MaxRowsAssumption DEF QueueInv, TypeOK, Rows
    <3> QED
      BY <2>0, <2>1, <3>1, MaxRowsAssumption DEF Submit, Rows
  <2>2. CASE \E k \in Rows : ClaimExpires(k)
    BY <2>0, <2>2 DEF ClaimExpires, Claimed
  <2>3. CASE Crash
    BY <2>3 DEF Crash, durable
  <2>4. CASE \E o \in Owners : Service(o)
    <3>1. PICK o \in Owners : Service(o)
      BY <2>4
    <3>2. CASE ClaimNext(o)
      BY <2>0, <3>2 DEF ClaimNext, Take
    <3>3. CASE RecoverExpired(o)
      BY <2>0, <3>3 DEF RecoverExpired, Expired, Claimed, Take
    <3>4. CASE Heartbeat(o)
      BY <2>0, <3>4 DEF Heartbeat, Holds, Row
    <3>5. CASE Rebase(o)
      <4>1. i <= enqueued /\ enqueued \in Nat /\ i # entry[o].row
        BY <2>0, <3>5, MaxRowsAssumption DEF QueueInv, TypeOK, Rows, Rebase, Holds, Row
      <4>2. i # enqueued + 1
        BY <4>1, MaxRowsAssumption DEF Rows
      <4> QED
        BY <2>0, <3>5, <4>1, <4>2 DEF Rebase
    <3>6. CASE BeginVerify(o) \/ Materialize(o) \/ Prepare(o) \/ Abandon(o)
      BY <3>6 DEF BeginVerify, Materialize, Prepare, Abandon, durable
    <3>7. CASE VerifyAccepts(o) \/ StoreModule(o)
      BY <2>0, <3>7 DEF VerifyAccepts, StoreModule, Advance, can_transition, Row, Live
    <3>8. CASE Publish(o)
      BY <2>0, <3>8 DEF Publish, can_transition, Row, Live
    <3>9. CASE Fail(o)
      BY <2>0, <3>9 DEF Fail, Holds, Row
    <3> QED
      BY <3>1, <3>2, <3>3, <3>4, <3>5, <3>6, <3>7, <3>8, <3>9 DEF Service
  <2> QED
    BY <2>1, <2>2, <2>3, <2>4 DEF Next, Environment
<1>2. Spec => [][Keeps]_vars
  <2> HIDE DEF Keeps
  <2> QED
    BY <1>1, Safety, PTL DEF Spec
<1> QED
  BY <1>2 DEF SettledIsFinal

(* Promotion implements KnowledgeLog: a publication appends a row that is  *)
(* not in the log, with the epoch after the current one; every other step  *)
(* leaves what readers see as it is.                                       *)
THEOREM ImplementsLog == Spec => LogSpec
<1>1. Init => Log!Init
  <2> SUFFICES ASSUME Init PROVE Log!Init
    OBVIOUS
  <2>1. deltas = <<>> /\ epoch = [base |-> {}, knowledge |-> 0]
    BY DEF Init, FirstEpoch
  <2>2. [n \in 1..Len(deltas) |-> deltas[n].row] = <<>>
    BY <2>1
  <2> QED
    BY <2>1, <2>2 DEF Log!Init
<1>2. IInv /\ [Next]_vars => [Log!Next]_<<[n \in 1..Len(deltas) |-> deltas[n].row], epoch>>
  <2> SUFFICES ASSUME IInv, [Next]_vars
               PROVE  [Log!Next]_<<[n \in 1..Len(deltas) |-> deltas[n].row], epoch>>
    OBVIOUS
  <2>1. CASE \E o \in Owners : Publish(o)
    <3>1. PICK o \in Owners : Publish(o)
      BY <2>1
    <3> DEFINE i == entry[o].row
               log == [n \in 1..Len(deltas) |-> deltas[n].row]
    <3>2. /\ i \in Rows
          /\ queue[i].state = "materialized"
          /\ epoch' = NextEpoch(epoch, i)
          /\ \E d \in DeltaEvents : d.row = i /\ deltas' = Append(deltas, d)
      BY <3>1, PublishFacts
    <3>3. PICK d \in DeltaEvents : d.row = i /\ deltas' = Append(deltas, d)
      BY <3>2
    <3> HIDE DEF i
    <3>4. deltas \in Seq(DeltaEvents) /\ \A n \in 1..Len(deltas) : deltas[n].row \in Rows
      BY EventRows DEF IInv, TypeOK
    <3>5. \A n \in 1..Len(deltas) : deltas[n].row # i
      BY <3>2 DEF IInv, EventInv
    <3>6. /\ Len(deltas') = Len(deltas) + 1 /\ Len(deltas) \in Nat
          /\ deltas'[Len(deltas) + 1] = d
          /\ \A n \in 1..Len(deltas) : deltas'[n] = deltas[n]
      BY <3>3, <3>4
    <3>7. log \in Seq(Rows) /\ Len(log) = Len(deltas)
      BY <3>4, <3>6
    <3>8. log' = Append(log, i)
      <4>1. log' = [n \in 1..(Len(deltas) + 1) |-> deltas'[n].row]
        BY <3>6
      <4>2. Append(log, i) = [n \in 1..(Len(deltas) + 1) |->
                                IF n = Len(deltas) + 1 THEN i ELSE log[n]]
        BY <3>2, <3>6, <3>7
      <4>3. ASSUME NEW n \in 1..(Len(deltas) + 1)
            PROVE  deltas'[n].row = IF n = Len(deltas) + 1 THEN i ELSE log[n]
        BY <3>3, <3>6
      <4> QED
        BY <4>1, <4>2, <4>3
    <3>9. \A n \in 1..Len(log) : log[n] # i
      BY <3>5, <3>7
    <3>10. epoch' = [base |-> epoch.base \cup {<<epoch.knowledge + 1, i>>},
                     knowledge |-> epoch.knowledge + 1]
      BY <3>2 DEF NextEpoch
    <3> HIDE DEF log
    <3>11. PICK r \in Rows : r = i
      BY <3>2
    <3>12. Log!Publish(r)
      BY <3>8, <3>9, <3>10, <3>11 DEF Log!Publish, log
    <3>13. Log!Next
      BY <3>12, Zenon DEF Log!Next
    <3> QED
      BY <3>13
  <2>2. CASE ~\E o \in Owners : Publish(o)
    <3>1. deltas' = deltas /\ epoch' = epoch
      BY <2>2 DEF Next, Environment, Service, vars, durable, Submit, ClaimExpires, Crash,
                  ClaimNext, RecoverExpired, Take, Heartbeat, Rebase, BeginVerify,
                  VerifyAccepts, StoreModule, Advance, Materialize, Prepare, Fail, Abandon
    <3> QED
      BY <3>1
  <2> QED
    BY <2>1, <2>2
<1> QED
  BY <1>1, <1>2, Safety, PTL DEF Spec, LogSpec, Log!Spec

-----------------------------------------------------------------------------
(* The shared consumer: its hosts open, close and crash around the queue.  *)

\* What a step of the host, the consumer or a client does to the queue is one step of the
\* service `Shared`, a submission or a crash, or nothing (worker_host.py,
\* promotion_consumer.py).
LEMMA ConsumerStep == ConsumerNext => [Next]_vars
<1> SUFFICES ASSUME ConsumerNext PROVE [Next]_vars
  OBVIOUS
<1>0. Shared \in Owners
  BY SharedAssumption
<1>1. CASE UNCHANGED vars
  BY <1>1
<1>2. CASE Crash
  BY <1>2 DEF Next, Environment
<1>3. CASE Service(Shared)
  BY <1>0, <1>3 DEF Next
<1>4. ASSUME NEW c \in Contributions, NEW e \in KnownEpochs, Submit(c, FALSE, e)
      PROVE  Next
  BY <1>4 DEF Next, Environment
<1>5. CASE OpenHost \/ RunWorker
  BY <1>1, <1>5 DEF OpenHost, RunWorker
<1>6. CASE HostSteps
  BY <1>1, <1>2, <1>6 DEF HostSteps, CloseHost, HostCrash, WorkerReturns
<1>7. CASE RaceFailure
  BY <1>1, <1>7 DEF RaceFailure
<1>8. CASE CancelConsumer
  BY <1>1, <1>3, <1>8 DEF CancelConsumer, Service
<1>9. CASE Submissions
  BY <1>1, <1>4, <1>9 DEF Submissions, ContributionSubmit, SubmitAgain
<1>10. CASE ConsumerRun
  <2>1. CASE WakeConsumer \/ PromoteNone \/ NotifyPublished
    BY <1>1, <2>1 DEF WakeConsumer, PromoteNone, NotifyPublished
  <2>2. CASE PromoteNext \/ OutcomePublished \/ OutcomeFailed
    BY <1>3, <2>2 DEF PromoteNext, OutcomePublished, OutcomeFailed, Service
  <2>3. CASE PromotionStep
    BY <1>3, <2>3 DEF PromotionStep, Service
  <2> QED
    BY <1>10, <2>1, <2>2, <2>3 DEF ConsumerRun
<1>11. CASE RunRaises
  BY <1>1, <1>3, <1>11 DEF RunRaises, Service
<1>12. CASE ClientRequests
  BY <1>1, <1>12 DEF ClientRequests, WaitTimesOut, WaitForEpoch, AwaitEpoch, StartRead
<1>13. CASE EpochEvent
  BY <1>1, <1>13 DEF EpochEvent, AwaitEpoch
<1>14. CASE ReaderSteps
  BY <1>1, <1>14 DEF ReaderSteps, ReadDeltas, LockCondition
<1> QED
  BY <1>5, <1>6, <1>7, <1>8, <1>9, <1>10, <1>11, <1>12, <1>13, <1>14 DEF ConsumerNext

\* The consumer and its hosts implement the queue with one service: every theorem about
\* Promotion holds for them, whatever is closed, cancelled or killed.
THEOREM ConsumerServesQueue == ConsumerSpec => Spec
<1>1. ConsumerInit => Init
  BY DEF ConsumerInit
<1>2. [ConsumerNext]_allVars => [Next]_vars
  BY ConsumerStep DEF allVars
<1> QED
  BY <1>1, <1>2, PTL DEF ConsumerSpec, Spec

\* In particular readers of the knowledge stream see the abstract log.
THEOREM ConsumerImplementsLog == ConsumerSpec => LogSpec
  BY ConsumerServesQueue, ImplementsLog, PTL

\* A submission counts once and a preparation stays valid, over all hosts.
THEOREM ConsumerKeepsQueue == ConsumerSpec => [](OneVersionCounts /\ PreparationStaysValid)
  BY ConsumerServesQueue, OneVersion, PreparationValid, PTL

\* A row that a host left claimed when it was closed, cancelled or killed stays claimed and
\* unattended for ever: claim_next serves nobody while a row is claimed, and no host calls
\* recover_next.
THEOREM OrphansStay ==
  ConsumerSpec => [][\A i \in Rows : Orphaned(i) => Orphaned(i)']_allVars
<1> DEFINE Stays == \A i \in Rows : Orphaned(i) => Orphaned(i)'
<1>1. IInv /\ [ConsumerNext]_allVars => [Stays]_allVars
  <2> SUFFICES ASSUME IInv, ConsumerNext, NEW i \in Rows, Orphaned(i)
               PROVE  Orphaned(i)'
    BY DEF Orphaned
  <2>1. /\ queue[i].owner # NoOwner /\ queue[i].state \in Live /\ pc[Shared] = "idle"
        /\ Shared \in Owners /\ i \in 1..enqueued /\ enqueued \in 0..MaxRows /\ MaxRows \in Nat
        /\ queue \in [Rows -> RowRecords] /\ pc \in [Owners -> Awaits \cup Working]
    BY SharedAssumption, MaxRowsAssumption DEF Orphaned, Claimed, IInv, TypeOK, QueueInv, Live, Rows
  <2>2. CASE UNCHANGED <<queue, pc>>
    BY <2>1, <2>2 DEF Orphaned, Claimed
  <2>3. CASE Crash
    BY <2>1, <2>3 DEF Crash, durable, Orphaned, Claimed
  <2>4. ASSUME NEW c \in Contributions, NEW e \in KnownEpochs, Submit(c, FALSE, e)
        PROVE  Orphaned(i)'
    <3>1. queue'[i] = queue[i] /\ pc' = pc
      BY <2>1, <2>4 DEF Submit, Rows
    <3> QED
      BY <2>1, <3>1 DEF Orphaned, Claimed
  <2>5. ~ClaimNext(Shared)
    BY <2>1 DEF ClaimNext, Claimed
  <2>6. ~(BeginVerify(Shared) \/ VerifyAccepts(Shared) \/ StoreModule(Shared) \/ Materialize(Shared)
          \/ Prepare(Shared) \/ Publish(Shared) \/ Rebase(Shared) \/ Fail(Shared))
    BY <2>1 DEF BeginVerify, VerifyAccepts, StoreModule, Materialize, Prepare, Publish, Rebase, Fail,
                Working, Awaits
  <2>7. CASE OpenHost \/ RunWorker \/ HostSteps \/ RaceFailure
    BY <2>2, <2>3, <2>7 DEF OpenHost, RunWorker, HostSteps, CloseHost, HostCrash, WorkerReturns,
                            RaceFailure, vars, durable
  <2>8. CASE CancelConsumer \/ RunRaises
    BY <2>1, <2>2, <2>8 DEF CancelConsumer, RunRaises, vars, durable
  <2>9. CASE Submissions
    BY <2>2, <2>4, <2>9 DEF Submissions, ContributionSubmit, SubmitAgain, vars, durable
  <2>10. CASE ConsumerRun
    <3>1. CASE WakeConsumer \/ PromoteNone \/ NotifyPublished
      BY <2>2, <3>1 DEF WakeConsumer, PromoteNone, NotifyPublished, vars, durable
    <3>2. CASE PromoteNext \/ PromotionStep \/ OutcomePublished \/ OutcomeFailed
      BY <2>5, <2>6, <3>2 DEF PromoteNext, PromotionStep, OutcomePublished, OutcomeFailed
    <3> QED
      BY <2>10, <3>1, <3>2 DEF ConsumerRun
  <2>11. CASE ClientRequests \/ EpochEvent \/ ReaderSteps
    BY <2>2, <2>11 DEF ClientRequests, WaitTimesOut, WaitForEpoch, AwaitEpoch, StartRead, EpochEvent,
                       ReaderSteps, ReadDeltas, LockCondition, vars, durable
  <2> QED
    BY <2>7, <2>8, <2>9, <2>10, <2>11 DEF ConsumerNext
<1> QED
  BY <1>1, ConsumerServesQueue, Safety, PTL DEF ConsumerSpec

\* The consumer has an entry of the queue exactly while it promotes, there is a task exactly
\* while there is a host, and only a strict consumer that has ended has failed
\* (PromotionConsumer.run, WorkerExecutionHost._cleanup).
TaskInv ==
  /\ task = "promoting" <=> pc[Shared] # "idle"
  /\ task = "none" <=> host = "closed"
  /\ failure => task = "ended" /\ ~lenient
  /\ worker => host = "open"

\* A promotion that is begun or goes on keeps its entry.
LEMMA EntryKept ==
  ASSUME pc \in [Owners -> Awaits \cup Working],
         \/ ClaimNext(Shared) \/ BeginVerify(Shared) \/ VerifyAccepts(Shared) \/ StoreModule(Shared)
         \/ Materialize(Shared) \/ Prepare(Shared)
  PROVE  pc'[Shared] # "idle"
<1> Shared \in Owners
  BY SharedAssumption
<1> QED
  BY DEF ClaimNext, Take, BeginVerify, VerifyAccepts, StoreModule, Advance, Materialize, Prepare,
         LeaveAt

\* One that ends, or is abandoned, lets go of it.
LEMMA EntryLeft ==
  ASSUME pc \in [Owners -> Awaits \cup Working],
         Publish(Shared) \/ Rebase(Shared) \/ Fail(Shared) \/ Abandon(Shared) \/ Crash
  PROVE  pc'[Shared] = "idle"
<1> Shared \in Owners
  BY SharedAssumption
<1> QED
  BY DEF Publish, Rebase, Fail, Abandon, Crash, LetGo, LeaveAt

\* What the host and the consumer know, and the types of their variables.
ConsumerInv == ConsumerTypeOK /\ TaskInv

\* The parts of a step that the types of the queue leave open.
HostTypes ==
  /\ host \in {"closed", "open", "closing"}
  /\ opened \in 0..MaxHosts /\ backlog \in 0..MaxRows
  /\ lenient \in BOOLEAN /\ worker \in BOOLEAN /\ wake \in BOOLEAN
  /\ published \in BOOLEAN /\ failure \in BOOLEAN
  /\ task \in Tasks
  /\ waiter \in {0} \cup Rows
  /\ readers \in [Readers -> Reads]

\* A step of the host, the consumer or a client keeps both.
LEMMA HostStep ==
  ASSUME TypeOK, HostTypes, TaskInv, ConsumerNext
  PROVE  HostTypes' /\ TaskInv'
<1> USE SharedAssumption, MaxHostsAssumption, MaxRowsAssumption
<1>0. pc \in [Owners -> Awaits \cup Working]
  BY DEF TypeOK
<1>1. CASE OpenHost
  <2>1. enqueued \in 0..MaxRows /\ pc[Shared] = "idle"
    BY <1>1 DEF TypeOK, TaskInv, OpenHost
  <2>2. opened' \in 0..MaxHosts
    BY <1>1 DEF OpenHost, HostTypes
  <2>3. /\ host' = "open" /\ lenient' \in BOOLEAN /\ backlog' = enqueued /\ task' = "waiting"
        /\ wake' = FALSE /\ published' = FALSE /\ failure' = FALSE
        /\ worker' = worker /\ waiter' = waiter /\ readers' = readers
    BY <1>1 DEF OpenHost, clients
  <2>4. waiter' \in {0} \cup Rows /\ backlog' \in 0..MaxRows /\ worker' \in BOOLEAN
        /\ readers' \in [Readers -> Reads]
    BY <2>1, <2>3, Zenon DEF HostTypes
  <2>8. HostTypes'
    BY <2>2, <2>3, <2>4, Zenon DEF HostTypes, Tasks
  <2>9. TaskInv'
    BY <1>1, <2>1 DEF OpenHost, TaskInv, vars
  <2> QED
    BY <2>8, <2>9
<1>2. CASE RunWorker
  BY <1>2 DEF RunWorker, HostTypes, TaskInv, events, clients, vars
<1>3. CASE WorkerReturns \/ RaceFailure
  <2>8. HostTypes'
    BY <1>3 DEF WorkerReturns, RaceFailure, HostTypes, Tasks, events, clients, vars
  <2>9. TaskInv'
    BY <1>3 DEF WorkerReturns, RaceFailure, TaskInv, events, clients, vars
  <2> QED
    BY <2>8, <2>9
<1>4. CASE CloseHost
  BY <1>4 DEF CloseHost, HostTypes, TaskInv, vars
<1>5. [r \in Readers |-> NoRead] \in [Readers -> Reads]
  BY DEF NoRead, Reads
<1>6. CASE HostCrash
  <2>8. HostTypes'
    BY <1>5, <1>6 DEF HostCrash, HostGone, HostTypes, Tasks, vars
  <2>1. pc'[Shared] = "idle"
    BY <1>0, <1>6, EntryLeft DEF HostCrash
  <2>2. host' = "closed" /\ task' = "none" /\ failure' = FALSE /\ worker' = FALSE
    BY <1>6 DEF HostCrash, HostGone, vars
  <2>9. TaskInv'
    BY <2>1, <2>2 DEF TaskInv
  <2> QED
    BY <2>8, <2>9
<1>7. CASE CancelConsumer
  <2>8. HostTypes'
    BY <1>5, <1>7 DEF CancelConsumer, HostGone, HostTypes, Tasks, vars
  <2>1. pc'[Shared] = "idle"
    BY <1>0, <1>7, EntryLeft DEF CancelConsumer, vars
  <2>2. host' = "closed" /\ task' = "none" /\ failure' = FALSE /\ worker' = FALSE
    BY <1>7 DEF CancelConsumer, HostGone, vars
  <2>9. TaskInv'
    BY <2>1, <2>2 DEF TaskInv
  <2> QED
    BY <2>8, <2>9
<1>8. CASE Submissions
  <2>1. PICK c \in Contributions : (\E e \in KnownEpochs : ContributionSubmit(c, e)) \/ SubmitAgain(c)
    BY <1>8 DEF Submissions
  <2>2. pc' = pc /\ wake' = TRUE /\ UNCHANGED <<hosting, task, published, failure, clients>>
    BY <2>1 DEF ContributionSubmit, SubmitAgain, Submit, notify_submission, vars
  <2> QED
    BY <2>2 DEF HostTypes, TaskInv, hosting, clients
<1>9. CASE WakeConsumer
  BY <1>9 DEF WakeConsumer, HostTypes, TaskInv, Tasks, hosting, clients, vars
<1>10. CASE PromoteNext
  <2>8. HostTypes'
    BY <1>10 DEF PromoteNext, HostTypes, Tasks, hosting, events, clients
  <2>1. pc'[Shared] # "idle"
    BY <1>0, <1>10, EntryKept DEF PromoteNext
  <2>2. /\ task = "serving" /\ task' = "promoting"
        /\ host' = host /\ failure' = failure /\ worker' = worker /\ lenient' = lenient
    BY <1>10 DEF PromoteNext, hosting, events, clients
  <2>9. TaskInv'
    BY <2>1, <2>2 DEF TaskInv
  <2> QED
    BY <2>8, <2>9
<1>11. CASE PromoteNone
  BY <1>11 DEF PromoteNone, HostTypes, TaskInv, Tasks, hosting, events, clients, vars
<1>12. CASE PromotionStep
  <2>8. HostTypes'
    BY <1>12 DEF PromotionStep, HostTypes, Tasks, hosting, events, clients
  <2>1. pc'[Shared] # "idle"
    BY <1>0, <1>12, EntryKept DEF PromotionStep
  <2>2. /\ task = "promoting" /\ task' = task
        /\ host' = host /\ failure' = failure /\ worker' = worker /\ lenient' = lenient
    BY <1>12 DEF PromotionStep, hosting, events, clients
  <2>9. TaskInv'
    BY <2>1, <2>2 DEF TaskInv
  <2> QED
    BY <2>8, <2>9
<1>13. CASE OutcomePublished
  <2>8. HostTypes'
    BY <1>13 DEF OutcomePublished, HostTypes, Tasks, hosting, clients
  <2>1. pc'[Shared] = "idle"
    BY <1>0, <1>13, EntryLeft DEF OutcomePublished
  <2>2. /\ task = "promoting" /\ task' = "notify"
        /\ host' = host /\ failure' = failure /\ worker' = worker /\ lenient' = lenient
    BY <1>13 DEF OutcomePublished, hosting, clients
  <2>9. TaskInv'
    BY <2>1, <2>2 DEF TaskInv
  <2> QED
    BY <2>8, <2>9
<1>14. CASE OutcomeFailed
  <2>8. HostTypes'
    BY <1>14 DEF OutcomeFailed, HostTypes, Tasks, hosting, clients
  <2>1. pc'[Shared] = "idle"
    BY <1>0, <1>14, EntryLeft DEF OutcomeFailed
  <2>2. /\ task = "promoting" /\ host' = host /\ worker' = worker /\ lenient' = lenient
        /\ task' = IF lenient THEN "serving" ELSE "ended"
        /\ failure' = (failure \/ ~lenient)
    BY <1>14 DEF OutcomeFailed, hosting, clients
  <2>9. TaskInv'
    BY <2>1, <2>2 DEF TaskInv
  <2> QED
    BY <2>8, <2>9
<1>15. CASE NotifyPublished
  <2>1. readers' \in [Readers -> Reads]
    BY <1>15 DEF NotifyPublished, HostTypes, Reads
  <2> QED
    BY <1>15, <2>1 DEF NotifyPublished, HostTypes, TaskInv, Tasks, hosting, events, vars
<1>16. CASE RunRaises
  <2>8. HostTypes'
    BY <1>16 DEF RunRaises, HostTypes, Tasks, hosting, events, clients, vars
  <2>1. pc'[Shared] = "idle"
    BY <1>0, <1>16, EntryLeft DEF RunRaises, vars
  <2>2. /\ task \in {"serving", "promoting"} /\ task' = "ended"
        /\ host' = host /\ failure' = failure /\ worker' = worker /\ lenient' = lenient
    BY <1>16 DEF RunRaises, hosting, events, clients, vars
  <2>9. TaskInv'
    BY <2>1, <2>2 DEF TaskInv
  <2> QED
    BY <2>8, <2>9
<1>17. ASSUME NEW n \in Rows, AwaitEpoch(n)
       PROVE  HostTypes' /\ TaskInv'
  BY <1>17 DEF AwaitEpoch, HostTypes, TaskInv, hosting, vars
<1>18. CASE ClientRequests
  <2>1. CASE WaitTimesOut
    BY <2>1 DEF WaitTimesOut, HostTypes, TaskInv, hosting, events, vars
  <2>2. ASSUME NEW n \in Rows, NEW r \in Readers, StartRead(r, n)
        PROVE  HostTypes' /\ TaskInv'
    <3>1. readers' \in [Readers -> Reads]
      BY <2>2 DEF StartRead, HostTypes, Reads
    <3> QED
      BY <2>2, <3>1 DEF StartRead, HostTypes, TaskInv, hosting, events, vars
  <2> QED
    BY <1>17, <1>18, <2>1, <2>2 DEF ClientRequests, WaitForEpoch
<1>19. CASE EpochEvent
  <2>1. waiter \in Rows
    BY <1>19 DEF EpochEvent, HostTypes
  <2> QED
    BY <1>17, <1>19, <2>1 DEF EpochEvent
<1>20. CASE ReaderSteps
  <2>1. PICK r \in Readers : ReadDeltas(r) \/ LockCondition(r)
    BY <1>20 DEF ReaderSteps
  <2>2. readers' \in [Readers -> Reads]
    BY <2>1 DEF ReadDeltas, LockCondition, ReadAt, HostTypes, Reads
  <2> QED
    BY <2>1, <2>2 DEF ReadDeltas, LockCondition, HostTypes, TaskInv, hosting, events, vars
<1> QED
  BY <1>1, <1>2, <1>3, <1>4, <1>6, <1>7, <1>8, <1>9, <1>10, <1>11, <1>12, <1>13, <1>14, <1>15,
     <1>16, <1>18, <1>19, <1>20 DEF ConsumerNext, HostSteps, ConsumerRun

\* There is never more than the one promotion that the consumer's task is in, and no
\* variable of the host leaves its type.
THEOREM ConsumerTypes == ConsumerSpec => []ConsumerInv
<1>1. ConsumerInit => HostTypes /\ TaskInv
  <2> SUFFICES ASSUME ConsumerInit PROVE HostTypes /\ TaskInv
    OBVIOUS
  <2>1. HostTypes
    <3>1. 0 \in 0..MaxHosts /\ 0 \in 0..MaxRows
      BY MaxHostsAssumption, MaxRowsAssumption
    <3>2. /\ host = "closed" /\ opened = 0 /\ lenient = FALSE /\ worker = FALSE /\ backlog = 0
          /\ task = "none" /\ wake = FALSE /\ published = FALSE /\ failure = FALSE /\ waiter = 0
      BY DEF ConsumerInit
    <3>3. readers \in [Readers -> Reads]
      BY DEF ConsumerInit, NoRead, Reads
    <3> QED
      BY <3>1, <3>2, <3>3, Zenon DEF HostTypes, Tasks
  <2>2. TaskInv
    BY SharedAssumption DEF ConsumerInit, Init, TaskInv
  <2> QED
    BY <2>1, <2>2
<1>2. TypeOK /\ HostTypes /\ TaskInv /\ [ConsumerNext]_allVars => (HostTypes /\ TaskInv)'
  <2>1. CASE UNCHANGED allVars
    BY <2>1 DEF allVars, vars, hosting, events, clients, HostTypes, TaskInv
  <2> QED
    BY <2>1, HostStep
<1>3. TypeOK /\ HostTypes /\ TaskInv => ConsumerInv
  BY DEF ConsumerInv, ConsumerTypeOK, HostTypes
<1> QED
  BY <1>1, <1>2, <1>3, ConsumerServesQueue, QueueTypes, PTL DEF ConsumerSpec
=============================================================================
