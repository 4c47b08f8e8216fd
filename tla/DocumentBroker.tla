--------------------------- MODULE DocumentBroker ---------------------------
(***************************************************************************)
(* The document broker: files leased to workers, edited by compare and     *)
(* swap, and brought back to their recorded content after a failure or a   *)
(* crash.  A document lives three times: as a projection of the store, as  *)
(* a file of the run's Lean project, and as content-addressed snapshots.   *)
(*                                                                         *)
(* No operation of the broker suspends once it has recovered: an           *)
(* uncontended asyncio.Lock is taken without waiting, and the store and    *)
(* the files are used synchronously.  So operations do not interleave, but *)
(* every one of their effects can fail, a lease can expire between two of  *)
(* them, and the process can die there.  `doing` is the effect to come.    *)
(***************************************************************************)
EXTENDS Naturals, Sequences, FiniteSets

CONSTANTS
    Workers,     \* worker ids of a run; each has one path in it
    Contents,    \* bodies a document may have; a hash identifies one
    NoFile,      \* nothing at the path
    Junk,        \* a file that was being written when the writer stopped
    MaxDocs,     \* bound: documents ever created
    MaxCrashes,  \* bound: crashes of the process
    MaxFaults    \* bound: failing reads, writes and transactions

ASSUME BrokerAssumption ==
    /\ MaxDocs \in Nat /\ MaxCrashes \in Nat /\ MaxFaults \in Nat
    /\ NoFile \notin Contents /\ Junk \notin Contents /\ NoFile # Junk

VARIABLES
    docs,       \* the documents and leases projections, in order of creation
    file,       \* what is at each path of each run's project
    snapshot,   \* the content-addressed copies of each run
    run,        \* the run of this process
    recovered,  \* DocumentBroker._recovered
    doing,      \* the effect the operation under way comes to next
    faults      \* failures so far

vars == <<docs, file, snapshot, run, recovered, doing, faults>>

(* A process works in a run of its own, so runs are counted by crashes. *)
Runs == 0 .. MaxCrashes

(* DocumentState and LeaseState.  A document has one lease and a lease one *)
(* document.  `valid` is that the lease is not past its time and of the    *)
(* current epoch.                                                          *)
Document == [run : Runs, worker : Workers, content : Contents,
             prepared : BOOLEAN, leased : BOOLEAN, valid : BOOLEAN]

(* A snapshot is linked twice between the link to its name and the removal *)
(* of the temporary name.                                                  *)
SnapshotState == {"absent", "whole", "twice"}

Rest == [step |-> "rest"]
Creating == [step : {"create", "keep", "grant"}, worker : Workers, content : Contents]
Editing == [step : {"read", "previous", "replacement", "replace", "commit",
                    "compensate", "unprepare"},
            doc : 1 .. MaxDocs, content : Contents]
Recovering == [step : {"restore", "record"}, doc : 1 .. MaxDocs]

Path(d) == <<docs[d].run, docs[d].worker>>

Init ==
    /\ docs = << >>
    /\ file = [p \in Runs \X Workers |-> NoFile]
    /\ snapshot = [s \in Runs \X Contents |-> "absent"]
    /\ run = 0
    /\ recovered = FALSE
    /\ doing = Rest
    /\ faults = 0

-----------------------------------------------------------------------------
(* What fails, fails with an exception the operation handles. *)
Fault ==
    /\ faults < MaxFaults
    /\ faults' = faults + 1

NoFault == UNCHANGED faults

Idle == recovered /\ doing = Rest

(* The next effect of a creation and of an edit. *)
Create(step) ==
    doing' = [step |-> step, worker |-> doing.worker, content |-> doing.content]

Edit(step) ==
    doing' = [step |-> step, doc |-> doing.doc, content |-> doing.content]

(* LeaseState.validate_access *)
ValidateAccess(d) == docs[d].leased /\ docs[d].valid

(* _access: the lease admits the worker and no edit is in progress. *)
Access(d) == ValidateAccess(d) /\ ~docs[d].prepared

(* read_relative refuses a file that does not exist or has a second link. *)
ReadRelative(r, c) == snapshot[<<r, c>>] = "whole"

(* replace_relative writes a temporary file and renames it, and only over a *)
(* file that is there.                                                     *)
ReplaceRelative(p, c) ==
    /\ file[p] # NoFile
    /\ file' = [file EXCEPT ![p] = c]

(* A failing replace_relative leaves the old file, or the new one when the *)
(* rename was done.                                                        *)
ReplaceFails(p, c) ==
    \/ file[p] = NoFile /\ NoFault /\ UNCHANGED file
    \/ Fault /\ UNCHANGED file
    \/ Fault /\ ReplaceRelative(p, c)

(* store_snapshot: a readable copy stays, a missing one is written; one    *)
(* that is there and cannot be read is an error.                           *)
StoreSnapshot(r, c) ==
    /\ snapshot[<<r, c>>] # "twice"
    /\ snapshot' = [snapshot EXCEPT ![<<r, c>>] = "whole"]

(* create_content_addressed fails before the link, or after it when the    *)
(* temporary name cannot be removed.                                       *)
StoreSnapshotFails(r, c) ==
    \/ snapshot[<<r, c>>] = "twice" /\ NoFault /\ UNCHANGED snapshot
    \/ Fault /\ UNCHANGED snapshot
    \/ /\ Fault
       /\ snapshot[<<r, c>>] = "absent"
       /\ snapshot' = [snapshot EXCEPT ![<<r, c>>] = "twice"]

(* discard swallows the error of a file that cannot be removed. *)
Discard(p) ==
    \/ NoFault /\ file' = [file EXCEPT ![p] = NoFile]
    \/ Fault /\ UNCHANGED file

(* After a first failure the removal may fail as well. *)
DiscardAfterFailure(p) ==
    \/ file' = [file EXCEPT ![p] = NoFile]
    \/ UNCHANGED file

-----------------------------------------------------------------------------
(* create_document up to the new file: with an active lease on the path    *)
(* the storage answers DOCUMENT_ALREADY_LEASED and nothing changes, so     *)
(* only a path without one is discarded.                                   *)
CreateDocument(w, c) ==
    /\ Idle
    /\ Len(docs) < MaxDocs
    /\ \A d \in DOMAIN docs : docs[d].leased => Path(d) # <<run, w>>
    /\ Discard(<<run, w>>)
    /\ doing' = [step |-> "create", worker |-> w, content |-> c]
    /\ UNCHANGED <<docs, snapshot, run, recovered>>

(* create_relative with O_EXCL; what it could not finish it removes. *)
CreateRelative ==
    /\ doing.step = "create"
    /\ LET p == <<run, doing.worker>>
       IN  \/ /\ file[p] = NoFile
              /\ file' = [file EXCEPT ![p] = doing.content]
              /\ Create("keep") /\ NoFault
           \/ /\ file[p] # NoFile
              /\ doing' = Rest /\ NoFault /\ UNCHANGED file
           \/ /\ file[p] = NoFile
              /\ Fault
              /\ \/ UNCHANGED file
                 \/ file' = [file EXCEPT ![p] = Junk]
              /\ doing' = Rest
    /\ UNCHANGED <<docs, snapshot, run, recovered>>

(* The snapshot of the initial content; without it the file is discarded. *)
KeepInitial ==
    /\ doing.step = "keep"
    /\ \/ /\ StoreSnapshot(run, doing.content)
          /\ Create("grant") /\ NoFault /\ UNCHANGED file
       \/ /\ StoreSnapshotFails(run, doing.content)
          /\ DiscardAfterFailure(<<run, doing.worker>>)
          /\ doing' = Rest
    /\ UNCHANGED <<docs, run, recovered>>

(* grant_document_lease makes the document and its lease in one            *)
(* transaction; if it fails the file is discarded.                         *)
GrantLease ==
    /\ doing.step = "grant"
    /\ \/ /\ docs' = Append(docs, [run |-> run, worker |-> doing.worker,
                                   content |-> doing.content, prepared |-> FALSE,
                                   leased |-> TRUE, valid |-> TRUE])
          /\ NoFault /\ UNCHANGED file
       \/ /\ Fault
          /\ DiscardAfterFailure(<<run, doing.worker>>)
          /\ UNCHANGED docs
    /\ doing' = Rest
    /\ UNCHANGED <<snapshot, run, recovered>>

-----------------------------------------------------------------------------
(* document_apply: read_document finds the recorded content in the file,   *)
(* and prepare_document_edit records the intent.                           *)
PrepareEdit(d, c) ==
    /\ Idle
    /\ Access(d)
    /\ file[Path(d)] = docs[d].content
    /\ docs' = [docs EXCEPT ![d].prepared = TRUE]
    /\ doing' = [step |-> "read", doc |-> d, content |-> c]
    /\ UNCHANGED <<file, snapshot, run, recovered, faults>>

(* compare_and_swap reads the file again; a failure needs no restoring. *)
ReadPrevious ==
    /\ doing.step = "read"
    /\ \/ /\ file[Path(doing.doc)] = docs[doing.doc].content
          /\ Edit("previous") /\ NoFault
       \/ file[Path(doing.doc)] # docs[doing.doc].content /\ Edit("unprepare") /\ NoFault
       \/ Fault /\ Edit("unprepare")
    /\ UNCHANGED <<docs, file, snapshot, run, recovered>>

(* The snapshot of the content the edit starts from. *)
KeepPrevious ==
    /\ doing.step = "previous"
    /\ LET d == docs[doing.doc]
       IN  \/ StoreSnapshot(d.run, d.content) /\ Edit("replacement") /\ NoFault
           \/ StoreSnapshotFails(d.run, d.content) /\ Edit("unprepare")
    /\ UNCHANGED <<docs, file, run, recovered>>

(* The snapshot of the replacement. *)
KeepReplacement ==
    /\ doing.step = "replacement"
    /\ LET d == docs[doing.doc]
       IN  \/ StoreSnapshot(d.run, doing.content) /\ Edit("replace") /\ NoFault
           \/ StoreSnapshotFails(d.run, doing.content) /\ Edit("unprepare")
    /\ UNCHANGED <<docs, file, run, recovered>>

(* Mutant: `replaced` is set after the replace and not before it. *)
ReplaceFileLate ==
    /\ doing.step = "replace"
    /\ \/ ReplaceRelative(Path(doing.doc), doing.content) /\ Edit("commit") /\ NoFault
       \/ ReplaceFails(Path(doing.doc), doing.content) /\ Edit("unprepare")
    /\ UNCHANGED <<docs, snapshot, run, recovered>>

(* The new content replaces the file; from here a failure restores it. *)
ReplaceFile ==
    /\ doing.step = "replace"
    /\ \/ ReplaceRelative(Path(doing.doc), doing.content) /\ Edit("commit") /\ NoFault
       \/ ReplaceFails(Path(doing.doc), doing.content) /\ Edit("compensate")
    /\ UNCHANGED <<docs, snapshot, run, recovered>>

(* commit_document_edit asks for a valid lease again. *)
CommitEdit ==
    /\ doing.step = "commit"
    /\ \/ /\ ValidateAccess(doing.doc)
          /\ docs' = [docs EXCEPT ![doing.doc].content = doing.content,
                                  ![doing.doc].prepared = FALSE]
          /\ doing' = Rest /\ NoFault
       \/ ~ValidateAccess(doing.doc) /\ Edit("compensate") /\ NoFault /\ UNCHANGED docs
       \/ Fault /\ Edit("compensate") /\ UNCHANGED docs
    /\ UNCHANGED <<file, snapshot, run, recovered>>

(* _compensate after the replace: storage.restore from the snapshot.  If   *)
(* it fails the document stays prepared.                                   *)
Compensate ==
    /\ doing.step = "compensate"
    /\ LET d == docs[doing.doc]
       IN  \/ /\ ReadRelative(d.run, d.content)
              /\ ReplaceRelative(Path(doing.doc), d.content)
              /\ Edit("unprepare") /\ NoFault
           \/ /\ \/ /\ ~ReadRelative(d.run, d.content)
                    /\ NoFault /\ UNCHANGED file
                 \/ ReplaceFails(Path(doing.doc), d.content)
              /\ doing' = Rest
    /\ UNCHANGED <<docs, snapshot, run, recovered>>

(* recover_document_edit ends the preparation, or the document stays       *)
(* prepared.                                                               *)
Unprepare ==
    /\ doing.step = "unprepare"
    /\ \/ docs' = [docs EXCEPT ![doing.doc].prepared = FALSE] /\ NoFault
       \/ Fault /\ UNCHANGED docs
    /\ doing' = Rest
    /\ UNCHANGED <<file, snapshot, run, recovered>>

(* release_lease when the worker's run is over: TerminateLease does not    *)
(* look at the document.  If it fails nothing has changed.                 *)
ReleaseLease(d) ==
    /\ Idle
    /\ docs[d].leased
    /\ docs' = [docs EXCEPT ![d].leased = FALSE]
    /\ UNCHANGED <<file, snapshot, run, recovered, doing, faults>>

(* Time passes, or a publication moves the epoch. *)
LeaseLapses(d) ==
    /\ docs[d].leased /\ docs[d].valid
    /\ docs' = [docs EXCEPT ![d].valid = FALSE]
    /\ UNCHANGED <<file, snapshot, run, recovered, doing, faults>>

-----------------------------------------------------------------------------
(* _ensure_recovered: prepared documents first, in the order of their      *)
(* random ids.                                                             *)
BeginRestore(d) ==
    /\ ~recovered /\ doing = Rest
    /\ docs[d].prepared
    /\ doing' = [step |-> "restore", doc |-> d]
    /\ UNCHANGED <<docs, file, snapshot, run, recovered, faults>>

(* storage.restore; an error ends this attempt at recovering. *)
RestoreOld ==
    /\ doing.step = "restore"
    /\ LET d == docs[doing.doc]
       IN  \/ /\ ReadRelative(d.run, d.content)
              /\ ReplaceRelative(Path(doing.doc), d.content)
              /\ doing' = [step |-> "record", doc |-> doing.doc] /\ NoFault
           \/ /\ \/ /\ ~ReadRelative(d.run, d.content)
                    /\ NoFault /\ UNCHANGED file
                 \/ ReplaceFails(Path(doing.doc), d.content)
              /\ doing' = Rest
    /\ UNCHANGED <<docs, snapshot, run, recovered>>

(* recover_document_edit for a restored document. *)
RecordRestored ==
    /\ doing.step = "record"
    /\ \/ docs' = [docs EXCEPT ![doing.doc].prepared = FALSE] /\ NoFault
       \/ Fault /\ UNCHANGED docs
    /\ doing' = Rest
    /\ UNCHANGED <<file, snapshot, run, recovered>>

(* Mutant: only the documents of the broker's own run are looked for. *)
NonePreparedHere == \A d \in DOMAIN docs : docs[d].run = run => ~docs[d].prepared

(* prepared_documents finds nothing (more). *)
NonePrepared == \A d \in DOMAIN docs : ~docs[d].prepared

(* recover_document_lease: leases of a dead process, whatever their time. *)
RecoverLease(d) ==
    /\ ~recovered /\ doing = Rest /\ NonePrepared
    /\ docs[d].leased
    /\ docs' = [docs EXCEPT ![d].leased = FALSE]
    /\ UNCHANGED <<file, snapshot, run, recovered, doing, faults>>

(* The end of _ensure_recovered. *)
Recovered ==
    /\ ~recovered /\ doing = Rest /\ NonePrepared
    /\ \A d \in DOMAIN docs : ~docs[d].leased
    /\ recovered' = TRUE
    /\ UNCHANGED <<docs, file, snapshot, run, doing, faults>>

(* The process dies.  A file it was creating may be half written, and a    *)
(* snapshot it was linking may keep its temporary name.                    *)
Crash ==
    /\ run < MaxCrashes
    /\ run' = run + 1
    /\ recovered' = FALSE
    /\ doing' = Rest
    /\ \/ UNCHANGED <<file, snapshot>>
       \/ /\ doing.step = "create" /\ file[<<run, doing.worker>>] = NoFile
          /\ file' = [file EXCEPT ![<<run, doing.worker>>] = Junk]
          /\ UNCHANGED snapshot
       \/ /\ doing.step \in {"keep", "previous", "replacement"}
          /\ LET s == <<run, IF doing.step = "previous" THEN docs[doing.doc].content
                                                        ELSE doing.content>>
             IN  /\ snapshot[s] = "absent"
                 /\ snapshot' = [snapshot EXCEPT ![s] = "twice"]
          /\ UNCHANGED file
    /\ UNCHANGED <<docs, faults>>

-----------------------------------------------------------------------------
(* What a live process goes on with by itself. *)
BrokerStep ==
    \/ CreateRelative \/ KeepInitial \/ GrantLease
    \/ ReadPrevious \/ KeepPrevious \/ KeepReplacement \/ ReplaceFile
    \/ CommitEdit \/ Compensate \/ Unprepare
    \/ \E d \in DOMAIN docs : BeginRestore(d) \/ RecoverLease(d)
    \/ RestoreOld \/ RecordRestored \/ Recovered

Next ==
    \/ BrokerStep
    \/ \E w \in Workers, c \in Contents : CreateDocument(w, c)
    \/ \E d \in DOMAIN docs, c \in Contents : PrepareEdit(d, c)
    \/ \E d \in DOMAIN docs : ReleaseLease(d) \/ LeaseLapses(d)
    \/ Crash

Spec == Init /\ [][Next]_vars

(* A process that is not killed goes on, and recovery is tried again. *)
BrokerFairness == WF_vars(BrokerStep)
LiveSpec == Spec /\ BrokerFairness

-----------------------------------------------------------------------------
TypeOK ==
    /\ docs \in Seq(Document) /\ Len(docs) <= MaxDocs
    /\ file \in [Runs \X Workers -> Contents \cup {NoFile, Junk}]
    /\ snapshot \in [Runs \X Contents -> SnapshotState]
    /\ run \in Runs
    /\ recovered \in BOOLEAN
    /\ doing \in {Rest} \cup Creating \cup Editing \cup Recovering
    /\ faults \in 0 .. MaxFaults

(* The content the store records for a document can always be read from a  *)
(* snapshot, whatever failed and wherever the process died: restoring      *)
(* never lacks its source (DocumentBroker.compare_and_swap, _compensate).  *)
SnapshotsKept ==
    \A d \in DOMAIN docs : ReadRelative(docs[d].run, docs[d].content)

(* Between operations the file of every document a worker may still use    *)
(* holds exactly what the store records: failed, expired and compensated   *)
(* edits are never visible (DocumentBroker.read_document would answer      *)
(* DOCUMENT_CONTENT_MISMATCH).                                             *)
UsableIsOnDisk ==
    Idle => \A d \in DOMAIN docs :
                Access(d) => file[Path(d)] = docs[d].content

(* Once the broker serves, every active lease is one this process granted: *)
(* no lease of a dead process outlives _ensure_recovered, valid or not.    *)
OldLeasesEnd ==
    recovered => \A d \in DOMAIN docs : docs[d].leased => docs[d].run = run

(* An edit that was interrupted is undone or finished: no document stays   *)
(* prepared for ever ("Recovery must restore prepared documents, record    *)
(* `LeaseRecovered`, and revoke lease-bound capabilities").                *)
PreparedIsRestored ==
    \A d \in 1 .. MaxDocs :
        (d \in DOMAIN docs /\ docs[d].prepared /\ docs[d].run # run)
            ~> (d \in DOMAIN docs /\ ~docs[d].prepared)
=============================================================================
