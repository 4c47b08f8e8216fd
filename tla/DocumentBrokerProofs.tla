------------------------ MODULE DocumentBrokerProofs ------------------------
(***************************************************************************)
(* Theorems about DocumentBroker, for any workers, contents and bounds.    *)
(***************************************************************************)
EXTENDS DocumentBroker, SequenceTheorems, TLAPS

(* What an operation under way has established so far. *)
CreatingInv ==
    doing.step \in {"create", "keep", "grant"} =>
        /\ recovered
        /\ \A d \in DOMAIN docs : docs[d].leased => Path(d) # <<run, doing.worker>>
        /\ doing.step \in {"keep", "grant"} => file[<<run, doing.worker>>] = doing.content
        /\ doing.step = "grant" => snapshot[<<run, doing.content>>] = "whole"
        /\ Len(docs) < MaxDocs

EditSteps == {"read", "previous", "replacement", "replace", "commit",
              "compensate", "unprepare"}

EditingInv ==
    doing.step \in EditSteps =>
        /\ recovered
        /\ doing.doc \in DOMAIN docs
        /\ docs[doing.doc].prepared /\ docs[doing.doc].leased
        /\ doing.step \notin {"commit", "compensate"} =>
              file[Path(doing.doc)] = docs[doing.doc].content
        /\ doing.step = "commit" => file[Path(doing.doc)] = doing.content
        /\ doing.step \in {"replace", "commit"} =>
              snapshot[<<docs[doing.doc].run, doing.content>>] = "whole"

RecoveringInv ==
    doing.step \in {"restore", "record"} => ~recovered /\ doing.doc \in DOMAIN docs

(* A path has one active lease, so an edit writes nobody else's file. *)
OneLeasePerPath ==
    \A d, e \in DOMAIN docs :
        docs[d].leased /\ docs[e].leased /\ Path(d) = Path(e) => d = e

(* The file of a leased document that is not being edited. *)
OnDisk ==
    recovered => \A d \in DOMAIN docs :
        docs[d].leased /\ ~docs[d].prepared => file[Path(d)] = docs[d].content

IInv ==
    /\ TypeOK /\ SnapshotsKept /\ OldLeasesEnd /\ OneLeasePerPath /\ OnDisk
    /\ CreatingInv /\ EditingInv /\ RecoveringInv

-----------------------------------------------------------------------------
(* What the step of `doing` says about its kind. *)
LEMMA StepKind ==
    ASSUME TypeOK
    PROVE  /\ doing.step \in {"create", "keep", "grant"} => doing \in Creating
           /\ doing.step \in EditSteps => doing \in Editing
           /\ doing.step \in {"restore", "record"} => doing \in Recovering
BY DEF TypeOK, Rest, Creating, Editing, Recovering, EditSteps

(* A document has its fields and a path. *)
LEMMA DocType ==
    ASSUME TypeOK, NEW d \in DOMAIN docs
    PROVE  /\ docs[d] \in Document
           /\ d \in 1 .. MaxDocs
           /\ Path(d) \in Runs \X Workers
           /\ <<docs[d].run, docs[d].content>> \in Runs \X Contents
<1>1. docs \in Seq(Document) /\ Len(docs) <= MaxDocs /\ MaxDocs \in Nat
  BY BrokerAssumption DEF TypeOK, BrokerAssumption
<1>2. docs[d] \in Document /\ d \in 1 .. MaxDocs
  BY <1>1
<1> QED
  BY <1>2 DEF Document, Path

(* One document changes, and the others do not. *)
LEMMA DocChange ==
    ASSUME TypeOK, NEW d \in DOMAIN docs, NEW x \in Document,
           docs' = [docs EXCEPT ![d] = x]
    PROVE  /\ docs' \in Seq(Document) /\ Len(docs') <= MaxDocs
           /\ DOMAIN docs' = DOMAIN docs
           /\ docs'[d] = x
           /\ \A e \in DOMAIN docs : e # d => docs'[e] = docs[e]
<1>1. docs \in Seq(Document) /\ d \in 1 .. Len(docs)
  BY DEF TypeOK
<1>2. docs' \in Seq(Document) /\ Len(docs') = Len(docs)
  BY <1>1, ExceptSeq
<1> QED
  BY <1>1, <1>2 DEF TypeOK

(* Storing a snapshot, or failing to, spoils none that is whole. *)
LEMMA StoreKeeps ==
    ASSUME TypeOK, NEW r \in Runs, NEW c \in Contents,
           \/ StoreSnapshot(r, c) /\ NoFault
           \/ StoreSnapshotFails(r, c)
    PROVE  /\ snapshot' \in [Runs \X Contents -> SnapshotState]
           /\ \A s \in Runs \X Contents : snapshot[s] = "whole" => snapshot'[s] = "whole"
           /\ StoreSnapshot(r, c) => snapshot'[<<r, c>>] = "whole"
           /\ faults' \in 0 .. MaxFaults
<1>1. faults' \in 0 .. MaxFaults
  BY BrokerAssumption DEF BrokerAssumption, TypeOK, StoreSnapshotFails, Fault, NoFault
<1>2. snapshot \in [Runs \X Contents -> SnapshotState] /\ <<r, c>> \in Runs \X Contents
  BY DEF TypeOK
<1>3. CASE StoreSnapshot(r, c)
  BY <1>1, <1>2, <1>3 DEF StoreSnapshot, SnapshotState
<1>4. CASE StoreSnapshotFails(r, c) /\ ~StoreSnapshot(r, c)
  BY <1>1, <1>2, <1>4 DEF StoreSnapshotFails, SnapshotState
<1> QED
  BY <1>3, <1>4

(* Replacing a file, or failing to, touches no other file. *)
LEMMA ReplaceKeeps ==
    ASSUME TypeOK, NEW p \in Runs \X Workers, NEW c \in Contents,
           \/ ReplaceRelative(p, c) /\ NoFault
           \/ ReplaceFails(p, c)
    PROVE  /\ file' \in [Runs \X Workers -> Contents \cup {NoFile, Junk}]
           /\ \A q \in Runs \X Workers : q # p => file'[q] = file[q]
           /\ ReplaceRelative(p, c) => file'[p] = c
           /\ faults' \in 0 .. MaxFaults
<1>1. faults' \in 0 .. MaxFaults
  BY BrokerAssumption DEF BrokerAssumption, TypeOK, ReplaceFails, Fault, NoFault
<1>2. file \in [Runs \X Workers -> Contents \cup {NoFile, Junk}]
  BY DEF TypeOK
<1> QED
  BY <1>1, <1>2 DEF ReplaceRelative, ReplaceFails

(* The snapshots of unchanged documents stay. *)
LEMMA SnapshotsStay ==
    ASSUME TypeOK, SnapshotsKept, UNCHANGED docs,
           \A s \in Runs \X Contents : snapshot[s] = "whole" => snapshot'[s] = "whole"
    PROVE  SnapshotsKept'
BY DocType DEF SnapshotsKept, ReadRelative

(* The invariant holds at the start. *)
LEMMA InitInv == Init => IInv
<1> SUFFICES ASSUME Init PROVE IInv
  OBVIOUS
<1>1. TypeOK
  <2>1. 0 \in Runs /\ 0 \in 0 .. MaxFaults /\ 0 <= MaxDocs
    BY BrokerAssumption DEF Runs, BrokerAssumption
  <2>2. file \in [Runs \X Workers -> Contents \cup {NoFile, Junk}]
    BY DEF Init
  <2>3. snapshot \in [Runs \X Contents -> SnapshotState]
    BY DEF Init, SnapshotState
  <2>4. docs \in Seq(Document) /\ Len(docs) = 0
    BY EmptySeq DEF Init
  <2> QED
    BY <2>1, <2>2, <2>3, <2>4 DEF Init, TypeOK
<1>2. doing.step = "rest" /\ DOMAIN docs = {}
  BY DEF Init, Rest
<1> QED
  BY <1>1, <1>2 DEF Init, IInv, SnapshotsKept, OldLeasesEnd, OneLeasePerPath, OnDisk,
     CreatingInv, EditingInv, RecoveringInv, EditSteps

(* CreateDocument keeps the invariant. *)
LEMMA CreateDocumentInv ==
    ASSUME IInv, NEW w \in Workers, NEW c \in Contents, CreateDocument(w, c)
    PROVE  IInv'
<1> USE DEF CreateDocument
<1>1. TypeOK'
  <2>1. faults' \in 0 .. MaxFaults
    BY BrokerAssumption DEF BrokerAssumption, IInv, TypeOK, Discard, Fault, NoFault
  <2>2. file' \in [Runs \X Workers -> Contents \cup {NoFile, Junk}]
    BY DEF IInv, TypeOK, Discard
  <2>3. doing' \in Creating
    BY DEF Creating
  <2> QED
    BY <2>1, <2>2, <2>3 DEF IInv, TypeOK
<1>2. SnapshotsKept' /\ OldLeasesEnd' /\ OneLeasePerPath'
  BY DEF IInv, SnapshotsKept, OldLeasesEnd, OneLeasePerPath, ReadRelative, Path
<1>3. OnDisk'
  <2> SUFFICES ASSUME NEW d \in DOMAIN docs, docs[d].leased, ~docs[d].prepared
               PROVE  file'[Path(d)] = docs[d].content
    BY DEF OnDisk, Path
  <2>1. file[Path(d)] = docs[d].content /\ Path(d) # <<run, w>>
    BY DEF IInv, OnDisk, Idle
  <2> QED
    BY <2>1, DocType DEF IInv, TypeOK, Discard
<1>4. CreatingInv' /\ EditingInv' /\ RecoveringInv'
  BY DEF CreatingInv, EditingInv, RecoveringInv, Idle, Path, EditSteps
<1> QED
  BY <1>1, <1>2, <1>3, <1>4 DEF IInv

(* CreateRelative keeps the invariant. *)
LEMMA CreateRelativeInv ==
    ASSUME IInv, CreateRelative
    PROVE  IInv'
<1> USE DEF CreateRelative
<1> DEFINE p == <<run, doing.worker>>
<1>0. doing \in Creating /\ p \in Runs \X Workers
  BY StepKind DEF IInv, Creating, TypeOK
<1>a. /\ recovered
      /\ Len(docs) < MaxDocs
      /\ \A d \in DOMAIN docs : docs[d].leased => Path(d) # p
  BY DEF IInv, CreatingInv
<1>1. TypeOK'
  <2>1. faults' \in 0 .. MaxFaults
    BY BrokerAssumption DEF BrokerAssumption, IInv, TypeOK, Fault, NoFault
  <2>2. file' \in [Runs \X Workers -> Contents \cup {NoFile, Junk}]
    BY <1>0 DEF IInv, TypeOK, Creating
  <2>3. doing' \in Creating \cup {Rest}
    BY <1>0 DEF Creating, Create
  <2> QED
    BY <2>1, <2>2, <2>3 DEF IInv, TypeOK
<1>2. SnapshotsKept' /\ OldLeasesEnd' /\ OneLeasePerPath'
  BY DEF IInv, SnapshotsKept, OldLeasesEnd, OneLeasePerPath, ReadRelative, Path
<1>3. OnDisk'
  <2> SUFFICES ASSUME NEW d \in DOMAIN docs, docs[d].leased, ~docs[d].prepared
               PROVE  file'[Path(d)] = docs[d].content
    BY DEF OnDisk, Path
  <2>1. file[Path(d)] = docs[d].content /\ Path(d) # p
    BY <1>a DEF IInv, OnDisk
  <2> QED
    BY <2>1, <1>0, DocType DEF IInv, TypeOK
<1>4. CreatingInv'
  <2>1. CASE doing' = Rest
    BY <2>1 DEF CreatingInv, Rest
  <2>2. CASE doing' # Rest
    <3>1. file' = [file EXCEPT ![p] = doing.content] /\ Create("keep")
      BY <2>2
    <3>2. file'[p] = doing.content
      BY <3>1, <1>0 DEF IInv, TypeOK
    <3> QED
      BY <3>1, <3>2, <1>a DEF CreatingInv, Create, Path
  <2> QED
    BY <2>1, <2>2
<1>5. EditingInv' /\ RecoveringInv'
  BY DEF EditingInv, RecoveringInv, EditSteps, Create, Rest
<1> QED
  BY <1>1, <1>2, <1>3, <1>4, <1>5 DEF IInv

(* KeepInitial keeps the invariant. *)
LEMMA KeepInitialInv ==
    ASSUME IInv, KeepInitial
    PROVE  IInv'
<1> USE DEF KeepInitial, DiscardAfterFailure
<1> DEFINE p == <<run, doing.worker>>
<1>0. doing \in Creating /\ p \in Runs \X Workers /\ run \in Runs /\ doing.content \in Contents
  BY StepKind DEF IInv, Creating, TypeOK
<1>a. /\ recovered
      /\ Len(docs) < MaxDocs
      /\ file[p] = doing.content
      /\ \A d \in DOMAIN docs : docs[d].leased => Path(d) # p
  BY DEF IInv, CreatingInv
<1>b. /\ snapshot' \in [Runs \X Contents -> SnapshotState]
      /\ \A s \in Runs \X Contents : snapshot[s] = "whole" => snapshot'[s] = "whole"
      /\ StoreSnapshot(run, doing.content) => snapshot'[<<run, doing.content>>] = "whole"
      /\ faults' \in 0 .. MaxFaults
  BY <1>0, StoreKeeps DEF IInv
<1>1. TypeOK'
  <2>1. file' \in [Runs \X Workers -> Contents \cup {NoFile, Junk}]
    BY <1>0 DEF IInv, TypeOK
  <2>2. doing' \in Creating \cup {Rest}
    BY <1>0 DEF Creating, Create
  <2> QED
    BY <2>1, <2>2, <1>b DEF IInv, TypeOK
<1>2. SnapshotsKept' /\ OldLeasesEnd' /\ OneLeasePerPath'
  <2>1. SnapshotsKept'
    BY <1>b, SnapshotsStay DEF IInv
  <2> QED
    BY <2>1 DEF IInv, OldLeasesEnd, OneLeasePerPath, Path
<1>3. OnDisk'
  <2> SUFFICES ASSUME NEW d \in DOMAIN docs, docs[d].leased, ~docs[d].prepared
               PROVE  file'[Path(d)] = docs[d].content
    BY DEF OnDisk, Path
  <2>1. file[Path(d)] = docs[d].content /\ Path(d) # p
    BY <1>a DEF IInv, OnDisk
  <2> QED
    BY <2>1, <1>0, DocType DEF IInv, TypeOK
<1>4. CreatingInv'
  <2>1. CASE doing' = Rest
    BY <2>1 DEF CreatingInv, Rest
  <2>2. CASE doing' # Rest
    <3>1. StoreSnapshot(run, doing.content) /\ Create("grant") /\ UNCHANGED file
      BY <2>2
    <3> QED
      BY <3>1, <1>a, <1>b DEF CreatingInv, Create, Path
  <2> QED
    BY <2>1, <2>2
<1>5. EditingInv' /\ RecoveringInv'
  BY DEF EditingInv, RecoveringInv, EditSteps, Create, Rest
<1> QED
  BY <1>1, <1>2, <1>3, <1>4, <1>5 DEF IInv

(* GrantLease keeps the invariant. *)
LEMMA GrantLeaseInv ==
    ASSUME IInv, GrantLease
    PROVE  IInv'
<1> USE DEF GrantLease
<1> DEFINE p == <<run, doing.worker>>
           x == [run |-> run, worker |-> doing.worker, content |-> doing.content,
                 prepared |-> FALSE, leased |-> TRUE, valid |-> TRUE]
<1>0. doing \in Creating /\ p \in Runs \X Workers /\ x \in Document
  BY StepKind DEF IInv, Creating, TypeOK, Document
<1>a. /\ recovered
      /\ Len(docs) < MaxDocs
      /\ file[p] = doing.content
      /\ snapshot[<<run, doing.content>>] = "whole"
      /\ \A d \in DOMAIN docs : docs[d].leased => Path(d) # p
  BY DEF IInv, CreatingInv
<1>b. docs \in Seq(Document) /\ Len(docs) \in Nat /\ MaxDocs \in Nat
  BY BrokerAssumption DEF BrokerAssumption, IInv, TypeOK
<1>5. CreatingInv' /\ EditingInv' /\ RecoveringInv'
  BY DEF CreatingInv, EditingInv, RecoveringInv, EditSteps, Rest
<1>6. faults' \in 0 .. MaxFaults
  BY BrokerAssumption DEF BrokerAssumption, IInv, TypeOK, Fault, NoFault
<1>7. CASE docs' = Append(docs, x) /\ UNCHANGED file
  <2>0. PICK n \in Nat : n = Len(docs) + 1
    BY <1>b
  <2>1. /\ docs' \in Seq(Document) /\ Len(docs') = n /\ Len(docs') <= MaxDocs
        /\ DOMAIN docs' = DOMAIN docs \cup {n} /\ n \notin DOMAIN docs
        /\ docs'[n] = x
        /\ \A d \in DOMAIN docs : docs'[d] = docs[d]
    BY <2>0, <1>7, <1>0, <1>a, <1>b
  <2>2. TypeOK'
    BY <2>1, <1>7, <1>6 DEF IInv, TypeOK
  <2>a. /\ docs'[n].run = run /\ docs'[n].worker = doing.worker
        /\ docs'[n].content = doing.content
    BY <2>1
  <2>b. Path(n)' = p /\ \A d \in DOMAIN docs : Path(d)' = Path(d)
    BY <2>1, <2>a DEF Path
  <2>3. SnapshotsKept'
    <3> SUFFICES ASSUME NEW d \in DOMAIN docs'
                 PROVE  snapshot[<<docs'[d].run, docs'[d].content>>] = "whole"
      BY DEF SnapshotsKept, ReadRelative
    <3>1. CASE d = n
      BY <3>1, <2>a, <1>a
    <3>2. CASE d \in DOMAIN docs
      BY <3>2, <2>1 DEF IInv, SnapshotsKept, ReadRelative
    <3> QED
      BY <3>1, <3>2, <2>1
  <2>4. OldLeasesEnd'
    BY <2>1 DEF IInv, OldLeasesEnd
  <2>5. OneLeasePerPath'
    <3> SUFFICES ASSUME NEW d \in DOMAIN docs', NEW e \in DOMAIN docs',
                        docs'[d].leased, docs'[e].leased, Path(d)' = Path(e)'
                 PROVE  d = e
      BY DEF OneLeasePerPath
    <3> QED
      BY <2>1, <2>b, <1>a DEF IInv, OneLeasePerPath
  <2>6. OnDisk'
    <3> SUFFICES ASSUME NEW d \in DOMAIN docs', docs'[d].leased, ~docs'[d].prepared
                 PROVE  file[Path(d)'] = docs'[d].content
      BY <1>7 DEF OnDisk
    <3>1. CASE d = n
      BY <3>1, <2>a, <2>b, <1>a
    <3>2. CASE d \in DOMAIN docs
      BY <3>2, <2>1, <2>b, <1>a DEF IInv, OnDisk
    <3> QED
      BY <3>1, <3>2, <2>1
  <2> QED
    BY <2>2, <2>3, <2>4, <2>5, <2>6, <1>5 DEF IInv
<1>8. CASE UNCHANGED docs /\ DiscardAfterFailure(p)
  <2>1. TypeOK'
    BY <1>8, <1>0, <1>6 DEF IInv, TypeOK, DiscardAfterFailure
  <2>2. SnapshotsKept' /\ OldLeasesEnd' /\ OneLeasePerPath'
    BY <1>8 DEF IInv, SnapshotsKept, OldLeasesEnd, OneLeasePerPath, ReadRelative, Path
  <2>3. OnDisk'
    <3> SUFFICES ASSUME NEW d \in DOMAIN docs, docs[d].leased, ~docs[d].prepared
                 PROVE  file'[Path(d)] = docs[d].content
      BY <1>8 DEF OnDisk, Path
    <3>1. file[Path(d)] = docs[d].content /\ Path(d) # p
      BY <1>a DEF IInv, OnDisk
    <3> QED
      BY <3>1, <1>8, <1>0, DocType DEF IInv, TypeOK, DiscardAfterFailure
  <2> QED
    BY <2>1, <2>2, <2>3, <1>5 DEF IInv
<1> QED
  BY <1>7, <1>8

-----------------------------------------------------------------------------
(* Steps that change neither documents nor files keep what is said of them. *)
LEMMA QuietInv ==
    ASSUME IInv, UNCHANGED <<docs, file, run, recovered>>,
           \A s \in Runs \X Contents : snapshot[s] = "whole" => snapshot'[s] = "whole"
    PROVE  SnapshotsKept' /\ OldLeasesEnd' /\ OneLeasePerPath' /\ OnDisk'
<1>1. SnapshotsKept'
  BY SnapshotsStay DEF IInv
<1> QED
  BY <1>1 DEF IInv, OldLeasesEnd, OneLeasePerPath, OnDisk, Path

(* The document of an edit under way. *)
LEMMA EditFacts ==
    ASSUME IInv, doing.step \in EditSteps
    PROVE  /\ doing \in Editing /\ doing.content \in Contents
           /\ recovered
           /\ doing.doc \in DOMAIN docs /\ docs[doing.doc] \in Document
           /\ docs[doing.doc].prepared /\ docs[doing.doc].leased
           /\ docs[doing.doc].run \in Runs /\ docs[doing.doc].content \in Contents
           /\ Path(doing.doc) \in Runs \X Workers
<1>1. doing \in Editing
  BY StepKind DEF IInv
<1>2. doing.doc \in DOMAIN docs /\ recovered
      /\ docs[doing.doc].prepared /\ docs[doing.doc].leased
  BY DEF IInv, EditingInv
<1>3. docs[doing.doc] \in Document /\ Path(doing.doc) \in Runs \X Workers
  BY <1>2, DocType DEF IInv
<1> QED
  BY <1>1, <1>2, <1>3 DEF Editing, Document

(* PrepareEdit keeps the invariant. *)
LEMMA PrepareEditInv ==
    ASSUME IInv, NEW d \in DOMAIN docs, NEW c \in Contents, PrepareEdit(d, c)
    PROVE  IInv'
<1> USE DEF PrepareEdit
<1> DEFINE x == [docs[d] EXCEPT !.prepared = TRUE]
<1>0. /\ docs[d] \in Document /\ d \in 1 .. MaxDocs /\ x \in Document
      /\ docs' = [docs EXCEPT ![d] = x]
  BY DocType DEF IInv, Document
<1>1. /\ docs' \in Seq(Document) /\ Len(docs') <= MaxDocs
      /\ DOMAIN docs' = DOMAIN docs
      /\ docs'[d] = x
      /\ \A e \in DOMAIN docs : e # d => docs'[e] = docs[e]
  BY <1>0, DocChange DEF IInv
<1>2. /\ docs'[d].prepared
      /\ \A e \in DOMAIN docs :
            /\ docs'[e].run = docs[e].run /\ docs'[e].worker = docs[e].worker
            /\ docs'[e].content = docs[e].content /\ docs'[e].leased = docs[e].leased
            /\ e # d => docs'[e].prepared = docs[e].prepared
  BY <1>0, <1>1, ZenonT(40) DEF Document
<1>3. TypeOK'
  BY <1>0, <1>1 DEF IInv, TypeOK, Editing
<1>a. SnapshotsKept' /\ OldLeasesEnd'
  BY <1>1, <1>2 DEF IInv, SnapshotsKept, ReadRelative, OldLeasesEnd
<1>b. OneLeasePerPath'
  BY <1>1, <1>2 DEF IInv, OneLeasePerPath, Path
<1>4. SnapshotsKept' /\ OldLeasesEnd' /\ OneLeasePerPath' /\ OnDisk'
  BY <1>1, <1>2, <1>a, <1>b DEF IInv, OnDisk, Path
<1>5. CreatingInv' /\ RecoveringInv'
  BY DEF CreatingInv, RecoveringInv
<1>6. EditingInv'
  <2>1. doing'.step = "read" /\ doing'.doc = d
    OBVIOUS
  <2>2. Path(d)' = Path(d)
    BY <1>2 DEF Path
  <2>3. recovered' /\ docs'[d].leased /\ file'[Path(d)] = docs'[d].content
    BY <1>2 DEF Idle, Access, ValidateAccess
  <2> QED
    BY <1>1, <1>2, <2>1, <2>2, <2>3 DEF EditingInv
<1> QED
  BY <1>3, <1>4, <1>5, <1>6 DEF IInv

(* ReadPrevious keeps the invariant. *)
LEMMA ReadPreviousInv ==
    ASSUME IInv, ReadPrevious
    PROVE  IInv'
<1> USE DEF ReadPrevious
<1>0. doing \in Editing /\ doing.step \in EditSteps
  BY EditFacts DEF EditSteps
<1>1. faults' \in 0 .. MaxFaults
  BY BrokerAssumption DEF BrokerAssumption, IInv, TypeOK, Fault, NoFault
<1>2. doing' \in Editing /\ doing'.doc = doing.doc
      /\ doing'.step \in {"previous", "unprepare"}
  BY <1>0 DEF Edit, Editing
<1>3. TypeOK'
  BY <1>1, <1>2 DEF IInv, TypeOK
<1>4. SnapshotsKept' /\ OldLeasesEnd' /\ OneLeasePerPath' /\ OnDisk'
  BY QuietInv
<1>5. CreatingInv' /\ RecoveringInv'
  BY <1>2 DEF CreatingInv, RecoveringInv
<1>6. EditingInv'
  BY <1>0, <1>2 DEF IInv, EditingInv, Path
<1> QED
  BY <1>3, <1>4, <1>5, <1>6 DEF IInv

(* KeepPrevious keeps the invariant. *)
LEMMA KeepPreviousInv ==
    ASSUME IInv, KeepPrevious
    PROVE  IInv'
<1> USE DEF KeepPrevious
<1> DEFINE k == doing.doc
<1>0. doing \in Editing /\ doing.step \in EditSteps
      /\ docs[k].run \in Runs /\ docs[k].content \in Contents
  BY EditFacts DEF EditSteps
<1>1. /\ snapshot' \in [Runs \X Contents -> SnapshotState]
      /\ \A s \in Runs \X Contents : snapshot[s] = "whole" => snapshot'[s] = "whole"
      /\ faults' \in 0 .. MaxFaults
  BY <1>0, StoreKeeps DEF IInv
<1>2. doing' \in Editing /\ doing'.doc = doing.doc
      /\ doing'.step \in {"replacement", "unprepare"}
  BY <1>0 DEF Edit, Editing
<1>3. TypeOK'
  BY <1>1, <1>2 DEF IInv, TypeOK
<1>4. SnapshotsKept' /\ OldLeasesEnd' /\ OneLeasePerPath' /\ OnDisk'
  BY <1>1, QuietInv
<1>5. CreatingInv' /\ RecoveringInv'
  BY <1>2 DEF CreatingInv, RecoveringInv
<1>6. EditingInv'
  BY <1>0, <1>2 DEF IInv, EditingInv, Path
<1> QED
  BY <1>3, <1>4, <1>5, <1>6 DEF IInv

(* KeepReplacement keeps the invariant. *)
LEMMA KeepReplacementInv ==
    ASSUME IInv, KeepReplacement
    PROVE  IInv'
<1> USE DEF KeepReplacement
<1> DEFINE k == doing.doc
<1>0. doing \in Editing /\ doing.step \in EditSteps
      /\ docs[k].run \in Runs /\ doing.content \in Contents
  BY EditFacts DEF EditSteps
<1>1. /\ snapshot' \in [Runs \X Contents -> SnapshotState]
      /\ \A s \in Runs \X Contents : snapshot[s] = "whole" => snapshot'[s] = "whole"
      /\ StoreSnapshot(docs[k].run, doing.content)
            => snapshot'[<<docs[k].run, doing.content>>] = "whole"
      /\ faults' \in 0 .. MaxFaults
  BY <1>0, StoreKeeps DEF IInv
<1>2. /\ doing' \in Editing /\ doing'.doc = doing.doc /\ doing'.content = doing.content
      /\ \/ doing'.step = "replace" /\ StoreSnapshot(docs[k].run, doing.content)
         \/ doing'.step = "unprepare"
  BY <1>0 DEF Edit, Editing
<1>3. TypeOK'
  BY <1>1, <1>2 DEF IInv, TypeOK
<1>4. SnapshotsKept' /\ OldLeasesEnd' /\ OneLeasePerPath' /\ OnDisk'
  BY <1>1, QuietInv
<1>5. CreatingInv' /\ RecoveringInv'
  BY <1>2 DEF CreatingInv, RecoveringInv
<1>6. EditingInv'
  BY <1>0, <1>1, <1>2 DEF IInv, EditingInv, Path
<1> QED
  BY <1>3, <1>4, <1>5, <1>6 DEF IInv

(* An edit writes only its own file: other leases are on other paths. *)
LEMMA OwnFile ==
    ASSUME IInv, NEW k \in DOMAIN docs, docs[k].leased, docs[k].prepared,
           UNCHANGED <<docs, recovered>>,
           \A q \in Runs \X Workers : q # Path(k) => file'[q] = file[q]
    PROVE  OnDisk'
<1> SUFFICES ASSUME recovered, NEW d \in DOMAIN docs, docs[d].leased, ~docs[d].prepared
             PROVE  file'[Path(d)] = docs[d].content
  BY DEF OnDisk, Path
<1>1. file[Path(d)] = docs[d].content /\ Path(d) # Path(k)
  BY DEF IInv, OnDisk, OneLeasePerPath
<1> QED
  BY <1>1, DocType DEF IInv

(* ReplaceFile keeps the invariant. *)
LEMMA ReplaceFileInv ==
    ASSUME IInv, ReplaceFile
    PROVE  IInv'
<1> USE DEF ReplaceFile
<1>k. PICK k : k = doing.doc
  OBVIOUS
<1>0. /\ doing \in Editing /\ doing.step \in EditSteps
      /\ k \in DOMAIN docs /\ docs[k].leased /\ docs[k].prepared
      /\ Path(k) \in Runs \X Workers /\ doing.content \in Contents
  BY <1>k, EditFacts DEF EditSteps
<1>1. /\ file' \in [Runs \X Workers -> Contents \cup {NoFile, Junk}]
      /\ \A q \in Runs \X Workers : q # Path(k) => file'[q] = file[q]
      /\ ReplaceRelative(Path(k), doing.content) => file'[Path(k)] = doing.content
      /\ faults' \in 0 .. MaxFaults
  BY <1>0, <1>k, ReplaceKeeps DEF IInv
<1>2. /\ doing' \in Editing /\ doing'.doc = k /\ doing'.content = doing.content
      /\ \/ doing'.step = "commit" /\ ReplaceRelative(Path(k), doing.content)
         \/ doing'.step = "compensate"
  BY <1>0, <1>k DEF Edit, Editing
<1>3. TypeOK'
  BY <1>1, <1>2 DEF IInv, TypeOK
<1>4. SnapshotsKept' /\ OldLeasesEnd' /\ OneLeasePerPath'
  BY DEF IInv, SnapshotsKept, ReadRelative, OldLeasesEnd, OneLeasePerPath, Path
<1>5. OnDisk'
  BY <1>0, <1>1, OwnFile
<1>6. CreatingInv' /\ RecoveringInv'
  BY <1>2 DEF CreatingInv, RecoveringInv
<1>7. EditingInv'
  <2>1. Path(k)' = Path(k)
    BY DEF Path
  <2>2. recovered /\ snapshot[<<docs[k].run, doing.content>>] = "whole"
    BY <1>k, <1>0 DEF IInv, EditingInv
  <2> QED
    BY <2>1, <2>2, <1>0, <1>1, <1>2 DEF EditingInv
<1> QED
  BY <1>3, <1>4, <1>5, <1>6, <1>7 DEF IInv

(* Compensate keeps the invariant. *)
LEMMA CompensateInv ==
    ASSUME IInv, Compensate
    PROVE  IInv'
<1> USE DEF Compensate
<1>k. PICK k : k = doing.doc
  OBVIOUS
<1>0. /\ doing \in Editing /\ doing.step \in EditSteps /\ recovered
      /\ k \in DOMAIN docs /\ docs[k].leased /\ docs[k].prepared
      /\ Path(k) \in Runs \X Workers /\ docs[k].content \in Contents
  BY <1>k, EditFacts DEF EditSteps
<1>1. /\ file' \in [Runs \X Workers -> Contents \cup {NoFile, Junk}]
      /\ \A q \in Runs \X Workers : q # Path(k) => file'[q] = file[q]
      /\ ReplaceRelative(Path(k), docs[k].content) => file'[Path(k)] = docs[k].content
      /\ faults' \in 0 .. MaxFaults
  <2>1. CASE \/ ReplaceRelative(Path(k), docs[k].content) /\ NoFault
             \/ ReplaceFails(Path(k), docs[k].content)
    BY <2>1, <1>0, ReplaceKeeps DEF IInv
  <2>2. CASE UNCHANGED file /\ NoFault
             /\ ~ReplaceRelative(Path(k), docs[k].content)
    BY <2>2 DEF IInv, TypeOK, NoFault
  <2> QED
    BY <2>1, <2>2, <1>k
<1>2. \/ /\ doing' \in Editing /\ doing'.doc = k /\ doing'.step = "unprepare"
         /\ ReplaceRelative(Path(k), docs[k].content)
      \/ doing' = Rest
  BY <1>0, <1>k DEF Edit, Editing
<1>3. TypeOK'
  BY <1>1, <1>2 DEF IInv, TypeOK
<1>4. SnapshotsKept' /\ OldLeasesEnd' /\ OneLeasePerPath'
  BY DEF IInv, SnapshotsKept, ReadRelative, OldLeasesEnd, OneLeasePerPath, Path
<1>5. OnDisk'
  BY <1>0, <1>1, OwnFile
<1>6. CreatingInv' /\ RecoveringInv'
  BY <1>2 DEF CreatingInv, RecoveringInv, Rest
<1>7. EditingInv'
  <2>1. Path(k)' = Path(k)
    BY DEF Path
  <2> QED
    BY <2>1, <1>0, <1>1, <1>2 DEF EditingInv, EditSteps, Rest
<1> QED
  BY <1>3, <1>4, <1>5, <1>6, <1>7 DEF IInv

(* CommitEdit keeps the invariant. *)
LEMMA CommitEditInv ==
    ASSUME IInv, CommitEdit
    PROVE  IInv'
<1> USE DEF CommitEdit
<1>k. PICK k : k = doing.doc
  OBVIOUS
<1>0. /\ doing \in Editing /\ doing.step \in EditSteps /\ recovered
      /\ k \in DOMAIN docs /\ docs[k] \in Document
      /\ docs[k].leased /\ docs[k].prepared
      /\ doing.content \in Contents
  BY <1>k, EditFacts DEF EditSteps
<1>a. /\ file[Path(k)] = doing.content
      /\ snapshot[<<docs[k].run, doing.content>>] = "whole"
  BY <1>k, <1>0 DEF IInv, EditingInv
<1>b. faults' \in 0 .. MaxFaults
  BY BrokerAssumption DEF BrokerAssumption, IInv, TypeOK, Fault, NoFault
<1>1. CASE UNCHANGED docs /\ Edit("compensate")
  <2>1. doing' \in Editing /\ doing'.doc = k /\ doing'.step = "compensate"
    BY <1>0, <1>1, <1>k DEF Edit, Editing
  <2>2. TypeOK'
    BY <1>1, <1>b, <2>1 DEF IInv, TypeOK
  <2>3. SnapshotsKept' /\ OldLeasesEnd' /\ OneLeasePerPath' /\ OnDisk'
    BY <1>1, QuietInv
  <2>4. CreatingInv' /\ RecoveringInv'
    BY <2>1 DEF CreatingInv, RecoveringInv
  <2>5. EditingInv'
    BY <1>0, <1>1, <2>1 DEF EditingInv
  <2> QED
    BY <2>2, <2>3, <2>4, <2>5 DEF IInv
<1>2. CASE /\ docs' = [docs EXCEPT ![k].content = doing.content, ![k].prepared = FALSE]
           /\ doing' = Rest
  <2> DEFINE x == [docs[k] EXCEPT !.content = doing.content, !.prepared = FALSE]
  <2>0. x \in Document /\ docs' = [docs EXCEPT ![k] = x]
    BY <1>0, <1>2 DEF Document, IInv, TypeOK
  <2>1. /\ docs' \in Seq(Document) /\ Len(docs') <= MaxDocs
        /\ DOMAIN docs' = DOMAIN docs
        /\ docs'[k] = x
        /\ \A e \in DOMAIN docs : e # k => docs'[e] = docs[e]
    BY <2>0, <1>0, DocChange DEF IInv
  <2>2. /\ docs'[k].content = doing.content
        /\ \A e \in DOMAIN docs :
              /\ docs'[e].run = docs[e].run /\ docs'[e].worker = docs[e].worker
              /\ docs'[e].leased = docs[e].leased
              /\ e # k => docs'[e] = docs[e]
    BY <1>0, <2>1 DEF Document
  <2>3. TypeOK'
    BY <2>1, <1>2, <1>b DEF IInv, TypeOK
  <2>a. SnapshotsKept'
    <3> SUFFICES ASSUME NEW d \in DOMAIN docs
                 PROVE  snapshot[<<docs'[d].run, docs'[d].content>>] = "whole"
      BY <2>1 DEF SnapshotsKept, ReadRelative
    <3>1. CASE d = k
      BY <3>1, <1>a, <2>2
    <3>2. CASE d # k
      BY <3>2, <2>2 DEF IInv, SnapshotsKept, ReadRelative
    <3> QED
      BY <3>1, <3>2
  <2>4. SnapshotsKept' /\ OldLeasesEnd'
    BY <2>a, <2>1, <2>2 DEF IInv, OldLeasesEnd
  <2>5. OneLeasePerPath'
    BY <2>1, <2>2 DEF IInv, OneLeasePerPath, Path
  <2>6. OnDisk'
    <3> SUFFICES ASSUME NEW d \in DOMAIN docs, docs'[d].leased, ~docs'[d].prepared
                 PROVE  file[Path(d)] = docs'[d].content
      BY <2>1, <2>2 DEF OnDisk, Path
    <3>1. CASE d = k
      BY <3>1, <1>a, <2>2
    <3>2. CASE d # k
      BY <3>2, <1>0, <2>2 DEF IInv, OnDisk
    <3> QED
      BY <3>1, <3>2
  <2>7. CreatingInv' /\ EditingInv' /\ RecoveringInv'
    BY <1>2 DEF CreatingInv, EditingInv, RecoveringInv, EditSteps, Rest
  <2> QED
    BY <2>3, <2>4, <2>5, <2>6, <2>7 DEF IInv
<1> QED
  BY <1>1, <1>2, <1>k

(* Ending a preparation whose file is as recorded, or outside of service. *)
LEMMA PreparationEnds ==
    ASSUME IInv, NEW k \in DOMAIN docs,
           UNCHANGED <<file, snapshot, run, recovered>>,
           recovered => file[Path(k)] = docs[k].content,
           faults' \in 0 .. MaxFaults, doing' = Rest,
           docs' = [docs EXCEPT ![k].prepared = FALSE] \/ UNCHANGED docs
    PROVE  IInv'
<1>7. CreatingInv' /\ EditingInv' /\ RecoveringInv'
  BY DEF CreatingInv, EditingInv, RecoveringInv, EditSteps, Rest
<1>1. CASE UNCHANGED docs
  <2>1. TypeOK'
    BY <1>1 DEF IInv, TypeOK
  <2>2. SnapshotsKept' /\ OldLeasesEnd' /\ OneLeasePerPath' /\ OnDisk'
    BY <1>1, QuietInv
  <2> QED
    BY <2>1, <2>2, <1>7 DEF IInv
<1>2. CASE docs' = [docs EXCEPT ![k].prepared = FALSE]
  <2> DEFINE x == [docs[k] EXCEPT !.prepared = FALSE]
  <2>0. docs[k] \in Document /\ x \in Document /\ docs' = [docs EXCEPT ![k] = x]
    BY <1>2, DocType DEF Document, IInv
  <2>1. /\ docs' \in Seq(Document) /\ Len(docs') <= MaxDocs
        /\ DOMAIN docs' = DOMAIN docs
        /\ docs'[k] = x
        /\ \A e \in DOMAIN docs : e # k => docs'[e] = docs[e]
    BY <2>0, DocChange DEF IInv
  <2>2. \A e \in DOMAIN docs :
           /\ docs'[e].run = docs[e].run /\ docs'[e].worker = docs[e].worker
           /\ docs'[e].leased = docs[e].leased /\ docs'[e].content = docs[e].content
           /\ e # k => docs'[e] = docs[e]
    BY <2>0, <2>1 DEF Document
  <2>3. TypeOK'
    BY <2>1 DEF IInv, TypeOK
  <2>a. SnapshotsKept'
    BY <2>1, <2>2 DEF IInv, SnapshotsKept, ReadRelative
  <2>4. SnapshotsKept' /\ OldLeasesEnd'
    BY <2>1, <2>2, <2>a DEF IInv, OldLeasesEnd
  <2>5. OneLeasePerPath'
    BY <2>1, <2>2 DEF IInv, OneLeasePerPath, Path
  <2>6. OnDisk'
    <3> SUFFICES ASSUME recovered, NEW d \in DOMAIN docs, docs'[d].leased, ~docs'[d].prepared
                 PROVE  file[Path(d)] = docs'[d].content
      BY <2>1, <2>2 DEF OnDisk, Path
    <3>1. CASE d = k
      BY <3>1, <2>2
    <3>2. CASE d # k
      BY <3>2, <2>2 DEF IInv, OnDisk
    <3> QED
      BY <3>1, <3>2
  <2> QED
    BY <2>3, <2>4, <2>5, <2>6, <1>7 DEF IInv
<1> QED
  BY <1>1, <1>2

(* Unprepare keeps the invariant. *)
LEMMA UnprepareInv ==
    ASSUME IInv, Unprepare
    PROVE  IInv'
<1> USE DEF Unprepare
<1>1. doing.doc \in DOMAIN docs
  BY EditFacts DEF EditSteps
<1>2. file[Path(doing.doc)] = docs[doing.doc].content
  BY DEF IInv, EditingInv, EditSteps
<1>3. faults' \in 0 .. MaxFaults
  BY BrokerAssumption DEF BrokerAssumption, IInv, TypeOK, Fault, NoFault
<1> QED
  BY <1>1, <1>2, <1>3, PreparationEnds

(* RecordRestored keeps the invariant. *)
LEMMA RecordRestoredInv ==
    ASSUME IInv, RecordRestored
    PROVE  IInv'
<1> USE DEF RecordRestored
<1>1. doing.doc \in DOMAIN docs /\ ~recovered
  BY DEF IInv, RecoveringInv
<1>3. faults' \in 0 .. MaxFaults
  BY BrokerAssumption DEF BrokerAssumption, IInv, TypeOK, Fault, NoFault
<1> QED
  BY <1>1, <1>3, PreparationEnds

-----------------------------------------------------------------------------
(* A lease that ends or lapses: the document itself stays as it is. *)
LEMMA LeaseChange ==
    ASSUME IInv, NEW d \in DOMAIN docs, NEW b \in BOOLEAN, NEW v \in BOOLEAN,
           b => docs[d].leased,
           docs' = [docs EXCEPT ![d] = [docs[d] EXCEPT !.leased = b, !.valid = v]],
           UNCHANGED <<file, snapshot, run, recovered, doing, faults>>,
           doing = Rest \/ b = docs[d].leased
    PROVE  IInv'
<1> DEFINE x == [docs[d] EXCEPT !.leased = b, !.valid = v]
<1>0. docs[d] \in Document /\ x \in Document
  BY DocType DEF Document, IInv
<1>1. /\ docs' \in Seq(Document) /\ Len(docs') <= MaxDocs
      /\ DOMAIN docs' = DOMAIN docs
      /\ docs'[d] = x
      /\ \A e \in DOMAIN docs : e # d => docs'[e] = docs[e]
  BY <1>0, DocChange DEF IInv
<1>2. \A e \in DOMAIN docs :
         /\ docs'[e].run = docs[e].run /\ docs'[e].worker = docs[e].worker
         /\ docs'[e].content = docs[e].content /\ docs'[e].prepared = docs[e].prepared
         /\ docs'[e].leased => docs[e].leased
         /\ doing # Rest => docs'[e].leased = docs[e].leased
  BY <1>0, <1>1 DEF Document
<1>a. \A e \in DOMAIN docs : Path(e)' = Path(e)
  BY <1>2 DEF Path
<1>3. TypeOK'
  BY <1>1 DEF IInv, TypeOK
<1>4. SnapshotsKept'
  BY <1>1, <1>2 DEF IInv, SnapshotsKept, ReadRelative
<1>5. OldLeasesEnd'
  BY <1>1, <1>2 DEF IInv, OldLeasesEnd
<1>6. OneLeasePerPath'
  BY <1>1, <1>2, <1>a DEF IInv, OneLeasePerPath
<1>7. OnDisk'
  BY <1>1, <1>2, <1>a DEF IInv, OnDisk
<1>8. CASE doing = Rest
  <2>1. CreatingInv' /\ EditingInv' /\ RecoveringInv'
    BY <1>8 DEF CreatingInv, EditingInv, RecoveringInv, EditSteps, Rest
  <2> QED
    BY <2>1, <1>3, <1>4, <1>5, <1>6, <1>7 DEF IInv
<1>9. CASE doing # Rest
  <2>1. CreatingInv'
    <3>1. Len(docs') = Len(docs)
      BY <1>1 DEF IInv, TypeOK
    <3> QED
      BY <1>1, <1>2, <1>a, <3>1 DEF IInv, CreatingInv
  <2>2. EditingInv'
    <3> SUFFICES ASSUME doing.step \in EditSteps
                 PROVE  EditingInv'
      BY DEF EditingInv
    <3>1. PICK k : k = doing.doc
      OBVIOUS
    <3>2. k \in DOMAIN docs
      BY <3>1 DEF IInv, EditingInv
    <3> QED
      BY <1>1, <1>2, <1>9, <1>a, <3>1, <3>2, SMTT(30) DEF IInv, EditingInv
  <2>3. RecoveringInv'
    BY <1>1 DEF IInv, RecoveringInv
  <2> QED
    BY <2>1, <2>2, <2>3, <1>3, <1>4, <1>5, <1>6, <1>7 DEF IInv
<1> QED
  BY <1>8, <1>9

(* ReleaseLease, LeaseLapses and RecoverLease keep the invariant. *)
LEMMA LeaseActionsInv ==
    ASSUME IInv, NEW d \in DOMAIN docs,
           ReleaseLease(d) \/ LeaseLapses(d) \/ RecoverLease(d)
    PROVE  IInv'
<1>0. docs[d] \in Document
  BY DocType DEF IInv
<1>1. CASE ReleaseLease(d) \/ RecoverLease(d)
  <2>1. docs' = [docs EXCEPT ![d] = [docs[d] EXCEPT !.leased = FALSE, !.valid = docs[d].valid]]
    BY <1>0, <1>1 DEF ReleaseLease, RecoverLease, Document
  <2>2. docs[d].valid \in BOOLEAN
    BY <1>0 DEF Document
  <2> QED
    BY <1>1, <2>1, <2>2, LeaseChange DEF ReleaseLease, RecoverLease, Idle
<1>2. CASE LeaseLapses(d)
  <2>1. docs' = [docs EXCEPT ![d] = [docs[d] EXCEPT !.leased = docs[d].leased, !.valid = FALSE]]
    BY <1>0, <1>2 DEF LeaseLapses, Document
  <2>2. docs[d].leased \in BOOLEAN
    BY <1>0 DEF Document
  <2> QED
    BY <1>2, <2>1, <2>2, LeaseChange DEF LeaseLapses
<1> QED
  BY <1>1, <1>2

(* BeginRestore keeps the invariant. *)
LEMMA BeginRestoreInv ==
    ASSUME IInv, NEW d \in DOMAIN docs, BeginRestore(d)
    PROVE  IInv'
<1> USE DEF BeginRestore
<1>1. doing' \in Recovering
  BY DocType DEF IInv, Recovering
<1>2. TypeOK'
  BY <1>1 DEF IInv, TypeOK
<1>3. SnapshotsKept' /\ OldLeasesEnd' /\ OneLeasePerPath' /\ OnDisk'
  BY QuietInv
<1>4. CreatingInv' /\ EditingInv' /\ RecoveringInv'
  BY DEF CreatingInv, EditingInv, RecoveringInv, EditSteps
<1> QED
  BY <1>2, <1>3, <1>4 DEF IInv

(* RestoreOld keeps the invariant. *)
LEMMA RestoreOldInv ==
    ASSUME IInv, RestoreOld
    PROVE  IInv'
<1> USE DEF RestoreOld
<1>k. PICK k : k = doing.doc
  OBVIOUS
<1>0. doing \in Recovering /\ ~recovered /\ k \in DOMAIN docs
  BY <1>k, StepKind DEF IInv, RecoveringInv
<1>a. docs[k] \in Document /\ Path(k) \in Runs \X Workers /\ docs[k].content \in Contents
  BY <1>0, DocType DEF IInv, Document
<1>1. /\ file' \in [Runs \X Workers -> Contents \cup {NoFile, Junk}]
      /\ faults' \in 0 .. MaxFaults
  <2>1. CASE \/ ReplaceRelative(Path(k), docs[k].content) /\ NoFault
             \/ ReplaceFails(Path(k), docs[k].content)
    BY <2>1, <1>a, ReplaceKeeps DEF IInv
  <2>2. CASE UNCHANGED file /\ NoFault
    BY <2>2 DEF IInv, TypeOK, NoFault
  <2> QED
    BY <2>1, <2>2, <1>k
<1>2. doing' \in Recovering \cup {Rest} /\ (doing' # Rest => doing'.doc = k /\ doing'.step = "record")
  BY <1>0, <1>k DEF Recovering
<1>3. TypeOK'
  BY <1>1, <1>2 DEF IInv, TypeOK
<1>4. SnapshotsKept' /\ OldLeasesEnd' /\ OneLeasePerPath'
  BY DEF IInv, SnapshotsKept, ReadRelative, OldLeasesEnd, OneLeasePerPath, Path
<1>5. OnDisk'
  BY <1>0 DEF OnDisk
<1>6. CreatingInv' /\ EditingInv' /\ RecoveringInv'
  BY <1>0, <1>2 DEF CreatingInv, EditingInv, RecoveringInv, EditSteps, Rest
<1> QED
  BY <1>3, <1>4, <1>5, <1>6 DEF IInv

(* Recovered keeps the invariant. *)
LEMMA RecoveredInv ==
    ASSUME IInv, Recovered
    PROVE  IInv'
<1> USE DEF Recovered
<1>1. TypeOK'
  BY DEF IInv, TypeOK
<1>2. SnapshotsKept' /\ OneLeasePerPath'
  BY DEF IInv, SnapshotsKept, ReadRelative, OneLeasePerPath, Path
<1>3. OldLeasesEnd' /\ OnDisk'
  BY DEF OldLeasesEnd, OnDisk
<1>4. CreatingInv' /\ EditingInv' /\ RecoveringInv'
  BY DEF CreatingInv, EditingInv, RecoveringInv, EditSteps, Rest
<1> QED
  BY <1>1, <1>2, <1>3, <1>4 DEF IInv

(* Crash keeps the invariant. *)
LEMMA CrashInv ==
    ASSUME IInv, Crash
    PROVE  IInv'
<1>a. run' \in Runs
  <2>1. run < MaxCrashes /\ run' = run + 1 /\ run \in 0 .. MaxCrashes /\ MaxCrashes \in Nat
    BY BrokerAssumption DEF Crash, IInv, TypeOK, Runs, BrokerAssumption
  <2> QED
    BY <2>1 DEF Runs
<1>0. /\ UNCHANGED <<docs, faults>> /\ recovered' = FALSE
      /\ doing' = Rest /\ run' \in Runs
  BY <1>a DEF Crash
<1>1. file' \in [Runs \X Workers -> Contents \cup {NoFile, Junk}]
  <2>1. CASE UNCHANGED file
    BY <2>1 DEF IInv, TypeOK
  <2>2. CASE \E p : file' = [file EXCEPT ![p] = Junk]
    BY <2>2 DEF IInv, TypeOK
  <2> QED
    BY <2>1, <2>2 DEF Crash
<1>2. /\ snapshot' \in [Runs \X Contents -> SnapshotState]
      /\ \A s \in Runs \X Contents : snapshot[s] = "whole" => snapshot'[s] = "whole"
  <2>1. CASE UNCHANGED snapshot
    BY <2>1 DEF IInv, TypeOK
  <2>2. CASE \E s : snapshot[s] = "absent" /\ snapshot' = [snapshot EXCEPT ![s] = "twice"]
    BY <2>2 DEF IInv, TypeOK, SnapshotState
  <2> QED
    BY <2>1, <2>2 DEF Crash
<1>3. TypeOK'
  BY <1>0, <1>1, <1>2 DEF IInv, TypeOK
<1>4. SnapshotsKept'
  BY <1>0, <1>2, SnapshotsStay DEF IInv
<1>5. OldLeasesEnd' /\ OnDisk' /\ OneLeasePerPath'
  BY <1>0 DEF IInv, OldLeasesEnd, OnDisk, OneLeasePerPath, Path
<1>6. CreatingInv' /\ EditingInv' /\ RecoveringInv'
  BY <1>0 DEF CreatingInv, EditingInv, RecoveringInv, EditSteps, Rest
<1> QED
  BY <1>3, <1>4, <1>5, <1>6 DEF IInv

-----------------------------------------------------------------------------
(* The inductive invariant: what an operation under way has established,   *)
(* one active lease per path, and the three properties below hold after    *)
(* every effect, failure, expiry and crash of the broker.                  *)
THEOREM Safety == Spec => []IInv
<1>1. Init => IInv
  BY InitInv
<1>2. IInv /\ [Next]_vars => IInv'
  <2> SUFFICES ASSUME IInv, [Next]_vars PROVE IInv'
    OBVIOUS
  <2>1. CASE UNCHANGED vars
    <3>1. TypeOK'
      BY <2>1 DEF vars, IInv, TypeOK
    <3>2. SnapshotsKept' /\ OldLeasesEnd' /\ OneLeasePerPath' /\ OnDisk'
      BY <2>1, QuietInv DEF vars
    <3>3. CreatingInv' /\ EditingInv' /\ RecoveringInv'
      BY <2>1 DEF vars, IInv, CreatingInv, EditingInv, RecoveringInv, Path
    <3> QED
      BY <3>1, <3>2, <3>3 DEF IInv
  <2>2. CASE \E w \in Workers, c \in Contents : CreateDocument(w, c)
    BY <2>2, CreateDocumentInv
  <2>3. CASE \E d \in DOMAIN docs, c \in Contents : PrepareEdit(d, c)
    BY <2>3, PrepareEditInv
  <2>4. CASE \E d \in DOMAIN docs : ReleaseLease(d) \/ LeaseLapses(d) \/ RecoverLease(d)
    BY <2>4, LeaseActionsInv
  <2>5. CASE \E d \in DOMAIN docs : BeginRestore(d)
    BY <2>5, BeginRestoreInv
  <2>6. CASE CreateRelative \/ KeepInitial \/ GrantLease
    BY <2>6, CreateRelativeInv, KeepInitialInv, GrantLeaseInv
  <2>7. CASE \/ ReadPrevious \/ KeepPrevious \/ KeepReplacement \/ ReplaceFile
             \/ CommitEdit \/ Compensate \/ Unprepare
    BY <2>7, ReadPreviousInv, KeepPreviousInv, KeepReplacementInv, ReplaceFileInv,
       CommitEditInv, CompensateInv, UnprepareInv
  <2>8. CASE RestoreOld \/ RecordRestored \/ Recovered
    BY <2>8, RestoreOldInv, RecordRestoredInv, RecoveredInv
  <2>9. CASE Crash
    BY <2>9, CrashInv
  <2> QED
    BY <2>1, <2>2, <2>3, <2>4, <2>5, <2>6, <2>7, <2>8, <2>9 DEF Next, BrokerStep
<1> QED
  BY <1>1, <1>2, PTL DEF Spec

(* Documents, files, snapshots and the operation under way keep their types, *)
(* whichever effect fails and wherever the process dies.                     *)
THEOREM DocumentTypes == Spec => []TypeOK
<1>1. IInv => TypeOK
  BY DEF IInv
<1> QED
  BY <1>1, Safety, PTL

(* The recorded content of every document can be read from a snapshot,     *)
(* so _compensate and _ensure_recovered never lack the bytes they restore. *)
THEOREM SnapshotsAlwaysKept == Spec => []SnapshotsKept
<1>1. IInv => SnapshotsKept
  BY DEF IInv
<1> QED
  BY <1>1, Safety, PTL

(* Between operations read_document finds the recorded content of every    *)
(* document a worker may use.                                              *)
THEOREM UsableAlwaysOnDisk == Spec => []UsableIsOnDisk
<1>1. IInv => UsableIsOnDisk
  BY DEF IInv, OnDisk, UsableIsOnDisk, Idle, Access, ValidateAccess
<1> QED
  BY <1>1, Safety, PTL

(* A broker that serves has ended every lease of dead processes. *)
THEOREM OldLeasesAlwaysEnd == Spec => []OldLeasesEnd
<1>1. IInv => OldLeasesEnd
  BY DEF IInv
<1> QED
  BY <1>1, Safety, PTL
=============================================================================
