----------------------------- MODULE RunProject -----------------------------
(***************************************************************************)
(* The Lean project of a run: a copy of the source project whose manifest  *)
(* imports the published modules.  The promotion verifier stages its       *)
(* candidate in it (knowledge/lean_verifier.py), and every access by a     *)
(* worker rebuilds the manifest from what is published (lean/project.py,   *)
(* lean/source_layout.py), also while the verifier awaits Lean.  The       *)
(* project outlives a crash; the verifier's clean-up does not.             *)
(*                                                                         *)
(* The source is recorded once, with the project (ProjectInitialized), but *)
(* it is copied file by file at every access, and a new run begins a copy  *)
(* of what the operator has made of it since.                              *)
(***************************************************************************)
EXTENDS Naturals, FiniteSets, Sequences

CONSTANTS
  Candidates,     \* contributions to promote
  NoCandidate,
  FirstSource,    \* the source as ProjectInitialized records it: a version per file, 0 for no file
  MaxVersion,     \* bound: versions of a source file
  MaxCrashes      \* bound: crashes of the process

ASSUME ProjectAssumption ==
  NoCandidate \notin Candidates /\ MaxVersion \in Nat /\ FirstSource \in Seq(0..MaxVersion) /\ MaxCrashes \in Nat

VARIABLES
  manifest,      \* generated imports of the run's manifest
  files,         \* generated modules in the run's project
  published,     \* modules of the DeclarationPublished events
  epoch,         \* base epoch of the last delta, as the source and the modules it hashes
  projectSource, \* the source project, which the operator edits
  copy,          \* the run's copy of it
  pc,            \* where the promoter stands
  cand,          \* its candidate
  original,      \* the manifest it will put back
  created,       \* the files it will unlink
  result,        \* what its materialization returned: the module and the epoch
  done,          \* candidates that were decided
  crashes

projectVars == <<manifest, files>>
stateVars == <<published, epoch, done>>
promoterVars == <<pc, cand, original, created, result>>
sourceVars == <<projectSource, copy>>
runProjectVars == <<projectVars, stateVars, promoterVars, sourceVars, crashes>>

\* What a source or a copy of it may hold, and a copy that is not begun.
Contents == [DOMAIN FirstSource -> 0..MaxVersion]
NoCopy == [f \in DOMAIN FirstSource |-> 0]

\* The names the verifier gives: a staged module is named by its content alone, a
\* published one by the knowledge epoch it opens too.
Staged(c) == <<"Promotion", c, 0>>
Publication(c) == <<"K", c, Cardinality(published) + 1>>
Names == {Staged(c) : c \in Candidates}
         \cup ({"K"} \X Candidates \X (Nat \ {0}))

\* What a base epoch is the hash of.
Hash(content, modules) == [source |-> content, modules |-> modules]
Hashes == [source : Contents, modules : SUBSET Names]

NoResult == [module |-> Staged(CHOOSE c \in Candidates : TRUE), epoch |-> Hash(NoCopy, {})]

\* Every variable has its type; a promotion is under way exactly while there is a candidate,
\* and what it will unlink is there.
ProjectTypeOK ==
  /\ manifest \subseteq Names /\ files \subseteq Names
  /\ published \subseteq Names /\ epoch \in Hashes
  /\ projectSource \in Contents /\ copy \in Contents
  /\ pc \in {"idle", "diagnostics", "build", "verify", "verified", "materialized",
             "activating", "activated", "down"}
  /\ cand \in Candidates \cup {NoCandidate}
  /\ (cand = NoCandidate) = (pc \in {"idle", "down"})
  /\ original \subseteq Names /\ created \subseteq files
  /\ result = NoResult \/ result.module \in Names
  /\ result.epoch \in Hashes
  /\ done \in [Candidates -> {"no", "published", "failed", "mismatch"}]
  /\ crashes \in 0..MaxCrashes

\* _initialize: the base epoch of the source is recorded; no run has a copy of it yet.
ProjectInit ==
  /\ manifest = {} /\ files = {}
  /\ published = {} /\ epoch = Hash(FirstSource, {})
  /\ projectSource = FirstSource /\ copy = NoCopy
  /\ pc = "idle" /\ cand = NoCandidate
  /\ original = {} /\ created = {} /\ result = NoResult
  /\ done = [c \in Candidates |-> "no"]
  /\ crashes = 0

-----------------------------------------------------------------------------
(* The project                                                             *)

\* A file of the source that was copied and edited since.
Differs(f) == copy[f] # 0 /\ projectSource[f] # 0 /\ copy[f] # projectSource[f]

\* _matches_source, source_layout.materialize: what is copied must still be as in the
\* source, so that an edited file stops every access.
RunProjectMatches == \A f \in DOMAIN FirstSource : ~Differs(f)

\* File by file, what is not in the copy yet is copied, up to one that differs.
Copied ==
  [f \in DOMAIN FirstSource |->
     IF copy[f] = 0 /\ (\A g \in 1..f : ~Differs(g)) THEN projectSource[f] ELSE copy[f]]
Copies == copy' = Copied /\ UNCHANGED projectSource

\* published_modules: every DeclarationPublished event names a module and its artifact.
PublishedModules == published

\* sync_published_modules: all generated imports go, those of published modules come.
SyncedManifest == PublishedModules

\* A missing published module is created from its artifact.
SyncedFiles == files \cup PublishedModules

\* Mutant: the module that is to be published is not hashed.
ProjectEpochNow(content, imports, extra) == Hash(content, imports)

\* project_base_epoch: the hash covers the copied files, the imports of the manifest, and
\* one module more where it is asked to.
ProjectEpoch(content, imports, extra) == Hash(content, imports \cup extra)

\* _run_project on behalf of a worker: reading, editing or checking its document.
Access ==
  /\ pc # "down"
  /\ Copies
  /\ IF RunProjectMatches THEN manifest' = SyncedManifest /\ files' = SyncedFiles ELSE UNCHANGED projectVars
  /\ <<manifest', files', copy'>> # <<manifest, files, copy>>
  /\ UNCHANGED <<stateVars, promoterVars, crashes>>

\* A file is changed, added or removed.
EditSource ==
  /\ \E f \in DOMAIN FirstSource, v \in 0..MaxVersion :
       v # projectSource[f] /\ projectSource' = [projectSource EXCEPT ![f] = v]
  /\ UNCHANGED <<projectVars, stateVars, promoterVars, copy, crashes>>

-----------------------------------------------------------------------------
(* The promoter                                                            *)

Decide(how) ==
  /\ pc' = "idle" /\ cand' = NoCandidate
  /\ done' = [done EXCEPT ![cand] = how]
  /\ original' = {} /\ created' = {} /\ result' = NoResult

\* _trusted_promotion_project raises: the promotion fails.
AccessDenied ==
  /\ pc \in {"verified", "materialized"} /\ ~RunProjectMatches
  /\ Decide("failed") /\ Copies
  /\ UNCHANGED <<projectVars, published, epoch, crashes>>

VerifyDenied(c) ==
  /\ pc = "idle" /\ done[c] = "no" /\ ~RunProjectMatches
  /\ done' = [done EXCEPT ![c] = "failed"]
  /\ Copies
  /\ UNCHANGED <<projectVars, published, epoch, promoterVars, crashes>>

\* verify up to its await: sync, read the manifest, stage the module, import it.
VerifyBegin(c) ==
  /\ pc = "idle" /\ done[c] = "no" /\ RunProjectMatches
  /\ pc' = "diagnostics" /\ cand' = c
  /\ original' = SyncedManifest
  /\ created' = {Staged(c)} \ files
  /\ files' = SyncedFiles \cup {Staged(c)}
  /\ manifest' = SyncedManifest \cup {Staged(c)}
  /\ Copies
  /\ UNCHANGED <<stateVars, result, crashes>>

\* The diagnostics name the module's file; the build follows the manifest.
CheckDiagnostics ==
  /\ pc = "diagnostics"
  /\ pc' = "build"
  /\ UNCHANGED <<projectVars, stateVars, cand, original, created, result, sourceVars, crashes>>

CheckBuild ==
  /\ pc = "build"
  /\ pc' = "verify"
  /\ UNCHANGED <<projectVars, stateVars, cand, original, created, result, sourceVars, crashes>>

\* The finally of verify: the manifest as it was read, without the staged files.
Restore ==
  /\ manifest' = original
  /\ files' = files \ created

\* _promotion_evidence: errors, axioms, warnings and the type decide.
VerifyEnd ==
  /\ pc = "verify"
  /\ Restore
  /\ \/ /\ pc' = "verified"
        /\ original' = {} /\ created' = {}
        /\ UNCHANGED <<cand, result, done>>
     \/ Decide("failed")
  /\ UNCHANGED <<published, epoch, sourceVars, crashes>>

\* The runtime raises, or the claim is lost and the verification cancelled.
VerifyRaises ==
  /\ pc \in {"diagnostics", "build", "verify"}
  /\ Restore
  /\ Decide("failed")
  /\ UNCHANGED <<published, epoch, sourceVars, crashes>>

\* Sync, compare the project with the epoch, write the module, hash the project with it.
Materialize ==
  /\ pc = "verified" /\ RunProjectMatches
  /\ Copies
  /\ manifest' = SyncedManifest
  /\ IF ProjectEpoch(copy', manifest', {}) = epoch
     THEN /\ files' = SyncedFiles \cup {Publication(cand)}
          /\ result' = [module |-> Publication(cand),
                        epoch |-> ProjectEpoch(copy', manifest', {Publication(cand)})]
          /\ pc' = "materialized"
          /\ UNCHANGED <<cand, original, created, done>>
     ELSE /\ files' = SyncedFiles
          /\ Decide("mismatch")
  /\ UNCHANGED <<published, epoch, crashes>>

\* activate up to its await: sync again, find the module, import it.
Activate ==
  /\ pc = "materialized" /\ RunProjectMatches
  /\ result.module \in SyncedFiles
  /\ files' = SyncedFiles
  /\ manifest' = SyncedManifest \cup {result.module}
  /\ pc' = "activating"
  /\ Copies
  /\ UNCHANGED <<stateVars, cand, original, created, result, crashes>>

\* The build's verdict: a broken one fails the promotion, the manifest stays.
ActivationBuild ==
  /\ pc = "activating"
  /\ \/ /\ pc' = "activated"
        /\ UNCHANGED <<cand, original, created, result, done>>
     \/ Decide("failed")
  /\ UNCHANGED <<projectVars, published, epoch, sourceVars, crashes>>

\* publish_promotion: the declaration and the delta with its epoch, in one transaction; it
\* is denied when the claim is lost.
Publish ==
  /\ pc = "activated"
  /\ \/ /\ published' = published \cup {result.module}
        /\ epoch' = result.epoch
        /\ Decide("published")
     \/ /\ Decide("failed")
        /\ UNCHANGED <<published, epoch>>
  /\ UNCHANGED <<projectVars, sourceVars, crashes>>

-----------------------------------------------------------------------------
(* The process dies; what follows works in the same project or a new copy  *)

Crash ==
  /\ pc # "down" /\ crashes < MaxCrashes
  /\ crashes' = crashes + 1
  /\ pc' = "down" /\ cand' = NoCandidate
  /\ original' = {} /\ created' = {} /\ result' = NoResult
  /\ UNCHANGED <<projectVars, stateVars, sourceVars>>

Restart ==
  /\ pc = "down"
  /\ pc' = "idle"
  /\ \/ UNCHANGED <<projectVars, copy>>
     \/ manifest' = {} /\ files' = {} /\ copy' = NoCopy
  /\ UNCHANGED <<stateVars, projectSource, cand, original, created, result, crashes>>

ProjectNext ==
  \/ Access \/ EditSource
  \/ AccessDenied
  \/ \E c \in Candidates : VerifyBegin(c) \/ VerifyDenied(c)
  \/ CheckDiagnostics \/ CheckBuild \/ VerifyEnd \/ VerifyRaises
  \/ Materialize \/ Activate \/ ActivationBuild \/ Publish
  \/ Crash \/ Restart

ProjectSpec == ProjectInit /\ [][ProjectNext]_runProjectVars

-----------------------------------------------------------------------------
(* Properties                                                              *)

\* The base epoch that the last delta carries is the hash of the recorded source with
\* exactly the published modules, whatever staged, activated or abandoned imports lay in
\* the manifest when it was computed, and whatever was made of the source since.
EpochTracksProject == epoch = Hash(FirstSource, published)

\* materialize refuses with EPOCH_PROJECT_MISMATCH exactly where the copy it works in has
\* other sources than were recorded with the project: never for the generated imports that
\* crashes, failed activations and workers' accesses leave, and always when the operator's
\* edits have come into the copy of a new run, or a new file into one that is there.
RefusedForItsSource ==
  [][/\ (\E c \in Candidates : done[c] # "mismatch" /\ done'[c] = "mismatch") => copy' # FirstSource
     /\ (pc # "materialized" /\ pc' = "materialized") => copy' = FirstSource]_runProjectVars

\* Without a crash a verification leaves nothing behind: once it is over, however it ended,
\* neither its file nor its import is in the project.
NothingStaged ==
  (crashes = 0 /\ pc \notin {"diagnostics", "build", "verify"}) =>
    \A c \in Candidates : Staged(c) \notin files /\ Staged(c) \notin manifest
=============================================================================
