---------------------------- MODULE EventSchema ----------------------------
(***************************************************************************)
(* The tables that give an event its shape and its place: the fields a     *)
(* payload needs (schema_v1.py, schema_v1_orchestration.py), the           *)
(* projection and the entity an event belongs to (reducers.py) and the     *)
(* transitions an orchestration event may make                             *)
(* (projections_orchestration.py).  What a field may hold is left out: a   *)
(* validator looks at one value and never at the state.                    *)
(***************************************************************************)

DocumentFields ==
  {"document_id", "lease_id", "worker_id", "relative_path", "virtual_document_namespace",
   "base_epoch", "knowledge_epoch", "version", "content_hash", "expires_at"}

\* _CODECS: the fields an event cannot be without
Required ==
  [ProjectInitialized |-> {"project_id", "base_epoch", "knowledge_epoch"},
   RunCreated |-> {}, RunCompleted |-> {}, RunAborted |-> {},
   WorkerRegistered |-> {"worker_id"}, WorkerStarted |-> {"worker_id"},
   WorkerStopped |-> {"worker_id"}, WorkerCrashed |-> {"worker_id"},
   CapabilityMinted |-> {"worker_id", "role"},
   CapabilityDenied |-> {"reason_code", "role", "worker_id", "operation", "request_id"},
   SandboxProbeStarted |-> {"probe_id"},
   SandboxProbeDenied |-> {"probe_id", "reason_code"},
   SandboxProbePassed |-> {"probe_id"},
   SandboxProbeFailed |-> {"probe_id", "reason_code"},
   LeaseGranted |-> DocumentFields,
   LeaseReleased |-> {"lease_id"}, LeaseRecovered |-> {"lease_id"},
   DocumentEditPrepared |-> DocumentFields \cup {"expected_version", "expected_hash"},
   DocumentEdited |-> DocumentFields, DocumentEditRecovered |-> DocumentFields,
   FormalActionRecorded |->
     {"action_id", "action_kind", "worker_id", "document_id", "input_hash", "output_hash",
      "verdict", "document_version", "base_epoch", "knowledge_epoch", "started_at",
      "completed_at"},
   ContributionSubmitted |-> {"contribution_id"},
   ContributionRebased |-> {"contribution_id", "source_contribution_id"},
   ContributionEnqueued |-> {"contribution_id"},
   PromotionStateChanged |-> {"contribution_id", "state"},
   PromotionPrepared |-> {"contribution_id", "module", "content_hash", "base_epoch",
                          "knowledge_epoch", "declaration_id", "delta_id"},
   PromotionFailed |-> {"contribution_id", "reason_code"},
   DeclarationPublished |-> {"declaration_id"},
   KnowledgeDeltaPublished |-> {"delta_id", "base_epoch", "knowledge_epoch"},
   KnowledgeDeltaAcknowledged |-> {"acknowledgement_id", "worker_id", "delta_id"},
   LeanRuntimeStarted |-> {"runtime_id"}, LeanRuntimeCrashed |-> {"runtime_id", "reason_code"},
   LeanRuntimeRestarted |-> {"runtime_id"},
   EnvironmentTransitionProposed |->
     {"transition_id", "old_fingerprint", "new_fingerprint", "reason"},
   EnvironmentTransitionApproved |->
     {"transition_id", "old_fingerprint", "new_fingerprint", "reason", "reviewer"},
   EnvironmentTransitionRejected |-> {"transition_id"},
   AlignmentReviewed |-> {"review_id"}, InterventionRecorded |-> {"intervention_id"}]

\* The codecs schema_v1_orchestration.extend adds
RequiredOfOrchestration ==
  [ControllerConfigured |-> {"controller_id", "provider"},
   WorkerConfigured |-> {"worker_id", "role", "status"},
   WorkerTaskAssigned |-> {"assignment_id", "controller_id", "worker_id", "task",
                           "task_hash", "task_version"},
   ScheduleProposed |-> {"directive_id", "worker_id", "execution_id"},
   WorkerCursorSaved |-> {"directive_id", "worker_id", "execution_id", "last_event_sequence",
                          "remaining_budget", "terminal"},
   WorkerTimedOut |-> {"worker_id", "execution_id"},
   AgentRunCompleted |-> {"worker_id", "execution_id", "status", "transport_event_hash",
                          "final_message_hash", "exit_code"},
   PromotionVerificationRecorded |->
     {"contribution_id", "diagnostics_hash", "diagnostics_verdict", "build_hash",
      "build_verdict", "axiom_verification_hash", "axiom_verification_verdict"},
   LeanRuntimeStopped |-> {"runtime_id"},
   ArtifactRegistered |-> {"artifact_name", "content_hash", "relative_path", "media_type",
                           "byte_length"},
   FormalTraceSealed |-> {"cutoff_kind"},
   EvaluationTransitionRejected |-> {"field", "requested_hash", "reason_code"}]

\* The ones of a controller and of the executions it dispatches
RequiredOfExecution ==
  [ControllerStarted |-> {"controller_id", "controller_session_id", "controller_version",
                          "provider", "backend_version", "executable_hash"},
   ControllerStopped |-> {"controller_id", "controller_session_id", "reason_code"},
   ControllerCrashed |-> {"controller_id", "controller_session_id", "reason_code"},
   WorkerTaskClaimed |-> {"assignment_id", "controller_id", "controller_session_id",
                          "controller_version", "worker_id", "task_version", "execution_id"},
   WorkerTaskDispatchPlanned |->
     {"assignment_id", "execution_id", "directive_id", "directive_artifact_hash",
      "instruction_hash", "budget", "timeout_milliseconds"},
   WorkerTaskCompleted |-> {"assignment_id", "execution_id", "result_hash"},
   WorkerTaskFailed |-> {"assignment_id", "execution_id", "reason_code"},
   WorkerTaskInterrupted |-> {"assignment_id", "execution_id", "reason_code"}]

\* validate_payload hands research records to records.py, which knows their fields.
EventTypes ==
  DOMAIN Required \cup DOMAIN RequiredOfOrchestration \cup DOMAIN RequiredOfExecution
    \cup {"ResearchRecordUpdated"}

RequiredFields(type) ==
  CASE type = "ResearchRecordUpdated" -> {"record_id"}
    [] type \in DOMAIN Required -> Required[type]
    [] type \in DOMAIN RequiredOfOrchestration -> RequiredOfOrchestration[type]
    [] OTHER -> RequiredOfExecution[type]

-----------------------------------------------------------------------------

OrchestrationEvents ==
  [controller_runtime |-> {"ControllerStarted", "ControllerStopped", "ControllerCrashed"},
   worker_executions |-> {"WorkerTaskClaimed", "WorkerTaskDispatchPlanned",
                          "WorkerTaskCompleted", "WorkerTaskFailed", "WorkerTaskInterrupted"}]

\* _EVENT_PROJECTION, read from the projection to its events
EventsOf ==
  [research |-> {"ResearchRecordUpdated"},
   project |-> {"ProjectInitialized", "EnvironmentTransitionProposed",
                "EnvironmentTransitionApproved", "EnvironmentTransitionRejected"},
   runs |-> {"RunCreated", "RunCompleted", "RunAborted"},
   artifacts |-> {"ArtifactRegistered"},
   evaluations |-> {"FormalTraceSealed", "EvaluationTransitionRejected",
                    "PromotionVerificationRecorded"},
   schedules |-> {"ScheduleProposed"},
   controller |-> {"ControllerConfigured"},
   workers |-> {"WorkerRegistered", "WorkerStarted", "WorkerStopped", "WorkerCrashed",
                "WorkerTimedOut", "AgentRunCompleted"},
   worker_roster |-> {"WorkerConfigured"},
   worker_assignments |-> {"WorkerTaskAssigned"},
   controller_runtime |-> OrchestrationEvents.controller_runtime,
   worker_executions |-> OrchestrationEvents.worker_executions,
   worker_cursors |-> {"WorkerCursorSaved"},
   epochs |-> {},
   leases |-> {"LeaseGranted", "LeaseReleased", "LeaseRecovered"},
   documents |-> {"DocumentEditPrepared", "DocumentEdited", "DocumentEditRecovered"},
   formal_actions |-> {"FormalActionRecorded"},
   contributions |-> {"ContributionSubmitted", "ContributionRebased", "ContributionEnqueued",
                      "PromotionStateChanged", "PromotionPrepared", "PromotionFailed"},
   verified_declarations |-> {"DeclarationPublished"},
   knowledge_deltas |-> {"KnowledgeDeltaPublished"},
   knowledge_acknowledgements |-> {"KnowledgeDeltaAcknowledged"},
   denials |-> {"CapabilityDenied", "SandboxProbeDenied", "SandboxProbeFailed"},
   resources |-> {"CapabilityMinted", "SandboxProbeStarted", "SandboxProbePassed",
                  "LeanRuntimeStarted", "LeanRuntimeCrashed", "LeanRuntimeRestarted",
                  "LeanRuntimeStopped"},
   alignment_reviews |-> {"AlignmentReviewed"},
   interventions |-> {"InterventionRecorded"}]

ProjectionNames == DOMAIN EventsOf

ProjectionOf(type) == CHOOSE name \in ProjectionNames : type \in EventsOf[name]

\* _ENTITY_FIELD, read from the field to its events; the others go by their run
EntityFieldOf ==
  [record_id |-> {"ResearchRecordUpdated"},
   project_id |-> {"ProjectInitialized"},
   content_hash |-> {"ArtifactRegistered"},
   requested_hash |-> {"EvaluationTransitionRejected"},
   controller_id |-> {"ControllerConfigured"} \cup EventsOf.controller_runtime,
   worker_id |-> {"WorkerConfigured", "WorkerTaskAssigned", "WorkerCursorSaved"}
                   \cup EventsOf.workers,
   directive_id |-> {"ScheduleProposed"},
   request_id |-> {"CapabilityDenied"},
   probe_id |-> {"SandboxProbeStarted", "SandboxProbeDenied", "SandboxProbePassed",
                 "SandboxProbeFailed"},
   lease_id |-> EventsOf.leases,
   document_id |-> EventsOf.documents,
   action_id |-> {"FormalActionRecorded"},
   contribution_id |-> {"PromotionVerificationRecorded"} \cup EventsOf.contributions,
   declaration_id |-> {"DeclarationPublished"},
   delta_id |-> {"KnowledgeDeltaPublished"},
   acknowledgement_id |-> {"KnowledgeDeltaAcknowledged"},
   runtime_id |-> {"LeanRuntimeStarted", "LeanRuntimeCrashed", "LeanRuntimeRestarted",
                   "LeanRuntimeStopped"},
   transition_id |-> {"EnvironmentTransitionProposed", "EnvironmentTransitionApproved",
                      "EnvironmentTransitionRejected"},
   review_id |-> {"AlignmentReviewed"},
   intervention_id |-> {"InterventionRecorded"},
   assignment_id |-> EventsOf.worker_executions]

NamedByField == UNION {EntityFieldOf[f] : f \in DOMAIN EntityFieldOf}

FieldOf(type) == CHOOSE f \in DOMAIN EntityFieldOf : type \in EntityFieldOf[f]

\* An event without an entity field goes by its run, or by its own id.
ByRun == {"RunCreated", "RunCompleted", "RunAborted", "FormalTraceSealed", "CapabilityMinted"}

-----------------------------------------------------------------------------

TargetStatus ==
  [ControllerStarted |-> "running", ControllerStopped |-> "stopped",
   ControllerCrashed |-> "crashed", WorkerTaskClaimed |-> "claimed",
   WorkerTaskDispatchPlanned |-> "planned", WorkerTaskCompleted |-> "completed",
   WorkerTaskFailed |-> "failed", WorkerTaskInterrupted |-> "interrupted"]

\* "none": the entity has no record yet
AllowedPrevious ==
  [ControllerStarted |-> {"none", "stopped", "crashed"},
   ControllerStopped |-> {"running"}, ControllerCrashed |-> {"running"},
   WorkerTaskClaimed |-> {"none"}, WorkerTaskDispatchPlanned |-> {"claimed"},
   WorkerTaskCompleted |-> {"planned"}, WorkerTaskFailed |-> {"claimed", "planned"},
   WorkerTaskInterrupted |-> {"claimed", "planned"}]
=============================================================================
