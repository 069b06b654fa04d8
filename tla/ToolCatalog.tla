------------------------------- MODULE ToolCatalog -------------------------------
(***************************************************************************)
(* The tools of the server as their generated decoders, hints and          *)
(* annotations declare them (gen/mcp_argo): one input schema per tool, the *)
(* example each hint shows, and which tools say that they only read.       *)
(* get_server_context takes no arguments and decodes none.                 *)
(***************************************************************************)
EXTENDS ToolInput

Upto200 == [limit |-> 1..200]
Upto50  == [limit |-> 50]
ByName == Schema(<<"name">>, {"namespace"}, Nothing, Nothing)

\* Mutant: the schema lets through a page the service refuses.
ListWorkflowsUnbounded ==
    Schema(<<>>, {"continue", "limit", "namespace", "status"}, [limit |-> Nat], Upto50)

ListWorkflowsInput ==
    Schema(<<>>, {"continue", "limit", "namespace", "status"},
           [limit |-> 1..200, status |-> {"Running", "Succeeded", "Failed", "Pending", "Error"}],
           Upto50)

GetWorkflowInput == ByName

GetWorkflowLogsInput ==
    Schema(<<"workflow_name">>,
           {"archive_uid", "container", "max_bytes", "max_lines", "namespace", "node_id",
            "pod_name", "search", "source"},
           [source |-> {"auto", "live", "archive"}, max_bytes |-> KiB(1)..MiB(4),
            max_lines |-> Nat],
           [container |-> "main", max_lines |-> 200, source |-> "auto", max_bytes |-> MiB(1)])

TerminateWorkflowInput ==
    Schema(<<"name", "reason">>, {"confirmation_token", "dry_run", "namespace"}, Nothing, Nothing)

RetryWorkflowInput ==
    Schema(<<"name">>, {"confirmation_token", "dry_run", "namespace", "restart_successful"},
           Nothing, Nothing)

ListCronWorkflowsInput ==
    Schema(<<>>, {"continue", "limit", "namespace", "suspended"}, Upto200, Upto50)

GetCronWorkflowInput == ByName

GetCronHistoryInput ==
    Schema(<<"name">>, {"continue", "limit", "namespace"}, Upto200, [limit |-> 10])

ToggleCronSuspensionInput == Schema(<<"name", "suspend">>, {"namespace"}, Nothing, Nothing)

ListWorkflowTemplatesInput ==
    Schema(<<>>, {"continue", "label_selector", "limit", "namespace"}, Upto200, Upto50)

GetWorkflowTemplateInput == ByName

ListClusterWorkflowTemplatesInput ==
    Schema(<<>>, {"continue", "label_selector", "limit"}, Upto200, Upto50)

GetClusterWorkflowTemplateInput == Schema(<<"name">>, {}, Nothing, Nothing)

GetWorkflowNodesInput ==
    Schema(<<"name">>, {"archive_uid", "limit", "namespace", "node_id", "offset", "phase"},
           [limit |-> 1..200, offset |-> Nat], [limit |-> 50, offset |-> 0])

GetWorkflowEventsInput ==
    Schema(<<"name">>, {"duration_seconds", "limit", "namespace"},
           [limit |-> 1..200, duration_seconds |-> 1..10], [limit |-> 50, duration_seconds |-> 2])

ListArchivedWorkflowsInput ==
    Schema(<<>>, {"continue", "label_selector", "limit", "name_prefix", "namespace"}, Upto200, Upto50)

GetArchivedWorkflowInput == Schema(<<"uid">>, {"namespace"}, Nothing, Nothing)

GetWorkflowArtifactsInput ==
    Schema(<<"name">>, {"archive_uid", "limit", "namespace", "node_id", "offset"},
           [limit |-> 1..200, offset |-> Nat], [limit |-> 50, offset |-> 0])

ReadWorkflowArtifactInput ==
    Schema(<<"name", "node_id", "artifact_name">>,
           {"archive_uid", "direction", "max_bytes", "namespace", "offset_bytes"},
           [direction |-> {"inputs", "outputs"}, max_bytes |-> 4..KiB(256),
            offset_bytes |-> 0..MiB(16)],
           [direction |-> "outputs", offset_bytes |-> 0, max_bytes |-> KiB(64)])

GetResourceSpecInput ==
    Schema(<<"kind", "name">>, {"max_bytes", "namespace", "section", "template_name"},
           [kind |-> {"workflow", "workflow_template", "cluster_workflow_template", "cron_workflow"},
            section |-> {"summary", "arguments", "templates", "spec"},
            max_bytes |-> KiB(1)..KiB(256)],
           [section |-> "summary", max_bytes |-> KiB(64)])

GetWorkflowPodDiagnosticsInput ==
    Schema(<<"name">>, {"continue", "limit", "namespace", "pod_name"},
           [limit |-> 1..50], [limit |-> 20])

WaitWorkflowInput ==
    Schema(<<"name">>, {"duration_seconds", "namespace", "poll_interval_seconds"},
           [duration_seconds |-> 1..30, poll_interval_seconds |-> 1..5],
           [duration_seconds |-> 10, poll_interval_seconds |-> 2])

\* That a manifest has at most 262144 characters is left out.
LintWorkflowInput == Schema(<<"manifest_json">>, {"namespace"}, Nothing, Nothing)

LintWorkflowTemplateInput ==
    Schema(<<"manifest_json">>, {"cluster_scope", "namespace"}, Nothing, [cluster_scope |-> FALSE])

SubmitWorkflowTemplateInput ==
    Schema(<<"template_name">>, {"cluster_scope", "namespace", "parameters"}, Nothing,
           [cluster_scope |-> FALSE])

SuspendWorkflowInput == ByName

ResumeWorkflowInput == ByName

ResubmitWorkflowInput ==
    Schema(<<"name">>, {"memoized", "namespace", "parameters"}, Nothing, [memoized |-> FALSE])

TriggerCronWorkflowInput == Schema(<<"name">>, {"namespace", "parameters"}, Nothing, Nothing)
----------------------------------------------------------------------------------
(* The switch of executeRealTool: the decoder of each tool. *)

WorkflowTools ==
    [list_workflows |-> ListWorkflowsInput, get_workflow |-> GetWorkflowInput,
     get_workflow_logs |-> GetWorkflowLogsInput, terminate_workflow |-> TerminateWorkflowInput,
     retry_workflow |-> RetryWorkflowInput]

CronTools ==
    [list_cron_workflows |-> ListCronWorkflowsInput, get_cron_workflow |-> GetCronWorkflowInput,
     get_cron_history |-> GetCronHistoryInput, toggle_cron_suspension |-> ToggleCronSuspensionInput]

TemplateTools ==
    [list_workflow_templates |-> ListWorkflowTemplatesInput,
     get_workflow_template |-> GetWorkflowTemplateInput,
     list_cluster_workflow_templates |-> ListClusterWorkflowTemplatesInput,
     get_cluster_workflow_template |-> GetClusterWorkflowTemplateInput]

InspectionTools ==
    [get_workflow_nodes |-> GetWorkflowNodesInput, get_workflow_events |-> GetWorkflowEventsInput,
     list_archived_workflows |-> ListArchivedWorkflowsInput,
     get_archived_workflow |-> GetArchivedWorkflowInput,
     get_workflow_artifacts |-> GetWorkflowArtifactsInput]

ObservationTools ==
    [read_workflow_artifact |-> ReadWorkflowArtifactInput,
     get_resource_spec |-> GetResourceSpecInput,
     get_workflow_pod_diagnostics |-> GetWorkflowPodDiagnosticsInput,
     wait_workflow |-> WaitWorkflowInput]

LifecycleTools ==
    [lint_workflow |-> LintWorkflowInput, lint_workflow_template |-> LintWorkflowTemplateInput,
     submit_workflow_template |-> SubmitWorkflowTemplateInput,
     suspend_workflow |-> SuspendWorkflowInput, resume_workflow |-> ResumeWorkflowInput,
     resubmit_workflow |-> ResubmitWorkflowInput,
     trigger_cron_workflow |-> TriggerCronWorkflowInput]

Inputs ==
    [tool \in UNION {DOMAIN WorkflowTools, DOMAIN CronTools, DOMAIN TemplateTools,
                     DOMAIN InspectionTools, DOMAIN ObservationTools, DOMAIN LifecycleTools} |->
        CASE tool \in DOMAIN WorkflowTools    -> WorkflowTools[tool]
          [] tool \in DOMAIN CronTools        -> CronTools[tool]
          [] tool \in DOMAIN TemplateTools    -> TemplateTools[tool]
          [] tool \in DOMAIN InspectionTools  -> InspectionTools[tool]
          [] tool \in DOMAIN ObservationTools -> ObservationTools[tool]
          [] OTHER                            -> LifecycleTools[tool]]
----------------------------------------------------------------------------------
(* The examples of the hints. *)

Example  == String("example")
Off      == Boolean(FALSE)
OneName  == [name |-> Example]
FiftyOf  == [limit |-> Number(50)]

\* The example of the hint of each tool, by the groups of the recoveries in the code.
FirstExamples ==
    [list_workflows          |-> FiftyOf,
     list_cron_workflows     |-> FiftyOf,
     list_workflow_templates |-> FiftyOf,
     get_workflow            |-> OneName,
     retry_workflow          |-> OneName,
     get_cron_workflow       |-> OneName,
     get_workflow_logs       |-> [workflow_name |-> Example, container |-> String("main"),
                                  source |-> String("auto"), max_bytes |-> Number(MiB(1)),
                                  max_lines |-> Number(200)],
     terminate_workflow      |-> [name |-> Example, reason |-> Example],
     get_cron_history        |-> [name |-> Example, limit |-> Number(10)],
     toggle_cron_suspension  |-> [name |-> Example, suspend |-> Off]]

\* Mutant: the example of read_workflow_artifact lacks the artifact's name.
SecondExamplesShort ==
    [get_workflow_template           |-> OneName,
     get_cluster_workflow_template   |-> OneName,
     list_cluster_workflow_templates |-> FiftyOf,
     list_archived_workflows         |-> FiftyOf,
     get_workflow_nodes     |-> OneName,
     get_workflow_artifacts |-> OneName,
     get_workflow_events    |-> OneName,
     get_archived_workflow  |-> [uid |-> Example],
     read_workflow_artifact |-> [name |-> Example, node_id |-> Example],
     get_resource_spec      |-> [name |-> Example, kind |-> String("workflow")]]

SecondExamples ==
    [get_workflow_template           |-> OneName,
     get_cluster_workflow_template   |-> OneName,
     list_cluster_workflow_templates |-> FiftyOf,
     list_archived_workflows         |-> FiftyOf,
     get_workflow_nodes     |-> [name |-> Example, limit |-> Number(50), offset |-> Number(0)],
     get_workflow_artifacts |-> [name |-> Example, limit |-> Number(50), offset |-> Number(0)],
     get_workflow_events    |-> [name |-> Example, limit |-> Number(50),
                                 duration_seconds |-> Number(2)],
     get_archived_workflow  |-> [uid |-> Example],
     read_workflow_artifact |-> [name |-> Example, node_id |-> Example, artifact_name |-> Example,
                                 direction |-> String("outputs"), max_bytes |-> Number(KiB(64)),
                                 offset_bytes |-> Number(0)],
     get_resource_spec      |-> [name |-> Example, kind |-> String("workflow"),
                                 max_bytes |-> Number(KiB(64)), section |-> String("summary")]]

ThirdExamples ==
    [suspend_workflow             |-> OneName,
     resume_workflow              |-> OneName,
     trigger_cron_workflow        |-> OneName,
     get_workflow_pod_diagnostics |-> [name |-> Example, limit |-> Number(20)],
     wait_workflow                |-> [name |-> Example, duration_seconds |-> Number(10),
                                       poll_interval_seconds |-> Number(2)],
     lint_workflow                |-> [manifest_json |-> Example],
     lint_workflow_template       |-> [manifest_json |-> Example, cluster_scope |-> Off],
     submit_workflow_template     |-> [template_name |-> Example, cluster_scope |-> Off],
     resubmit_workflow            |-> [name |-> Example, memoized |-> Off]]

Examples ==
    [tool \in DOMAIN Inputs |->
        CASE tool \in DOMAIN FirstExamples  -> FirstExamples[tool]
          [] tool \in DOMAIN SecondExamples -> SecondExamples[tool]
          [] tool \in DOMAIN ThirdExamples  -> ThirdExamples[tool]]
----------------------------------------------------------------------------------
Tools == DOMAIN Inputs \cup {"get_server_context"}

\* The tools whose annotations have readOnlyHint.
ReadOnly ==
    Tools \ {"terminate_workflow", "retry_workflow", "toggle_cron_suspension",
             "submit_workflow_template", "suspend_workflow", "resume_workflow",
             "resubmit_workflow", "trigger_cron_workflow"}
==================================================================================
