------------------------------ MODULE ServiceReads ------------------------------
(***************************************************************************)
(* The tools of internal/service that only read or lint: the checks of     *)
(* each before Argo is asked, in the order of its handler, the namespaces  *)
(* its request is about, and what becomes of Argo's answer.                *)
(*                                                                         *)
(* A handler is the sequence of its checks: the error of each and when it  *)
(* fails.  p is the payload, a function over the tool's fields; s is the   *)
(* server, with its namespace policy and whether the clients are           *)
(* configured.  A refusal about the range of a number has the name         *)
(* "out_of_range", also where the code gives it the same error as other    *)
(* invalid input.  An optional text that is empty counts as left out; a    *)
(* blank one may not.                                                      *)
(***************************************************************************)
EXTENDS ToolPolicy, ToolInput

CONSTANTS
    Unsafe,    \* a text that cannot be one segment of a path
    Manifests  \* what the texts that hold one JSON object with metadata say

Denied(p, s)      == ~Authorized(Namespace(p), s)
Given(text)       == text \notin {Omitted, Blank}
Safe(text)        == text \notin {Blank, Unsafe}
SafeIfGiven(text) == text # Omitted => Safe(text)

\* A zero stands for the default.
Outside(n, range) == n # 0 /\ n \notin range

PageRefused(p) == Outside(p.limit, 1..200)

List(p, s) == <<
    <<"namespace_denied",    Denied(p, s)>>,
    <<"out_of_range",        PageRefused(p)>>,
    <<"configuration_error", ~s.argo>> >>

ListWorkflows(p, s)         == List(p, s)
ListCronWorkflows(p, s)     == List(p, s)
ListWorkflowTemplates(p, s) == List(p, s)

ListClusterWorkflowTemplates(p, s) == <<
    <<"out_of_range",        PageRefused(p)>>,
    <<"configuration_error", ~s.argo>> >>

Get(p, s) == <<
    <<"namespace_denied",    Denied(p, s)>>,
    <<"name_required",       p.name = Blank>>,
    <<"configuration_error", ~s.argo>> >>

GetWorkflow(p, s)         == Get(p, s)
GetCronWorkflow(p, s)     == Get(p, s)
GetWorkflowTemplate(p, s) == Get(p, s)

GetClusterWorkflowTemplate(p, s) == <<
    <<"name_required",       p.name = Blank>>,
    <<"configuration_error", ~s.argo>> >>

GetCronHistory(p, s) == <<
    <<"namespace_denied",    Denied(p, s)>>,
    <<"name_required",       p.name = Blank>>,
    <<"out_of_range",        PageRefused(p)>>,
    <<"configuration_error", ~s.argo>> >>

BoundedDiagnostic(p) == p.offset >= 0 /\ ~PageRefused(p)

\* lookupWorkflowData: only safe segments make a path.
Retained(p) == Safe(Namespace(p)) /\ Safe(p.name) /\ SafeIfGiven(p.archive_uid)

GetWorkflowNodes(p, s) == <<
    <<"namespace_denied",    Denied(p, s)>>,
    <<"invalid_input",       p.name = Blank>>,
    <<"out_of_range",        ~BoundedDiagnostic(p)>>,
    <<"invalid_input",       ~Retained(p)>>,
    <<"configuration_error", ~s.argo>> >>

\* The client is asked for before the lookup, for the links.
GetWorkflowArtifacts(p, s) == <<
    <<"namespace_denied",    Denied(p, s)>>,
    <<"invalid_input",       p.name = Blank>>,
    <<"out_of_range",        ~BoundedDiagnostic(p)>>,
    <<"configuration_error", ~s.argo>>,
    <<"invalid_input",       ~Retained(p)>> >>

GetWorkflowEvents(p, s) == <<
    <<"namespace_denied",    Denied(p, s)>>,
    <<"invalid_input",       p.name = Blank>>,
    <<"out_of_range",        PageRefused(p) \/ Outside(p.duration_seconds, 1..10)>>,
    <<"configuration_error", ~s.argo>> >>

\* Here the client checks the limit.
ListArchivedWorkflows(p, s) == <<
    <<"namespace_denied",    Denied(p, s)>>,
    <<"configuration_error", ~s.argo>>,
    <<"out_of_range",        PageRefused(p)>> >>

GetArchivedWorkflow(p, s) == <<
    <<"namespace_denied",    Denied(p, s)>>,
    <<"invalid_input",       p.uid = Blank>>,
    <<"configuration_error", ~s.argo>> >>

\* Pods belong to live reads, nodes and archived workflows to retained ones.
SelectorsClash(p) ==
    LET pod == Given(p.pod_name)
        retained == Given(p.node_id) \/ Given(p.archive_uid)
    IN  \/ pod /\ (retained \/ p.source = "archive")
        \/ p.source = "live" /\ retained

GetWorkflowLogs(p, s) == <<
    <<"namespace_denied",    Denied(p, s)>>,
    <<"invalid_input",       p.workflow_name = Blank>>,
    <<"out_of_range",        p.source \notin {"auto", "live", "archive"} \/ p.max_lines < 0
                             \/ Outside(p.max_bytes, KiB(1)..MiB(4))>>,
    <<"invalid_input",       SelectorsClash(p)>>,
    <<"invalid_input",       Unsafe \in {Namespace(p), p.workflow_name, p.container, p.pod_name, p.node_id}>>,
    <<"configuration_error", ~s.argo>>,
    <<"invalid_input",       p.archive_uid = Unsafe>> >>

ReadWorkflowArtifact(p, s) == <<
    <<"namespace_denied",    Denied(p, s)>>,
    <<"invalid_input",       Blank \in {p.name, p.node_id, p.artifact_name}>>,
    <<"out_of_range",        p.offset_bytes \notin 0..MiB(16)
                             \/ Outside(p.max_bytes, 4..KiB(256))>>,
    <<"configuration_error", ~s.argo>>,
    <<"invalid_input",       Unsafe \in {Namespace(p), p.name, p.node_id, p.artifact_name, p.archive_uid}>>,
    <<"out_of_range",        p.direction \notin {"inputs", "outputs"}>> >>

WaitWorkflow(p, s) == <<
    <<"namespace_denied",    Denied(p, s)>>,
    <<"invalid_input",       ~Safe(p.name) \/ ~Safe(Namespace(p))>>,
    <<"out_of_range",        Outside(p.duration_seconds, 1..30)
                             \/ Outside(p.poll_interval_seconds, 1..5)>>,
    <<"configuration_error", ~s.argo>> >>

\* A missing Argo client is found by the lookup, whose error is then wrapped
\* as one of Argo's.
GetWorkflowPodDiagnostics(p, s) == <<
    <<"namespace_denied",               Denied(p, s)>>,
    <<"invalid_input",                  ~Safe(p.name) \/ ~Safe(Namespace(p)) \/ ~SafeIfGiven(p.pod_name)>>,
    <<"out_of_range",                   Outside(p.limit, 1..50)>>,
    <<"invalid_input",                  Omitted \notin {p.pod_name, p.continue}>>,
    <<"kubernetes_configuration_error", ~s.kubernetes>>,
    <<"argo_api_error",                 ~s.argo>> >>

GetResourceSpec(p, s) ==
    LET cluster == p.kind = "cluster_workflow_template"
    IN  << <<"invalid_input",       ~Safe(p.name)>>,
            <<"out_of_range",        p.kind \notin {"workflow", "workflow_template", "cluster_workflow_template",
                                     "cron_workflow"}>>,
            <<"invalid_input",       cluster /\ p.namespace # Omitted>>,
            <<"namespace_denied",    ~cluster /\ Denied(p, s)>>,
            <<"invalid_input",       ~cluster /\ ~Safe(Namespace(p))>>,
            <<"out_of_range",        p.section \notin {"summary", "arguments", "templates", "spec"}>>,
            <<"invalid_input",       p.template_name # Omitted /\ p.section # "templates">>,
            <<"out_of_range",        Outside(p.max_bytes, KiB(1)..KiB(256))>>,
            <<"configuration_error", ~s.argo>> >>
---------------------------------------------------------------------------------
(* Linting: a manifest brings a namespace of its own. *)

\* Mutant: a manifest may name any namespace.
ManifestShaped(text, kind, namespace) ==
    ~(text \in DOMAIN Manifests /\ Manifests[text].kind = kind)

ManifestRefused(text, kind, namespace) ==
    \/ text \notin DOMAIN Manifests
    \/ LET manifest == Manifests[text]
           cluster == kind = "ClusterWorkflowTemplate"
       IN  \/ manifest.kind # kind
           \/ manifest.named \notin IF kind = "Workflow" THEN {"name", "generateName"} ELSE {"name"}
           \/ manifest.namespace \notin IF cluster THEN {Omitted} ELSE {Omitted, namespace}

LintWorkflow(p, s) == <<
    <<"namespace_denied",    Denied(p, s)>>,
    <<"invalid_input",       ManifestRefused(p.manifest_json, "Workflow", Namespace(p))>>,
    <<"configuration_error", ~s.argo>> >>

LintWorkflowTemplate(p, s) ==
    LET cluster == p.cluster_scope
        kind == IF cluster THEN "ClusterWorkflowTemplate" ELSE "WorkflowTemplate"
    IN  << <<"invalid_input",       cluster /\ p.namespace # Omitted>>,
            <<"namespace_denied",    ~cluster /\ Denied(p, s)>>,
            <<"invalid_input",       ManifestRefused(p.manifest_json, kind, Namespace(p))>>,
            <<"configuration_error", ~s.argo>> >>

\* A namespace that the manifest leaves out is written into it.
ManifestNamespace(text, namespace) ==
    IF Manifests[text].namespace = Omitted THEN namespace ELSE Manifests[text].namespace
---------------------------------------------------------------------------------
\* The checks of the handler of a tool.
Checks(tool, p, s) ==
    CASE tool = "list_workflows"                  -> ListWorkflows(p, s)
      [] tool = "list_cron_workflows"             -> ListCronWorkflows(p, s)
      [] tool = "list_workflow_templates"         -> ListWorkflowTemplates(p, s)
      [] tool = "get_workflow"                    -> GetWorkflow(p, s)
      [] tool = "get_cron_workflow"               -> GetCronWorkflow(p, s)
      [] tool = "get_workflow_template"           -> GetWorkflowTemplate(p, s)
      [] tool = "list_cluster_workflow_templates" -> ListClusterWorkflowTemplates(p, s)
      [] tool = "get_cluster_workflow_template"   -> GetClusterWorkflowTemplate(p, s)
      [] tool = "get_cron_history"                -> GetCronHistory(p, s)
      [] tool = "get_workflow_nodes"              -> GetWorkflowNodes(p, s)
      [] tool = "get_workflow_artifacts"          -> GetWorkflowArtifacts(p, s)
      [] tool = "get_workflow_events"             -> GetWorkflowEvents(p, s)
      [] tool = "list_archived_workflows"         -> ListArchivedWorkflows(p, s)
      [] tool = "get_archived_workflow"           -> GetArchivedWorkflow(p, s)
      [] tool = "get_workflow_logs"               -> GetWorkflowLogs(p, s)
      [] tool = "read_workflow_artifact"          -> ReadWorkflowArtifact(p, s)
      [] tool = "wait_workflow"                   -> WaitWorkflow(p, s)
      [] tool = "get_workflow_pod_diagnostics"    -> GetWorkflowPodDiagnostics(p, s)
      [] tool = "get_resource_spec"               -> GetResourceSpec(p, s)
      [] tool = "lint_workflow"                   -> LintWorkflow(p, s)
      [] tool = "lint_workflow_template"          -> LintWorkflowTemplate(p, s)

ReadRefusal(tool, p, s) == FirstRefusal(Checks(tool, p, s))

\* What a request is about: nothing in a namespace for what is cluster-scoped.
NamespacesAsked(tool, p) ==
    CASE tool \in {"list_cluster_workflow_templates", "get_cluster_workflow_template",
                   "get_server_context"} -> {}
      [] tool = "get_resource_spec" ->
             IF p.kind = "cluster_workflow_template" THEN {} ELSE {Namespace(p)}
      [] tool = "lint_workflow_template" ->
             IF p.cluster_scope
             THEN {Manifests[p.manifest_json].namespace} \ {Omitted}
             ELSE {Namespace(p), ManifestNamespace(p.manifest_json, Namespace(p))}
      [] tool = "lint_workflow" ->
             {Namespace(p), ManifestNamespace(p.manifest_json, Namespace(p))}
      [] OTHER -> {Namespace(p)}

\* Mutant: an archived workflow is taken for the one that was asked for.
MismatchInSpecOnly(tool, p, differs) ==
    tool = "get_resource_spec" /\ {"namespace", "name"} \cap differs # {}

\* Argo's answer is about something else than what was asked for.  Only reads by
\* a retained UID, and of specifications, compare; get_archived_workflow compares the
\* namespace alone; the list of an archive and the live reads take the answer as it is.
Mismatch(tool, p, differs) ==
    CASE tool \in {"get_workflow_nodes", "get_workflow_artifacts", "read_workflow_artifact",
                   "get_workflow_logs"} -> Given(p.archive_uid) /\ differs # {}
      [] tool = "get_archived_workflow" -> "namespace" \in differs
      [] tool = "get_resource_spec"     -> {"namespace", "name"} \cap differs # {}
      [] OTHER                          -> FALSE

\* The live reads of the first tools know fewer errors than the newer tools and
\* retained logs.
OlderRead(tool, p) ==
    \/ tool \in {"list_workflows", "get_workflow", "list_cron_workflows", "get_cron_workflow",
                 "list_workflow_templates", "get_workflow_template", "list_cluster_workflow_templates",
                 "get_cluster_workflow_template", "get_cron_history", "wait_workflow",
                 "get_workflow_pod_diagnostics"}
    \/ tool = "get_workflow_logs" /\ p.source # "archive" /\ ~Given(p.archive_uid) /\ ~Given(p.node_id)

\* mapArgoError, and mapNewArgoError before it where the read is not an older one.
ArgoError(tool, p, status) == FirstRefusal(<<
    <<"argo_not_found",        status = 404>>,
    <<"argo_access_denied",    status \in {401, 403}>>,
    <<"invalid_input",         ~OlderRead(tool, p) /\ status \in {400, 422}>>,
    <<"invalid_state",         ~OlderRead(tool, p) /\ status = 409>>,
    <<"argo_api_error",        ~OlderRead(tool, p) /\ status = 429>>,
    <<"argo_request_rejected", status \in 400..499>>,
    <<"argo_api_error",        TRUE>> >>)

\* What the caller is told of an answer.  An unfit one lacks what the tool needs of
\* it: the artifact, a specification of a size and shape to select from, a UID, a
\* name, a page that is no larger than the one asked for.
AnswerError(tool, p, answer) ==
    IF answer.status # 200 THEN ArgoError(tool, p, answer.status)
    ELSE IF answer.body = "undecodable" \/ Mismatch(tool, p, answer.differs) THEN "argo_api_error"
    ELSE IF answer.body = "good" THEN "none"
    ELSE CASE tool \in {"read_workflow_artifact", "get_resource_spec"} -> "invalid_input"
           [] tool = "get_workflow_pod_diagnostics" -> "kubernetes_response_error"
           [] tool \in {"get_workflow", "wait_workflow", "get_cron_history", "list_workflows",
                        "list_cron_workflows", "list_workflow_templates",
                        "list_cluster_workflow_templates", "list_archived_workflows"} -> "argo_api_error"
           [] OTHER -> "none"
=================================================================================
