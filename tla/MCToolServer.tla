------------------------------ MODULE MCToolServer ------------------------------
(* Five small instances of ToolServer for TLC, each with its kind of callers. *)
EXTENDS ToolServer

At(host, port) == [host |-> host, port |-> port]
From(scheme, host, port) == [scheme |-> scheme, host |-> host, port |-> port]
Credential(scheme, token) == [scheme |-> scheme, token |-> token]

Env == [transport |-> "http", addr |-> At("127.0.0.1", 8080), token |-> Unset,
        allowUnauthenticated |-> Unset, hosts |-> <<>>, origins |-> <<>>,
        kubernetes |-> TRUE, kubernetesCredentials |-> TRUE,
        sessionsInStateless |-> FALSE, audit |-> TRUE, auditToStdout |-> FALSE,
        argo |-> "good", allowed |-> {}, denied |-> {},
        mutations |-> TRUE, destructive |-> TRUE, confirmation |-> TRUE]

Call(tool, given) ==
    [host |-> At("localhost", 8080), origins |-> <<>>, authorization |-> <<>>,
     tool |-> tool, given |-> given]

Good == [status |-> 200, body |-> "good", differs |-> {}]
---------------------------------------------------------------------------------
(* Two calls while the server starts, serves, fails and stops. *)
Lifecycle == [env : {[Env EXCEPT !.transport = t, !.audit = a] : t \in {"http", "stdio"}, a \in BOOLEAN},
              faults : {TRUE}, calls : {Calls}, callers : {"plain"}]

Plain == {Call("get_server_context", Nothing)}
---------------------------------------------------------------------------------
(* Every listener, and every request that comes near being admitted. *)
Tokens == {Unset, "", "s3cret"}

Listeners ==
    {[Env EXCEPT !.addr = addr, !.token = token, !.allowUnauthenticated = allow, !.hosts = hosts,
                 !.origins = origins] :
        addr \in {At("127.0.0.1", 8080), At("0.0.0.0", 8080), At("", 80), At("Proxy.Example", 80),
                  At("localhost", NoPort), At("user@localhost", 80)},
        token \in Tokens, allow \in {Unset, "true", "false", "yes"},
        hosts \in {<<>>, <<At("", NoPort)>>, <<At("Proxy.Example", 80)>>,
                   <<At("Proxy.Example", 80), At("proxy.example", 80)>>,
                   <<At("proxy.example", 80), At("::1", 8080)>>},
        origins \in {<<>>, <<From("https", "Proxy.Example", NoPort)>>, <<From("none", "x", 80)>>}}

Settings ==
    {[Env EXCEPT !.transport = t, !.kubernetes = k, !.sessionsInStateless = w,
                 !.auditToStdout = o, !.argo = a] :
        t \in {"http", "http-stateless", "stdio", "sse"}, k \in BOOLEAN, w \in BOOLEAN, o \in BOOLEAN,
        a \in {"", "good", "with credentials"}}

One == {CHOOSE c \in Calls : TRUE}

Gate == [env : Listeners \cup Settings, faults : {FALSE}, calls : {One}, callers : {"gate"}]

Knocking ==
    {[Call("get_server_context", Nothing) EXCEPT
         !.host = host, !.origins = origins, !.authorization = authorization] :
        host \in {At("localhost", 8080), At("LOCALHOST", 8080), At("::ffff:127.0.0.1", 8080),
                  At("127.0.0.1", NoPort), At("proxy.example", NoPort), At("PROXY", 80),
                  At("Proxy.Example", 80), At("", NoPort)},
        origins \in {<<>>, <<From("http", "LOCALHOST", 8080)>>, <<From("http", "Proxy.Example", 80)>>,
                     <<From("https", "proxy.example", 443)>>, <<From("none", "", NoPort)>>,
                     <<From("http", "localhost", 8080), From("http", "localhost", 8080)>>},
        authorization \in {<<>>, <<Credential("Bearer", "s3cret")>>, <<Credential("bearer", "s3cret")>>,
                           <<Credential("Bearer", "other")>>, <<Credential("Basic", "s3cret")>>,
                           <<Credential("Bearer", "s3cret"), Credential("Bearer", "other")>>}}
---------------------------------------------------------------------------------
(* The arguments of every tool, right, and wrong in one way or two. *)
Numbers == {-1, 0, 1, 3, 4, 5, 6, 10, 11, 30, 31, 50, 51, 200, 201, 1023, 1024, 4096,
            262144, 262145, 4194304, 4194305, 16777216, 16777217}

Values(schema, field) ==
    CASE FieldType(field) = "number"  -> {Number(n) : n \in Numbers} \cup {String("1"), Null}
      [] FieldType(field) = "boolean" -> {Boolean(TRUE), Number(1), Null}
      [] FieldType(field) = "object"  -> {Object("p" :> String("hidden")), String("hidden"), Null}
      [] field = "confirmation_token" -> {String("hidden"), Null}
      [] field = "manifest_json"      -> {String("{hidden}"), Null}
      [] OTHER ->
             IF field \in DOMAIN schema.limits
             THEN {String(text) : text \in schema.limits[field] \cup {"sideways"}}
             ELSE {String("example"), Number(1), Null}

Without(f, field) == [other \in DOMAIN f \ {field} |-> f[other]]

Arguments(tool) ==
    LET schema == Inputs[tool]
        right  == Examples[tool]
    IN  {right, Nothing, "verbose" :> Boolean(TRUE), right @@ "verbose" :> Boolean(TRUE)}
        \cup {Without(right, field) : field \in DOMAIN right}
        \cup UNION {{field :> value, (field :> value) @@ right} :
                        <<field, value>> \in {pair \in schema.fields \X UNION {Values(schema, f) : f \in schema.fields} :
                                                pair[2] \in Values(schema, pair[1])}}
        \cup (IF "parameters" \in schema.fields
              THEN {right @@ "Parameters" :> Object("p" :> String("hidden"))} ELSE {})
        \cup (IF "manifest_json" \in schema.fields
              THEN {"MANIFEST_JSON" :> String("{hidden}")} ELSE {})
        \cup (IF "confirmation_token" \in schema.fields
              THEN {right @@ "Confirmation_Token" :> String("hidden"),
                    right @@ "nested" :> Object("password" :> String("hidden"))} ELSE {})

Schemas == [env : {Env}, faults : {FALSE}, calls : {One}, callers : {"schemas"}]

Wrong == UNION {{Call(tool, given) : given \in Arguments(tool)} : tool \in DOMAIN Inputs}
---------------------------------------------------------------------------------
(* Valid arguments of every tool under every policy. *)
Manifest(kind, named, namespace) == [kind |-> kind, named |-> named, namespace |-> namespace]

MCManifests ==
    [text \in {"{workflow}"} |-> Manifest("Workflow", "generateName", Omitted)]
    @@ "{workflow in prod}"  :> Manifest("Workflow", "name", "prod")
    @@ "{template}"          :> Manifest("WorkflowTemplate", "name", Omitted)
    @@ "{template in prod}"  :> Manifest("WorkflowTemplate", "name", "prod")
    @@ "{template unnamed}"  :> Manifest("WorkflowTemplate", "generateName", Omitted)
    @@ "{cluster}"           :> Manifest("ClusterWorkflowTemplate", "name", Omitted)
    @@ "{cluster in prod}"   :> Manifest("ClusterWorkflowTemplate", "name", "prod")

MCSecrets == {"hidden", "{hidden}"} \cup DOMAIN MCManifests

\* The field that names what the tool is about.
Subject(tool) ==
    CASE tool = "get_workflow_logs"        -> {"workflow_name"}
      [] tool = "get_archived_workflow"    -> {"uid"}
      [] tool = "submit_workflow_template" -> {"template_name"}
      [] OTHER                             -> {"name"} \cap Inputs[tool].fields

InNamespaces(tool) ==
    IF "namespace" \in Inputs[tool].fields
    THEN {"namespace" :> String(text) : text \in {"prod", "dev", Blank, Unsafe}} \cup {Nothing}
    ELSE {Nothing}

Selected(tool) ==
    {Nothing} \cup {field :> String(text) : field \in Subject(tool), text \in {Blank, Unsafe}}
    \cup {field :> String("example") :
            field \in Inputs[tool].fields \cap {"archive_uid", "pod_name", "node_id", "template_name"}}
    \cup (CASE tool = "get_resource_spec" ->
                 {"kind" :> String("cluster_workflow_template"), "section" :> String("templates")}
            [] tool = "get_workflow_logs" ->
                 {("source" :> String("live")) @@ "node_id" :> String("example"),
                  ("source" :> String("archive")) @@ "archive_uid" :> String(Unsafe),
                  ("pod_name" :> String("example")) @@ "node_id" :> String("example")}
            [] tool = "get_workflow_pod_diagnostics" ->
                 {("pod_name" :> String("example")) @@ "continue" :> String("example")}
            [] tool \in {"lint_workflow", "lint_workflow_template"} ->
                 {"manifest_json" :> String(text) : text \in DOMAIN MCManifests}
            [] tool \in Destructive -> {"dry_run" :> Boolean(FALSE)}
            [] OTHER -> {})
    \cup (IF tool = "lint_workflow_template"
          THEN {("manifest_json" :> String(text)) @@ "cluster_scope" :> Boolean(TRUE) :
                    text \in DOMAIN MCManifests} ELSE {})

Right ==
    UNION {{Call(tool, selected @@ inNamespace @@ Examples[tool]) :
               selected \in Selected(tool), inNamespace \in InNamespaces(tool)} :
           tool \in DOMAIN Inputs}
    \cup {Call("get_server_context", Nothing)}

Policies ==
    {[Env EXCEPT !.allowed = lists[1], !.denied = lists[2]] :
        lists \in {<<{}, {}>>, <<{"prod"}, {}>>, <<{Star}, {"prod"}>>, <<{"dev"}, {"dev"}>>, <<{}, {Star}>>}}
    \cup {[Env EXCEPT !.mutations = FALSE, !.argo = ""], [Env EXCEPT !.argo = ""],
          [Env EXCEPT !.destructive = FALSE, !.kubernetes = FALSE, !.kubernetesCredentials = FALSE],
          [Env EXCEPT !.confirmation = FALSE, !.audit = FALSE]}

Reads == [env : Policies, faults : {FALSE}, calls : {One}, callers : {"policies"}]
---------------------------------------------------------------------------------
(* Every answer of Argo to valid calls. *)
Answered == [env : {Env}, faults : {FALSE}, calls : {One}, callers : {"answers"}]

AllAnswers ==
    [status : {0, 400, 403, 404, 409, 418, 422, 429, 500}, body : {"good"}, differs : {{}}]
    \cup [status : {200}, body : {"good", "undecodable", "unfit"},
          differs : SUBSET {"namespace", "name", "uid"}]
---------------------------------------------------------------------------------
MCDeployments == Lifecycle \cup Gate \cup Schemas \cup Reads \cup Answered

MCRequests == [plain |-> Plain, gate |-> Knocking, schemas |-> Wrong, policies |-> Right,
               answers |-> Right]

MCAnswers == [plain |-> {Good}, gate |-> {Good}, schemas |-> {Good}, policies |-> {Good},
              answers |-> AllAnswers]
=================================================================================
