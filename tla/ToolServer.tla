------------------------------- MODULE ToolServer -------------------------------
(***************************************************************************)
(* One server from its configuration to the answers its callers get: the   *)
(* life of the process, the gate before the endpoint, the decoding of      *)
(* arguments, the read and lint tools in full, the mutating tools up to    *)
(* their request (GuardedMutation has the rest), and the audit record of   *)
(* every call.  Argo, the caller and the transports are external.          *)
(***************************************************************************)
EXTENDS ServerLifecycle, HttpGate, ToolCatalog, ServiceReads, AuditRecord

CONSTANTS
    Deployments, \* the configurations, each with its callers
    Requests,    \* per kind of callers: what they send
    Answers,     \* per kind of callers: what Argo may answer them
    Secrets      \* the texts that must not be kept

\* A configuration has both lists of namespaces, though they may be empty; a
\* repeated header is a sequence of its values; and a call of a tool that was
\* not registered does not get past the protocol's library.
ASSUME ToolServerAssumption ==
    \A d \in Deployments : {"allowed", "denied"} \subseteq DOMAIN d.env /\ \A r \in Requests[d.callers] :
        /\ DOMAIN r = {"host", "origins", "authorization", "tool", "given"}
        /\ r.tool \in Tools
        /\ r.authorization \in Seq([scheme : STRING, token : STRING])
        /\ r.origins \in Seq([scheme : STRING, host : STRING, port : Int])

LeafTexts(value) ==
    CASE value[1] = "string" -> {value[2]}
      [] value[1] = "names"  -> value[2]
      [] OTHER               -> {}

\* The texts of an argument, whose objects are one level deep.
Texts(value) ==
    IF value[1] = "object" THEN UNION {LeafTexts(value[2][key]) : key \in DOMAIN value[2]} ELSE LeafTexts(value)

\* Where a caller gives what must not be kept: in the parameters and the manifest of a
\* tool that has them, however they are spelled, and under the name of a credential.
MayHoldSecret(tool, key) ==
    \/ LowerCase(key) \in {"confirmation_token", "password", "client_secret"}
    \/ tool \in DOMAIN Inputs /\ LowerCase(key) \in {"parameters", "manifest_json"} \cap Inputs[tool].fields

DiscreetField(tool, key, value) ==
    /\ value[1] = "object" => Secrets \cap DOMAIN value[2] = {}
    /\ MayHoldSecret(tool, key) \/ Secrets \cap LeafTexts(value) = {}

Discreet(tool, fields) ==
    \A key \in DOMAIN fields :
        /\ DiscreetField(tool, key, fields[key])
        /\ fields[key][1] = "object" /\ ~MayHoldSecret(tool, key) =>
              \A inner \in DOMAIN fields[key][2] : DiscreetField(tool, inner, fields[key][2][inner])

\* Names are no secrets, and no caller gives a secret in another place.
ASSUME SecretsAssumption ==
    /\ Secrets \cap Texts(Redacted) = {}
    /\ \A tool \in DOMAIN Inputs : Discreet(tool, Examples[tool])
    /\ \A d \in Deployments : \A r \in Requests[d.callers] : Discreet(r.tool, r.given)

VARIABLES
    deployment, \* the configuration, fixed at startup, and its callers
    request,    \* per call: the HTTP request with the tool and its arguments
    hints,      \* per call: how many hints its caller has followed
    outcome,    \* per call: what was sent to Argo and what the caller is told
    log         \* per call: its record, if it is recorded

calls == <<request, hints, outcome, log>>
vars  == <<lifecycle, deployment, calls>>

env    == deployment.env
server == [env EXCEPT !.argo = env.argo # ""]

Nowhere == [error |-> "none", hint |-> "none", protocol |-> FALSE, status |-> "none",
            sent |-> "nothing", asked |-> {}, differs |-> {}]

Tool(c)  == request[c].tool
Input(c) == Inputs[Tool(c)]
---------------------------------------------------------------------------------
Init ==
    /\ LifecycleInit
    /\ deployment \in Deployments
    /\ http = (env.transport # "stdio") /\ auditing = env.audit
    /\ request = [c \in Calls |-> Nothing]
    /\ hints = [c \in Calls |-> 0]
    /\ outcome = [c \in Calls |-> Nowhere]
    /\ log = [c \in Calls |-> Nothing]

\* ConfigFromEnv, before anything is acquired, and the security policy and the
\* Argo URL, which are checked before telemetry too.
RefuseStart ==
    /\ main = "start_telemetry" /\ StartRefused(env)
    /\ main' = "exited" /\ exit' = "error"
    /\ UNCHANGED <<config, signal, telemetry, audit, serving, waited, handlers, deployment, calls>>

\* Where a deployment has no faults the server starts and serves on.
Undisturbed ==
    ~deployment.faults =>
        exit' # "error" /\ main' # "close_audit" /\ ~signal' /\ serving' # "failed"

Live(step) == step /\ ~StartRefused(env) /\ Undisturbed /\ UNCHANGED <<deployment, calls>>

\* A caller sends a request; over HTTP it has to pass the gate.
Receive(c, r) ==
    /\ IF http /\ Admission(env, r) # "admitted"
       THEN TurnAway(c) /\ outcome' = [outcome EXCEPT ![c].error = Admission(env, r)]
       ELSE Arrive(c) /\ UNCHANGED outcome
    /\ request' = [request EXCEPT ![c] = r]
    /\ UNCHANGED <<deployment, hints, log>>

Conclude(c, result) ==
    /\ Execute(c)
    /\ outcome' = [outcome EXCEPT ![c] = result]
    /\ UNCHANGED <<deployment, request, hints, log>>

Failed(error) == [Nowhere EXCEPT !.error = error]

Accepted(c) == Tool(c) = "get_server_context" \/ InputRefusal(Input(c), request[c].given) = "none"

\* The answer is a result with an error, or an error of the protocol: the
\* library that classifies it is external.
RefuseInput(c) ==
    /\ call[c] = "running" /\ ~Accepted(c)
    /\ \E protocol \in BOOLEAN :
           Conclude(c, [Failed("invalid_params") EXCEPT
                            !.hint = InputRefusal(Input(c), request[c].given), !.protocol = protocol])

\* A tool that reads sends its request, if nothing is wrong with it, and maps the answer.
Read(c) ==
    /\ call[c] = "running" /\ Tool(c) \in ReadOnly \ {"get_server_context"} /\ Accepted(c)
    /\ LET p == Payload(Input(c), request[c].given, Omitted)
           refusal == ReadRefusal(Tool(c), p, server)
       IN  IF refusal # "none"
           THEN Conclude(c, Failed(refusal))
           ELSE \E answer \in Answers[deployment.callers] :
                    Conclude(c, [Failed(AnswerError(Tool(c), p, answer)) EXCEPT
                                     !.sent = "read", !.asked = NamespacesAsked(Tool(c), p),
                                     !.differs = answer.differs])

\* Whether Argo is there is part of the result; only a caller that leaves makes it fail.
GetServerContext(c) ==
    /\ call[c] = "running" /\ Tool(c) = "get_server_context"
    /\ \E error \in IF c \in reachable THEN {"none"} ELSE {"none", "cancelled"} :
           Conclude(c, [Failed(error) EXCEPT !.sent = IF server.argo THEN "read" ELSE "nothing"])

Mutation(c) ==
    LET p == Payload(Input(c), request[c].given, Omitted)
    IN  [tool |-> Tool(c), namespace |-> p.namespace,
         name |-> IF Tool(c) = "submit_workflow_template" THEN p.template_name ELSE p.name,
         argument |-> IF Tool(c) = "terminate_workflow" THEN p.reason ELSE Omitted,
         preview |-> Tool(c) \in Destructive /\ p.dry_run # FALSE]

\* The tools that mutate: a policy that is off is a result, not an error; a
\* preview sends nothing; a confirmation may be refused; and the request that is
\* sent may fail with its effect unknown.
Mutate(c) ==
    /\ call[c] = "running" /\ Tool(c) \in MutatingTools /\ Accepted(c)
    /\ LET m == Mutation(c)
           refusal == MutationRefusal(m, server)
           written == [Nowhere EXCEPT !.sent = "write", !.asked = {Namespace(m)}]
       IN  CASE refusal = "denied" -> Conclude(c, [Nowhere EXCEPT !.status = "denied"])
             [] refusal \notin {"denied", "none"} -> Conclude(c, Failed(refusal))
             [] refusal = "none" /\ m.preview -> Conclude(c, [Nowhere EXCEPT !.status = "dry_run"])
             [] OTHER ->
                    \/ Conclude(c, [written EXCEPT !.status = "ok"])
                    \/ Conclude(c, [written EXCEPT !.error = "may_have_reached_argo"])
                    \/ m.tool \in Destructive /\ server.confirmation
                       /\ Conclude(c, Failed("confirmation_invalid"))

\* The audit interceptor around the tool.
WriteRecord(c) ==
    /\ Record(c)
    /\ log' = [log EXCEPT ![c] =
                   [arguments |-> RedactValue(Tool(c), request[c].given),
                    status    |-> Status(outcome[c].protocol, outcome[c].error # "none"),
                    summary   |-> ResultSummary(outcome[c].protocol, outcome[c].status)]]
    /\ UNCHANGED <<deployment, request, hints, outcome>>

Reply(c) == Answer(c) /\ UNCHANGED <<deployment, calls>>

\* The caller follows the hint of its refused arguments in a new call.  More hints
\* than fields to give are not followed.
FollowHint(c) ==
    /\ call[c] = "answered" /\ outcome[c].hint # "none" /\ Accepting
    /\ hints[c] <= Len(Input(c).required)
    /\ hints' = [hints EXCEPT ![c] = @ + 1]
    /\ request' = [request EXCEPT
                       ![c].given = Corrected(Examples[Tool(c)], @, outcome[c].hint)]
    /\ outcome' = [outcome EXCEPT ![c] = Nowhere]
    /\ call' = [call EXCEPT ![c] = "running"]
    /\ reachable' = reachable \cup {c}
    /\ recorded' = recorded \ {c}
    /\ UNCHANGED <<config, main, exit, signal, telemetry, audit, serving, waited, deployment, log>>

Next ==
    \/ RefuseStart
    \/ Live(Main) \/ Live(StdioEnds) \/ Live(ServeFails) \/ Live(Signal)
    \/ \E c \in Calls :
         \/ deployment.faults /\ Live(HangUp(c))
         \/ c \in deployment.calls /\ call[c] = "idle"
            /\ \E r \in Requests[deployment.callers] : Receive(c, r)
         \/ RefuseInput(c) \/ Read(c) \/ GetServerContext(c) \/ Mutate(c)
         \/ WriteRecord(c) \/ Reply(c) \/ FollowHint(c)

Spec == Init /\ [][Next]_vars

\* The main goroutine runs and the shutdown timer fires; telemetry starts and
\* stops within its timeouts; the stdio transport obeys its context.  Nothing
\* is assumed of the handlers, which need not end.
Fairness == WF_vars(Live(Main)) /\ WF_vars(signal /\ Live(StdioEnds))

FairSpec == Spec /\ Fairness
---------------------------------------------------------------------------------
Done(c)  == call[c] \in {"executed", "recorded", "answered"}
Error(c) == outcome[c].error # "none"

\* No tool runs for a request that is not for one of the hosts the server answers
\* to, comes from a page of another origin, or lacks the one bearer credential; a
\* server that listens beyond the loopback has a token, or the word of its owner
\* that a proxy asks for one ("Malformed, missing, duplicated, or wrong Authorization
\* values receive 401", docs/plans/issue-4-listener-security.md:17).
OnlyAdmittedCallsRun ==
    \A c \in Calls : http /\ call[c] \notin {"idle", "refused"} =>
        LET r == request[c]
            credentials == {r.authorization[i].token : i \in DOMAIN r.authorization}
        IN  /\ env.token # Unset => Len(r.authorization) = 1 /\ credentials = {env.token}
            /\ env.token = Unset => IsLoopback(Addr(env).host) \/ env.allowUnauthenticated = "true"
            /\ Len(r.origins) <= 1
            /\ CanonicalHost(r.host.host) \in
                   {CanonicalHost(entry.host) : entry \in Entries(env.hosts) \cup {env.addr}}
                   \cup (IF env.hosts = <<>> THEN {"localhost", "127.0.0.1", "::1"} ELSE {})

\* A client that names the server as its owner configured it is never turned away:
\* by the address it listens on or by an entry of the allowed hosts, in any case
\* and form of a well-formed host, with no origin or its own, and with the
\* configured token.
OwnClientsAdmitted ==
    \A c \in Calls : call[c] = "refused" =>
        LET r == request[c]
            port == IF r.host.port = NoPort THEN 80 ELSE r.host.port
            name == CanonicalHost(r.host.host)
            named(entry) == name = CanonicalHost(entry.host) /\ name # "bad" /\ port = entry.port
            owned == IF env.hosts # <<>> THEN \E entry \in Entries(env.hosts) : named(entry)
                     ELSE named(env.addr)
            same == r.origins = <<>> \/ r.origins =
                        <<[scheme |-> "http", host |-> r.host.host, port |-> r.host.port]>>
            known == env.token = Unset
                     \/ r.authorization = <<[scheme |-> "Bearer", token |-> env.token]>>
        IN  ~(owned /\ same /\ known)

\* The record of a call says ERROR when, and only when, its caller is told of an
\* error, whichever layer it comes from; and a write that was sent is on record as
\* an error or a success, never as a denial or a preview.
RecordTellsOutcome ==
    \A c \in recorded :
        /\ (log[c].status = "ERROR") <=> Error(c)
        /\ outcome[c].sent = "write" => log[c].status = "ERROR" \/ log[c].summary = "ok"
        /\ log[c].summary = "ok" => outcome[c].sent = "write"

\* No record holds a parameter's value, a manifest or a confirmation token, also of
\* a call whose arguments were refused, or spelled in another case ("They never
\* retain parameter values", README.md:449).
NothingSecretRecorded ==
    \A c \in recorded :
        \A key \in DOMAIN log[c].arguments : Secrets \cap Texts(log[c].arguments[key]) = {}

\* A caller that does what the hints of its refused arguments say is accepted after
\* at most one hint for each required field and one more, whatever it began with.
HintsConverge ==
    \A c \in Calls : Done(c) /\ outcome[c].hint # "none" => hints[c] <= Len(Input(c).required)

\* What the schema lets through the service does not refuse for the range of a
\* number or the choice of a word: the bounds of the two layers agree, defaults
\* included ("Preserve service/client defensive bounds",
\* docs/plans/issue-2-expanded-tools.md:49).
LayersAgree == \A c \in Calls : outcome[c].error # "out_of_range"

\* A tool that says it only reads sends no write, and what it asks is about
\* namespaces the policy allows, the one a manifest brings along included; a denied
\* call asks for nothing ("No Argo request was made").
ReadsInsidePolicy ==
    \A c \in Calls :
        /\ outcome[c].error = "namespace_denied" => outcome[c].sent = "nothing"
        /\ Done(c) /\ Tool(c) \in ReadOnly =>
            /\ outcome[c].sent # "write"
            /\ \A namespace \in outcome[c].asked : Authorized(namespace, env)

\* The nodes, the artifacts, the logs and an artifact of an archived workflow are
\* read of the very workflow the call names by archive_uid, name and namespace, and a
\* specification of the very object.  get_archived_workflow shows nothing of another
\* namespace ("rejects a response from another namespace",
\* docs/plans/issue-2-expanded-tools.md:18); its UID is ArchiveReadsVerified's question.
AnswersWhatWasAsked ==
    \A c \in Calls : Done(c) /\ outcome[c].sent = "read" /\ ~Error(c) =>
        /\ "archive_uid" \in DOMAIN request[c].given /\ Given(request[c].given["archive_uid"][2]) =>
              outcome[c].differs = {}
        /\ Tool(c) \in {"get_archived_workflow", "get_resource_spec"} =>
              "namespace" \notin outcome[c].differs
        /\ Tool(c) = "get_resource_spec" => "name" \notin outcome[c].differs

\* "Archive reads send the authorized namespace and verify returned namespace, UID
\* and requested workflow name" (docs/design-v0.3.0.md:9).  get_archived_workflow,
\* which is asked by UID alone, compares the namespace but not the UID.
ArchiveReadsVerified ==
    \A c \in Calls : Done(c) /\ outcome[c].sent = "read" /\ ~Error(c) =>
        /\ "archive_uid" \in DOMAIN request[c].given /\ Given(request[c].given["archive_uid"][2]) =>
              outcome[c].differs = {}
        /\ Tool(c) = "get_archived_workflow" => {"namespace", "uid"} \cap outcome[c].differs = {}
=================================================================================
