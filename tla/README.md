# Formal models of go-argo-mcp

go-argo-mcp is an MCP server: it answers the tool calls of an AI client by
calling the REST API of an Argo Workflows server (and, for pod diagnostics, of
Kubernetes).  This directory holds TLA+ models of the parts of it that are hard
to test, TLC configurations that check them on small instances and TLAPS proofs
of what matters most.  The source they are translated from is in `../src`.

## The system

| Component | State | Operations | Interacts with |
| --- | --- | --- | --- |
| Confirmation manager (`internal/confirmation`) | map from token to scope and expiry, behind a mutex | `Issue`, `Consume`, both prune first | the destructive tools, concurrently |
| Mutating tools (`internal/service`, `internal/argoapi`) | none of their own; fixed policy | terminate, retry, suspend, resume, resubmit, submit, trigger, toggle | manager, policy, Argo over HTTP |
| Collection tools (`scanPages` and five list tools) | per call: items, cursors seen, cursor | list with limit and continuation | Argo's list endpoints, the caller who follows continuations |
| Event observation (`argoapi/events.go`) | two goroutines, two channels, a timer, a response body | `get_workflow_events` | Argo's event stream, the caller's context |
| Wait tool (`service/wait.go`) | latest status, two contexts, a timer | `wait_workflow` | Argo, the caller's context |
| Server (`internal/server`) and audit log (`internal/mcpaudit`) | telemetry, audit file, listener, connections | start, serve, shut down; record a call | signals, net/http, every tool call |
| Workflow logs (`service/logs.go`, `argoapi/logs.go`) | per call: entries, the byte budget left, truncated | `get_workflow_logs` | Argo's live stream, artifact reads |
| Artifact reads (`artifact_content.go` of both packages) | per call: what was read ahead | `read_workflow_artifact` | Argo, the caller who joins the pages, logs |
| Node and artifact lists (`service/expanded.go`) | none; each call sorts and cuts what it reads | offset pages | Argo, the caller who follows `next_offset` |
| Pod diagnostics (`internal/kubeapi`) | per call: a page, reports, two contexts | `get_workflow_pod_diagnostics` | Argo for the UID, Kubernetes, the caller's context |
| Other reads: details, cron history, archive, specifications, lint, server context (`internal/service`, `internal/argoapi`) | none | check, authorize, one bounded read, check the answer's identity | policy, Argo |
| Generated adapter (`gen/mcp_argo`) | none | decode the arguments of thirty tools, hint at corrections | the caller, the service |
| Configuration and HTTP gate (`internal/server`) | the settings, fixed at startup | refuse a start; admit a request by host, origin and credential | the environment, every HTTP request |
| Audit record (`internal/mcpaudit`) | none | status, summary and redacted arguments of a call | the audit log |
| Telemetry, API design, model generator, release tools | none that a call sees | | |

Every tool call runs in a goroutine of its own.  Calls share the confirmation
map and the audit log, each behind its mutex, and the world behind Argo.
Nothing is persisted: a restart forgets every grant.

What is hard: concurrent presentations of one token, expiry at the exact
instant, requests that time out and land later, restarts between preview and
confirmation, lists that change while they are paged, backends that break the
list contract, two goroutines that end an observation together, contexts that
end between two checks, one byte budget shared by several reads that must not
split a character, shutdown under running handlers, and agreement of what is
written in several places: the bounds of a number in the schema, the decoder and
the service, the spelling of a host in the settings and in a request, the three
layers at which a call may fail and the record above them.  PROJECT.json
lists these hazards with their lines and the properties that cover them.

## The modules

### GrantStore, Confirmation, OneTimeGrant

`GrantStore` has the grant map as a value with the operators `IssueInto`,
`Consumable` and `ConsumeFrom` (`Manager.Issue`, `Manager.Consume`,
`pruneExpired`).  `Confirmation` makes them the actions of one manager; because
both methods hold the mutex throughout, each is one step.  `Tick` is the clock,
`Restart` the loss of the process.  `issued` and `used` are histories.  A scope
stands for the triple (action string, namespace, name); the action string holds
the reason or the retry mode.  A drawn token is one never drawn before: 32
random bytes.

`OneTimeGrant` is what the manager promises: a grant lives until it is used,
lapses or is forgotten, and a presentation succeeds exactly when its token is a
living grant of its scope.  The manager prunes lazily, so its map is larger;
the refinement maps `live` to the unexpired entries.

### ToolPolicy, GuardedMutation

`ToolPolicy` has the namespace a call is about, `Authorized`, and the checks of the
eight mutating tools in the order of each handler (`FirstRefusal`: the first check that
holds ends a handler); `GuardedMutation` and
`ServiceReads` share it.  In `GuardedMutation`, `Receive` is a handler up to its
first shared access: namespace, policy, validation and configuration in the
order of each handler (`TerminateWorkflow`, `RetryWorkflow`, `SetSuspended`, `Create`), which
differ in that order.  `Preview` and `Confirm` are the dry run and the token
check, `Dispatch`, `Fail` and `Succeed` the single HTTP exchange; `ArgoApply`
and `ArgoDrop` are the network and Argo, which may carry a request out after its
caller has given up.  There are several processes, each with its own
`GrantStore` map, for restarts and replicas.  A deployment is a configuration
with the inputs its callers send and the number of calls they make.  Refusals
by value checks of parameters stand under a blank name; the answer's text is left out.

### ScanPages

`scanPages`, the limits checked before it, and the caller's loop over calls.
Items are keys in backend order and a cursor is the key read so far, so "the
same item" and "already seen" can be compared.  The backend is either honest
(reads on, may hide items behind its selector, always continues while anything
is left) or faulty (answers anything), by the variable `faulty`; `Change` is the
cluster, which creates, changes and deletes workflows between two requests.  The
caller pages through `list_workflows` or `get_cron_history`; the latter presents
each page newest first (`Presented`).  A page is in backend order (`InOrder`), and
what the client keeps of it (`Project`) has its matching items in that order; both
are sets of sequences, of which there is one for each set of items, so that the
proofs need not build them item by item.

### KeyOrder

What the paging modules and the logs share: `InOrder(S)`, the one ascending sequence
of a set of keys, as a set; `Sorted(S)`, that sequence; and `At(s, positions)`, the
members of a sequence at some positions, in their order, which is every filter of the
models.

### EventWatch

`ObserveWorkflowEvents` (the collector) and `readEventWatch` (the reader).
Channels are unbuffered, so a send and its receive are one joint action, and a
select with several ready cases takes any of them.  The three deferred closes
of the reader are three steps.  Malformed, oversized and error frames are one
failure; blank lines and comments, which change nothing, are left out.

### WaitWorkflow

The loop of `wait_workflow`.  The caller's context, the derived context and the
workflow change between any two of the handler's checks.  `waitErr` is
`waitCtx.Err()`: what ended the derived context first.  `WaitInit`, `WaitNext`,
`WaitSpec` and `FairWaitSpec` are named apart from those of `EventWatch`, because one
module proves both.

### ToolServer and its parts

`ToolServer` is one server from its configuration to its answers.  It composes

* `ServerLifecycle`: `newApplication`, `runWithDependencies`, `runHTTP`, `Close` and
  the life of a call; every startup step may fail, the accept loop may fail, a
  signal may come at any time, and handlers go on running until the process ends;
* `HttpGate`: `ConfigFromEnv`, the listener's security policy, and the host, origin
  and bearer checks of a request.  An authority is a spelled host and a port, so
  that the spellings of one host can differ;
* `ToolInput` and `ToolCatalog`: the generated decoders.  `InputRefusal` is the first
  refusal of a call's arguments (undecodable, a required field missing, outside
  the schema), `Payload` what the handler gets, `Corrected` what a caller makes of a
  hint; the catalog has the schema and the hint's example of every tool, in the
  groups the code has them in;
* `ServiceReads`: every tool that reads or lints, as the sequence of the checks of its
  handler (`Checks`) of which the first that fails ends it (`ReadRefusal`), the namespaces its request asks about, one of a manifest
  included (`NamespacesAsked`), and the error an answer becomes (`AnswerError`);
* `ToolPolicy` for the tools that mutate, up to their request; what follows the
  request is `GuardedMutation`'s;
* `AuditRecord`: redaction, status and summary of the record.  Which texts are secret
  is a constant, and where callers give them an assumption (`SecretsAssumption`).

A call goes through `Receive` (the gate), one of `RefuseInput`, `Read`,
`GetServerContext` and `Mutate`, `WriteRecord` and `Reply`; `FollowHint` is a caller
who corrects its arguments by the hint and calls again.  `outcome` remembers what
was sent to Argo and what the caller is told, `log` the record.  A deployment is a
configuration with its kind of callers; `Undisturbed` keeps the faults of
startup and serving to the deployments that ask about them, so that the other
questions do not multiply with them.

### ArtifactText, ArtifactPages

`ArtifactText` is `readArtifactURL` and `artifactPage` as operators.  A byte knows
which one of how many bytes of its character it is, and whether it is malformed
or NUL; nothing else of UTF-8 is looked at by the code.  `Encoding` says which
sequences of bytes there are: any bytes, read from the left, fall into characters of
which each begins where the one before it ended and only the last may be cut; a
malformed byte is a character too, and a newline has one byte.  `Data` is what is read
(the page and one widest character more), `Bounded` whether the response goes on
behind it, `PageRefused` and `Page` what comes out.  `ArtifactPages` is
`read_workflow_artifact` with its bounds, lookup, redirects and failures, and a
caller who joins the pages by `next_offset`.

### WorkflowLogs

`get_workflow_logs`: `Receive` refuses contradictory selectors, `ReadLive` takes
the complete frames within the budget, `LiveNotFound` and an empty stream fall
back, `FindNodes` finds the nodes that declare the log artifact, `ReadNode` reads one
artifact after the other by the operators of `ArtifactText` under the budget
that is left, `StopReading` ends it, `Build` filters, renders and caps; any request may
fail (`RequestFails`).  `stage` is where the handler is and `answer` how it ended.  A
frame is its kind, its pod, its line and its size; a search term is the pod whose lines
match.  `Everything` is all that the source which answered holds for the request, in
order, and the properties compare the result with it.  The names are apart
from those of `ArtifactPages` (`LogsInit`, `LogsNext`, `LogsSpec`), because one module
proves both.

### OffsetPages

`get_workflow_nodes` and `get_workflow_artifacts`: filter and sort (`Filtered`, the
matching keys in order), `slicePage`, and
the caller who follows `next_offset` while the workflow runs.  `joined` and `left`
remember whether an item has come to match or ceased to.

### PodDiagnostics

`Client.Diagnose`: the UID of the workflow, the page of pods, the events of each
owned pod and the two context checks behind each.  The deadline, the caller's
cancellation and a workflow created again under its name may come between any
two steps.  `late` counts the requests begun after the context has ended.

`Mutant` comments mark operators that are not part of the models: variants of
the definition that follows them, each with a plausible mistake.  With the
mistake in place of the definition, the run named in PROJECT.json finds the
property violated.

## The runs

| Run | Question | Bounds |
| --- | --- | --- |
| `confirmation` | one use, in scope, in time, nothing else burns a grant, refinement | 2 tokens, 2 scopes, lifetime 2, clock 4: two lifetimes in a row |
| `guarded_mutation` | every destructive request has its own fresh, matching preview; honest outcomes; nothing outside the policy is sent | competing: 3 calls (a preview and two that compete for its token), 2 processes, 2 tokens, clock as long as the lifetime; single: 1 call of any tool, all switches, 9 pairs of namespace lists |
| `scan_pages` | nothing skipped, nothing twice; no circle, no overrun | 3 keys, 3 pages, limits 1 and 2, 3 calls, 1 change, an honest and a faulty backend |
| `observation` | an event observation: true results, nothing left running; a wait: justified outcome, timeouts at the deadline, termination | limit 2, 3 events; durations up to 4, intervals up to 3 |
| `wait_late_completion`, `wait_timed_out` | two statements of the design the code does not keep | the same waits |
| `tool_server` | cleanup, audit, grace period, stopping; who is admitted; agreement of schema, hints and service; policy and identity of reads; what the record says and hides | lifecycle: 2 calls, both transports, audit on and off, every fault, budget 2; gate: 1080 listeners and 96 other settings, each with 288 requests where it starts; schemas: all thirty tools with their arguments right, each one missing, alone or replaced by boundary values and wrong types; policies: valid arguments of every tool under 9 policies; answers: the same for 9 failing statuses and 24 kinds of bodies |
| `archived_read` | a statement of the design the code does not keep | the answers of `tool_server` |
| `artifact_text` | pages rejoin to the artifact, split no character, and no text is unreadable; logs are complete unless marked truncated, a prefix without holes, with a justified fallback | every artifact of up to 3 characters of 1 to 3 bytes, NUL and malformed bytes, cut after any byte; pages of 3 and 4 bytes, 4 calls, 1 redirect; 3 nodes of which 2 are read, characters of 1 and 3 bytes, budgets 3 to 6 |
| `logs_returned_lines` | a statement of the design the code does not keep | the same |
| `offset_pages` | what offset pages promise while the list moves | 4 keys, limits 1 and 2, 4 calls, 2 changes |
| `pod_diagnostics` | true reports, no requests after the end | 3 pods, limits 1 to 3, deadline 2 |

The bounds are small because the hazards are races of two or three parties: a
preview and two competing confirmations, one page boundary and the next, a
timer and a hand-over.  Every constant of the code that bounds something
(five minutes, 1000 pages, five seconds) is a CONSTANT with a small value that
the runs reach and pass; the bounds of the schemas are the code's own numbers, and
the run tries each bound and its neighbour beyond.

`observation` and `artifact_text` each hold two tools that one proof module proves too.
Their calls share nothing, so the MC modules let only one of the two unfold at a time:
the event stream is opened beside a wait that is refused, an artifact is empty beside
a call for logs.  The fairness of each tool stays its own.

A call at the gate, its arguments, its policy and its answer do not depend on
other calls, so one call at a time is enough there; two calls are needed only for
the shutdown.  Each module's types are one conjunct of its deepest property
(`UsedAsIssued`, `HonestObservation`, `OutcomeJustified`, `PagesRejoin`, `CollectedPrefix`,
`OnceUnlessJoined`, `ScanBounded`, `HonestReport`, `CleanExit`); `GuardedMutation` checks
its `TypeOK` by itself.

### Four disagreements

`wait_late_completion`: a status read in time, and terminal, is reported as
`timed_out` and not `completed` when the deadline passes before line 56 of
`wait.go`; the design says `completed` tells whether a terminal phase was
reached.

`wait_timed_out`: behind an answer, line 53 of `wait.go` asks whether the caller has
cancelled and line 56 whether the derived context has ended, which a cancelled caller
also causes.  A caller who cancels between the two is told `timed_out` before any
deadline.  The design says of `timed_out` "Whether the owned wait deadline expired"
(`design/design.go:384`) and "Parent cancellation is always an error"
(`docs/design-v0.3.0.md:53`).  The passing `observation` shows what does hold:
`OutcomeJustified` ties `timed_out` to the duration for a caller who stays, and
`TimesOutAtDeadline` ties the other two ways of timing out to the deadline whatever the
caller does.

`archived_read`: `get_archived_workflow` compares the namespace of what Argo answers and
not its UID (`argoapi/expanded.go:117`), though "Archive reads send the authorized
namespace and verify returned namespace, UID and requested workflow name"
(`docs/design-v0.3.0.md:9`).  `AnswersWhatWasAsked` says what is verified: everything for
the reads that take an `archive_uid`, namespace and name for a specification, and the
namespace for `get_archived_workflow`.

`logs_returned_lines`: the rendering repeats the pod's name before every line, so
it can exceed `max_bytes` and is then cut; `returned_lines` still counts all the
lines before the cut, although the design calls it the entries included in
`logs`.

### Limits the models show

* An absent `next_offset` means that nothing was missed only while no item leaves
  the filter between two pages: `CompleteUnlessLeft` carries that condition.
* The listener never has a TLS connection, so a Host header without a port means
  port 80 whatever a proxy in front of it speaks: an allowed host with port 443
  admits only requests that spell the port.  `OwnClientsAdmitted` says what is
  promised with that in mind.
* `docs/plans/issue-2-expanded-tools.md:59` bounds a text in characters in the schema
  and in bytes in the service.  The lengths of texts are left out, so `LayersAgree`
  is about numbers and choices of words only.
* A failed accept loop ends the process without a shutdown: records of calls that
  are still running may be lost, and `AnsweredIsRecorded` and `GraceKept` exempt it.

## Fairness

* `EventWatch`: both goroutines and the timer run; only a cancelled dial and a
  read of a closed body must return, as net/http guarantees.  A read of an open
  body may block for ever.
* `WaitWorkflow`: the clock and the goroutine; a request must fail only after
  its context has ended.
* `ToolServer`: the main goroutine with the shutdown timer, and the stdio transport
  after a signal, whose reads end with their context.  Handlers, callers and Argo
  get no fairness: `StopsOnSignal` holds with handlers that never end.
* The other modules have safety properties only.

## What is proved

`Confirmation_proofs` proves for every set of tokens and scopes, every lifetime
and every bound of the clock, from the assumptions `GrantStoreAssumption`
(the lifetime is positive, "no grant" is not a grant) and
`ConfirmationAssumption` (the empty token is not a token):

* `TypeCorrect`: `Spec => []TypeOK`;
* `TokensAreOneTime`: `Spec => []UsedOnce`;
* `TokensAreScopedAndTimely`: `Spec => []UsedAsIssued`;
* `LiveGrantsAreKept`: `Spec => LiveGrantKept`, an action property;
* `ManagerImplementsOneTimeGrant`: `Spec => ImplementsOneTimeGrant`.

`UsedOnce` is not inductive: it needs to know that a token already used is not
in the map any more, and `AcceptedAsIssued`, which `UsedAsIssued` adds to the types,
that an entry of the map is the grant its token was issued with.  `MapSound` says
both, and the inductive invariant is
`IInv == TypeOK /\ Safety /\ MapSound`.  Lemmas about `PruneExpired`,
`IssueInto` and `ConsumeFrom` say what they keep; each action preserves `IInv`
by them.  The refinement is shown step by step: `Issue` is `Give`, `Consume` is
`Accept` or `Refuse`, `Tick` is `Elapse`, `Restart` is `Forget`.

The lemmas about the store (`PruneKeepsLive`, `IssueAddsOne`, `ConsumeRemovesOne`) are
stated in `GuardedMutation_proofs` too, because the mutating tools rest on them as well.

`GuardedMutation_proofs` proves for any number of calls, processes and tokens, every
configuration and every clock, from `GrantStoreAssumption` and
`GuardedMutationAssumption` (the default is a namespace, "*" and an omitted field are
not, and a scope is a tool with its argument, namespace and name):

* `MutationsTypeCorrect`: `Spec => []TypeOK`;
* `OneRequestForEachGrant`: `Spec => []OneRequestPerGrant`;
* `PreviewComesFirst`: `Spec => []PreviewedFirst`;
* `OutcomesAreHonest`: `Spec => []HonestOutcome`;
* `SendsInsidePolicy`: `Spec => []InsidePolicy`.

None of the last four is inductive.  A token is spent where it is checked, before
its request is sent, so the invariant has to follow the grant from the preview to
the request: a token is the reply of one preview only (`Replies`); a process has
grants in its map only for previews it has answered itself, of the scope and with
the expiry of that preview (`GrantsPreviewed`); and a call that got past the check
has a preview behind it, shares its token with no other such call, and the token
is in no map any more (`PassedPreviewed`).  `Progress` relates the place of a
handler to what is on the wire and what Argo has done, `Admitted` says that a
handler past its checks passed them for the policy, which never changes.  The
inductive invariant is the conjunction of these with `TypeOK` and `HonestOutcome`;
each action preserves it, `Preview` and `Confirm` by the lemmas about the store.

`ScanPages_proofs` proves for any number of keys and cursors, every limit, budget and
number of calls and changes, from `ScanPagesAssumption` (the order of the limits, at
least one page and one key):

* `ScansAreBounded`: `Spec => []ScanBounded`, whatever the backend answers;
* `DeliveredInOrder`: `Spec => []InBackendOrder`;
* `DeliveredInFull`: `Spec => []NothingSkipped`.

The inductive invariant has a part for every backend and one for the honest one.
`Scanning` says that each cursor a scan has asked for is among those it counts as seen,
so that the next, which is not, was never asked for.  `Ordered` and `Complete` say that
what the caller has lies up to its continuation, and has every steady item there; that
what the scan has collected lies between the continuation and its cursor, and has
every steady item there; so the two can be joined.  The lemmas are about one
page: an honest answer has, in order, all there is between the cursor and where it
read to (`HonestAnswer`); the projection keeps the matching items and their order
(`ProjectKeepsWanted`); and `Presented`, which turns a page of a history around, keeps
its items (`PresentedIsFound`).

`ToolServer_proofs` proves for any number of calls, every configuration, request and
answer, and handlers that never end:

* `ExitsAreClean`: `Spec => []CleanExit`;
* `AnswersAreRecorded`: `Spec => []AnsweredIsRecorded`;
* `GraceIsKept`: `Spec => GraceKept`, an action property;
* `RecordsTellOutcomes`: `Spec => []RecordTellsOutcome`;
* `OnlyAdmittedRun`: `Spec => []OnlyAdmittedCallsRun`;
* `OwnClientsEnter`: `Spec => []OwnClientsAdmitted`;
* `ReadsAreInsidePolicy`: `Spec => []ReadsInsidePolicy`;
* `TheLayersAgree`: `Spec => []LayersAgree`;
* `AnswersAreOfWhatWasAsked`: `Spec => []AnswersWhatWasAsked`;
* `HintsLeadToAcceptance`: `Spec => []HintsConverge`;
* `NoSecretIsRecorded`: `Spec => []NothingSecretRecorded`.

They rest on three assumptions.  `ServerLifecycleAssumption`: the shutdown has a budget.
`ToolServerAssumption`: a configuration has both lists of namespaces, which may be empty;
a request has the fields of a request, its headers' values are sequences, and its tool
is a registered one, because the library of the protocol answers for others.
`SecretsAssumption`: names of fields are no secrets, nor are the examples of the hints
and the mark of redaction; and a caller gives a secret only where the tool has a place
for it, in its parameters or its manifest, or under the name of a credential.  Without it
`NothingSecretRecorded` would be false of the code, which keeps a workflow's name or a
label selector as it is; with it the theorem says that each such place is covered, by
`RedactField` for every spelling and nesting that the code looks at.  TLC evaluates the
assumptions for the requests of `tool_server`.

For the variables of the lifecycle every step of `ToolServer` is one of that module's
actions, a call that is made again, or a stutter (`NextIsLifeStep`), so the invariant of the
lifecycle is shown for those.  `CleanExit` needs to know what is acquired at each step of
startup (`Resources`); `AnsweredIsRecorded` and `GraceKept` that a listener which has
stopped has no open connection once the shutdown is over (`Listening`), which is why
the log may close behind it; `LifeInv` is their conjunction with the types and
`Recorded`.  `Told` says that every tool ends with a result whose error, status and
request agree, and that a record was made of that result.  `Admitted` follows the
admission of a request, through corrected arguments, back to a server that was let start;
`AdmittedIsEntitled` then shows what the checks of hosts, origins and credentials mean, and
`OwnIsAdmitted` the converse: two authorities of the same well-formed host and the same
port are split alike, so a client that names a host the owner named finds it allowed.

`Answered` says of every outcome that it is `Fit` for its request: no limit was checked
that the schema had let through, nothing outside the policy was asked, and the object
is the one that was asked for.  The work is in what holds of every tool rather than in
the steps:

* `FirstOfChecks`: a handler ends with its first check that fails.  That a nonempty set of
  positions has a least one comes from the well-foundedness of the naturals (`WFMin`),
  which does not need an induction over an operator;
* `SchemasWellFormed`, `SchemaBounds`: the schema of each tool, and each limited field
  required or with a default inside its limits, so that `PayloadWithin`: whatever was
  given or left out, the payload is within the limits of the schema;
* `ReadsRanged`: for such a payload no handler's check of a range or a choice fails
  (`LayersAgree`).  The limits of the schemas and those of the handlers are written
  down twice in the code, and here they meet, handler by handler;
* `ReadsAllowed`: where no check fails, each namespace that is asked about is allowed,
  that of a manifest too, which must be empty or the call's own
  (`ManifestKeepsNamespace`);
* `AnswerErrors`, `ReadByUid`: a result means that what came back was compared, for each
  tool that takes an `archive_uid`; of `get_archived_workflow` only the namespace is.

`HintsConverge` is not inductive, because it says nothing of a call between two hints.
`Hinted` has a potential: the hints a call has followed and the required fields it still
lacks are together no more than the fields its tool requires, or its arguments are the
whole example.  A hint for a field that is missing makes the second smaller by one
(`HintHelps`, by the cardinality of a set without one of its members); a hint for
"arguments" takes the whole example, which is accepted (`ExamplesComplete`,
`CompleteIsAccepted`), so there is no hint after it.

`Secretive` says that a call's arguments are `Discreet`, which a correction by an example
keeps (`CorrectedIsDiscreet`), and a record of discreet arguments has no secret
(`RecordIsDiscreet`): a field is kept only where no secret may be, redacted, or reduced to
the names in it (`FieldForms`), and `HiddenFields` shows, tool by tool, that the interceptor
hides parameters and manifests for every tool whose schema has them.

`Observation_proofs` has the two tools that watch a workflow.  Of `EventWatch`, from
`EventWatchAssumption` (a limit of at least one), it proves
`ObservationsAreHonest` (`Spec => []HonestObservation`) and `NoSuccessAfterCancel`
(`Spec => []CancelledNeverSucceeds`).  The number of decoded events and of those that
have arrived differ by the one the reader holds (`Accounts`), the two goroutines know of
each other only what their channels tell (`Places`), and a collector that stopped has found
what its result says (`Found`).  Of `WaitWorkflow`, from `WaitWorkflowAssumption` (the order
of the bounds), it proves `WaitsAreJustified` (`WaitSpec => []OutcomeJustified`) and the action
property `TimeoutsAreAtTheDeadline` (`WaitSpec => TimesOutAtDeadline`).  The invariant adds
that a handler which looks at an answer has a status to show (`HasStatus`), and that the
derived context ended either with the caller's or when the duration had passed
(`EndsForCause`).

`PodDiagnostics_proofs`, from `PodDiagnosticsAssumption` (the order of the limits):
`ReportsAreHonest` (`Spec => []HonestReport`) and `LateRequestsStop`
(`Spec => []AtMostOneLateRequest`).  An answer that says "ended" exists only while there is
a check to come that will see it (`Current`), the reported pods are the owned ones before
the current one (`Reported`), and a late request is the last, with no result behind it
(`LastIsLate`).

`OffsetPages_proofs`, from `OffsetPagesAssumption` (the order of the limits), proves

* `CompleteForWhatStays`: `Spec => []CompleteUnlessLeft`;
* `OnceForWhatWasThere`: `Spec => []OnceUnlessJoined`.

An offset counts items of a list that may have changed since the last page.  The
argument is about ranks: the rank of an item is the number of items that match up to it
(`UpTo`, `Rank`), and the page behind an offset begins with the item of the next rank
(`RankInOrder`, `SliceIs`).  While nothing has left, no rank falls, so a steady item the
caller does not have lies behind the offset; while nothing has joined, no rank
rises, so the last item the caller has lies before it (`Skipping`).  `IInv` is
`OnceUnlessJoined /\ Skipping`.

`ArtifactText_proofs` has the two tools that read retained text.  Of `ArtifactPages`, for
every artifact, every width of a character, every page size and any number of calls, it
proves

* `PagesJoin`: `Spec => []PagesRejoin`;
* `PagesAreWhole`: `Spec => []PagesAreWholeText`;
* `TextsAreReadable`: `Spec => []TextIsReadable`.

They rest on `ArtifactTextAssumption` (a character has at least one byte) and
`ArtifactPagesAssumption`: numbers are numbers, and contents are an `Encoding`, which excludes
no artifact, since any bytes at all are decoded from the left, as Go's `utf8` does.  An
encoding has a boundary in every stretch of `UTFMax` bytes, because a character's bytes run
to its end (`CharacterRuns`, `LastBoundaryIsNear`); so a read that looks one widest
character past its page can tell where the page ends, and a page is empty only at the
artifact's end (`PageGiven`, `TextGiven`).  The properties are not inductive by
themselves: `InRange` adds that a call past its checks is in range and that the
continuation is a legal offset.

Of `WorkflowLogs`, for every live stream, every set of log artifacts, every request and
every budget, it proves

* `LogsAreComplete`: `LogsSpec => []CompleteUnlessTruncated`;
* `LogsArePrefixes`: `LogsSpec => []CollectedPrefix`;
* `LogsFallBackJustly`: `LogsSpec => []FallbackIsJustified`.

They rest on `ArtifactTextAssumption` and `WorkflowLogsAssumption`: the nodes are numbered,
retained logs are an `Encoding`, and the smallest budget holds the widest character.  The
inductive invariant `LogsIInv` has the types and four parts.  `Begun` says what is still
untouched at each stage.  `FellBack` keeps the reason for asking the archive.
`Collected` is the core: what was read from pods is the decoded first frames of the stream,
all of them unless marked truncated (`ReadFromPods`); and what was read from artifacts is
the logs of the first nodes, whole (`Whole`), or with the end of the last one missing, marked
truncated and less than one character of the budget left, so that no further node is
read behind the hole (`Cut`).  `Shown` says that the text is what is rendered of it.

The lemmas rebuild what the community operators leave to induction.  `FlattenSeq`, which joins
the pages of lines, is a recursive function that is only chosen: that there is one, and one
only, is shown by the least position at which it would fail (`JoinsExist`, `JoinsAgree`,
`FlattenIs`), which needs only that a nonempty set of naturals has a least member.  So is the
sorted sequence of a set (`InOrderExists`, `SortedIs`).  Then `JoinedBegins`,
`AtBegins` and `LinesOfBeginning` say that joining, filtering and cutting into lines keep
beginnings: what is made of the beginning of a text is the beginning of what is made of
the text, but for the last line, which may be shorter.

Model-checked only are the liveness properties: fairness and ENABLED are out of the
prover's reach.  Every invariant and every action property that the passing runs check is
proved for all values of the constants.

## What is not modelled, and the plan

What is left of the plan: the byte limits of a frame and of a stream in `EventWatch`, the
selection of a section of a specification, and the clipping of pod and event fields in
`PodDiagnostics`, where each cut is marked in the result.

Left out, and why:

* the generated code besides the decoders, schemas and hints: endpoints, the
  client side, registration and the types of results pass values on and hold no
  state; the code for searching tools is never enabled by this server;
* the projection of Argo's and Kubernetes' objects to results, the clipping of
  fields, the wording of errors and remedies: data without control;
* the decoding of event frames, which in `EventWatch` is one failure;
* the MCP SDK: its own protection of origins, its argument-schema library and its
  sessions are external, and so are net/http and OpenTelemetry;
* the API design, the model generator, its output and the release tools, which do
  not run in the server;
* lengths of texts, and the identity of a workflow behind its name in a
  confirmation (the code binds a grant to the name).
