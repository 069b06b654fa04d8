------------------------------ MODULE AuditRecord ------------------------------
(***************************************************************************)
(* What the audit interceptor (internal/mcpaudit) writes about a call: its *)
(* status, the summary of its result and its arguments without what must   *)
(* not be kept.  Arguments are those of ToolInput.                         *)
(***************************************************************************)
EXTENDS ToolInput

Redacted == String("[REDACTED]")

LowerCase(key) ==
    CASE key = "Parameters"         -> "parameters"
      [] key = "MANIFEST_JSON"      -> "manifest_json"
      [] key = "Confirmation_Token" -> "confirmation_token"
      [] OTHER                      -> key

\* The keys that contain "token", "password" or "secret".
Sensitive(key) == LowerCase(key) \in {"confirmation_token", "password", "client_secret"}

HidesManifest(tool) == tool \in {"lint_workflow", "lint_workflow_template"}

\* Mutant: a tool with parameters is forgotten.
HidesSubmitted(tool) == tool \in {"submit_workflow_template", "trigger_cron_workflow"}

HidesParameters(tool) ==
    tool \in {"submit_workflow_template", "resubmit_workflow", "trigger_cron_workflow"}

\* The number and the names of the parameters; anything but an object is redacted.
SummarizeParameters(value) ==
    IF value[1] = "object" THEN <<"names", DOMAIN value[2]>> ELSE Redacted

RedactField(tool, key, value) ==
    CASE HidesManifest(tool) /\ LowerCase(key) = "manifest_json" -> Redacted
      [] HidesParameters(tool) /\ LowerCase(key) = "parameters"  -> SummarizeParameters(value)
      [] Sensitive(key)                                          -> Redacted
      [] OTHER                                                   -> value

\* Objects in objects are redacted in the same way; those of a call are one level deep.
RedactValue(tool, fields) ==
    [key \in DOMAIN fields |->
        LET kept == RedactField(tool, key, fields[key])
        IN  IF kept[1] = "object"
            THEN Object([inner \in DOMAIN kept[2] |-> RedactField(tool, inner, kept[2][inner])])
            ELSE kept]

\* Mutant: a result that reports an error counts as a success.
StatusOfError(protocolError, toolError) == IF protocolError THEN "ERROR" ELSE "SUCCESS"

Status(protocolError, toolError) == IF protocolError \/ toolError THEN "ERROR" ELSE "SUCCESS"

\* A result keeps its status; an error has none to keep.
ResultSummary(protocolError, status) == IF protocolError THEN "tool call failed" ELSE status
================================================================================
