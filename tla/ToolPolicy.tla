------------------------------- MODULE ToolPolicy -------------------------------
(***************************************************************************)
(* What a handler of internal/service decides from its payload and the     *)
(* server's policy alone: the namespace a call is about, whether it is     *)
(* authorized, and the checks of the mutating tools in the order of each.  *)
(***************************************************************************)
EXTENDS Integers

CONSTANTS
    Default,  \* the default namespace
    Omitted,  \* a field the payload leaves out
    Star,     \* the "*" entry of a namespace list
    Blank     \* a text of white space, or an empty one in a required field

Destructive == {"terminate_workflow", "retry_workflow"}
Reversible  == {"toggle_cron_suspension", "suspend_workflow", "resume_workflow"}
Creating    == {"submit_workflow_template", "trigger_cron_workflow", "resubmit_workflow"}
MutatingTools == Destructive \cup Reversible \cup Creating

Namespace(r) == IF r.namespace \in {Omitted, Blank} THEN Default ELSE r.namespace

InList(ns, entries) == Star \in entries \/ ns \in entries

\* Mutant: an allowed namespace is allowed even when it is denied too.
AllowWins(ns, p) == InList(ns, p.allowed) \/ (p.allowed = {} /\ ~InList(ns, p.denied))

\* A denied namespace stays denied when it is allowed too; an empty allow list
\* allows every namespace.
Authorized(ns, p) ==
    /\ ~InList(ns, p.denied)
    /\ p.allowed # {} => InList(ns, p.allowed)

Named(r) == r.name # Blank

\* A handler makes its checks in order; the first that holds ends it.
FirstRefusal(checks) ==
    IF \A i \in DOMAIN checks : ~checks[i][2] THEN "none"
    ELSE LET first == CHOOSE i \in DOMAIN checks :
                          checks[i][2] /\ \A j \in 1..(i - 1) : ~checks[j][2]
         IN  checks[first][1]

DestructiveRefusal(r, p, valid) == FirstRefusal(<<
    <<"namespace_denied",    ~Authorized(Namespace(r), p)>>,
    <<"invalid_input",       ~valid>>,
    <<"denied",              ~(p.mutations /\ p.destructive)>>,
    <<"configuration_error", ~p.argo>> >>)

TerminateWorkflow(r, p) == DestructiveRefusal(r, p, Named(r) /\ r.argument # Blank)
RetryWorkflow(r, p)     == DestructiveRefusal(r, p, Named(r))

SetSuspended(r, p) == FirstRefusal(<<
    <<"namespace_denied",    ~Authorized(Namespace(r), p)>>,
    <<"invalid_input",       ~Named(r)>>,
    <<"denied",              ~p.mutations>>,
    <<"configuration_error", ~p.argo>> >>)

\* The tools that create a workflow ask the policy before they look at the input.
Create(r, p) == FirstRefusal(<<
    <<"namespace_denied",    ~Authorized(Namespace(r), p)>>,
    <<"denied",              ~p.mutations>>,
    <<"invalid_input",       ~Named(r)>>,
    <<"configuration_error", ~p.argo>> >>)

MutationRefusal(r, p) ==
    CASE r.tool = "terminate_workflow" -> TerminateWorkflow(r, p)
      [] r.tool = "retry_workflow"     -> RetryWorkflow(r, p)
      [] r.tool \in Reversible         -> SetSuspended(r, p)
      [] r.tool \in Creating           -> Create(r, p)
================================================================================
