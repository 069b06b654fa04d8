--------------------------- MODULE MCGuardedMutation ---------------------------
(* Small instances of GuardedMutation for TLC. *)
EXTENDS GuardedMutation, TLC

MCScopes == MutatingTools \X (Arguments \cup {Blank}) \X Namespaces \X Names

R(tool, ns, name, argument, dryRun) ==
    [tool |-> tool, namespace |-> ns, name |-> name, argument |-> argument, dryRun |-> dryRun]
P(mutations, destructive, confirmation, allowed, denied, url) ==
    [mutations |-> mutations, destructive |-> destructive, confirmation |-> confirmation,
     allowed |-> allowed, denied |-> denied, argo |-> url]

\* Three calls that compete: two intents for one workflow that differ in the
\* tool or the argument only, as preview and execution.
Competing ==
    {[policy   |-> P(TRUE, TRUE, TRUE, {}, {}, TRUE),
      requests |-> {R("terminate_workflow", "prod", "wf", "a1", d) : d \in BOOLEAN} \cup
                   {R("terminate_workflow", "prod", "wf", "a2", FALSE),
                    R("retry_workflow", "prod", "wf", "a1", FALSE)},
      calls    |-> 3]}

\* A single call, of any tool, with every refusal, under every policy and with
\* namespace lists that overlap.
Single ==
    [policy   : [mutations : BOOLEAN, destructive : BOOLEAN, confirmation : BOOLEAN,
                 allowed : {{}, {"prod"}, {Star}}, denied : {{}, {"prod"}, {Star}},
                 argo : BOOLEAN],
     requests : {[tool : MutatingTools, namespace : {"prod", "dev", Omitted}, name : {"wf", Blank},
                  argument : {"a1"}, dryRun : {FALSE}] \cup
                 {R("terminate_workflow", "prod", "wf", Blank, FALSE),
                  R("terminate_workflow", "prod", "wf", "a1", TRUE),
                  R("retry_workflow", "dev", "wf", "a1", TRUE)}},
     calls    : {1}]

MCDeployments == Competing \cup Single

Symmetry == Permutations(Calls) \cup Permutations(Tokens) \cup Permutations(Processes)
===============================================================================
