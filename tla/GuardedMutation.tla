---------------------------- MODULE GuardedMutation ----------------------------
(***************************************************************************)
(* The mutating tools of internal/service over the Argo client: concurrent *)
(* tool calls, the server processes that run them, the policy, the         *)
(* confirmation store of each process, and Argo behind a network that      *)
(* loses, delays or refuses requests.                                      *)
(*                                                                         *)
(* A handler runs in one goroutine per call.  What it reads before its     *)
(* first shared access is fixed for the life of the process (payload and   *)
(* policy), so validation is one step; the confirmation store and the HTTP *)
(* exchange are steps of their own, where calls interleave.                *)
(***************************************************************************)
EXTENDS GrantStore, ToolPolicy, FiniteSets

CONSTANTS
    Calls,       \* tool calls, each handled once
    Processes,   \* server processes; each has its own confirmation store
    Namespaces,
    Names,
    Arguments,   \* a reason, or the value of restart_successful
    NoToken,     \* the empty string
    Deployments, \* the configurations considered, each with the inputs, without
                 \* their tokens, and the number of calls its callers make
    MaxTime      \* bound on the clock

Request == [tool : MutatingTools, namespace : Namespaces \cup {Omitted},
            name : Names \cup {Blank}, argument : Arguments \cup {Blank},
            dryRun : BOOLEAN]
Policy  == [mutations : BOOLEAN, destructive : BOOLEAN, confirmation : BOOLEAN,
            allowed : SUBSET (Namespaces \cup {Star}),
            denied : SUBSET (Namespaces \cup {Star}), argo : BOOLEAN]

ASSUME GuardedMutationAssumption ==
    /\ Default \in Namespaces
    /\ Star \notin Namespaces
    /\ Omitted \notin Namespaces
    /\ NoToken \notin Tokens
    /\ Deployments \subseteq [policy : Policy, requests : SUBSET Request, calls : Nat]
    /\ Scopes = MutatingTools \X (Arguments \cup {Blank}) \X Namespaces \X Names
    /\ MaxTime \in Nat

VARIABLES
    deployment, \* the configuration, fixed at startup, and its callers
    now,
    grants,   \* per process: the confirmation store
    request,  \* per call: the payload, its token and the process serving it
    pc,       \* per call: where its handler is
    outcome,  \* per call: what the caller was told
    reply,    \* per call: the confirmation token returned by a preview
    sent,     \* per call: the number of HTTP requests sent
    wire,     \* the calls whose request is on its way to Argo
    applied,  \* per call: how often Argo carried the request out
    guardedAt \* history, per call: when its token was issued or consumed

handler == <<request, pc, outcome, reply, guardedAt>>
argo    == <<sent, wire, applied>>
vars    == <<deployment, now, grants, handler, argo>>
-------------------------------------------------------------------------------
(* What a token is bound to. *)

\* Mutant: the reason or retry mode is not part of the action string.
ScopeWithoutArgument(r) == <<r.tool, Blank, Namespace(r), r.name>>

\* What a token is bound to: the tool with its argument, namespace and name.
Scope(r) == <<r.tool, r.argument, Namespace(r), r.name>>
-------------------------------------------------------------------------------
policy == deployment.policy

Init ==
    /\ deployment \in Deployments
    /\ now = 0
    /\ grants = [p \in Processes |-> Empty]
    /\ request = [c \in Calls |-> Blank]
    /\ pc = [c \in Calls |-> "idle"]
    /\ outcome = [c \in Calls |-> "none"]
    /\ reply = [c \in Calls |-> NoToken]
    /\ sent = [c \in Calls |-> 0]
    /\ wire = {}
    /\ applied = [c \in Calls |-> 0]
    /\ guardedAt = [c \in Calls |-> 0]

Finish(c, result) ==
    /\ pc' = [pc EXCEPT ![c] = "done"]
    /\ outcome' = [outcome EXCEPT ![c] = result]

\* A call arrives with any token its caller may have got hold of; a handler
\* that does not look at the token is given none.
Receive(c, r, t, p) ==
    /\ pc[c] = "idle"
    /\ Cardinality({d \in Calls : pc[d] # "idle"}) < deployment.calls
    /\ t # NoToken => r.tool \in Destructive /\ ~r.dryRun
    /\ request' = [request EXCEPT ![c] = [input |-> r, token |-> t, process |-> p]]
    /\ IF MutationRefusal(r, policy) # "none"
       THEN Finish(c, MutationRefusal(r, policy))
       ELSE /\ pc' = [pc EXCEPT ![c] = IF r.tool \in Destructive THEN "guard" ELSE "dispatch"]
            /\ UNCHANGED outcome
    /\ UNCHANGED <<deployment, now, grants, reply, guardedAt, argo>>

Input(c)   == request[c].input
Process(c) == request[c].process

\* A dry run issues a token, whether or not confirmation is required.
Preview(c, t) ==
    /\ pc[c] = "guard" /\ Input(c).dryRun
    /\ t \notin {reply[d] : d \in Calls}
    /\ grants' = [grants EXCEPT ![Process(c)] = IssueInto(@, t, Scope(Input(c)), now)]
    /\ reply' = [reply EXCEPT ![c] = t]
    /\ guardedAt' = [guardedAt EXCEPT ![c] = now]
    /\ Finish(c, "dry_run")
    /\ UNCHANGED <<deployment, now, request, argo>>

\* The token is spent here, before anything is sent.
Confirm(c) ==
    LET p == Process(c)
        t == request[c].token
        s == Scope(Input(c))
    IN /\ pc[c] = "guard" /\ ~Input(c).dryRun
       /\ IF ~policy.confirmation
          THEN pc' = [pc EXCEPT ![c] = "dispatch"] /\ UNCHANGED <<grants, outcome>>
          ELSE /\ grants' = [grants EXCEPT ![p] = ConsumeFrom(@, t, s, now)]
               /\ IF Consumable(grants[p], t, s, now)
                  THEN pc' = [pc EXCEPT ![c] = "dispatch"] /\ UNCHANGED outcome
                  ELSE Finish(c, "confirmation_invalid")
       /\ guardedAt' = [guardedAt EXCEPT ![c] = now]
       /\ UNCHANGED <<deployment, now, request, reply, argo>>

Dispatch(c) ==
    /\ pc[c] = "dispatch"
    /\ pc' = [pc EXCEPT ![c] = "waiting"]
    /\ sent' = [sent EXCEPT ![c] = @ + 1]
    /\ wire' = wire \cup {c}
    /\ UNCHANGED <<deployment, now, grants, request, outcome, reply, guardedAt, applied>>

\* The request cannot be sent, gets no answer before the client's timeout, is
\* answered with an error status or with an undecodable body: the handler
\* cannot tell what Argo did.  A request still on the wire may arrive later.
Fail(c) ==
    /\ pc[c] \in {"dispatch", "waiting"}
    /\ Finish(c, "may_have_reached_argo")
    /\ UNCHANGED <<deployment, now, grants, request, reply, guardedAt, argo>>

\* Mutant: the error of the request is not looked at.
SucceedAnyway(c) ==
    /\ pc[c] = "waiting"
    /\ Finish(c, "ok")
    /\ UNCHANGED <<deployment, now, grants, request, reply, guardedAt, argo>>

Succeed(c) ==
    /\ pc[c] = "waiting" /\ applied[c] > 0
    /\ Finish(c, "ok")
    /\ UNCHANGED <<deployment, now, grants, request, reply, guardedAt, argo>>

\* Argo carries out a request it receives, or the request is lost or refused.
ArgoApply(c) ==
    /\ c \in wire
    /\ wire' = wire \ {c}
    /\ applied' = [applied EXCEPT ![c] = @ + 1]
    /\ UNCHANGED <<deployment, now, grants, handler, sent>>

ArgoDrop(c) ==
    /\ c \in wire
    /\ wire' = wire \ {c}
    /\ UNCHANGED <<deployment, now, grants, handler, sent, applied>>

\* A restarted process has an empty store; the calls it was serving are cut off.
Restart(p) ==
    LET cut == {c \in Calls : pc[c] \in {"guard", "dispatch", "waiting"} /\ Process(c) = p}
    IN /\ grants[p] # Empty \/ cut # {}
       /\ grants' = [grants EXCEPT ![p] = Empty]
       /\ pc' = [c \in Calls |-> IF c \in cut THEN "done" ELSE pc[c]]
       /\ outcome' = [c \in Calls |-> IF c \in cut THEN "disconnected" ELSE outcome[c]]
       /\ UNCHANGED <<deployment, now, request, reply, guardedAt, argo>>

Tick ==
    /\ now < MaxTime
    /\ now' = now + 1
    /\ UNCHANGED <<deployment, grants, handler, argo>>

Next ==
    \/ \E c \in Calls, r \in deployment.requests, t \in Tokens \cup {NoToken}, p \in Processes :
         Receive(c, r, t, p)
    \/ \E c \in Calls, t \in Tokens : Preview(c, t)
    \/ \E c \in Calls : Confirm(c) \/ Dispatch(c) \/ Fail(c) \/ Succeed(c)
    \/ \E c \in Calls : ArgoApply(c) \/ ArgoDrop(c)
    \/ \E p \in Processes : Restart(p)
    \/ Tick

Spec == Init /\ [][Next]_vars
-------------------------------------------------------------------------------
NoRequestOutcomes == {"namespace_denied", "invalid_input", "denied",
                      "configuration_error", "dry_run", "confirmation_invalid"}
Outcomes == NoRequestOutcomes \cup {"none", "ok", "may_have_reached_argo", "disconnected"}

\* The type of every variable.
TypeOK ==
    /\ deployment \in Deployments
    /\ now \in Nat
    /\ grants \in [Processes -> Maps]
    /\ request \in [Calls -> {Blank} \cup
           [input : deployment.requests, token : Tokens \cup {NoToken}, process : Processes]]
    /\ pc \in [Calls -> {"idle", "guard", "dispatch", "waiting", "done"}]
    /\ outcome \in [Calls -> Outcomes]
    /\ reply \in [Calls -> Tokens \cup {NoToken}]
    /\ sent \in [Calls -> Nat]
    /\ wire \subseteq Calls
    /\ applied \in [Calls -> Nat]
    /\ guardedAt \in [Calls -> Nat]

\* The calls that have sent a destructive request while confirmation is required.
Confirmed == {c \in Calls : /\ sent[c] > 0
                            /\ Input(c).tool \in Destructive
                            /\ policy.confirmation}

\* "The server sends each mutation request once" (README.md:491), and a token
\* authorizes one request: whatever fails, times out or is presented at the
\* same time by several calls, no call sends or lands two requests and no two
\* calls send on the same token.
OneRequestPerGrant ==
    /\ \A c \in Calls : applied[c] <= sent[c] /\ sent[c] <= 1
    /\ \A c, d \in Confirmed : request[c].token = request[d].token => c = d

\* Behind every destructive request there is a preview the same process
\* answered for the same tool, namespace, name and argument, less than TTL
\* before the confirmation was checked, whose token the request used: a
\* preview of something else, an old one, one of another replica or one from
\* before a restart authorizes nothing.
PreviewedFirst ==
    \A c \in Confirmed : \E d \in Calls :
        /\ outcome[d] = "dry_run"
        /\ reply[d] = request[c].token
        /\ Process(d) = Process(c)
        /\ Input(d).tool = Input(c).tool
        /\ Input(d).name = Input(c).name
        /\ Input(d).argument = Input(c).argument
        /\ Namespace(Input(d)) = Namespace(Input(c))
        /\ guardedAt[d] <= guardedAt[c] /\ guardedAt[c] < guardedAt[d] + TTL

\* What the caller is told about Argo is true at that moment and stays true: a
\* refusal, a preview and an invalid confirmation say that no request was made
\* (none was, none will be), and "ok" is only said of what Argo carried out.
HonestOutcome ==
    \A c \in Calls :
        /\ outcome[c] \in NoRequestOutcomes => sent[c] = 0
        /\ outcome[c] = "ok" => applied[c] = 1

\* What reaches the network is inside the policy: never a denied namespace,
\* even one that is also allowed, never a mutation the policy forbids, never
\* anything without an Argo URL.
InsidePolicy ==
    \A c \in Calls : sent[c] > 0 =>
        /\ Namespace(Input(c)) \notin policy.denied /\ Star \notin policy.denied
        /\ policy.allowed = {} \/ {Star, Namespace(Input(c))} \cap policy.allowed # {}
        /\ policy.mutations /\ policy.argo
        /\ Input(c).tool \in Destructive => policy.destructive
===============================================================================
