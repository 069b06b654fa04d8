------------------------ MODULE GuardedMutation_proofs ------------------------
(***************************************************************************)
(* Proofs about the mutating tools, for any number of calls, processes and *)
(* tokens, every configuration, lifetime and clock bound.                  *)
(*                                                                         *)
(* A token is spent where it is checked, before the request it authorizes. *)
(* The invariant follows it: out of a preview (Replies), in the map of the *)
(* process that answered the preview (GrantsPreviewed), and with the one   *)
(* call that got past the check (PassedPreviewed).                         *)
(***************************************************************************)
EXTENDS GuardedMutation, TLAPS

Received == [input : deployment.requests, token : Tokens \cup {NoToken}, process : Processes]
Busy(c)  == pc[c] \in {"guard", "dispatch", "waiting"}

\* How far a call is, and what Argo can have seen of it.
Progress ==
    \A c \in Calls :
        /\ pc[c] # "idle" => request[c] \in Received
        /\ (outcome[c] = "none") <=> (pc[c] # "done")
        /\ pc[c] \in {"idle", "guard", "dispatch"} => sent[c] = 0
        /\ c \in wire => sent[c] = 1 /\ applied[c] = 0
        /\ applied[c] <= sent[c] /\ sent[c] <= 1
        /\ guardedAt[c] <= now

\* A handler past its checks passed them.
Admitted ==
    \A c \in Calls : Busy(c) \/ sent[c] > 0 =>
        MutationRefusal(Input(c), policy) = "none"

\* A token is the reply of one preview.
Replies ==
    \A c \in Calls : reply[c] # NoToken =>
        /\ outcome[c] = "dry_run"
        /\ \A d \in Calls : reply[c] = reply[d] => c = d

\* Call d is a preview that process p answered with token t for scope s.
Previews(d, t, p, s) ==
    outcome[d] = "dry_run" /\ reply[d] = t /\ Process(d) = p /\ Scope(Input(d)) = s

\* A process holds grants for its own previews only.
GrantsPreviewed ==
    \A p \in Processes, t \in Tokens : grants[p][t] # NoGrant =>
        \E d \in Calls : /\ Previews(d, t, p, grants[p][t].scope)
                         /\ grants[p][t].expiresAt = guardedAt[d] + TTL

\* Call c was let through by its token.
Passed(c) ==
    /\ pc[c] \in {"dispatch", "waiting"} \/ sent[c] > 0
    /\ Input(c).tool \in Destructive
    /\ policy.confirmation

\* What the token of a call that passed was issued for; no other call passed with
\* it, and no map has it any more.
PassedPreviewed ==
    \A c \in Calls : Passed(c) =>
        /\ request[c].token \in Tokens
        /\ \A p \in Processes : grants[p][request[c].token] = NoGrant
        /\ \A d \in Calls : Passed(d) /\ request[c].token = request[d].token => c = d
        /\ \E d \in Calls :
             /\ Previews(d, request[c].token, Process(c), Scope(Input(c)))
             /\ guardedAt[d] <= guardedAt[c] /\ guardedAt[c] < guardedAt[d] + TTL

IInv ==
    /\ TypeOK /\ Progress /\ Admitted /\ HonestOutcome
    /\ Replies /\ GrantsPreviewed /\ PassedPreviewed
-------------------------------------------------------------------------------
(* What pruning, issuing and consuming do to the grant map of a process, as in *)
(* Confirmation_proofs. *)

\* Pruning keeps exactly the unexpired entries of a map.
LEMMA PruneKeepsLive ==
    ASSUME NEW map \in Maps, NEW time \in Nat
    PROVE  /\ PruneExpired(map, time) \in Maps
           /\ \A t \in Tokens :
                PruneExpired(map, time)[t] =
                    IF Expired(map[t], time) THEN NoGrant ELSE map[t]
  BY DEF PruneExpired, Maps

\* Issuing gives the drawn token a full lifetime and touches no other entry
\* but to prune it.
LEMMA IssueAddsOne ==
    ASSUME NEW map \in Maps, NEW time \in Nat, NEW t \in Tokens, NEW s \in Scopes
    PROVE  /\ IssueInto(map, t, s, time) \in Maps
           /\ IssueInto(map, t, s, time)[t] = [scope |-> s, expiresAt |-> time + TTL]
           /\ \A u \in Tokens \ {t} :
                IssueInto(map, t, s, time)[u] = PruneExpired(map, time)[u]
  <1>1. [scope |-> s, expiresAt |-> time + TTL] \in Grant
    BY GrantStoreAssumption DEF Grant
  <1>2. PruneExpired(map, time) \in Maps
    BY PruneKeepsLive
  <1>3. QED
    BY <1>1, <1>2 DEF IssueInto, Maps

\* Consuming removes the accepted token, and otherwise only what has expired.
LEMMA ConsumeRemovesOne ==
    ASSUME NEW map \in Maps, NEW time \in Nat, NEW t, NEW s
    PROVE  /\ ConsumeFrom(map, t, s, time) \in Maps
           /\ Consumable(map, t, s, time) => /\ t \in Tokens
                                             /\ map[t] # NoGrant
                                             /\ map[t].scope = s
                                             /\ ~Expired(map[t], time)
                                             /\ ConsumeFrom(map, t, s, time)[t] = NoGrant
           /\ \A u \in Tokens : ConsumeFrom(map, t, s, time)[u] \in {NoGrant, map[u]}
           /\ \A u \in Tokens :
                u # t \/ ~Consumable(map, t, s, time) =>
                    \/ ConsumeFrom(map, t, s, time)[u] = map[u]
                    \/ Expired(map[u], time)
  <1>1. /\ PruneExpired(map, time) \in Maps
        /\ \A u \in Tokens :
             PruneExpired(map, time)[u] =
                 IF Expired(map[u], time) THEN NoGrant ELSE map[u]
    BY PruneKeepsLive
  <1>2. CASE t \notin Tokens
    BY <1>2 DEF ConsumeFrom, Consumable
  <1>3. CASE t \in Tokens
    BY <1>1, <1>3 DEF ConsumeFrom, Consumable, Maps
  <1>4. QED
    BY <1>2, <1>3
-------------------------------------------------------------------------------
\* Four checks, as the mutating handlers make them.
LEMMA FirstOfFour ==
    ASSUME NEW w, NEW x, NEW y, NEW z, "none" \notin {w, x, y, z},
           NEW a \in BOOLEAN, NEW b \in BOOLEAN, NEW c \in BOOLEAN, NEW d \in BOOLEAN
    PROVE  LET refusal == FirstRefusal(<< <<w, a>>, <<x, b>>, <<y, c>>, <<z, d>> >>)
           IN  refusal \in {w, x, y, z, "none"} /\ (refusal = "none" <=> ~a /\ ~b /\ ~c /\ ~d)
  <1> DEFINE checks == << <<w, a>>, <<x, b>>, <<y, c>>, <<z, d>> >>
  <1>1. DOMAIN checks = 1..4
    OBVIOUS
  <1>2. /\ checks[1] = <<w, a>> /\ checks[2] = <<x, b>> /\ checks[3] = <<y, c>> /\ checks[4] = <<z, d>>
    OBVIOUS
  <1> HIDE DEF checks
  <1>3. CASE ~a /\ ~b /\ ~c /\ ~d
    <2>1. \A i \in DOMAIN checks : ~checks[i][2]
      <3> SUFFICES ASSUME NEW i \in 1..4 PROVE ~checks[i][2]
        BY <1>1
      <3>1. i = 1 \/ i = 2 \/ i = 3 \/ i = 4
        OBVIOUS
      <3>2. QED
        BY <1>2, <1>3, <3>1
    <2>2. FirstRefusal(checks) = "none"
      BY <2>1 DEF FirstRefusal
    <2>3. QED
      BY <1>3, <2>2 DEF checks
  <1>4. CASE a \/ b \/ c \/ d
    <2>1. \E i \in DOMAIN checks : checks[i][2] /\ \A j \in 1..(i - 1) : ~checks[j][2]
      <3>1. checks[1][2] = a /\ checks[2][2] = b /\ checks[3][2] = c /\ checks[4][2] = d
        BY <1>2
      <3>2. /\ 1..(1 - 1) = {} /\ 1..(2 - 1) = {1} /\ 1..(3 - 1) = {1, 2} /\ 1..(4 - 1) = {1, 2, 3}
            /\ 1..4 = {1, 2, 3, 4}
        OBVIOUS
      <3>3. QED
        BY <1>1, <1>4, <3>1, <3>2, Zenon
    <2>2. PICK i \in 1..4 : FirstRefusal(checks) = checks[i][1]
      BY <1>1, <2>1 DEF FirstRefusal
    <2>3. FirstRefusal(checks) \in {w, x, y, z}
      BY <1>2, <2>2
    <2>4. QED
      BY <1>4, <2>3 DEF checks
  <1>5. QED
    BY <1>3, <1>4

\* What the refusals of the handlers are, and what it means that there is none.
LEMMA RefusalMeans ==
    ASSUME NEW r \in Request, NEW p \in Policy
    PROVE  /\ MutationRefusal(r, p) \in {"namespace_denied", "invalid_input", "denied",
                                         "configuration_error", "none"}
           /\ MutationRefusal(r, p) = "none" =>
                /\ Authorized(Namespace(r), p) /\ r.name # Blank
                /\ p.mutations /\ p.argo
                /\ r.tool \in Destructive => p.destructive
  <1>1. r.tool \in MutatingTools
    BY DEF Request
  <1> DEFINE denied  == ~Authorized(Namespace(r), p)
             unnamed == ~Named(r)
             closed  == ~p.mutations
             absent  == ~p.argo
  <1>2. denied \in BOOLEAN /\ unnamed \in BOOLEAN /\ closed \in BOOLEAN /\ absent \in BOOLEAN
    OBVIOUS
  <1>3. CASE r.tool \in Destructive
    <2>1. /\ r.tool = "terminate_workflow" => MutationRefusal(r, p) = TerminateWorkflow(r, p)
          /\ r.tool = "retry_workflow" => MutationRefusal(r, p) = RetryWorkflow(r, p)
      BY DEF MutationRefusal, Reversible, Creating
    <2>2. ASSUME NEW valid, valid => r.name # Blank
          PROVE  LET refusal == DestructiveRefusal(r, p, valid)
                 IN  /\ refusal \in {"namespace_denied", "invalid_input", "denied",
                                     "configuration_error", "none"}
                     /\ refusal = "none" =>
                          /\ Authorized(Namespace(r), p) /\ r.name # Blank
                          /\ p.mutations /\ p.argo /\ p.destructive
      <3> DEFINE invalid == ~valid
                 guarded == ~(p.mutations /\ p.destructive)
      <3>1. invalid \in BOOLEAN /\ guarded \in BOOLEAN
        OBVIOUS
      <3>2. DestructiveRefusal(r, p, valid) =
                FirstRefusal(<< <<"namespace_denied", denied>>, <<"invalid_input", invalid>>,
                                <<"denied", guarded>>, <<"configuration_error", absent>> >>)
        BY DEF DestructiveRefusal
      <3> HIDE DEF denied, unnamed, closed, absent, invalid, guarded
      <3>3. /\ DestructiveRefusal(r, p, valid) \in {"namespace_denied", "invalid_input", "denied",
                                                    "configuration_error", "none"}
            /\ DestructiveRefusal(r, p, valid) = "none" => ~denied /\ ~invalid /\ ~guarded /\ ~absent
        BY <1>2, <3>1, <3>2, FirstOfFour
      <3>4. QED
        BY <2>2, <3>3 DEF denied, invalid, guarded, absent
    <2>3. QED
      BY <1>3, <2>1, <2>2 DEF TerminateWorkflow, RetryWorkflow, Named, Destructive
  <1>4. CASE r.tool \in Reversible
    <2>1. MutationRefusal(r, p) =
              FirstRefusal(<< <<"namespace_denied", denied>>, <<"invalid_input", unnamed>>,
                              <<"denied", closed>>, <<"configuration_error", absent>> >>)
      BY <1>4 DEF Reversible, Creating, MutationRefusal, SetSuspended
    <2> HIDE DEF denied, unnamed, closed, absent
    <2>2. /\ MutationRefusal(r, p) \in {"namespace_denied", "invalid_input", "denied",
                                        "configuration_error", "none"}
          /\ MutationRefusal(r, p) = "none" => ~denied /\ ~unnamed /\ ~closed /\ ~absent
      BY <1>2, <2>1, FirstOfFour
    <2>3. QED
      BY <1>4, <2>2 DEF Destructive, Reversible, Named, denied, unnamed, closed, absent
  <1>5. CASE r.tool \in Creating
    <2>1. MutationRefusal(r, p) =
              FirstRefusal(<< <<"namespace_denied", denied>>, <<"denied", closed>>,
                              <<"invalid_input", unnamed>>, <<"configuration_error", absent>> >>)
      BY <1>5 DEF Reversible, Creating, MutationRefusal, Create
    <2> HIDE DEF denied, unnamed, closed, absent
    <2>2. /\ MutationRefusal(r, p) \in {"namespace_denied", "invalid_input", "denied",
                                        "configuration_error", "none"}
          /\ MutationRefusal(r, p) = "none" => ~denied /\ ~unnamed /\ ~closed /\ ~absent
      BY <1>2, <2>1, FirstOfFour
    <2>3. QED
      BY <1>5, <2>2 DEF Destructive, Creating, Named, denied, unnamed, closed, absent
  <1>6. QED
    BY <1>1, <1>3, <1>4, <1>5 DEF MutatingTools

\* The scope of a request that was not refused is one a grant can be bound to.
LEMMA ScopeOfAdmitted ==
    ASSUME NEW r \in Request, NEW p \in Policy, MutationRefusal(r, p) = "none"
    PROVE  Scope(r) \in Scopes
  <1>1. r.name \in Names
    BY RefusalMeans DEF Request
  <1>2. Namespace(r) \in Namespaces
    BY GuardedMutationAssumption DEF Request, Namespace
  <1>3. QED
    BY <1>1, <1>2, GuardedMutationAssumption DEF Request, Scope

\* The deployment has a policy, and requests with the types of their fields.
LEMMA DeploymentTyped ==
    ASSUME deployment \in Deployments
    PROVE  policy \in Policy /\ deployment.requests \subseteq Request
  BY GuardedMutationAssumption DEF policy
-------------------------------------------------------------------------------
\* At the start no call has arrived and no map has a grant.
LEMMA InitIInv == Init => IInv
  <1> SUFFICES ASSUME Init PROVE IInv
    OBVIOUS
  <1>1. TypeOK
    BY GrantStoreAssumption, GuardedMutationAssumption DEF Init, TypeOK, Maps, Empty, Outcomes
  <1>2. Progress /\ Admitted /\ HonestOutcome
    BY DEF Init, Progress, Admitted, Busy, HonestOutcome, NoRequestOutcomes
  <1>3. Replies /\ GrantsPreviewed /\ PassedPreviewed
    BY DEF Init, Replies, GrantsPreviewed, PassedPreviewed, Passed, Empty
  <1>4. QED
    BY <1>1, <1>2, <1>3 DEF IInv

\* A call that arrives has sent nothing yet; it is refused, or has passed its checks.
LEMMA ReceiveKeepsIInv ==
    ASSUME IInv, NEW c \in Calls, NEW r \in deployment.requests,
           NEW t \in Tokens \cup {NoToken}, NEW p \in Processes, Receive(c, r, t, p)
    PROVE  IInv'
  <1> DEFINE refusal == MutationRefusal(r, policy)
  <1>1. TypeOK /\ Progress
    BY DEF IInv
  <1>2. refusal \in NoRequestOutcomes \cup {"none"}
    BY <1>1, RefusalMeans, DeploymentTyped DEF TypeOK, NoRequestOutcomes
  <1>3. /\ pc[c] = "idle" /\ outcome[c] = "none" /\ sent[c] = 0 /\ c \notin wire
    BY <1>1 DEF Receive, Progress
  <1>4. /\ request' = [request EXCEPT ![c] = [input |-> r, token |-> t, process |-> p]]
        /\ UNCHANGED <<deployment, now, grants, reply, guardedAt, sent, wire, applied>>
        /\ \/ /\ refusal # "none"
              /\ pc' = [pc EXCEPT ![c] = "done"] /\ outcome' = [outcome EXCEPT ![c] = refusal]
           \/ /\ refusal = "none" /\ UNCHANGED outcome
              /\ \/ pc' = [pc EXCEPT ![c] = "guard"] /\ r.tool \in Destructive
                 \/ pc' = [pc EXCEPT ![c] = "dispatch"] /\ r.tool \notin Destructive
    BY DEF Receive, Finish, argo
  <1> HIDE DEF refusal
  <1>5. TypeOK'
    BY <1>1, <1>2, <1>4 DEF TypeOK, Outcomes
  <1>6. Progress'
    BY <1>1, <1>2, <1>3, <1>4 DEF TypeOK, Progress, Received, NoRequestOutcomes
  <1>7. Admitted'
    BY <1>1, <1>2, <1>3, <1>4 DEF IInv, TypeOK, Admitted, Busy, Input, policy, refusal
  <1>8. HonestOutcome'
    BY <1>1, <1>2, <1>3, <1>4 DEF IInv, TypeOK, HonestOutcome, NoRequestOutcomes
  <1>9. \A d \in Calls : d # c => /\ request'[d] = request[d] /\ pc'[d] = pc[d]
                                  /\ outcome'[d] = outcome[d] /\ Passed(d)' = Passed(d)
    BY <1>1, <1>4 DEF TypeOK, Passed, Input, policy
  <1>10. outcome[c] # "dry_run" /\ ~Passed(c)'
    BY <1>1, <1>3, <1>4 DEF TypeOK, Passed, Input
  <1>11. Replies' /\ GrantsPreviewed' /\ PassedPreviewed'
    BY <1>4, <1>9, <1>10
       DEF IInv, Replies, GrantsPreviewed, PassedPreviewed, Previews, Process, Input, Scope, Namespace
  <1>12. QED
    BY <1>5, <1>6, <1>7, <1>8, <1>11 DEF IInv

\* A preview gives a token that nobody has, to the map of its own process.
LEMMA PreviewKeepsIInv ==
    ASSUME IInv, NEW c \in Calls, NEW t \in Tokens, Preview(c, t)
    PROVE  IInv'
  <1> DEFINE s == Scope(Input(c))
             p == Process(c)
             g == [scope |-> s, expiresAt |-> now + TTL]
  <1>1. TypeOK /\ Progress /\ now \in Nat /\ t # NoToken
    BY GuardedMutationAssumption DEF IInv, TypeOK
  <1>2. /\ pc[c] = "guard" /\ request[c] \in Received /\ outcome[c] = "none" /\ sent[c] = 0
        /\ c \notin wire
    BY <1>1 DEF Preview, Progress
  <1>3. p \in Processes /\ grants[p] \in Maps
    BY <1>1, <1>2 DEF TypeOK, Received, Process
  <1>4. s \in Scopes
    <2>1. Input(c) \in Request /\ policy \in Policy
      BY <1>1, <1>2, DeploymentTyped DEF TypeOK, Received, Input
    <2>2. MutationRefusal(Input(c), policy) = "none"
      BY <1>2 DEF IInv, Admitted, Busy
    <2>3. QED
      BY <2>1, <2>2, ScopeOfAdmitted
  <1>5. /\ IssueInto(grants[p], t, s, now) \in Maps
        /\ IssueInto(grants[p], t, s, now)[t] = g
        /\ \A u \in Tokens \ {t} : IssueInto(grants[p], t, s, now)[u] \in {NoGrant, grants[p][u]}
    <2> HIDE DEF s, p
    <2>1. QED
      BY <1>1, <1>3, <1>4, IssueAddsOne, PruneKeepsLive
  <1>6. /\ grants' = [grants EXCEPT ![p] = IssueInto(grants[p], t, s, now)]
        /\ reply' = [reply EXCEPT ![c] = t]
        /\ guardedAt' = [guardedAt EXCEPT ![c] = now]
        /\ pc' = [pc EXCEPT ![c] = "done"] /\ outcome' = [outcome EXCEPT ![c] = "dry_run"]
        /\ UNCHANGED <<deployment, now, request, sent, wire, applied>>
        /\ \A d \in Calls : reply[d] # t
    BY DEF Preview, Finish, argo
  <1>7. TypeOK'
    BY <1>1, <1>3, <1>5, <1>6 DEF TypeOK, Outcomes, NoRequestOutcomes
  <1>8. Progress'
    BY <1>1, <1>2, <1>6 DEF TypeOK, Progress, Received
  <1>9. Admitted'
    BY <1>1, <1>2, <1>6 DEF IInv, TypeOK, Admitted, Busy, Input, policy
  <1>10. HonestOutcome'
    BY <1>1, <1>2, <1>6 DEF IInv, TypeOK, HonestOutcome, NoRequestOutcomes
  <1>11. \A d \in Calls : d # c => /\ reply'[d] = reply[d] /\ outcome'[d] = outcome[d]
                                   /\ guardedAt'[d] = guardedAt[d] /\ Passed(d)' = Passed(d)
    BY <1>1, <1>6 DEF TypeOK, Passed, Input, policy
  <1>12. /\ reply'[c] = t /\ outcome'[c] = "dry_run" /\ guardedAt'[c] = now /\ ~Passed(c)'
         /\ \A d \in Calls : Process(d)' = Process(d) /\ Scope(Input(d))' = Scope(Input(d))
    BY <1>1, <1>2, <1>6 DEF TypeOK, Passed, Process, Scope, Input, Namespace
  <1>13. /\ \A q \in Processes : q # p => grants'[q] = grants[q]
         /\ grants'[p][t] = g
         /\ \A u \in Tokens \ {t} : grants'[p][u] \in {NoGrant, grants[p][u]}
    BY <1>1, <1>3, <1>5, <1>6 DEF TypeOK
  <1>14. Replies'
    BY <1>1, <1>6, <1>11, <1>12 DEF IInv, Replies
  <1>15. \A d \in Calls : \A u, q, x :
            Previews(d, u, q, x) => d # c /\ u # t /\ Previews(d, u, q, x)'
    BY <1>2, <1>6, <1>11, <1>12 DEF Previews
  <1>16. GrantsPreviewed'
    <2> SUFFICES ASSUME NEW q \in Processes, NEW u \in Tokens, grants'[q][u] # NoGrant
                 PROVE  \E d \in Calls : /\ Previews(d, u, q, grants[q][u].scope)'
                                         /\ grants'[q][u].expiresAt = guardedAt'[d] + TTL
      BY GrantStoreAssumption DEF GrantsPreviewed
    <2>1. CASE q = p /\ u = t
      BY <2>1, <1>12, <1>13 DEF Previews
    <2>2. CASE ~(q = p /\ u = t)
      <3>1. grants'[q][u] = grants[q][u]
        BY <2>2, <1>13
      <3>2. PICK d \in Calls : /\ Previews(d, u, q, grants[q][u].scope)
                              /\ grants[q][u].expiresAt = guardedAt[d] + TTL
        BY <3>1 DEF IInv, GrantsPreviewed
      <3>3. QED
        BY <3>1, <3>2, <1>11, <1>15 DEF Previews
    <2>3. QED
      BY <2>1, <2>2
  <1>17. PassedPreviewed'
    <2> SUFFICES ASSUME NEW d \in Calls, Passed(d)'
                 PROVE  /\ request'[d].token \in Tokens
                        /\ \A q \in Processes : grants'[q][request'[d].token] = NoGrant
                        /\ \A e \in Calls : Passed(e)' /\ request'[d].token = request'[e].token => d = e
                        /\ \E e \in Calls :
                             /\ Previews(e, request[d].token, Process(d), Scope(Input(d)))'
                             /\ guardedAt'[e] <= guardedAt'[d] /\ guardedAt'[d] < guardedAt'[e] + TTL
      BY DEF PassedPreviewed
    <2>1. d # c /\ Passed(d) /\ request'[d] = request[d] /\ guardedAt'[d] = guardedAt[d]
      BY <1>6, <1>11, <1>12
    <2>2. /\ request[d].token \in Tokens
          /\ \A q \in Processes : grants[q][request[d].token] = NoGrant
          /\ \A e \in Calls : Passed(e) /\ request[d].token = request[e].token => d = e
      BY <2>1 DEF IInv, PassedPreviewed
    <2>3. PICK e \in Calls : /\ Previews(e, request[d].token, Process(d), Scope(Input(d)))
                            /\ guardedAt[e] <= guardedAt[d] /\ guardedAt[d] < guardedAt[e] + TTL
      BY <2>1 DEF IInv, PassedPreviewed
    <2>4. e # c /\ request[d].token # t
      BY <2>3, <1>15
    <2>5. Previews(e, request[d].token, Process(d), Scope(Input(d)))'
      BY <2>1, <2>3, <2>4, <1>11, <1>12 DEF Previews
    <2>6. \A q \in Processes : grants'[q][request[d].token] = NoGrant
      BY <2>2, <2>4, <1>13
    <2>7. QED
      BY <2>1, <2>2, <2>3, <2>4, <2>5, <2>6, <1>6, <1>11, <1>12
  <1>18. QED
    BY <1>7, <1>8, <1>9, <1>10, <1>14, <1>16, <1>17 DEF IInv

\* The check of a token spends it with the step that lets its call through; the
\* grant that it finds is the one of a preview, and is not expired.
LEMMA ConfirmKeepsIInv ==
    ASSUME IInv, NEW c \in Calls, Confirm(c)
    PROVE  IInv'
  <1> DEFINE s  == Scope(Input(c))
             p  == Process(c)
             t  == request[c].token
             ok == Consumable(grants[p], t, s, now)
  <1>1. TypeOK /\ Progress /\ now \in Nat
    BY DEF IInv, TypeOK
  <1>2. /\ pc[c] = "guard" /\ request[c] \in Received /\ outcome[c] = "none" /\ sent[c] = 0
        /\ c \notin wire
    BY <1>1 DEF Confirm, Progress
  <1>3. p \in Processes /\ grants[p] \in Maps
    BY <1>1, <1>2 DEF TypeOK, Received, Process
  <1>4. /\ guardedAt' = [guardedAt EXCEPT ![c] = now]
        /\ UNCHANGED <<deployment, now, request, reply, sent, wire, applied>>
        /\ \/ /\ ~policy.confirmation \/ (policy.confirmation /\ ok)
              /\ pc' = [pc EXCEPT ![c] = "dispatch"] /\ UNCHANGED outcome
           \/ /\ pc' = [pc EXCEPT ![c] = "done"]
              /\ outcome' = [outcome EXCEPT ![c] = "confirmation_invalid"]
    BY DEF Confirm, Finish, argo
  <1>5. /\ ConsumeFrom(grants[p], t, s, now) \in Maps
        /\ ok => /\ t \in Tokens /\ grants[p][t] # NoGrant /\ grants[p][t].scope = s
                 /\ ~Expired(grants[p][t], now)
                 /\ ConsumeFrom(grants[p], t, s, now)[t] = NoGrant
        /\ \A u \in Tokens : ConsumeFrom(grants[p], t, s, now)[u] \in {NoGrant, grants[p][u]}
    <2> HIDE DEF s, p, t
    <2>1. QED
      BY <1>1, <1>3, ConsumeRemovesOne
  <1>6. /\ grants' \in [Processes -> Maps]
        /\ \A q \in Processes, u \in Tokens : grants'[q][u] \in {NoGrant, grants[q][u]}
        /\ policy.confirmation /\ ok => grants'[p][t] = NoGrant
    <2>1. CASE grants' = grants
      <3>1. ~policy.confirmation \/ grants' = [grants EXCEPT ![p] = ConsumeFrom(grants[p], t, s, now)]
        BY DEF Confirm
      <3>2. QED
        BY <2>1, <3>1, <1>1, <1>3, <1>5 DEF TypeOK
    <2>2. CASE grants' = [grants EXCEPT ![p] = ConsumeFrom(grants[p], t, s, now)]
      BY <2>2, <1>1, <1>3, <1>5 DEF TypeOK
    <2>3. QED
      BY <2>1, <2>2 DEF Confirm
  <1>7. TypeOK'
    BY <1>1, <1>4, <1>6 DEF TypeOK, Outcomes, NoRequestOutcomes
  <1>8. Progress'
    BY <1>1, <1>2, <1>4 DEF TypeOK, Progress, Received
  <1>9. Admitted'
    BY <1>1, <1>2, <1>4 DEF IInv, TypeOK, Admitted, Busy, Input, policy
  <1>10. HonestOutcome'
    BY <1>1, <1>2, <1>4 DEF IInv, TypeOK, HonestOutcome, NoRequestOutcomes
  <1>11. \A d \in Calls : d # c => /\ outcome'[d] = outcome[d] /\ guardedAt'[d] = guardedAt[d]
                                   /\ Passed(d)' = Passed(d)
    BY <1>1, <1>4 DEF TypeOK, Passed, Input, policy
  <1>12. /\ Passed(c)' => policy.confirmation /\ ok
         /\ guardedAt'[c] = now /\ outcome[c] # "dry_run" /\ outcome'[c] # "dry_run"
         /\ \A d \in Calls : Process(d)' = Process(d) /\ Scope(Input(d))' = Scope(Input(d))
    BY <1>1, <1>2, <1>4 DEF TypeOK, Passed, Process, Scope, Input, Namespace, policy
  <1>13. Replies'
    BY <1>4, <1>11, <1>12 DEF IInv, Replies
  <1>14. \A d \in Calls : \A u, q, x : Previews(d, u, q, x) =>
           d # c /\ Previews(d, u, q, x)' /\ guardedAt'[d] = guardedAt[d]
    BY <1>4, <1>11, <1>12 DEF Previews
  <1>15. GrantsPreviewed'
    <2> SUFFICES ASSUME NEW q \in Processes, NEW u \in Tokens, grants'[q][u] # NoGrant
                 PROVE  \E d \in Calls : /\ Previews(d, u, q, grants[q][u].scope)'
                                         /\ grants'[q][u].expiresAt = guardedAt'[d] + TTL
      BY DEF GrantsPreviewed
    <2>1. grants'[q][u] = grants[q][u]
      BY <1>6
    <2>2. PICK d \in Calls : /\ Previews(d, u, q, grants[q][u].scope)
                            /\ grants[q][u].expiresAt = guardedAt[d] + TTL
      BY <2>1 DEF IInv, GrantsPreviewed
    <2>3. QED
      BY <2>1, <2>2, <1>14 DEF Previews
  <1>16. ASSUME Passed(c)'
         PROVE  /\ t \in Tokens /\ \A q \in Processes : grants'[q][t] = NoGrant
                /\ \A d \in Calls : Passed(d) => request[d].token # t
                /\ \E d \in Calls : /\ Previews(d, t, p, s)
                                     /\ guardedAt[d] <= now /\ now < guardedAt[d] + TTL
    <2>1. /\ t \in Tokens /\ grants[p][t] # NoGrant /\ grants[p][t].scope = s
          /\ ~Expired(grants[p][t], now) /\ grants'[p][t] = NoGrant
      BY <1>5, <1>6, <1>12, <1>16
    <2>2. PICK d \in Calls : /\ Previews(d, t, p, s) /\ grants[p][t].expiresAt = guardedAt[d] + TTL
      BY <2>1, <1>3 DEF IInv, GrantsPreviewed
    <2>3. guardedAt[d] <= now /\ now < guardedAt[d] + TTL
      BY <2>1, <2>2, <1>1, GrantStoreAssumption DEF Expired, Progress, TypeOK
    <2>4. ASSUME NEW q \in Processes, q # p PROVE grants'[q][t] = NoGrant
      <3>1. SUFFICES ASSUME grants[q][t] # NoGrant PROVE FALSE
        BY <2>1, <1>6
      <3>2. PICK e \in Calls : Previews(e, t, q, grants[q][t].scope)
        BY <2>1, <3>1 DEF IInv, GrantsPreviewed
      <3>3. d = e
        BY <2>1, <2>2, <3>2, GuardedMutationAssumption DEF IInv, Replies, Previews
      <3>4. QED
        BY <2>2, <2>4, <3>2, <3>3 DEF Previews
    <2>5. \A e \in Calls : Passed(e) => request[e].token # t
      BY <2>1, <1>3 DEF IInv, PassedPreviewed
    <2>6. QED
      BY <2>1, <2>2, <2>3, <2>4, <2>5
  <1>17. PassedPreviewed'
    <2> SUFFICES ASSUME NEW d \in Calls, Passed(d)'
                 PROVE  /\ request'[d].token \in Tokens
                        /\ \A q \in Processes : grants'[q][request'[d].token] = NoGrant
                        /\ \A e \in Calls : Passed(e)' /\ request'[d].token = request'[e].token => d = e
                        /\ \E e \in Calls :
                             /\ Previews(e, request[d].token, Process(d), Scope(Input(d)))'
                             /\ guardedAt'[e] <= guardedAt'[d] /\ guardedAt'[d] < guardedAt'[e] + TTL
      BY DEF PassedPreviewed
    <2>1. request' = request
      BY <1>4
    <2>2. CASE d = c
      <3>1. PICK e \in Calls : /\ Previews(e, t, p, s)
                              /\ guardedAt[e] <= now /\ now < guardedAt[e] + TTL
        BY <1>16, <2>2
      <3>2. /\ Previews(e, t, p, s)' /\ guardedAt'[e] = guardedAt[e]
        BY <3>1, <1>12, <1>14, <2>1 DEF Previews
      <3>3. \A f \in Calls : Passed(f)' /\ request[f].token = t => f = c
        BY <1>11, <1>16, <2>2
      <3>4. QED
        BY <2>1, <2>2, <3>1, <3>2, <3>3, <1>12, <1>16
    <2>3. CASE d # c
      <3>1. Passed(d) /\ guardedAt'[d] = guardedAt[d]
        BY <2>3, <1>11
      <3>2. /\ request[d].token \in Tokens
            /\ \A q \in Processes : grants[q][request[d].token] = NoGrant
            /\ \A e \in Calls : Passed(e) /\ request[d].token = request[e].token => d = e
        BY <3>1 DEF IInv, PassedPreviewed
      <3>3. PICK e \in Calls : /\ Previews(e, request[d].token, Process(d), Scope(Input(d)))
                              /\ guardedAt[e] <= guardedAt[d] /\ guardedAt[d] < guardedAt[e] + TTL
        BY <3>1 DEF IInv, PassedPreviewed
      <3>4. /\ Previews(e, request[d].token, Process(d), Scope(Input(d)))'
            /\ guardedAt'[e] = guardedAt[e]
        BY <3>3, <1>12, <1>14, <2>1 DEF Previews
      <3>5. \A f \in Calls : Passed(f)' /\ request[f].token = request[d].token => d = f
        BY <3>1, <3>2, <1>11, <1>16
      <3>6. \A q \in Processes : grants'[q][request[d].token] = NoGrant
        BY <3>2, <1>6
      <3>7. QED
        BY <2>1, <3>1, <3>2, <3>3, <3>4, <3>5, <3>6
    <2>4. QED
      BY <2>2, <2>3
  <1>18. QED
    BY <1>7, <1>8, <1>9, <1>10, <1>13, <1>15, <1>17 DEF IInv

\* What is known of tokens survives every step that reveals none, loses grants at
\* most, and lets no further call through.
LEMMA TokensUntouched ==
    ASSUME IInv, UNCHANGED <<deployment, request, reply, guardedAt>>,
           \A p \in Processes, t \in Tokens : grants'[p][t] \in {NoGrant, grants[p][t]},
           \A c \in Calls : outcome[c] = "dry_run" => outcome'[c] = "dry_run",
           \A c \in Calls : Passed(c)' => Passed(c)
    PROVE  Replies' /\ GrantsPreviewed' /\ PassedPreviewed'
  <1>1. \A d \in Calls : \A t, p, s : Previews(d, t, p, s) => Previews(d, t, p, s)'
    BY DEF Previews, Process, Scope, Input, Namespace
  <1>2. \A d \in Calls : Process(d)' = Process(d) /\ Scope(Input(d))' = Scope(Input(d))
    BY DEF Process, Scope, Input, Namespace
  <1>3. Replies'
    BY DEF IInv, Replies
  <1>4. GrantsPreviewed'
    <2> SUFFICES ASSUME NEW p \in Processes, NEW t \in Tokens, grants'[p][t] # NoGrant
                 PROVE  \E d \in Calls : /\ Previews(d, t, p, grants[p][t].scope)'
                                         /\ grants'[p][t].expiresAt = guardedAt'[d] + TTL
      BY DEF GrantsPreviewed
    <2>1. grants'[p][t] = grants[p][t]
      OBVIOUS
    <2>2. PICK d \in Calls : /\ Previews(d, t, p, grants[p][t].scope)
                            /\ grants[p][t].expiresAt = guardedAt[d] + TTL
      BY <2>1 DEF IInv, GrantsPreviewed
    <2>3. QED
      BY <2>1, <2>2, <1>1 DEF Previews
  <1>5. PassedPreviewed'
    <2> SUFFICES ASSUME NEW d \in Calls, Passed(d)'
                 PROVE  /\ request'[d].token \in Tokens
                        /\ \A q \in Processes : grants'[q][request'[d].token] = NoGrant
                        /\ \A e \in Calls : Passed(e)' /\ request'[d].token = request'[e].token => d = e
                        /\ \E e \in Calls :
                             /\ Previews(e, request[d].token, Process(d), Scope(Input(d)))'
                             /\ guardedAt'[e] <= guardedAt'[d] /\ guardedAt'[d] < guardedAt'[e] + TTL
      BY DEF PassedPreviewed
    <2>1. /\ request[d].token \in Tokens
          /\ \A q \in Processes : grants[q][request[d].token] = NoGrant
          /\ \A e \in Calls : Passed(e) /\ request[d].token = request[e].token => d = e
      BY DEF IInv, PassedPreviewed
    <2>2. PICK e \in Calls : /\ Previews(e, request[d].token, Process(d), Scope(Input(d)))
                            /\ guardedAt[e] <= guardedAt[d] /\ guardedAt[d] < guardedAt[e] + TTL
      BY DEF IInv, PassedPreviewed
    <2>3. Previews(e, request[d].token, Process(d), Scope(Input(d)))'
      BY <2>2, <1>1, <1>2 DEF Previews
    <2>4. QED
      BY <2>1, <2>2, <2>3
  <1>6. QED
    BY <1>3, <1>4, <1>5

\* The request is sent, once, by a call that has sent none.
LEMMA DispatchKeepsIInv ==
    ASSUME IInv, NEW c \in Calls, Dispatch(c)
    PROVE  IInv'
  <1>1. TypeOK /\ Progress
    BY DEF IInv
  <1>2. /\ pc[c] = "dispatch" /\ sent[c] = 0 /\ applied[c] = 0 /\ outcome[c] = "none"
    BY <1>1 DEF Dispatch, Progress, TypeOK
  <1>3. TypeOK'
    BY <1>1 DEF TypeOK, Dispatch
  <1>4. Progress'
    BY <1>1, <1>2 DEF TypeOK, Progress, Dispatch, Received
  <1>5. Admitted'
    BY <1>1, <1>2 DEF IInv, TypeOK, Admitted, Busy, Input, policy, Dispatch
  <1>6. HonestOutcome'
    BY <1>1, <1>2 DEF IInv, TypeOK, HonestOutcome, NoRequestOutcomes, Dispatch
  <1>7. \A d \in Calls : Passed(d)' => Passed(d)
    BY <1>1, <1>2 DEF TypeOK, Passed, Input, policy, Dispatch
  <1>8. Replies' /\ GrantsPreviewed' /\ PassedPreviewed'
    BY <1>7, TokensUntouched DEF Dispatch
  <1>9. QED
    BY <1>3, <1>4, <1>5, <1>6, <1>8 DEF IInv

\* Both ends of the exchange: only what Argo carried out is reported as done.
LEMMA EndKeepsIInv ==
    ASSUME IInv, NEW c \in Calls, Fail(c) \/ Succeed(c)
    PROVE  IInv'
  <1>1. TypeOK /\ Progress
    BY DEF IInv
  <1>2. /\ pc[c] \in {"dispatch", "waiting"} /\ outcome[c] = "none" /\ request[c] \in Received
        /\ pc' = [pc EXCEPT ![c] = "done"]
        /\ UNCHANGED <<deployment, now, grants, request, reply, guardedAt, sent, wire, applied>>
        /\ \/ outcome' = [outcome EXCEPT ![c] = "may_have_reached_argo"]
           \/ outcome' = [outcome EXCEPT ![c] = "ok"] /\ applied[c] > 0
    BY <1>1 DEF Fail, Succeed, Finish, argo, Progress
  <1>3. TypeOK'
    BY <1>1, <1>2 DEF TypeOK, Outcomes
  <1>4. Progress'
    BY <1>1, <1>2 DEF TypeOK, Progress, Received
  <1>5. Admitted'
    BY <1>1, <1>2 DEF IInv, TypeOK, Admitted, Busy, Input, policy
  <1>6. HonestOutcome'
    BY <1>1, <1>2 DEF IInv, TypeOK, Progress, HonestOutcome, NoRequestOutcomes
  <1>7. /\ \A d \in Calls : Passed(d)' => Passed(d)
        /\ \A d \in Calls : outcome[d] = "dry_run" => outcome'[d] = "dry_run"
    BY <1>1, <1>2 DEF TypeOK, Passed, Input, policy
  <1>8. Replies' /\ GrantsPreviewed' /\ PassedPreviewed'
    BY <1>2, <1>7, TokensUntouched
  <1>9. QED
    BY <1>3, <1>4, <1>5, <1>6, <1>8 DEF IInv

\* Argo gets a request off the wire once, or never.
LEMMA ArgoKeepsIInv ==
    ASSUME IInv, NEW c \in Calls, ArgoApply(c) \/ ArgoDrop(c)
    PROVE  IInv'
  <1>1. TypeOK /\ Progress
    BY DEF IInv
  <1>2. /\ c \in wire /\ wire' = wire \ {c} /\ sent[c] = 1 /\ applied[c] = 0
        /\ UNCHANGED <<deployment, now, grants, request, pc, outcome, reply, guardedAt, sent>>
        /\ applied' = [applied EXCEPT ![c] = 1] \/ applied' = applied
    BY <1>1 DEF ArgoApply, ArgoDrop, handler, Progress, TypeOK
  <1>3. TypeOK'
    BY <1>1, <1>2 DEF TypeOK
  <1>4. Progress'
    BY <1>1, <1>2 DEF TypeOK, Progress, Received
  <1>5. Admitted'
    BY <1>1, <1>2 DEF IInv, Admitted, Busy, Input, policy
  <1>6. HonestOutcome'
    BY <1>1, <1>2 DEF IInv, TypeOK, HonestOutcome
  <1>7. \A d \in Calls : Passed(d)' => Passed(d)
    BY <1>2 DEF Passed, Input, policy
  <1>8. Replies' /\ GrantsPreviewed' /\ PassedPreviewed'
    BY <1>2, <1>7, TokensUntouched
  <1>9. QED
    BY <1>3, <1>4, <1>5, <1>6, <1>8 DEF IInv

\* A restart ends the calls of a process and empties its map.
LEMMA RestartKeepsIInv ==
    ASSUME IInv, NEW p \in Processes, Restart(p)
    PROVE  IInv'
  <1> DEFINE cut == {c \in Calls : pc[c] \in {"guard", "dispatch", "waiting"} /\ Process(c) = p}
  <1>1. TypeOK /\ Progress
    BY DEF IInv
  <1>2. /\ grants' = [grants EXCEPT ![p] = Empty]
        /\ pc' = [c \in Calls |-> IF c \in cut THEN "done" ELSE pc[c]]
        /\ outcome' = [c \in Calls |-> IF c \in cut THEN "disconnected" ELSE outcome[c]]
        /\ UNCHANGED <<deployment, now, request, reply, guardedAt, sent, wire, applied>>
    BY DEF Restart, argo
  <1>3. \A c \in cut : /\ pc[c] \in {"guard", "dispatch", "waiting"} /\ outcome[c] = "none"
                       /\ pc'[c] = "done" /\ outcome'[c] = "disconnected"
    BY <1>1, <1>2 DEF Progress
  <1>4. \A c \in Calls : c \notin cut => pc'[c] = pc[c] /\ outcome'[c] = outcome[c]
    BY <1>2
  <1>5. TypeOK'
    <2>1. Empty \in Maps
      BY DEF Empty, Maps
    <2>2. pc' \in [Calls -> {"idle", "guard", "dispatch", "waiting", "done"}]
      BY <1>1, <1>2 DEF TypeOK
    <2>3. outcome' \in [Calls -> Outcomes]
      BY <1>1, <1>2 DEF TypeOK, Outcomes
    <2>4. QED
      BY <1>1, <1>2, <2>1, <2>2, <2>3 DEF TypeOK
  <1> HIDE DEF cut
  <1>6. Progress'
    <2> SUFFICES ASSUME NEW c \in Calls
                 PROVE  /\ pc'[c] # "idle" => request'[c] \in Received'
                        /\ (outcome'[c] = "none") <=> (pc'[c] # "done")
                        /\ pc'[c] \in {"idle", "guard", "dispatch"} => sent'[c] = 0
                        /\ c \in wire' => sent'[c] = 1 /\ applied'[c] = 0
                        /\ applied'[c] <= sent'[c] /\ sent'[c] <= 1
                        /\ guardedAt'[c] <= now'
      BY DEF Progress
    <2>1. Received' = Received
      BY <1>2 DEF Received
    <2>2. CASE c \in cut
      BY <2>1, <2>2, <1>1, <1>2, <1>3 DEF Progress
    <2>3. CASE c \notin cut
      BY <2>1, <2>3, <1>1, <1>2, <1>4 DEF Progress
    <2>4. QED
      BY <2>2, <2>3
  <1>7. Admitted'
    BY <1>2, <1>3, <1>4 DEF IInv, Admitted, Busy, Input, policy
  <1>8. HonestOutcome'
    BY <1>2, <1>3, <1>4 DEF IInv, HonestOutcome, NoRequestOutcomes
  <1>9. /\ \A c \in Calls : Passed(c)' => Passed(c)
        /\ \A c \in Calls : outcome[c] = "dry_run" => outcome'[c] = "dry_run"
        /\ \A q \in Processes, t \in Tokens : grants'[q][t] \in {NoGrant, grants[q][t]}
    <2>1. \A c \in Calls : Passed(c)' => Passed(c)
      BY <1>2, <1>3, <1>4 DEF Passed, Input, policy
    <2>2. \A c \in Calls : outcome[c] = "dry_run" => outcome'[c] = "dry_run"
      BY <1>3, <1>4
    <2>3. \A q \in Processes, t \in Tokens : grants'[q][t] \in {NoGrant, grants[q][t]}
      BY <1>1, <1>2 DEF TypeOK, Empty
    <2>4. QED
      BY <2>1, <2>2, <2>3
  <1>10. Replies' /\ GrantsPreviewed' /\ PassedPreviewed'
    BY <1>2, <1>9, TokensUntouched
  <1>11. QED
    BY <1>5, <1>6, <1>7, <1>8, <1>10 DEF IInv

\* Time, and steps of nobody, change nothing that the invariant is about.
LEMMA TickKeepsIInv ==
    ASSUME IInv, Tick \/ UNCHANGED vars
    PROVE  IInv'
  <1>1. TypeOK /\ Progress
    BY DEF IInv
  <1>2. /\ now' \in Nat /\ now <= now'
        /\ UNCHANGED <<deployment, grants, request, pc, outcome, reply, guardedAt, sent, wire, applied>>
    BY <1>1 DEF Tick, vars, handler, argo, TypeOK
  <1>3. TypeOK'
    BY <1>1, <1>2 DEF TypeOK
  <1>4. Progress'
    BY <1>1, <1>2 DEF TypeOK, Progress, Received
  <1>5. Admitted' /\ HonestOutcome'
    BY <1>2 DEF IInv, Admitted, HonestOutcome, Busy, Input, policy
  <1>6. \A c \in Calls : Passed(c)' => Passed(c)
    BY <1>2 DEF Passed, Input, policy
  <1>7. Replies' /\ GrantsPreviewed' /\ PassedPreviewed'
    BY <1>2, <1>6, TokensUntouched
  <1>8. QED
    BY <1>3, <1>4, <1>5, <1>7 DEF IInv

\* Every step of every call, of the network, of Argo and of the clock, and every
\* restart keeps the invariant.
LEMMA NextKeepsIInv == IInv /\ [Next]_vars => IInv'
  <1> SUFFICES ASSUME IInv, [Next]_vars
               PROVE  IInv'
    OBVIOUS
  <1>1. ASSUME NEW c \in Calls, NEW r \in deployment.requests, NEW t \in Tokens \cup {NoToken},
               NEW p \in Processes, Receive(c, r, t, p)
        PROVE  IInv'
    BY <1>1, ReceiveKeepsIInv
  <1>2. ASSUME NEW c \in Calls, NEW t \in Tokens, Preview(c, t)
        PROVE  IInv'
    BY <1>2, PreviewKeepsIInv
  <1>3. ASSUME NEW c \in Calls, Confirm(c)
        PROVE  IInv'
    BY <1>3, ConfirmKeepsIInv
  <1>4. ASSUME NEW c \in Calls, Dispatch(c) \/ Fail(c) \/ Succeed(c)
        PROVE  IInv'
    BY <1>4, DispatchKeepsIInv, EndKeepsIInv
  <1>5. ASSUME NEW c \in Calls, ArgoApply(c) \/ ArgoDrop(c)
        PROVE  IInv'
    BY <1>5, ArgoKeepsIInv
  <1>6. ASSUME NEW p \in Processes, Restart(p)
        PROVE  IInv'
    BY <1>6, RestartKeepsIInv
  <1>7. CASE Tick \/ UNCHANGED vars
    BY <1>7, TickKeepsIInv
  <1>8. QED
    BY <1>1, <1>2, <1>3, <1>4, <1>5, <1>6, <1>7 DEF Next

\* The inductive invariant holds in every state.
THEOREM SpecIInv == Spec => []IInv
  BY InitIInv, NextKeepsIInv, PTL DEF Spec
-------------------------------------------------------------------------------
\* Every variable of the mutating tools keeps its type.
THEOREM MutationsTypeCorrect == Spec => []TypeOK
  <1>1. IInv => TypeOK
    BY DEF IInv
  <1>2. QED
    BY <1>1, SpecIInv, PTL

\* No call sends or lands two requests, and no two calls send on one token, however
\* calls, restarts and the network interleave.
THEOREM OneRequestForEachGrant == Spec => []OneRequestPerGrant
  <1>1. IInv => OneRequestPerGrant
    <2>1. ASSUME NEW c \in Confirmed PROVE c \in Calls /\ Passed(c)
      BY DEF Confirmed, Passed
    <2>2. QED
      BY <2>1 DEF IInv, Progress, PassedPreviewed, OneRequestPerGrant, Confirmed
  <1>2. QED
    BY <1>1, SpecIInv, PTL

\* Every destructive request has its own matching and recent preview, answered by
\* the process that sent it.
THEOREM PreviewComesFirst == Spec => []PreviewedFirst
  <1>1. IInv => PreviewedFirst
    <2> SUFFICES ASSUME IInv, NEW c \in Confirmed
                 PROVE  \E d \in Calls :
                          /\ outcome[d] = "dry_run" /\ reply[d] = request[c].token
                          /\ Process(d) = Process(c) /\ Scope(Input(d)) = Scope(Input(c))
                          /\ guardedAt[d] <= guardedAt[c] /\ guardedAt[c] < guardedAt[d] + TTL
      BY DEF PreviewedFirst, Scope
    <2>1. c \in Calls /\ Passed(c)
      BY DEF Confirmed, Passed
    <2>2. QED
      BY <2>1 DEF IInv, PassedPreviewed, Previews
  <1>2. QED
    BY <1>1, SpecIInv, PTL

\* What callers are told about Argo is true and stays true.
THEOREM OutcomesAreHonest == Spec => []HonestOutcome
  <1>1. IInv => HonestOutcome
    BY DEF IInv
  <1>2. QED
    BY <1>1, SpecIInv, PTL

\* Nothing outside the policy reaches the network.
THEOREM SendsInsidePolicy == Spec => []InsidePolicy
  <1>1. IInv => InsidePolicy
    <2> SUFFICES ASSUME IInv, NEW c \in Calls, sent[c] > 0
                 PROVE  /\ Namespace(Input(c)) \notin policy.denied /\ Star \notin policy.denied
                        /\ policy.allowed = {} \/ {Star, Namespace(Input(c))} \cap policy.allowed # {}
                        /\ policy.mutations /\ policy.argo
                        /\ Input(c).tool \in Destructive => policy.destructive
      BY DEF InsidePolicy
    <2>1. pc[c] # "idle" /\ request[c] \in Received
      BY DEF IInv, Progress, TypeOK
    <2>2. Input(c) \in Request /\ policy \in Policy
      BY <2>1, DeploymentTyped DEF IInv, TypeOK, Received, Input
    <2>3. MutationRefusal(Input(c), policy) = "none"
      BY DEF IInv, Admitted
    <2>4. QED
      BY <2>2, <2>3, RefusalMeans DEF Authorized, InList
  <1>2. QED
    BY <1>1, SpecIInv, PTL
===============================================================================
