-------------------------- MODULE Confirmation_proofs --------------------------
(***************************************************************************)
(* Proofs about the confirmation manager, for every set of tokens and      *)
(* scopes, every lifetime and every clock bound.                           *)
(***************************************************************************)
EXTENDS Confirmation, TLAPS

-------------------------------------------------------------------------------
(* What pruning, issuing and consuming do to a grant map. *)

\* Pruning keeps exactly the unexpired entries of a map.
LEMMA PruneKeepsLive ==
    ASSUME NEW map \in Maps, NEW time \in Nat
    PROVE  /\ PruneExpired(map, time) \in Maps
           /\ \A t \in Tokens :
                PruneExpired(map, time)[t] =
                    IF Expired(map[t], time) THEN NoGrant ELSE map[t]
  BY DEF PruneExpired, Maps

\* Issuing gives the drawn token a full lifetime and touches no other entry
\* but to prune it.
LEMMA IssueAddsOne ==
    ASSUME NEW map \in Maps, NEW time \in Nat, NEW t \in Tokens, NEW s \in Scopes
    PROVE  /\ IssueInto(map, t, s, time) \in Maps
           /\ IssueInto(map, t, s, time)[t] = [scope |-> s, expiresAt |-> time + TTL]
           /\ \A u \in Tokens \ {t} :
                IssueInto(map, t, s, time)[u] = PruneExpired(map, time)[u]
  <1>1. [scope |-> s, expiresAt |-> time + TTL] \in Grant
    BY GrantStoreAssumption DEF Grant
  <1>2. PruneExpired(map, time) \in Maps
    BY PruneKeepsLive
  <1>3. QED
    BY <1>1, <1>2 DEF IssueInto, Maps

\* Consuming removes the accepted token, and otherwise only what has expired.
LEMMA ConsumeRemovesOne ==
    ASSUME NEW map \in Maps, NEW time \in Nat, NEW t, NEW s
    PROVE  /\ ConsumeFrom(map, t, s, time) \in Maps
           /\ Consumable(map, t, s, time) => /\ t \in Tokens
                                             /\ map[t] # NoGrant
                                             /\ map[t].scope = s
                                             /\ ~Expired(map[t], time)
                                             /\ ConsumeFrom(map, t, s, time)[t] = NoGrant
           /\ \A u \in Tokens : ConsumeFrom(map, t, s, time)[u] \in {NoGrant, map[u]}
           /\ \A u \in Tokens :
                u # t \/ ~Consumable(map, t, s, time) =>
                    \/ ConsumeFrom(map, t, s, time)[u] = map[u]
                    \/ Expired(map[u], time)
  <1>1. /\ PruneExpired(map, time) \in Maps
        /\ \A u \in Tokens :
             PruneExpired(map, time)[u] =
                 IF Expired(map[u], time) THEN NoGrant ELSE map[u]
    BY PruneKeepsLive
  <1>2. CASE t \notin Tokens
    BY <1>2 DEF ConsumeFrom, Consumable
  <1>3. CASE t \in Tokens
    BY <1>1, <1>3 DEF ConsumeFrom, Consumable, Maps
  <1>4. QED
    BY <1>2, <1>3
-------------------------------------------------------------------------------
\* A new manager has no grants, so nothing in its map or history is unsound.
LEMMA InitIInv == Init => IInv
  BY GrantStoreAssumption, ConfirmationAssumption
     DEF Init, IInv, TypeOK, Safety, UsedOnce, AcceptedAsIssued, MapSound, Empty, Maps, Presented, UseRecord

\* Issue keeps the invariant: the token it draws is new, so it is neither in
\* the history of uses nor in anybody's hands.
LEMMA IssueKeepsIInv ==
    ASSUME IInv, NEW t \in Tokens, NEW s \in Scopes, Issue(t, s)
    PROVE  IInv'
  <1> DEFINE g == [scope |-> s, expiresAt |-> now + TTL]
  <1> USE DEF IInv, TypeOK
  <1>1. /\ grants' \in Maps
        /\ grants'[t] = g
        /\ \A u \in Tokens \ {t} : grants'[u] \in {NoGrant, grants[u]}
    BY IssueAddsOne, PruneKeepsLive DEF Issue
  <1>2. /\ g \in Grant
        /\ issued' = [issued EXCEPT ![t] = g]
        /\ issued' \in Maps
    BY GrantStoreAssumption DEF Issue, Grant, Maps
  <1>3. TypeOK'
    BY <1>1, <1>2 DEF Issue
  <1>4. \A i \in DOMAIN used : used[i].token \in Tokens /\ used[i].token # t
    <2>1. \A i \in DOMAIN used : used[i] \in UseRecord
      OBVIOUS
    <2>2. \A i \in DOMAIN used : issued[used[i].token] # NoGrant
      BY DEF Safety, AcceptedAsIssued
    <2>3. QED
      BY <2>1, <2>2 DEF Issue, UseRecord
  <1>5. Safety'
    BY <1>2, <1>4 DEF Safety, UsedOnce, AcceptedAsIssued, Issue, Maps
  <1>6. MapSound'
    BY <1>1, <1>2, <1>4 DEF MapSound, Issue, Maps
  <1>7. QED
    BY <1>3, <1>5, <1>6

\* Consume keeps the invariant: what it accepts was in the map, so it was never
\* used before, and it leaves the map with the same step.
LEMMA ConsumeKeepsIInv ==
    ASSUME IInv, NEW t \in Presented, NEW s \in Scopes, Consume(t, s)
    PROVE  IInv'
  <1> USE DEF IInv, TypeOK
  <1> DEFINE ok  == Consumable(grants, t, s, now)
             use == [token |-> t, scope |-> s, at |-> now]
  <1>1. /\ grants' \in Maps
        /\ \A u \in Tokens : grants'[u] \in {NoGrant, grants[u]}
        /\ ok => /\ t \in Tokens
                 /\ grants[t] # NoGrant
                 /\ grants[t].scope = s
                 /\ ~Expired(grants[t], now)
                 /\ grants'[t] = NoGrant
    <2>1. now \in Nat /\ grants \in Maps
      OBVIOUS
    <2>2. grants' = ConsumeFrom(grants, t, s, now)
      BY DEF Consume
    <2> HIDE DEF IInv, TypeOK
    <2>3. QED
      BY <2>1, <2>2, ConsumeRemovesOne
  <1>2. ok \in BOOLEAN
    BY DEF Consumable
  <1>3. answer' \in [token : Presented, ok : BOOLEAN]
    BY <1>2 DEF Consume
  <1>4. CASE ~ok
    <2>1. used' = used /\ now' = now /\ issued' = issued
      BY <1>4 DEF Consume
    <2>2. QED
      BY <1>1, <1>3, <2>1 DEF Safety, UsedOnce, AcceptedAsIssued, MapSound
  <1>5. CASE ok
    <2>1. /\ use \in UseRecord
          /\ used' = Append(used, use)
          /\ now' = now /\ issued' = issued
      BY <1>1, <1>5 DEF Consume, UseRecord
    <2>2. /\ used' \in Seq(UseRecord)
          /\ DOMAIN used' = DOMAIN used \cup {Len(used) + 1}
          /\ \A i \in DOMAIN used : used'[i] = used[i]
          /\ used'[Len(used) + 1] = use
          /\ Len(used) + 1 \notin DOMAIN used
      BY <2>1
    <2>3. \A i \in DOMAIN used : used[i].token # t
      BY <1>1, <1>5 DEF MapSound
    <2>4. /\ issued[t] # NoGrant /\ issued[t].scope = s
          /\ now < issued[t].expiresAt
      <3>1. issued[t] = grants[t] /\ grants[t] \in Grant
        BY <1>1, <1>5 DEF MapSound, Maps
      <3>2. QED
        BY <1>1, <1>5, <3>1 DEF Expired, Grant
    <2>5. TypeOK'
      BY <1>1, <1>3, <2>1, <2>2
    <2>6. UsedOnce'
      BY <2>2, <2>3 DEF Safety, UsedOnce
    <2>7. AcceptedAsIssued'
      BY <2>1, <2>2, <2>4 DEF Safety, AcceptedAsIssued
    <2>8. MapSound'
      BY <1>1, <1>5, <2>1, <2>2 DEF MapSound
    <2>9. QED
      BY <2>5, <2>6, <2>7, <2>8 DEF Safety
  <1>6. QED
    BY <1>4, <1>5

\* Every step of the manager, its clock and its restarts keeps the invariant.
LEMMA NextKeepsIInv == IInv /\ [Next]_vars => IInv'
  <1> SUFFICES ASSUME IInv, [Next]_vars
               PROVE  IInv'
    OBVIOUS
  <1>1. ASSUME NEW t \in Tokens, NEW s \in Scopes, Issue(t, s)
        PROVE  IInv'
    BY <1>1, IssueKeepsIInv
  <1>2. ASSUME NEW t \in Presented, NEW s \in Scopes, Consume(t, s)
        PROVE  IInv'
    BY <1>2, ConsumeKeepsIInv
  <1>3. CASE Tick
    BY <1>3 DEF Tick, IInv, TypeOK, Safety, UsedOnce, AcceptedAsIssued, MapSound
  <1>4. CASE Restart
    BY <1>4 DEF Restart, Empty, Maps, IInv, TypeOK, Safety, UsedOnce, AcceptedAsIssued, MapSound
  <1>5. CASE UNCHANGED vars
    BY <1>5 DEF vars, IInv, TypeOK, Safety, UsedOnce, AcceptedAsIssued, MapSound
  <1>6. QED
    BY <1>1, <1>2, <1>3, <1>4, <1>5 DEF Next

\* The inductive invariant holds in every state: the map holds no used token,
\* and each of its entries is the grant its token was issued with.
THEOREM SpecIInv == Spec => []IInv
  BY InitIInv, NextKeepsIInv, PTL DEF Spec

\* Type correctness of the manager.
THEOREM TypeCorrect == Spec => []TypeOK
  <1>1. IInv => TypeOK
    BY DEF IInv
  <1>2. QED
    BY <1>1, SpecIInv, PTL

\* However calls interleave, no token is ever accepted twice.
THEOREM TokensAreOneTime == Spec => []UsedOnce
  <1>1. IInv => UsedOnce
    BY DEF IInv, Safety
  <1>2. QED
    BY <1>1, SpecIInv, PTL

\* A token is accepted only for the scope it was issued for and strictly
\* before it expires.
THEOREM TokensAreScopedAndTimely == Spec => []UsedAsIssued
  <1>1. IInv => UsedAsIssued
    BY DEF IInv, Safety, UsedAsIssued
  <1>2. QED
    BY <1>1, SpecIInv, PTL
-------------------------------------------------------------------------------
\* Which abstract step each action is: Issue gives, and lets nothing lapse that
\* was still alive.
LEMMA IssueGives ==
    ASSUME IInv, NEW t \in Tokens, NEW s \in Scopes, Issue(t, s)
    PROVE  Promise!Give(t, s)
  <1> USE DEF IInv, TypeOK
  <1> DEFINE given == {u \in Tokens : issued[u] # NoGrant}
             g     == [scope |-> s, expiresAt |-> now + TTL]
  <1>1. g \in Grant /\ g # NoGrant /\ ~Expired(g, now)
    BY GrantStoreAssumption DEF Grant, Expired
  <1>2. t \notin given /\ given' = given \cup {t}
    BY <1>1 DEF Issue, Maps
  <1>3. /\ grants' \in Maps
        /\ grants'[t] = g
        /\ \A u \in Tokens \ {t} :
             grants'[u] = IF Expired(grants[u], now) THEN NoGrant ELSE grants[u]
    BY IssueAddsOne, PruneKeepsLive DEF Issue
  <1>4. \A u \in Tokens : LiveGrants'[u] = [LiveGrants EXCEPT ![t] = g][u]
    BY <1>1, <1>3 DEF LiveGrants, Issue, Expired
  <1>5. LiveGrants' = [LiveGrants EXCEPT ![t] = g]
    BY <1>4 DEF LiveGrants
  <1>6. QED
    BY <1>2, <1>5 DEF Promise!Give, Issue

\* Consume is Accept when the token is a living grant of the scope presented,
\* and otherwise Refuse: pruning and removing expired entries is not seen.
LEMMA ConsumeAnswers ==
    ASSUME IInv, NEW t \in Presented, NEW s \in Scopes, Consume(t, s)
    PROVE  Promise!Accept(t, s) \/ Promise!Refuse(t, s)
  <1> USE DEF IInv, TypeOK
  <1> DEFINE ok == Consumable(grants, t, s, now)
  <1>1. \A u \in Tokens :
          PruneExpired(grants, now)[u] =
              IF Expired(grants[u], now) THEN NoGrant ELSE grants[u]
    BY PruneKeepsLive
  <1>2. /\ grants' \in Maps
        /\ \A u \in Tokens : grants'[u] \in {NoGrant, grants[u]}
        /\ \A u \in Tokens : u # t \/ ~ok => grants'[u] = grants[u] \/ Expired(grants[u], now)
        /\ ok => grants'[t] = NoGrant
    <2>1. now \in Nat /\ grants \in Maps
      OBVIOUS
    <2>2. grants' = ConsumeFrom(grants, t, s, now)
      BY DEF Consume
    <2> HIDE DEF IInv, TypeOK
    <2>3. QED
      BY <2>1, <2>2, ConsumeRemovesOne
  <1>3. CASE ok
    <2>1. /\ t \in Tokens
          /\ LiveGrants[t] # NoGrant
          /\ LiveGrants[t].scope = s
      BY <1>1, <1>3 DEF Consumable, LiveGrants
    <2>2. \A u \in Tokens : LiveGrants'[u] = [LiveGrants EXCEPT ![t] = NoGrant][u]
      BY <1>2, <1>3 DEF LiveGrants, Consume, Expired
    <2>3. LiveGrants' = [LiveGrants EXCEPT ![t] = NoGrant]
      BY <2>2 DEF LiveGrants
    <2>4. QED
      BY <1>3, <2>1, <2>3 DEF Promise!Accept, Consume
  <1>4. CASE ~ok
    <2>1. t \in Tokens /\ LiveGrants[t] # NoGrant => LiveGrants[t].scope # s
      BY <1>1, <1>4 DEF Consumable, LiveGrants
    <2>2. \A u \in Tokens : LiveGrants'[u] = LiveGrants[u]
      BY <1>2, <1>4 DEF LiveGrants, Consume, Expired
    <2>3. LiveGrants' = LiveGrants
      BY <2>2 DEF LiveGrants
    <2>4. ok = FALSE
      BY <1>4 DEF Consumable
    <2>5. QED
      BY <2>1, <2>3, <2>4 DEF Promise!Refuse, Consume
  <1>5. QED
    BY <1>3, <1>4

\* The clock lets exactly those grants lapse that reach their expiry, though the
\* manager's map still holds them.
LEMMA TickElapses == ASSUME IInv, Tick PROVE Promise!Elapse
  <1> USE DEF IInv, TypeOK
  <1> DEFINE elapsed == [t \in Tokens |->
                           IF LiveGrants[t] # NoGrant /\ LiveGrants[t].expiresAt <= now + 1
                           THEN NoGrant ELSE LiveGrants[t]]
  <1>1. \A t \in Tokens : LiveGrants'[t] = elapsed[t]
    <2> TAKE t \in Tokens
    <2>1. grants[t] = NoGrant \/ grants[t].expiresAt \in Nat
      BY DEF Maps, Grant
    <2>2. QED
      BY <2>1 DEF LiveGrants, Tick, Expired
  <1>2. LiveGrants' = elapsed
    BY <1>1 DEF LiveGrants
  <1>3. QED
    BY <1>2 DEF Promise!Elapse, Tick

\* A restart of the process is the abstract loss of every grant.
LEMMA RestartForgets == ASSUME Restart PROVE Promise!Forget
  BY DEF Restart, Promise!Forget, LiveGrants, Empty, Expired

\* The manager implements the abstract one-time grant: lazy pruning, the lock
\* and the map are invisible to whoever presents a token.
THEOREM ManagerImplementsOneTimeGrant == Spec => ImplementsOneTimeGrant
  <1>1. Init => Promise!GInit
    BY DEF Init, Promise!GInit, LiveGrants, Empty, Expired
  <1>2. IInv /\ [Next]_vars => [Promise!GNext]_(Promise!gvars)
    <2> SUFFICES ASSUME IInv, [Next]_vars
                 PROVE  [Promise!GNext]_(Promise!gvars)
      OBVIOUS
    <2>1. ASSUME NEW t \in Tokens, NEW s \in Scopes, Issue(t, s)
          PROVE  Promise!GNext
      BY <2>1, IssueGives DEF Promise!GNext
    <2>2. ASSUME NEW t \in Presented, NEW s \in Scopes, Consume(t, s)
          PROVE  Promise!GNext
      BY <2>2, ConsumeAnswers DEF Promise!GNext, Presented
    <2>3. (Tick => Promise!Elapse) /\ (Restart => Promise!Forget)
      BY TickElapses, RestartForgets
    <2>4. UNCHANGED vars => UNCHANGED Promise!gvars
      BY DEF vars, Promise!gvars, LiveGrants, Expired
    <2>5. QED
      BY <2>1, <2>2, <2>3, <2>4 DEF Next, Promise!GNext
  <1>3. QED
    BY <1>1, <1>2, SpecIInv, PTL DEF Spec, ImplementsOneTimeGrant, Promise!GSpec
-------------------------------------------------------------------------------
\* A grant that is still good leaves the map only by its own accepted use or with
\* the process: no other presentation and no pruning burns it.
THEOREM LiveGrantsAreKept == Spec => LiveGrantKept
  <1> DEFINE Kept(t) == ~Expired(grants[t], now') =>
                           \/ grants'[t] = grants[t]
                           \/ used' # used /\ used'[Len(used')].token = t
                           \/ grants' = Empty
  <1>1. ASSUME IInv, [Next]_vars, NEW t \in Tokens
        PROVE  Kept(t)
    <2> USE <1>1 DEF IInv, TypeOK
    <2>1. ASSUME NEW u \in Tokens, NEW s \in Scopes, Issue(u, s)
          PROVE  Kept(t)
      <3>1. CASE t = u
        <4>1. grants[t] = NoGrant
          BY <2>1, <3>1 DEF Issue, MapSound
        <4>2. QED
          BY <4>1 DEF Expired
      <3>2. CASE t # u
        <4>1. now \in Nat /\ grants \in Maps
          OBVIOUS
        <4>2. now' = now /\ grants' = IssueInto(grants, u, s, now)
          BY <2>1 DEF Issue
        <4> HIDE DEF IInv, TypeOK
        <4>3. \A v \in Tokens \ {u} :
                 IssueInto(grants, u, s, now)[v] = PruneExpired(grants, now)[v]
          BY <4>1, IssueAddsOne
        <4>4. QED
          BY <3>2, <4>1, <4>2, <4>3, PruneKeepsLive
      <3>3. QED
        BY <3>1, <3>2
    <2>2. ASSUME NEW u \in Presented, NEW s \in Scopes, Consume(u, s)
          PROVE  Kept(t)
      <3> DEFINE ok  == Consumable(grants, u, s, now)
                 use == [token |-> u, scope |-> s, at |-> now]
      <3>1. /\ now' = now
            /\ used' = IF ok THEN Append(used, use) ELSE used
            /\ grants' = ConsumeFrom(grants, u, s, now)
        BY <2>2 DEF Consume
      <3>2. u # t \/ ~ok => grants'[t] = grants[t] \/ Expired(grants[t], now)
        <4>1. now \in Nat /\ grants \in Maps
          OBVIOUS
        <4> HIDE DEF IInv, TypeOK
        <4>2. QED
          BY <3>1, <4>1, ConsumeRemovesOne
      <3>3. ASSUME u = t, ok
            PROVE  used' # used /\ used'[Len(used')].token = t
        <4>1. used' = Append(used, use) /\ Len(used) \in Nat
          BY <3>1, <3>3
        <4>2. Len(used') = Len(used) + 1 /\ used'[Len(used) + 1] = use
          BY <4>1
        <4>3. QED
          BY <4>1, <4>2, <3>3
      <3>4. QED
        BY <3>1, <3>2, <3>3
    <2>3. Tick \/ Restart \/ UNCHANGED vars => grants' \in {grants, Empty}
      BY DEF Tick, Restart, vars
    <2>4. QED
      BY <1>1, <2>1, <2>2, <2>3 DEF Next
  <1>2. IInv /\ [Next]_vars => [\A t \in Tokens : Kept(t)]_vars
    BY <1>1
  <1>3. QED
    BY <1>2, SpecIInv, PTL DEF Spec, LiveGrantKept
===============================================================================
