------------------------------ MODULE GrantStore ------------------------------
(***************************************************************************)
(* The grant map of internal/confirmation as a value, and what the manager *)
(* does to it.  Confirmation makes these operators the actions of one      *)
(* manager; GuardedMutation gives one map to each server process.          *)
(*                                                                         *)
(* A grant is bound to a scope (action string, namespace and workflow      *)
(* name) and expires TTL after it was issued.  Expiry is lazy: time alone  *)
(* removes nothing, the next Issue or Consume prunes.                      *)
(***************************************************************************)
EXTENDS Integers

CONSTANTS
    Tokens,   \* the tokens that can be drawn: 32 random bytes, never twice
    Scopes,   \* the (action, namespace, name) triples a grant can be bound to
    NoGrant,  \* a token with no entry in the map
    TTL       \* the lifetime of a grant

Grant == [scope : Scopes, expiresAt : Nat]

ASSUME GrantStoreAssumption ==
    /\ TTL \in Nat \ {0}
    /\ NoGrant \notin Grant

Maps == [Tokens -> Grant \cup {NoGrant}]
Empty == [t \in Tokens |-> NoGrant]

\* Mutant: an entry is still good at its expiry instant.
ExpiredLate(g, now) == g = NoGrant \/ now > g.expiresAt

\* An entry is expired from the instant expiresAt on (!now.Before(expiresAt)).
Expired(g, now) == g = NoGrant \/ now >= g.expiresAt

\* Mutant: pruning also removes what the next instant expires.
PruneEarly(map, now) ==
    [t \in Tokens |-> IF Expired(map[t], now + 1) THEN NoGrant ELSE map[t]]

PruneExpired(map, now) ==
    [t \in Tokens |-> IF Expired(map[t], now) THEN NoGrant ELSE map[t]]

\* Mutant: the expiry lies before the issue.
IssueExpired(map, t, s, now) ==
    [PruneExpired(map, now) EXCEPT ![t] = [scope |-> s, expiresAt |-> now - TTL]]

\* Issue prunes, then stores the new entry.
IssueInto(map, t, s, now) ==
    [PruneExpired(map, now) EXCEPT ![t] = [scope |-> s, expiresAt |-> now + TTL]]

\* Consume prunes, then looks the token up and compares the scope ...
Consumable(map, t, s, now) ==
    /\ t \in Tokens
    /\ PruneExpired(map, now)[t] # NoGrant
    /\ PruneExpired(map, now)[t].scope = s

\* Mutant: an accepted token stays in the map.
ConsumeKeeps(map, t, s, now) == IF t \notin Tokens THEN map ELSE PruneExpired(map, now)

\* Mutant: a presentation deletes the entry before its scope is compared.
ConsumeBurns(map, t, s, now) ==
    IF t \notin Tokens THEN map ELSE [PruneExpired(map, now) EXCEPT ![t] = NoGrant]

\* ... and deletes the entry only when both agree: a presentation with the
\* wrong scope leaves the grant for the right one.  The empty token (no member
\* of Tokens) is rejected before the map is read, and prunes nothing.
ConsumeFrom(map, t, s, now) ==
    IF t \notin Tokens
    THEN map
    ELSE LET pruned == PruneExpired(map, now)
         IN IF Consumable(map, t, s, now)
            THEN [pruned EXCEPT ![t] = NoGrant]
            ELSE pruned
===============================================================================
