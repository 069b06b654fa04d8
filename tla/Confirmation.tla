----------------------------- MODULE Confirmation -----------------------------
(***************************************************************************)
(* The confirmation manager of internal/confirmation: the process-local    *)
(* store of one-use grants that connects the preview of a destructive tool *)
(* to its execution.                                                       *)
(*                                                                         *)
(* Issue and Consume each hold the mutex from their first to their last    *)
(* access of the map, so each is one action, whatever the number of calls  *)
(* that reach the manager at once.  A presented token is any token (drawn  *)
(* or not, spent or not) or the empty string.                              *)
(***************************************************************************)
EXTENDS GrantStore, Sequences

CONSTANTS
    NoToken,  \* the empty string
    MaxTime   \* bound on the clock

ASSUME ConfirmationAssumption ==
    /\ NoToken \notin Tokens
    /\ MaxTime \in Nat

VARIABLES
    now,      \* the clock the manager reads
    grants,   \* the map from token to grant
    answer,   \* the last presentation and what Consume returned for it
    issued,   \* history: the grant each drawn token was given
    used      \* history: the accepted presentations, in order

vars == <<now, grants, answer, issued, used>>

Presented == Tokens \cup {NoToken}
-------------------------------------------------------------------------------
Init ==
    /\ now = 0
    /\ grants = Empty
    /\ answer = [token |-> NoToken, ok |-> FALSE]
    /\ issued = Empty
    /\ used = << >>

\* A token is drawn at random, so it is one that was never drawn before.
Issue(t, s) ==
    /\ issued[t] = NoGrant
    /\ grants' = IssueInto(grants, t, s, now)
    /\ issued' = [issued EXCEPT ![t] = [scope |-> s, expiresAt |-> now + TTL]]
    /\ UNCHANGED <<now, answer, used>>

Consume(t, s) ==
    LET ok == Consumable(grants, t, s, now)
    IN /\ grants' = ConsumeFrom(grants, t, s, now)
       /\ answer' = [token |-> t, ok |-> ok]
       /\ used' = IF ok THEN Append(used, [token |-> t, scope |-> s, at |-> now])
                  ELSE used
       /\ UNCHANGED <<now, issued>>

Tick ==
    /\ now < MaxTime
    /\ now' = now + 1
    /\ UNCHANGED <<grants, answer, issued, used>>

\* The map lives in the process: a restart makes a new, empty one.
Restart ==
    /\ grants' = Empty
    /\ UNCHANGED <<now, answer, issued, used>>

Next ==
    \/ \E t \in Tokens, s \in Scopes : Issue(t, s)
    \/ \E t \in Presented, s \in Scopes : Consume(t, s)
    \/ Tick
    \/ Restart

Spec == Init /\ [][Next]_vars
-------------------------------------------------------------------------------
UseRecord == [token : Tokens, scope : Scopes, at : Nat]

\* The type of every variable.
TypeOK ==
    /\ now \in Nat
    /\ grants \in Maps
    /\ answer \in [token : Presented, ok : BOOLEAN]
    /\ issued \in Maps
    /\ used \in Seq(UseRecord)

\* No token is accepted twice, however often, by whomever and with whatever
\* scopes it is presented, across expiry and restarts (Consume deletes the
\* entry it accepts under the same lock).
UsedOnce ==
    \A i, j \in DOMAIN used : used[i].token = used[j].token => i = j

\* How each token was accepted, beside how it was issued.
AcceptedAsIssued ==
    \A i \in DOMAIN used :
        LET g == issued[used[i].token]
        IN g # NoGrant /\ used[i].scope = g.scope /\ used[i].at < g.expiresAt

\* The variables keep their types.  Every accepted presentation names the scope the
\* token was issued for and happens strictly before the token's expiry, the boundary
\* instant excluded.
UsedAsIssued == TypeOK /\ AcceptedAsIssued

Safety == UsedOnce /\ AcceptedAsIssued

\* What the map holds: only what was issued, never a token already used.
MapSound ==
    \A t \in Tokens : grants[t] # NoGrant =>
        /\ grants[t] = issued[t]
        /\ \A i \in DOMAIN used : used[i].token # t

\* The inductive invariant behind the two properties above.
IInv == TypeOK /\ Safety /\ MapSound

\* A step that is not the token's own accepted use, its expiry or a restart
\* keeps an unexpired grant usable: pruning, other tokens' traffic and a
\* presentation with the wrong scope must not burn it.
LiveGrantKept ==
    [][\A t \in Tokens :
         ~Expired(grants[t], now') =>
           \/ grants'[t] = grants[t]
           \/ used' # used /\ used'[Len(used')].token = t
           \/ grants' = Empty]_vars

\* The living grants of the abstract specification: the unexpired entries.
LiveGrants == [t \in Tokens |-> IF Expired(grants[t], now) THEN NoGrant ELSE grants[t]]

Promise == INSTANCE OneTimeGrant WITH
    time <- now, given <- {t \in Tokens : issued[t] # NoGrant},
    live <- LiveGrants, verdict <- answer

\* The manager implements the one-time grant: pruning late is invisible.
ImplementsOneTimeGrant == Promise!GSpec
===============================================================================
