----------------------------- MODULE OneTimeGrant -----------------------------
(***************************************************************************)
(* What the confirmation manager promises, without its map: a grant lives  *)
(* from the moment it is given until it is used, lapses or the process     *)
(* ends, and a presentation succeeds exactly when the presented token is a *)
(* living grant for the presented scope.  Here time itself ends a grant;   *)
(* the implementation keeps dead entries around until it next prunes.      *)
(***************************************************************************)
EXTENDS Integers

CONSTANTS Tokens, NoToken, Scopes, NoGrant, TTL, MaxTime

VARIABLES
    time,    \* the clock
    given,   \* the tokens given out so far
    live,    \* the living grants: scope and the instant each lapses
    verdict  \* the last presentation and whether it was accepted

gvars == <<time, given, live, verdict>>

GInit ==
    /\ time = 0
    /\ given = {}
    /\ live = [t \in Tokens |-> NoGrant]
    /\ verdict = [token |-> NoToken, ok |-> FALSE]

Give(t, s) ==
    /\ t \notin given
    /\ given' = given \cup {t}
    /\ live' = [live EXCEPT ![t] = [scope |-> s, expiresAt |-> time + TTL]]
    /\ UNCHANGED <<time, verdict>>

Accept(t, s) ==
    /\ t \in Tokens
    /\ live[t] # NoGrant
    /\ live[t].scope = s
    /\ live' = [live EXCEPT ![t] = NoGrant]
    /\ verdict' = [token |-> t, ok |-> TRUE]
    /\ UNCHANGED <<time, given>>

Refuse(t, s) ==
    /\ t \in Tokens /\ live[t] # NoGrant => live[t].scope # s
    /\ verdict' = [token |-> t, ok |-> FALSE]
    /\ UNCHANGED <<time, given, live>>

Elapse ==
    /\ time < MaxTime
    /\ time' = time + 1
    /\ live' = [t \in Tokens |->
                  IF live[t] # NoGrant /\ live[t].expiresAt <= time + 1
                  THEN NoGrant ELSE live[t]]
    /\ UNCHANGED <<given, verdict>>

Forget ==
    /\ live' = [t \in Tokens |-> NoGrant]
    /\ UNCHANGED <<time, given, verdict>>

GNext ==
    \/ \E t \in Tokens, s \in Scopes : Give(t, s)
    \/ \E t \in Tokens \cup {NoToken}, s \in Scopes : Accept(t, s) \/ Refuse(t, s)
    \/ Elapse
    \/ Forget

GSpec == GInit /\ [][GNext]_gvars
===============================================================================
