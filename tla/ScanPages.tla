------------------------------- MODULE ScanPages -------------------------------
(***************************************************************************)
(* Cursor pagination: scanPages of internal/argoapi, the collection tools  *)
(* built on it, the caller that follows their continuation, and the list   *)
(* endpoint they read, whose items come and go between two requests.       *)
(*                                                                         *)
(* Items are keys 1..LastKey in backend order, and a cursor is the key up  *)
(* to which the backend has read; 0 is the empty cursor, which asks for    *)
(* the first page and, in an answer, ends the list.  The backend may read  *)
(* past items its own selector hides, so a page can be empty and still     *)
(* have a continuation.  With faulty = TRUE it answers anything at all.    *)
(***************************************************************************)
EXTENDS KeyOrder, SequencesExt

CONSTANTS
    LastKey,       \* bound on the backend's keys
    MaxBackendPages, \* the budget of one scan (1000 in the code)
    DefaultLimit,
    MaximumLimit,
    Limits,        \* the limits callers ask for
    Kinds,         \* the item kinds the backend may hold
    MaxCalls,      \* bound on the caller's tool calls
    MaxChanges     \* bound on the changes of the backend's items

ASSUME ScanPagesAssumption ==
    /\ LastKey \in Nat \ {0}
    /\ MaxBackendPages \in Nat \ {0}
    /\ MaximumLimit \in Nat \ {0}
    /\ DefaultLimit \in 1..MaximumLimit
    /\ Limits \subseteq Int
    /\ Kinds \subseteq {"match", "other", "hidden"}
    /\ MaxCalls \in Nat /\ MaxChanges \in Nat

Keys    == 1..LastKey
Cursors == 0..LastKey
Ended   == 0
Tools   == {"list_workflows", "get_cron_history"}

VARIABLES
    faulty,    \* whether the backend breaks the list contract
    tool,      \* the tool the caller pages through: list_workflows or get_cron_history
    backend,   \* per key: absent, hidden by the server's selector, dropped by
               \* the local projection ("other") or wanted ("match")
    pc,        \* the running call: ready, fetch; or how the last one ended
    limit,     \* the scan: its limit,
    items,     \* what it has collected,
    seen,      \* the cursors it knows,
    cursor,    \* the one to ask for next,
    asked,     \* and those it has asked for: its length counts the requests
    token,     \* the caller: the continuation to pass next,
    delivered, \* and everything it has been given
    calls,
    changes,
    steady     \* history: the keys wanted without interruption since the first call

scan == <<limit, items, seen, cursor, asked>>
caller == <<token, delivered, calls>>
vars == <<faulty, tool, backend, pc, scan, caller, changes, steady>>
-------------------------------------------------------------------------------
Wanted == {k \in Keys : backend[k] = "match"}

Init ==
    /\ faulty \in BOOLEAN
    /\ tool \in Tools
    /\ backend \in [Keys -> Kinds \cup {"absent"}]
    /\ pc = "ready"
    /\ limit = 0 /\ items = << >> /\ seen = {} /\ cursor = 0
    /\ token = 0 /\ delivered = << >> /\ calls = 0 /\ changes = 0
    /\ asked = << >>
    /\ steady = Wanted

\* A limit of zero means the default; outside 1..MaximumLimit it is refused.
BoundedLimit(n) == IF n = 0 THEN DefaultLimit ELSE n
LimitRefused(n) == n < 0 \/ n > MaximumLimit

Running == pc \in {"check", "fetch"}

\* Mutant: the scan starts over at the first page.
ScanFromStart == Ended

\* Mutant: the scan does not count its own start among the cursors seen.
NothingSeen == {}

\* A scan starts at the caller's continuation, which it counts as seen.
FirstCursor == token
FirstSeen   == {token} \ {Ended}

\* A list tool is called with the caller's continuation; history first looks
\* its CronWorkflow up.  A refused limit ends the call before any request.
Call(n) ==
    /\ ~Running /\ pc # "exhausted" /\ calls < MaxCalls
    /\ calls' = calls + 1
    /\ IF LimitRefused(n)
       THEN pc' = "error" /\ UNCHANGED scan
       ELSE /\ pc' = IF tool = "get_cron_history" THEN "check" ELSE "fetch"
            /\ limit' = BoundedLimit(n)
            /\ items' = << >>
            /\ seen' = FirstSeen
            /\ cursor' = FirstCursor
            /\ asked' = << >>
    /\ UNCHANGED <<faulty, tool, backend, token, delivered, changes, steady>>

GetCronWorkflow ==
    /\ pc = "check"
    /\ pc' \in {"fetch", "error"}
    /\ UNCHANGED <<faulty, tool, backend, scan, caller, changes, steady>>

\* The backend reads on from cursor c to some key e, returns every item it
\* shows on the way, at most n, and continues from e when anything is left.
HonestAnswers(c, n) ==
    LET Shown(e) == {k \in (c + 1)..e : backend[k] \in {"match", "other"}}
        Rest(e)  == IF \E k \in (e + 1)..LastKey : backend[k] # "absent" THEN e ELSE Ended
    IN UNION {{[page |-> page, next |-> Rest(e)] : page \in InOrder(Shown(e))} :
                  e \in {x \in (c + 1)..LastKey : Cardinality(Shown(x)) <= n}}

\* A backend that breaks the contract: too many items, any items, any cursor.
FaultyAnswers(n) ==
    {[page |-> [i \in 1..m |-> k], next |-> c] : m \in {0, 1, n, n + 1}, k \in Keys, c \in Cursors}

Answers(c, n) == IF faulty THEN FaultyAnswers(n) ELSE HonestAnswers(c, n)

Remaining == limit - Len(items)

\* The wanted items of a page, in its order: the one sequence, as a set.
Project(page) ==
    {[i \in DOMAIN pick |-> page[pick[i]]] :
        pick \in InOrder({i \in DOMAIN page : backend[page[i]] = "match"})}

\* What the caller is given: history has its runs newest first, of which keys are
\* in the order they started.
Presented(found) == IF tool = "get_cron_history" THEN Reverse(found) ELSE found

BudgetSpent == Len(asked) >= MaxBackendPages

\* The budget is spent: the scan fails without asking again.
OutOfBudget ==
    /\ pc = "fetch" /\ BudgetSpent
    /\ pc' = "error"
    /\ UNCHANGED <<faulty, tool, backend, scan, caller, changes, steady>>

FetchFails ==
    /\ pc = "fetch" /\ ~BudgetSpent
    /\ asked' = Append(asked, cursor)
    /\ pc' = "error"
    /\ UNCHANGED <<faulty, tool, backend, limit, items, seen, cursor, caller, changes, steady>>

\* An answer with more items than asked for, or with a cursor seen before.
Rejected(a) == Len(a.page) > Remaining \/ a.next \in seen

\* Mutant: an empty page is taken for the last one.
NoMoreOrEmpty(a) == a.next = Ended \/ a.page = << >>

NoMore(a) == a.next = Ended

\* One request and what the loop does with its answer: give up, return the
\* page with its continuation, or go on from the next cursor.
Fetch(a) ==
    /\ pc = "fetch" /\ ~BudgetSpent
    /\ asked' = Append(asked, cursor)
    /\ IF Rejected(a)
       THEN pc' = "error" /\ UNCHANGED <<items, seen, cursor, token, delivered>>
       ELSE \E kept \in Project(a.page) : LET got == items \o kept IN
            /\ items' = got
            /\ seen' = seen \cup ({a.next} \ {Ended})
            /\ IF Len(got) = limit \/ NoMore(a)
               THEN /\ pc' = IF NoMore(a) THEN "exhausted" ELSE "more"
                    /\ token' = a.next
                    /\ delivered' = delivered \o Presented(got)
                    /\ UNCHANGED cursor
               ELSE cursor' = a.next /\ UNCHANGED <<pc, token, delivered>>
    /\ UNCHANGED <<faulty, tool, backend, limit, calls, changes, steady>>

\* Workflows are created, change phase and are deleted at any time.
Change(k, kind) ==
    /\ calls > 0 /\ changes < MaxChanges
    /\ backend[k] # kind
    /\ changes' = changes + 1
    /\ backend' = [backend EXCEPT ![k] = kind]
    /\ steady' = steady \ {k}
    /\ UNCHANGED <<faulty, tool, pc, scan, caller>>

Next ==
    \/ \E n \in Limits : Call(n)
    \/ GetCronWorkflow
    \/ OutOfBudget
    \/ FetchFails
    \/ \E a \in Answers(cursor, Remaining) : Fetch(a)
    \/ \E k \in Keys, kind \in Kinds \cup {"absent"} : Change(k, kind)

Spec == Init /\ [][Next]_vars
-------------------------------------------------------------------------------
\* The type of every variable.
TypeOK ==
    /\ faulty \in BOOLEAN /\ tool \in Tools
    /\ backend \in [Keys -> Kinds \cup {"absent"}]
    /\ pc \in {"ready", "check", "fetch", "more", "exhausted", "error"}
    /\ limit \in 0..MaximumLimit
    /\ items \in Seq(Keys)
    /\ seen \subseteq Keys
    /\ cursor \in Cursors
    /\ asked \in Seq(Cursors)
    /\ token \in Cursors
    /\ delivered \in Seq(Keys)
    /\ calls \in Nat /\ changes \in Nat
    /\ steady \subseteq Keys

\* A caller that follows the continuations to the end, over failed calls and
\* with a different limit each time, has been given every item that was there
\* and wanted all along, however the backend cut, emptied and changed its
\* pages: "no skipped items" (docs/plans/issue-5-pagination.md).
NothingSkipped ==
    ~faulty /\ pc = "exhausted" =>
        \A k \in steady : \E i \in DOMAIN delivered : delivered[i] = k

\* ... and was given nothing twice, in backend order across all its calls.  The
\* pages of a history are in that order too, though each has its newest run first.
InBackendOrder ==
    ~faulty => \A i, j \in DOMAIN delivered : i < j =>
        \/ delivered[i] < delivered[j]
        \/ /\ tool = "get_cron_history"
           /\ \A k \in i..(j - 1) : delivered[k] > delivered[k + 1]

\* The variables keep their types.  Whatever the backend answers, a scan ends within
\* its limit and its budget: it never asks for a cursor twice, its first one included,
\* never hands the caller a continuation it has itself asked for, and gives a
\* continuation only
\* with a full result.  No backend sends it round in a circle within one call.
ScanBounded ==
    /\ TypeOK
    /\ \A i, j \in DOMAIN asked : asked[i] = asked[j] => i = j
    /\ Len(items) <= limit
    /\ Len(asked) <= MaxBackendPages
    /\ pc = "more" => /\ Len(items) = limit /\ token # Ended
                      /\ \A i \in DOMAIN asked : asked[i] # token
===============================================================================
