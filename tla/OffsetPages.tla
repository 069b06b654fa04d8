------------------------------ MODULE OffsetPages ------------------------------
(***************************************************************************)
(* Offset pagination: get_workflow_nodes and get_workflow_artifacts and a  *)
(* caller who follows next_offset.  Every call reads the whole workflow,   *)
(* filters and sorts its items and cuts one page out of them, so the       *)
(* offset counts items of a list that may be another one in the next call. *)
(*                                                                         *)
(* Items are keys 1..LastKey in the order the tools sort by: node IDs, or  *)
(* node ID, direction and name of artifacts.                               *)
(***************************************************************************)
EXTENDS KeyOrder

CONSTANTS
    LastKey,      \* bound on the items of a workflow
    Limits,       \* the limits callers ask for
    DefaultLimit, \* 50 in the code
    MaximumLimit, \* 200 in the code
    MaxCalls,     \* bound on the caller's tool calls
    MaxChanges    \* bound on the changes of the workflow

ASSUME OffsetPagesAssumption ==
    /\ LastKey \in Nat \ {0}
    /\ Limits \subseteq Int
    /\ MaximumLimit \in Nat \ {0} /\ DefaultLimit \in 1..MaximumLimit
    /\ MaxCalls \in Nat /\ MaxChanges \in Nat

Keys  == 1..LastKey
Kinds == {"absent", "other", "match"}  \* "other" items do not pass the filter

VARIABLES
    workflow,  \* what Argo answers now, per key
    offset,    \* the caller: the offset to ask for next,
    delivered, \* everything it has been given,
    finished,  \* and whether a page came without next_offset
    calls,
    changes,
    steady,    \* history: the keys that have matched since the first call,
    joined,    \* whether a key has come to match
    left       \* or has ceased to match since then

history == <<steady, joined, left>>
caller == <<offset, delivered, finished>>
vars == <<workflow, caller, calls, changes, history>>
-------------------------------------------------------------------------------
Matching == {k \in Keys : workflow[k] = "match"}

Init ==
    /\ workflow \in [Keys -> Kinds]
    /\ offset = 0 /\ delivered = << >> /\ finished = FALSE
    /\ calls = 0 /\ changes = 0
    /\ steady = Matching /\ joined = FALSE /\ left = FALSE

BoundedLimit(n) == IF n = 0 THEN DefaultLimit ELSE n

LimitRefused(n) == BoundedLimit(n) < 1 \/ BoundedLimit(n) > MaximumLimit

\* Mutant: the items come in an order that changes between calls, like that of
\* the map the nodes are decoded into.
Unsorted ==
    LET Down(f) == [i \in DOMAIN f |-> f[Len(f) + 1 - i]]
    IN {IF calls % 2 = 0 THEN f ELSE Down(f) : f \in InOrder(Matching)}

\* The items that pass the filter, sorted: the one sequence, as a set.
Filtered == InOrder(Matching)

Least(a, b) == IF a < b THEN a ELSE b

SlicePage(items, n) == SubSeq(items, offset + 1, Least(offset + n, Len(items)))

\* Mutant: off by one, a single item behind the page is forgotten.
MoreThanOne(items, n) == offset + n < Len(items) - 1

More(items, n) == offset + n < Len(items)

\* A page is read; without a further one the caller has finished.
Call(n) ==
    /\ ~finished /\ calls < MaxCalls
    /\ ~LimitRefused(n)
    /\ calls' = calls + 1
    /\ \E items \in Filtered : LET page == SlicePage(items, BoundedLimit(n)) IN
          /\ delivered' = delivered \o page
          /\ finished' = ~More(items, BoundedLimit(n))
          /\ offset' = IF finished' THEN offset ELSE offset + Len(page)
    /\ UNCHANGED <<workflow, changes, history>>

\* A refused limit, or a request that fails: the caller may ask again.
CallFails ==
    /\ ~finished /\ calls < MaxCalls
    /\ calls' = calls + 1
    /\ UNCHANGED <<workflow, caller, changes, history>>

\* The workflow runs: nodes appear, change phase, are removed by a retry.
Change(k, kind) ==
    /\ calls > 0 /\ changes < MaxChanges
    /\ workflow[k] # kind
    /\ changes' = changes + 1
    /\ workflow' = [workflow EXCEPT ![k] = kind]
    /\ steady' = steady \ {k}
    /\ joined' = (joined \/ kind = "match")
    /\ left' = (left \/ workflow[k] = "match")
    /\ UNCHANGED <<caller, calls>>

Next ==
    \/ \E n \in Limits : Call(n)
    \/ CallFails
    \/ \E k \in Keys, kind \in Kinds : Change(k, kind)

Spec == Init /\ [][Next]_vars
-------------------------------------------------------------------------------
\* The type of every variable; no page is larger than the largest limit.
TypeOK ==
    /\ workflow \in [Keys -> Kinds]
    /\ offset \in 0..LastKey
    /\ delivered \in Seq(Keys) /\ Len(delivered) <= calls * MaximumLimit
    /\ finished \in BOOLEAN
    /\ calls \in 0..MaxCalls /\ changes \in 0..MaxChanges
    /\ steady \subseteq Keys /\ joined \in BOOLEAN /\ left \in BOOLEAN

Delivered(k) == \E i \in DOMAIN delivered : delivered[i] = k

\* While nothing ceases to match, as in an archived workflow or without a phase
\* filter in a running one, a caller who follows next_offset to the end, with
\* any limits, has been given every item that matched all along, wherever new
\* items have come in.
CompleteUnlessLeft == finished /\ ~left => \A k \in steady : Delivered(k)

\* The variables keep their types, no page larger than the largest limit.
\* While nothing comes to match, no item is given twice and all come in order,
\* whatever ceases to match.
OnceUnlessJoined ==
    /\ TypeOK
    /\ ~joined => \A i, j \in DOMAIN delivered : i < j => delivered[i] < delivered[j]
===============================================================================
