---------------------------- MODULE PodDiagnostics ----------------------------
(***************************************************************************)
(* get_workflow_pod_diagnostics: the workflow's UID from Argo, one page of *)
(* pods or one pod from Kubernetes, and the events of every owned pod, all *)
(* but the first under a deadline of its own.  The caller's context, that  *)
(* deadline and the workflow change between any two steps of the handler.  *)
(***************************************************************************)
EXTENDS Integers, Sequences, FiniteSets

CONSTANTS
    Limits,        \* the limits callers ask for
    DefaultLimit,  \* 20 in the code
    MaximumLimit,  \* 50 in the code
    MaxPods,       \* bound on the pods of an answer
    Deadline,      \* of the diagnostics (10 s in the code)
    MaxTime,       \* bound on the clock
    Uids           \* the UIDs the workflow's name may come to have

ASSUME PodDiagnosticsAssumption ==
    /\ Limits \subseteq Int
    /\ MaximumLimit \in Nat \ {0} /\ DefaultLimit \in 1..MaximumLimit
    /\ MaxPods \in Nat /\ Deadline \in Nat \ {0}
    /\ MaxTime \in Nat /\ MaxTime >= Deadline
    /\ Uids # {}

\* A pod is its owner and whether its identity can be used; a pod asked for by
\* name must also have that name.
Pod == [owner : Uids, valid : BOOLEAN]
Request == [limit : Limits, byName : BOOLEAN, continued : BOOLEAN, configured : BOOLEAN]

VARIABLES
    req,
    pc,        \* receive, lookup, list, pod, events, checkParent, checkOwn, done
    uid,       \* the workflow's UID now
    wanted,    \* and when it was looked up
    parent,    \* whether the caller's context has ended
    now,       \* the time since the diagnostics began
    page,      \* the pods Kubernetes returned
    index,     \* the pod being worked on
    answer,    \* of its event request: none, events, error; or error by the context
    pods,      \* the pods reported, each with its answer
    outcome,   \* none, refused, failed, cancelled, deadline, result
    late       \* history: requests begun after the context had ended

result == <<pods, outcome>>
vars == <<req, pc, uid, wanted, parent, now, page, index, answer, result, late>>
-------------------------------------------------------------------------------
Init ==
    /\ req \in Request
    /\ pc = "receive" /\ outcome = "none"
    /\ uid \in Uids /\ wanted = uid
    /\ parent = FALSE /\ now = 0
    /\ page = << >> /\ index = 1 /\ answer = "none" /\ pods = << >>
    /\ late = 0

Limit == IF req.limit = 0 THEN DefaultLimit ELSE req.limit

Refused ==
    \/ Limit < 1 \/ Limit > MaximumLimit
    \/ req.byName /\ req.continued
    \/ ~req.configured

\* The derived context ends with the caller's or by its own deadline.
Ended == parent \/ now >= Deadline

End(how) == pc' = "done" /\ outcome' = how /\ UNCHANGED pods

\* A request that begins under an ended context.
Begin(where) == pc' = where /\ late' = IF Ended THEN late + 1 ELSE late

Receive ==
    /\ pc = "receive"
    /\ IF Refused THEN End("refused") ELSE pc' = "lookup" /\ UNCHANGED result
    /\ UNCHANGED <<req, uid, wanted, parent, now, page, index, answer, late>>

\* Argo knows the workflow: its UID now is the one whose pods are wanted, and
\* the deadline starts.
Lookup ==
    /\ pc = "lookup" /\ ~parent
    /\ wanted' = uid
    /\ now' = 0
    /\ pc' = "list"
    /\ UNCHANGED <<req, uid, parent, page, index, answer, result, late>>

\* Argo fails, or the caller has gone.
LookupFails ==
    /\ pc = "lookup"
    /\ End("failed")
    /\ UNCHANGED <<req, uid, wanted, parent, now, page, index, answer, late>>

TooMany(items) == ~req.byName /\ Len(items) > Limit

\* The pods arrive; more than were asked for are not accepted.
List(items) ==
    /\ pc = "list" /\ ~Ended
    /\ req.byName => Len(items) = 1
    /\ page' = items
    /\ IF TooMany(items) THEN End("failed") ELSE pc' = "pod" /\ UNCHANGED result
    /\ UNCHANGED <<req, uid, wanted, parent, now, index, answer, late>>

\* The pod request fails: of its own, or with its context.
ListFails ==
    /\ pc = "list"
    /\ IF parent THEN End("cancelled")
       ELSE \/ End("failed")
            \/ Ended /\ End("deadline")
    /\ late' = IF Ended THEN late + 1 ELSE late
    /\ UNCHANGED <<req, uid, wanted, parent, now, page, index, answer>>

Owned(pod) == pod.owner = wanted

\* A foreign pod is left out of a page, and is an error when asked for by name.
SkipForeign ==
    /\ pc = "pod" /\ index <= Len(page)
    /\ ~Owned(page[index])
    /\ IF req.byName THEN End("failed") /\ UNCHANGED index
       ELSE index' = index + 1 /\ UNCHANGED <<pc, result>>
    /\ UNCHANGED <<req, uid, wanted, parent, now, page, answer, late>>

\* An owned pod with a usable identity has its events requested.
RequestEvents ==
    /\ pc = "pod" /\ index <= Len(page)
    /\ Owned(page[index])
    /\ IF ~page[index].valid THEN End("failed") /\ UNCHANGED late
       ELSE Begin("events") /\ UNCHANGED result
    /\ UNCHANGED <<req, uid, wanted, parent, now, page, index, answer>>

\* The events arrive, or the request fails of its own or with its context.
EventsAnswer ==
    /\ pc = "events"
    /\ answer' \in IF Ended THEN {"error", "ended"} ELSE {"events", "error"}
    /\ pc' = "checkParent"
    /\ UNCHANGED <<req, uid, wanted, parent, now, page, index, result, late>>

\* The pages are through: the last checks are the same as after each pod.
AllPods ==
    /\ pc = "pod" /\ index > Len(page)
    /\ pc' = "checkParent"
    /\ UNCHANGED <<req, uid, wanted, parent, now, page, index, answer, result, late>>

CheckParent ==
    /\ pc = "checkParent"
    /\ IF parent THEN End("cancelled") ELSE pc' = "checkOwn" /\ UNCHANGED result
    /\ UNCHANGED <<req, uid, wanted, parent, now, page, index, answer, late>>

\* Mutant: an event error hides the end of the context.
OnlyWithoutError == Ended /\ answer # "ended"

\* Mutant: the context is looked at once, before the result is returned.
OnlyAtTheEnd == Ended /\ index > Len(page)

MustAbort == Ended

\* Under a live context the pod is reported, or the result is complete; one
\* that does not fit into the result's size fails the call.
CheckOwn ==
    /\ pc = "checkOwn"
    /\ IF MustAbort THEN End("deadline") /\ UNCHANGED <<index, answer>>
       ELSE IF index > Len(page)
       THEN (End("result") \/ End("failed")) /\ UNCHANGED <<index, answer>>
       ELSE /\ pods' = Append(pods, [pod |-> index, answer |-> answer])
            /\ index' = index + 1 /\ answer' = "none"
            /\ pc' = "pod"
            /\ UNCHANGED outcome
    /\ UNCHANGED <<req, uid, wanted, parent, now, page, late>>

\* The clock of the diagnostics.
Tick ==
    /\ pc \notin {"receive", "lookup", "done"} /\ now < MaxTime
    /\ now' = now + 1
    /\ UNCHANGED <<req, pc, uid, wanted, parent, page, index, answer, result, late>>

Cancel ==
    /\ ~parent
    /\ parent' = TRUE
    /\ UNCHANGED <<req, pc, uid, wanted, now, page, index, answer, result, late>>

\* The workflow is deleted and created again under its name.
Recreate ==
    /\ uid' \in Uids \ {uid}
    /\ UNCHANGED <<req, pc, wanted, parent, now, page, index, answer, result, late>>

Pages == UNION {[1..n -> Pod] : n \in 0..MaxPods}

Next ==
    \/ Receive
    \/ LookupFails
    \/ ListFails
    \/ SkipForeign
    \/ RequestEvents
    \/ EventsAnswer
    \/ AllPods
    \/ CheckParent
    \/ CheckOwn
    \/ Lookup
    \/ \E items \in Pages : List(items)
    \/ Tick
    \/ Cancel
    \/ Recreate

Spec == Init /\ [][Next]_vars
-------------------------------------------------------------------------------
\* The type of every variable; no page larger than any limit is worked on.
TypeOK ==
    /\ req \in Request
    /\ pc \in {"receive", "lookup", "list", "pod", "events", "checkParent", "checkOwn", "done"}
    /\ uid \in Uids /\ wanted \in Uids
    /\ parent \in BOOLEAN /\ now \in 0..MaxTime
    /\ page \in Pages /\ (outcome = "none" => Len(page) <= MaximumLimit)
    /\ index \in 1..(MaxPods + 1)
    /\ answer \in {"none", "events", "error", "ended"}
    /\ pods \in Seq([pod : 1..MaxPods, answer : {"events", "error", "ended"}])
    /\ outcome \in {"none", "refused", "failed", "cancelled", "deadline", "result"}
    /\ late \in Nat

\* The variables keep their types.  A result reports every pod of the page that the
\* workflow looked up owns, in order, and no other, though the name may meanwhile
\* belong to another run of the workflow, whose pods have the same label; and an
\* events_error of a pod tells of a failure of its own: the end of the caller's
\* context or of the deadline is never passed off as one, whenever it comes ("parent
\* cancellation, which aborts the tool", design-v0.3.0.md:43).
HonestReport ==
    /\ TypeOK
    /\ outcome = "result" =>
        {pods[k].pod : k \in DOMAIN pods} = {i \in DOMAIN page : Owned(page[i])}
    /\ \A j, k \in DOMAIN pods : j < k => pods[j].pod < pods[k].pod
    /\ \A k \in DOMAIN pods : pods[k].answer # "ended"

\* Once the context has ended at most one more request is begun, and then the call
\* returns no result: "it does not keep issuing event requests"
\* (design-v0.3.0.md:45).
AtMostOneLateRequest == late <= 1 /\ (late > 0 => outcome # "result")
===============================================================================
