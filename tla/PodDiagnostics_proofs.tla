------------------------- MODULE PodDiagnostics_proofs -------------------------
(***************************************************************************)
(* Proofs about the pod diagnostics, for every page of pods, every limit   *)
(* and deadline, and a context that may end between any two steps.         *)
(***************************************************************************)
EXTENDS PodDiagnostics, TLAPS

Reporting == {"pod", "events", "checkParent", "checkOwn"}
Checking  == {"checkParent", "checkOwn"}

\* How far the handler is.
Progress ==
    /\ (outcome = "none") <=> (pc # "done")
    /\ pc \notin {"receive", "done"} => ~Refused
    /\ pc \in {"receive", "lookup", "list"} => pods = << >> /\ index = 1
    /\ index <= Len(page) + 1

\* The pod being worked on is one to be reported, and its answer says "ended" only
\* while there is still a check that will see it.
Current ==
    /\ pc = "events" => index <= Len(page)
    /\ pc \in {"events"} \cup Checking /\ index <= Len(page) => Owned(page[index])
    /\ pc \in Checking /\ index <= Len(page) =>
        /\ answer # "none"
        /\ answer = "ended" => Ended

\* What is reported are the owned pods before the current one, in order.
Reported ==
    /\ \A k \in DOMAIN pods :
        /\ pods[k].pod \in DOMAIN page
        /\ pods[k].pod < index
        /\ Owned(page[pods[k].pod])
        /\ pods[k].answer # "ended"
    /\ \A j, k \in DOMAIN pods : j < k => pods[j].pod < pods[k].pod
    /\ pc \in Reporting \/ outcome = "result" =>
        \A i \in DOMAIN page : i < index /\ Owned(page[i]) =>
            \E k \in DOMAIN pods : pods[k].pod = i
    /\ outcome = "result" => index > Len(page)

\* A late request is the last one: a check that sees the ended context is next.
LastIsLate ==
    /\ late \in 0..1
    /\ late = 1 => outcome # "result"
    /\ late = 1 => pc \in {"events", "checkParent", "checkOwn", "done"}
    /\ late = 1 /\ pc # "done" => Ended

IInv == TypeOK /\ Progress /\ Current /\ Reported /\ LastIsLate
-------------------------------------------------------------------------------
\* What a sequence holds is of its type.
LEMMA ElementsOfSequences ==
    ASSUME NEW S, NEW seq \in Seq(S), NEW k \in 1..Len(seq)
    PROVE  seq[k] \in S
  OBVIOUS

\* A page is a sequence of pods, of a bounded length.
LEMMA PagesAreSequences ==
    ASSUME NEW items \in Pages
    PROVE  /\ items \in Seq(Pod)
           /\ Len(items) \in 0..MaxPods
           /\ DOMAIN items = 1..Len(items)
  <1>1. PICK n \in 0..MaxPods : items \in [1..n -> Pod]
    BY DEF Pages
  <1>2. n \in Nat
    BY PodDiagnosticsAssumption
  <1>3. QED
    BY <1>1, <1>2

\* A request is within the limits once it is accepted.
LEMMA LimitsBound == TypeOK /\ ~Refused => Limit \in 1..MaximumLimit
  <1> SUFFICES ASSUME TypeOK, ~Refused PROVE Limit \in 1..MaximumLimit
    OBVIOUS
  <1>1. req.limit \in Int
    BY PodDiagnosticsAssumption DEF TypeOK, Request
  <1>2. Limit \in Int
    BY <1>1, PodDiagnosticsAssumption DEF Limit
  <1>3. ~(Limit < 1) /\ ~(Limit > MaximumLimit)
    BY DEF Refused
  <1>4. QED
    BY <1>2, <1>3, PodDiagnosticsAssumption

\* Nothing is looked up, listed or reported at first.
LEMMA InitIInv == Init => IInv
  <1> SUFFICES ASSUME Init PROVE IInv
    OBVIOUS
  <1>1. /\ << >> \in [1..0 -> Pod] /\ Len(<< >>) = 0
        /\ 0 \in 0..MaxPods
    <2>1. << >> \in Seq(Pod) /\ Len(<< >>) = 0
      OBVIOUS
    <2>2. << >> \in [1..Len(<< >>) -> Pod]
      BY <2>1
    <2>3. QED
      BY <2>1, <2>2, PodDiagnosticsAssumption
  <1>2. TypeOK
    <2>1. << >> \in Pages
      BY <1>1 DEF Pages
    <2>2. index \in 1..(MaxPods + 1) /\ now \in 0..MaxTime
      BY PodDiagnosticsAssumption DEF Init
    <2>3. /\ pods \in Seq([pod : 1..MaxPods, answer : {"events", "error", "ended"}])
          /\ Len(page) <= MaximumLimit
      BY <1>1, PodDiagnosticsAssumption DEF Init
    <2>4. QED
      BY <2>1, <2>2, <2>3 DEF Init, TypeOK
  <1>3. Progress /\ Current /\ Reported /\ LastIsLate
    BY DEF Init, Progress, Current, Reported, LastIsLate, Checking, Reporting
  <1>4. QED
    BY <1>2, <1>3 DEF IInv

\* What every step may use of the invariant.
LEMMA Bounds ==
    ASSUME TypeOK
    PROVE  /\ page \in Seq(Pod) /\ Len(page) \in 0..MaxPods /\ DOMAIN page = 1..Len(page)
           /\ index \in Nat /\ index >= 1 /\ now \in Nat
  BY PagesAreSequences, PodDiagnosticsAssumption DEF TypeOK
-------------------------------------------------------------------------------
\* What comes before the pods are worked on.
LEMMA PreparingKeepsIInv ==
    ASSUME IInv, Receive \/ Lookup \/ LookupFails \/ ListFails
    PROVE  IInv'
  <1> USE DEF IInv
  <1>1. CASE Receive
    BY <1>1 DEF Receive, End, TypeOK, Progress, Current, Reported, LastIsLate, Refused, Limit,
                Checking, Reporting, result, Ended, Owned
  <1>2. CASE Lookup
    BY <1>2, PodDiagnosticsAssumption
       DEF Lookup, TypeOK, Progress, Current, Reported, LastIsLate, Refused, Limit, Checking,
           Reporting, result, Ended, Owned
  <1>3. CASE LookupFails
    BY <1>3 DEF LookupFails, End, TypeOK, Progress, Current, Reported, LastIsLate, Refused, Limit,
                Checking, Reporting, result, Ended, Owned
  <1>4. CASE ListFails
    <2>1. /\ pc' = "done" /\ outcome' \in {"cancelled", "failed", "deadline"}
          /\ late' \in 0..1
          /\ UNCHANGED <<req, uid, wanted, parent, now, page, index, answer, pods>>
      BY <1>4 DEF ListFails, End, LastIsLate
    <2>2. QED
      BY <2>1 DEF TypeOK, Progress, Current, Reported, LastIsLate, Checking, Reporting, Owned
  <1>5. QED
    BY <1>1, <1>2, <1>3, <1>4

\* A page that is accepted is within the limits.
LEMMA ListKeepsIInv ==
    ASSUME IInv, NEW items \in Pages, List(items)
    PROVE  IInv'
  <1> USE DEF IInv
  <1>1. Limit \in 1..MaximumLimit
    BY LimitsBound DEF List, Progress
  <1>2. items \in Seq(Pod) /\ Len(items) \in 0..MaxPods /\ DOMAIN items = 1..Len(items)
    BY PagesAreSequences
  <1>3. TypeOK'
    <2>1. req.byName => Len(items) = 1
      BY DEF List
    <2>2. ~TooMany(items) => Len(items) <= MaximumLimit
      <3>1. CASE req.byName
        <4>1. Len(items) = 1
          BY <2>1, <3>1
        <4>2. QED
          BY <4>1, PodDiagnosticsAssumption
      <3>2. CASE ~req.byName
        BY <1>1, <1>2, <3>2, PodDiagnosticsAssumption DEF TooMany
      <3>3. QED
        BY <3>1, <3>2
    <2>3. QED
      BY <2>2 DEF List, End, TypeOK, result
  <1>4. (Progress /\ Current)'
    BY <1>2 DEF List, End, Progress, Current, Checking, result, Refused, Limit
  <1>5. (Reported /\ LastIsLate)'
    BY <1>2 DEF List, End, Progress, Reported, Reporting, LastIsLate, result
  <1>6. QED
    BY <1>3, <1>4, <1>5

\* The steps of the loop that report nothing.
LEMMA LoopKeepsIInv ==
    ASSUME IInv, SkipForeign \/ RequestEvents \/ EventsAnswer \/ AllPods \/ CheckParent
    PROVE  IInv'
  <1> USE DEF IInv
  <1>1. /\ Len(page) \in 0..MaxPods /\ DOMAIN page = 1..Len(page)
        /\ index \in Nat /\ index >= 1 /\ now \in Nat /\ MaxPods \in Nat
    BY Bounds, PodDiagnosticsAssumption
  <1>2. CASE SkipForeign
    <2>1. /\ pc = "pod" /\ index <= Len(page) /\ ~Owned(page[index])
          /\ \/ pc' = "done" /\ outcome' = "failed" /\ UNCHANGED index
             \/ index' = index + 1 /\ UNCHANGED <<pc, outcome>>
          /\ UNCHANGED <<req, uid, wanted, parent, now, page, answer, pods, late>>
      BY <1>2 DEF SkipForeign, End, result
    <2>2. TypeOK'
      BY <1>1, <2>1 DEF TypeOK
    <2>3. (Progress /\ Current /\ LastIsLate)'
      BY <1>1, <2>1 DEF Progress, Current, LastIsLate, Checking, Refused, Limit
    <2>4. Reported'
      <3>1. \A k \in DOMAIN pods : pods[k].pod \in Nat
        BY <1>1 DEF Reported
      <3>2. QED
        BY <1>1, <2>1, <3>1 DEF Reported, Reporting, Owned, Progress
    <2>5. QED
      BY <2>2, <2>3, <2>4
  <1>3. CASE RequestEvents
    <2>1. /\ pc = "pod" /\ index <= Len(page) /\ Owned(page[index])
          /\ \/ pc' = "done" /\ outcome' = "failed" /\ UNCHANGED late
             \/ pc' = "events" /\ UNCHANGED outcome /\ late' = IF Ended THEN late + 1 ELSE late
          /\ UNCHANGED <<req, uid, wanted, parent, now, page, index, answer, pods>>
      BY <1>3 DEF RequestEvents, Begin, End, result
    <2>2. late = 0 /\ outcome = "none"
      BY <2>1 DEF LastIsLate, Progress
    <2>3. TypeOK' /\ LastIsLate'
      BY <2>1, <2>2 DEF TypeOK, LastIsLate, Ended
    <2>4. (Progress /\ Current /\ Reported)'
      BY <2>1 DEF Progress, Current, Reported, Checking, Reporting, Refused, Limit, Owned
    <2>5. QED
      BY <2>3, <2>4
  <1>4. CASE EventsAnswer
    BY <1>1, <1>4 DEF EventsAnswer, TypeOK, Progress, Current, Reported, LastIsLate,
                Refused, Limit, Checking, Reporting, result, Ended, Owned
  <1>5. CASE AllPods
    BY <1>1, <1>5 DEF AllPods, TypeOK, Progress, Current, Reported, LastIsLate,
                Refused, Limit, Checking, Reporting, result, Ended, Owned
  <1>6. CASE CheckParent
    BY <1>1, <1>6 DEF CheckParent, End, TypeOK, Progress, Current, Reported, LastIsLate,
                Refused, Limit, Checking, Reporting, result, Ended, Owned
  <1>7. QED
    BY <1>2, <1>3, <1>4, <1>5, <1>6

\* A pod is reported only under a live context.
LEMMA CheckOwnKeepsIInv ==
    ASSUME IInv, CheckOwn
    PROVE  IInv'
  <1> USE DEF IInv
  <1>1. /\ Len(page) \in 0..MaxPods /\ DOMAIN page = 1..Len(page)
        /\ index \in Nat /\ index >= 1 /\ now \in Nat /\ MaxPods \in Nat
    BY Bounds, PodDiagnosticsAssumption
  <1>2. CASE Ended \/ index > Len(page)
    BY <1>1, <1>2 DEF CheckOwn, MustAbort, End, TypeOK, Progress, Current, Reported, LastIsLate,
                Refused, Limit, Checking, Reporting, Ended, Owned
  <1>3. CASE ~Ended /\ index <= Len(page)
    <2> DEFINE new == [pod |-> index, answer |-> answer]
    <2>1. /\ pc = "checkOwn" /\ pc' = "pod"
          /\ pods' = Append(pods, new)
          /\ index' = index + 1 /\ answer' = "none"
          /\ UNCHANGED <<outcome, req, uid, wanted, parent, now, page, late>>
      BY <1>1, <1>3 DEF CheckOwn, MustAbort
    <2>2. Owned(page[index]) /\ answer \in {"events", "error"}
      BY <1>3, <2>1 DEF Current, Checking, TypeOK
    <2>3. new \in [pod : 1..MaxPods, answer : {"events", "error", "ended"}]
      BY <1>1, <1>3, <2>2
    <2>4. /\ pods \in Seq([pod : 1..MaxPods, answer : {"events", "error", "ended"}])
          /\ Len(pods) \in Nat /\ DOMAIN pods = 1..Len(pods)
          /\ \A k \in DOMAIN pods : pods[k].pod \in Nat
      <3>1. pods \in Seq([pod : 1..MaxPods, answer : {"events", "error", "ended"}])
        BY DEF TypeOK
      <3>2. Len(pods) \in Nat /\ DOMAIN pods = 1..Len(pods)
        BY <3>1
      <3>3. ASSUME NEW k \in DOMAIN pods
            PROVE  pods[k].pod \in Nat
        <4>1. pods[k] \in [pod : 1..MaxPods, answer : {"events", "error", "ended"}]
          BY <3>1, <3>2, <3>3, ElementsOfSequences
        <4>2. QED
          BY <1>1, <4>1
      <3>4. QED
        BY <3>1, <3>2, <3>3
    <2>5. /\ pods' \in Seq([pod : 1..MaxPods, answer : {"events", "error", "ended"}])
          /\ DOMAIN pods' = 1..(Len(pods) + 1)
          /\ \A k \in DOMAIN pods : pods'[k] = pods[k]
          /\ pods'[Len(pods) + 1] = new
      BY <2>1, <2>3, <2>4
    <2>6. TypeOK'
      BY <1>1, <1>3, <2>1, <2>5 DEF TypeOK
    <2>7. (Progress /\ Current /\ LastIsLate)'
      BY <1>1, <1>3, <2>1 DEF Progress, Current, LastIsLate, Checking, Refused, Limit, Ended
    <2>8. Reported'
      <3>1. \A k \in DOMAIN pods' : /\ pods'[k].pod \in DOMAIN page
                                    /\ pods'[k].pod < index + 1
                                    /\ Owned(page[pods'[k].pod])
                                    /\ pods'[k].answer # "ended"
        <4> TAKE k \in DOMAIN pods'
        <4>1. CASE k \in DOMAIN pods
          BY <1>1, <2>4, <2>5, <4>1 DEF Reported
        <4>2. CASE k = Len(pods) + 1
          BY <1>1, <1>3, <2>2, <2>5, <4>2
        <4>3. QED
          BY <2>4, <2>5, <4>1, <4>2
      <3>2. ASSUME NEW j \in DOMAIN pods', NEW k \in DOMAIN pods', j < k
            PROVE  pods'[j].pod < pods'[k].pod
        <4>1. j \in DOMAIN pods
          BY <2>4, <2>5, <3>2
        <4>2. CASE k \in DOMAIN pods
          BY <2>5, <3>2, <4>1, <4>2 DEF Reported
        <4>3. CASE k = Len(pods) + 1
          BY <2>5, <4>1, <4>3 DEF Reported
        <4>4. QED
          BY <2>4, <2>5, <4>2, <4>3
      <3>3. ASSUME NEW i \in DOMAIN page, i < index + 1, Owned(page[i])
            PROVE  \E k \in DOMAIN pods' : pods'[k].pod = i
        <4>1. CASE i = index
          BY <2>4, <2>5, <4>1
        <4>2. CASE i # index
          <5>1. i < index
            BY <1>1, <3>3, <4>2
          <5>2. PICK k \in DOMAIN pods : pods[k].pod = i
            BY <2>1, <3>3, <5>1 DEF Reported, Reporting
          <5>3. QED
            BY <2>4, <2>5, <5>2
        <4>3. QED
          BY <4>1, <4>2
      <3>4. QED
        BY <2>1, <3>1, <3>2, <3>3 DEF Reported, Owned, Progress
    <2>9. QED
      BY <2>6, <2>7, <2>8
  <1>4. QED
    BY <1>1, <1>2, <1>3

\* Time passes, the caller leaves, or the name comes to mean another run.
LEMMA WorldKeepsIInv ==
    ASSUME IInv, Tick \/ Cancel \/ Recreate \/ UNCHANGED vars
    PROVE  IInv'
  <1> USE DEF IInv
  <1>1. now \in Nat /\ Deadline \in Nat
    BY Bounds, PodDiagnosticsAssumption
  <1>2. CASE Tick
    BY <1>1, <1>2, PodDiagnosticsAssumption
       DEF Tick, TypeOK, Progress, Current, Reported, LastIsLate, Refused, Limit, Checking,
           Reporting, result, Ended, Owned
  <1>3. CASE Cancel
    BY <1>3 DEF Cancel, TypeOK, Progress, Current, Reported, LastIsLate, Refused, Limit, Checking,
                Reporting, result, Ended, Owned
  <1>4. CASE Recreate
    BY <1>4 DEF Recreate, TypeOK, Progress, Current, Reported, LastIsLate, Refused, Limit,
                Checking, Reporting, result, Ended, Owned
  <1>5. CASE UNCHANGED vars
    BY <1>5 DEF vars, TypeOK, Progress, Current, Reported, LastIsLate, Refused, Limit, Checking,
                Reporting, result, Ended, Owned
  <1>6. QED
    BY <1>2, <1>3, <1>4, <1>5

\* Every step keeps the invariant.
LEMMA NextKeepsIInv == IInv /\ [Next]_vars => IInv'
  BY PreparingKeepsIInv, ListKeepsIInv, LoopKeepsIInv, CheckOwnKeepsIInv, WorldKeepsIInv DEF Next

\* The inductive invariant holds in every state.
THEOREM SpecIInv == Spec => []IInv
  BY InitIInv, NextKeepsIInv, PTL DEF Spec
-------------------------------------------------------------------------------
\* A result has exactly the pods of the workflow that was looked up, in order, and
\* no end of a context in the place of an error of its own.
THEOREM ReportsAreHonest == Spec => []HonestReport
  <1>1. ASSUME IInv
        PROVE  HonestReport
    <2> USE <1>1 DEF IInv
    <2>1. ASSUME outcome = "result"
          PROVE  {pods[k].pod : k \in DOMAIN pods} = {i \in DOMAIN page : Owned(page[i])}
      <3>1. \A i \in DOMAIN page : i < index
        BY <2>1, Bounds DEF Reported
      <3>2. QED
        BY <2>1, <3>1 DEF Reported
    <2>2. QED
      BY <2>1 DEF HonestReport, Reported
  <1>2. QED
    BY <1>1, SpecIInv, PTL

\* Once the context has ended at most one more request is begun, whenever it ends
\* and however many pods are left.
THEOREM LateRequestsStop == Spec => []AtMostOneLateRequest
  <1>1. IInv => AtMostOneLateRequest
    BY DEF IInv, LastIsLate, AtMostOneLateRequest
  <1>2. QED
    BY <1>1, SpecIInv, PTL
================================================================================
