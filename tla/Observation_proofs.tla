-------------------------- MODULE Observation_proofs --------------------------
(***************************************************************************)
(* Proofs about the two tools that observe a workflow while it runs.       *)
(*                                                                         *)
(* The event observation, for every limit and every stream, however        *)
(* reader, collector, timer and cancellation interleave; and the wait      *)
(* loop, for every duration and interval, and a caller, a deadline and a   *)
(* workflow that change between any two steps.                             *)
(***************************************************************************)
EXTENDS EventWatch, WaitWorkflow, TLAPS

Opening == {"unstarted", "dial", "hand_over", "status", "scan"}
Leaving == {"close_frames", "close_bodies", "close_done", "done"}
Running == {"lookup", "select"}

\* What has been decoded and what has arrived: they differ by the event the reader
\* holds, and a reader that leaves on its own has handed over everything.
Accounts ==
    /\ reader \in Opening => decoded = Len(events)
    /\ reader = "send" => decoded = Len(events) + 1
    /\ reader \in Opening \cup {"send"} => ~failed
    /\ reader \in Leaving /\ ~watchDone /\ collector = "select" =>
        decoded = Len(events) /\ ~failed
    /\ \A i \in DOMAIN events : events[i] = i

\* Where the two goroutines are, and what they know of each other.
Places ==
    /\ (result = "none") <=> (collector \in Running)
    /\ collector \in Running => (watchDone <=> cancelled) /\ Len(events) < Limit
    /\ collector = "lookup" => reader = "unstarted"
    /\ framesClosed <=> (reader \in {"close_bodies", "close_done", "done"})
    /\ reader \in {"hand_over", "status", "scan", "send"} => body # "none"

\* What a collector that has stopped found.
Found ==
    /\ Len(events) <= Limit
    /\ result = "limit" => Len(events) = Limit
    /\ result = "end_of_stream" => framesClosed /\ decoded = Len(events) /\ ~failed

IInv == TypeOK /\ Accounts /\ Places /\ Found
-------------------------------------------------------------------------------
\* At first nothing has been read and nothing has arrived.
LEMMA InitIInv == Init => IInv
  <1> SUFFICES ASSUME Init PROVE IInv
    OBVIOUS
  <1>1. events \in Seq(Nat) /\ Len(events) = 0 /\ DOMAIN events = {}
    BY DEF Init
  <1>2. TypeOK
    BY <1>1 DEF Init, TypeOK, Results
  <1>3. Accounts
    BY <1>1 DEF Init, Accounts, Opening, Leaving
  <1>4. Places /\ Found
    BY <1>1, EventWatchAssumption DEF Init, Places, Found, Running
  <1>5. QED
    BY <1>2, <1>3, <1>4 DEF IInv

\* The caller's cancellation and the timer.
LEMMA ContextKeepsIInv ==
    ASSUME IInv, Cancel \/ TimerFires \/ UNCHANGED vars
    PROVE  IInv'
  <1> USE DEF IInv, TypeOK, Accounts, Places, Found, Opening, Leaving, Running,
              context, collecting, reading
  <1>1. CASE Cancel
    BY <1>1 DEF Cancel
  <1>2. CASE TimerFires
    BY <1>2 DEF TimerFires
  <1>3. CASE UNCHANGED vars
    BY <1>3 DEF vars
  <1>4. QED
    BY <1>1, <1>2, <1>3

\* The reader alone.
LEMMA ReaderKeepsIInv ==
    ASSUME IInv, Reader
    PROVE  IInv'
  <1> USE DEF IInv, TypeOK, Accounts, Places, Found, Opening, Leaving, Running,
              context, collecting
  <1>1. CASE Dial
    <2>1. /\ reader = "dial"
          /\ UNCHANGED <<context, collecting, framesClosed, bodiesClosed, decoded>>
          /\ \/ reader' = "hand_over" /\ body' = "open" /\ UNCHANGED failed
             \/ reader' = "close_frames" /\ watchDone /\ UNCHANGED <<body, failed>>
             \/ reader' = "send_error" /\ failed' = TRUE /\ UNCHANGED body
      BY <1>1 DEF Dial, ReportOrLeave
    <2>2. TypeOK'
      BY <2>1
    <2>3. (Accounts /\ Places /\ Found)'
      BY <2>1
    <2>4. QED
      BY <2>2, <2>3
  <1>2. CASE KeepBody
    BY <1>2 DEF KeepBody
  <1>3. CASE CheckStatus
    BY <1>3 DEF CheckStatus
  <1>4. CASE Scan
    <2>1. /\ reader = "scan"
          /\ UNCHANGED <<context, collecting, body, framesClosed, bodiesClosed>>
          /\ \/ reader' = "send" /\ decoded' = decoded + 1 /\ UNCHANGED failed
             \/ reader' = "close_frames" /\ UNCHANGED <<decoded, failed>>
             \/ reader' = "send_error" /\ failed' = TRUE /\ UNCHANGED decoded
      BY <1>4 DEF Scan, ReportOrLeave
    <2>2. TypeOK'
      <3> HIDE DEF Accounts, Places, Found, Opening, Leaving, Running
      <3>1. decoded \in Nat /\ failed \in BOOLEAN
        OBVIOUS
      <3>2. decoded' = decoded \/ decoded' = decoded + 1
        BY <2>1
      <3>3. decoded' \in Nat
        BY <3>1, <3>2
      <3>4. failed' = failed \/ failed' = TRUE
        BY <2>1
      <3>5. failed' \in BOOLEAN
        BY <3>1, <3>4
      <3>6. QED
        BY <2>1, <3>3, <3>5
    <2>3. (Accounts /\ Places /\ Found)'
      BY <2>1
    <2>4. QED
      BY <2>2, <2>3
  <1>5. CASE AbandonSend
    BY <1>5 DEF AbandonSend
  <1>6. CASE CloseFrames
    BY <1>6 DEF CloseFrames
  <1>7. CASE CloseBodies
    BY <1>7 DEF CloseBodies
  <1>8. CASE CloseDone
    BY <1>8 DEF CloseDone
  <1>9. QED
    BY <1>1, <1>2, <1>3, <1>4, <1>5, <1>6, <1>7, <1>8 DEF Reader

\* The joint steps: an event arrives in order, an error ends the observation.
LEMMA BothKeepIInv ==
    ASSUME IInv, Both
    PROVE  IInv'
  <1> USE DEF IInv
  <1>1. CASE HandOverBody
    BY <1>1 DEF HandOverBody, TypeOK, Accounts, Places, Found, Opening, Leaving, Running, context
  <1>2. CASE SendEvent
    <2>1. /\ reader = "send" /\ collector = "select"
          /\ events' = Append(events, decoded)
          /\ reader' = "scan"
          /\ UNCHANGED <<context, bodyEvents, held, body, framesClosed, bodiesClosed, decoded,
                         failed>>
          /\ IF Len(events') = Limit
             THEN collector' = "cleanup" /\ result' \in {"cancelled", "limit"}
             ELSE UNCHANGED <<collector, result>>
      BY <1>2 DEF SendEvent, Stop
    <2>2. decoded = Len(events) + 1 /\ Len(events) < Limit /\ result = "none" /\ ~failed
      BY <2>1 DEF Accounts, Places, Running
    <2>3. events \in Seq(Nat) /\ Len(events) \in Nat /\ decoded \in Nat /\ Limit \in Nat
      BY EventWatchAssumption DEF TypeOK
    <2>4. /\ events' \in Seq(Nat) /\ Len(events') = Len(events) + 1
          /\ \A i \in DOMAIN events' : events'[i] = i
      BY <2>1, <2>2, <2>3 DEF Accounts
    <2>5. TypeOK'
      BY <2>1, <2>4 DEF TypeOK, Results, context
    <2>6. (Accounts /\ Found)'
      BY <2>1, <2>2, <2>3, <2>4 DEF Accounts, Found, Opening, Leaving
    <2>7. Places'
      BY <2>1, <2>2, <2>3, <2>4 DEF Places, Running, context
    <2>8. QED
      BY <2>5, <2>6, <2>7
  <1>3. CASE SendError
    BY <1>3 DEF SendError, Stop, TypeOK, Results, Accounts, Places, Found, Opening, Leaving,
                Running, context
  <1>4. QED
    BY <1>1, <1>2, <1>3 DEF Both

\* The collector alone.
LEMMA CollectorKeepsIInv ==
    ASSUME IInv, Collector
    PROVE  IInv'
  <1> USE DEF IInv, TypeOK, Results, Accounts, Places, Found, Opening, Leaving, Running,
              context, reading
  <1>1. CASE Lookup
    <2>1. /\ collector = "lookup"
          /\ UNCHANGED <<context, events, bodyEvents, held, body, framesClosed, bodiesClosed,
                         decoded, failed>>
          /\ \/ collector' = "select" /\ reader' = "dial" /\ UNCHANGED result
             \/ collector' = "returned" /\ result' = "lookup_failed" /\ UNCHANGED reader
      BY <1>1 DEF Lookup
    <2>2. TypeOK'
      BY <2>1
    <2>3. (Accounts /\ Places /\ Found)'
      BY <2>1
    <2>4. QED
      BY <2>2, <2>3
  <1>2. CASE OnCancelled
    BY <1>2 DEF OnCancelled, Stop
  <1>3. CASE OnTimer
    BY <1>3 DEF OnTimer, Stop
  <1>4. CASE OnBodiesClosed
    BY <1>4 DEF OnBodiesClosed
  <1>5. CASE OnFramesClosed
    BY <1>5 DEF OnFramesClosed, Stop
  <1>6. CASE Cleanup
    BY <1>6 DEF Cleanup
  <1>7. CASE Join \/ JoinTimeout
    BY <1>7 DEF Join, JoinTimeout
  <1>8. QED
    BY <1>1, <1>2, <1>3, <1>4, <1>5, <1>6, <1>7 DEF Collector

\* Every step keeps the invariant.
LEMMA NextKeepsIInv == IInv /\ [Next]_vars => IInv'
  BY ContextKeepsIInv, ReaderKeepsIInv, BothKeepIInv, CollectorKeepsIInv DEF Next

\* The inductive invariant holds in every state.
THEOREM SpecIInv == Spec => []IInv
  BY InitIInv, NextKeepsIInv, PTL DEF Spec
-------------------------------------------------------------------------------
\* The events returned are the first ones of the stream, and the end of the stream
\* hides neither an event nor an error.
THEOREM ObservationsAreHonest == Spec => []HonestObservation
  <1>1. IInv => HonestObservation
    BY DEF IInv, TypeOK, Accounts, Found, HonestObservation
  <1>2. QED
    BY <1>1, SpecIInv, PTL

\* A caller that has cancelled is not told of success, whichever case is taken.
THEOREM NoSuccessAfterCancel == Spec => CancelledNeverSucceeds
  <1>1. [Next]_vars => [result = "none" /\ cancelled => result' \notin Successes]_vars
    <2> SUFFICES ASSUME [Next]_vars, result = "none", cancelled
                 PROVE  result' \notin Successes
      OBVIOUS
    <2>1. CASE Cancel \/ TimerFires \/ UNCHANGED vars
      BY <2>1 DEF Cancel, TimerFires, vars, collecting, Successes
    <2>2. CASE Reader
      BY <2>2 DEF Reader, Dial, KeepBody, CheckStatus, Scan, AbandonSend, CloseFrames,
                  CloseBodies, CloseDone, collecting, Successes
    <2>3. CASE Both
      BY <2>3 DEF Both, HandOverBody, SendEvent, SendError, Stop, Successes
    <2>4. CASE Collector
      BY <2>4 DEF Collector, Lookup, OnCancelled, OnTimer, OnBodiesClosed, OnFramesClosed,
                  Cleanup, Join, JoinTimeout, Stop, Successes
    <2>5. QED
      BY <2>1, <2>2, <2>3, <2>4 DEF Next
  <1>2. QED
    BY <1>1, PTL DEF Spec, CancelledNeverSucceeds
-------------------------------------------------------------------------------
(* The wait loop. *)

\* A handler that has an answer to look at has a status to show, and what it has
\* returned is justified.
HasStatus == pc \in {"check_caller", "check_deadline", "sleep"} => latest # "none"

\* The derived context ends by the caller's, or by the clock that runs from its making.
EndsForCause ==
    /\ waitErr = "canceled" => callerDone
    /\ waitErr = "deadline" => pc # "start" /\ now >= duration

WaitIInv == OutcomeJustified /\ HasStatus /\ EndsForCause

\* At first nothing is read and nothing returned.
LEMMA WaitInitIInv == ASSUME WaitInit PROVE WaitIInv
  <1>1. now \in 0..MaxTime /\ due \in Nat
    BY WaitWorkflowAssumption DEF WaitInit
  <1>2. WaitTypeOK
    BY <1>1 DEF WaitInit, WaitTypeOK, Outcomes
  <1>3. QED
    BY <1>2 DEF WaitInit, WaitIInv, OutcomeJustified, HasStatus, EndsForCause

\* An accepted call has its waiting times within the bounds.
LEMMA WaitStartKeepsIInv ==
    ASSUME WaitIInv, Start
    PROVE  WaitIInv'
  <1> USE DEF WaitIInv, OutcomeJustified
  <1>1. /\ pc = "start" /\ duration' = Or(duration, DefaultDuration)
        /\ interval' = Or(interval, DefaultInterval)
        /\ UNCHANGED <<now, callerDone, waitErr, phase, latest, due>>
        /\ \/ pc' = "returned" /\ outcome' = "invalid_input"
           \/ /\ duration' <= MaxDuration /\ interval' <= MaxInterval
              /\ pc' = "request" /\ UNCHANGED outcome
    <2>1. duration \in 0..(MaxDuration + 1) /\ interval \in 0..(MaxInterval + 1)
      BY DEF WaitTypeOK
    <2>2. Or(duration, DefaultDuration) \in Nat /\ Or(interval, DefaultInterval) \in Nat
      BY <2>1, WaitWorkflowAssumption DEF Or
    <2>3. QED
      BY <2>2, WaitWorkflowAssumption DEF Start, Return
  <1>2. /\ duration' \in 1..(MaxDuration + 1) /\ interval' \in 1..(MaxInterval + 1)
        /\ MaxDuration \in Nat /\ MaxInterval \in Nat
    BY <1>1, WaitWorkflowAssumption DEF Or, WaitTypeOK
  <1>3. WaitTypeOK'
    BY <1>1, <1>2 DEF WaitTypeOK, Outcomes
  <1>4. HasStatus' /\ EndsForCause'
    BY <1>1 DEF HasStatus, EndsForCause
  <1>5. QED
    BY <1>1, <1>3, <1>4 DEF WaitTypeOK

\* A request is answered or fails.
LEMMA WaitRequestKeepsIInv ==
    ASSUME WaitIInv, Answered \/ Failed
    PROVE  WaitIInv'
  <1> USE DEF WaitIInv, OutcomeJustified, HasStatus, EndsForCause
  <1>1. CASE Answered
    BY <1>1 DEF Answered, WaitTypeOK, Phases, TerminalPhases, Terminal
  <1>2. CASE Failed
    BY <1>2 DEF Failed, WaitTypeOK
  <1>3. QED
    BY <1>1, <1>2

\* The checks behind a failed request and behind an answer.
LEMMA WaitCheckKeepsIInv ==
    ASSUME WaitIInv,
           \/ FailedCaller \/ FailedDeadline \/ CheckCaller
           \/ CheckDeadline \/ Sleep
    PROVE  WaitIInv'
  <1> USE DEF WaitIInv, OutcomeJustified, HasStatus, EndsForCause
  <1>1. CASE FailedCaller
    BY <1>1 DEF FailedCaller, Return, WaitTypeOK, Outcomes
  <1>2. CASE FailedDeadline
    BY <1>2 DEF FailedDeadline, Return, WaitTypeOK, Outcomes
  <1>3. CASE CheckCaller
    BY <1>3 DEF CheckCaller, Return, WaitTypeOK, Outcomes
  <1>4. CASE CheckDeadline
    <2>1. now + interval \in Nat
      BY WaitWorkflowAssumption DEF WaitTypeOK
    <2>2. QED
      BY <1>4, <2>1 DEF CheckDeadline, Return, WaitTypeOK, Outcomes
  <1>5. CASE Sleep
    BY <1>5 DEF Sleep, Return, WaitTypeOK, Outcomes
  <1>6. QED
    BY <1>1, <1>2, <1>3, <1>4, <1>5

\* The caller, the clock and the workflow take nothing back.
LEMMA WaitWorldKeepsIInv ==
    ASSUME WaitIInv,
           \/ CallerCancels \/ Tick \/ PhaseChanges \/ UNCHANGED waitVars
    PROVE  WaitIInv'
  <1> USE DEF WaitIInv, OutcomeJustified, HasStatus, EndsForCause, call
  <1>1. CASE CallerCancels
    BY <1>1 DEF CallerCancels, WaitTypeOK
  <1>2. CASE Tick
    <2>1. now' \in 0..MaxTime
      BY <1>2, WaitWorkflowAssumption DEF Tick, WaitTypeOK
    <2>2. waitErr' = waitErr \/ (waitErr = "none" /\ waitErr' = "deadline")
      BY <1>2 DEF Tick
    <2>3. QED
      BY <1>2, <2>1, <2>2 DEF Tick, WaitTypeOK
  <1>3. CASE PhaseChanges
    BY <1>3 DEF PhaseChanges, WaitTypeOK
  <1>4. CASE UNCHANGED waitVars
    BY <1>4 DEF waitVars, WaitTypeOK
  <1>5. QED
    BY <1>1, <1>2, <1>3, <1>4

\* Every step keeps the invariant.
LEMMA WaitNextKeepsIInv == ASSUME WaitIInv, [WaitNext]_waitVars PROVE WaitIInv'
  BY WaitStartKeepsIInv, WaitRequestKeepsIInv, WaitCheckKeepsIInv, WaitWorldKeepsIInv
     DEF WaitNext, Handler

\* What a result says about the workflow and the two contexts is true, and stays so.
THEOREM WaitsAreJustified == WaitSpec => []OutcomeJustified
  <1>1. WaitIInv => OutcomeJustified
    BY DEF WaitIInv
  <1>2. QED
    BY <1>1, WaitInitIInv, WaitNextKeepsIInv, PTL DEF WaitSpec

\* A failed request and the wait for the poll timer end in a timeout only by the
\* deadline, whenever the caller cancels.
THEOREM TimeoutsAreAtTheDeadline == WaitSpec => TimesOutAtDeadline
  <1> DEFINE ByDeadline == pc # "check_deadline" /\ outcome # "timed_out"
                              /\ outcome' = "timed_out" => waitErr = "deadline"
  <1>1. WaitIInv /\ [WaitNext]_waitVars => ByDeadline
    <2> SUFFICES ASSUME WaitIInv, [WaitNext]_waitVars, pc # "check_deadline",
                        outcome # "timed_out", outcome' = "timed_out"
                 PROVE  waitErr = "deadline"
      OBVIOUS
    <2>1. FailedDeadline \/ Sleep
      BY DEF WaitNext, Handler, Start, Answered, Failed, FailedCaller, CheckCaller, CheckDeadline,
             CallerCancels, Tick, PhaseChanges, Return, call, waitVars
    <2>2. CASE FailedDeadline
      BY <2>2 DEF FailedDeadline, Return
    <2>3. CASE Sleep
      <3>1. waitErr \notin {"none", "canceled"}
        BY <2>3 DEF Sleep, Return, WaitIInv, EndsForCause
      <3>2. QED
        BY <3>1 DEF WaitIInv, OutcomeJustified, WaitTypeOK
    <2>4. QED
      BY <2>1, <2>2, <2>3
  <1>2. QED
    BY <1>1, WaitInitIInv, WaitNextKeepsIInv, PTL DEF WaitSpec, TimesOutAtDeadline
===============================================================================
