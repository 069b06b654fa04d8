------------------------------ MODULE WaitWorkflow ------------------------------
(***************************************************************************)
(* WaitWorkflow of internal/service: poll a workflow until it reaches a    *)
(* terminal phase, the call's own deadline passes or the caller cancels.   *)
(*                                                                         *)
(* The caller's context, the deadline context derived from it and the      *)
(* workflow itself change at any moment, also between two checks of the    *)
(* handler, which therefore are steps of their own.                        *)
(***************************************************************************)
EXTENDS Integers

CONSTANTS
    DefaultDuration, MaxDuration,   \* 10 and 30 seconds in the code
    DefaultInterval, MaxInterval,   \* 2 and 5
    MaxTime                         \* bound on the clock

ASSUME WaitWorkflowAssumption ==
    /\ MaxDuration \in Nat \ {0} /\ DefaultDuration \in 1..MaxDuration
    /\ MaxInterval \in Nat \ {0} /\ DefaultInterval \in 1..MaxInterval
    /\ MaxTime \in Nat /\ MaxTime >= MaxDuration

VARIABLES
    now,        \* seconds since the deadline context was made
    callerDone, \* the caller's context is done
    waitErr,    \* waitCtx.Err(): none, or whichever of the two came first
    phase,      \* what Argo would answer now: a phase, or "gone"
    duration, interval,
    pc,         \* where the handler is
    latest,     \* the status last read, or "none"
    due,        \* when the running poll timer fires
    outcome

call == <<duration, interval, pc, latest, due, outcome>>
waitVars == <<now, callerDone, waitErr, phase, call>>

TerminalPhases == {"Succeeded", "Failed", "Error"}
Phases == {"Running", "gone"} \cup TerminalPhases
Terminal(p) == p \in TerminalPhases
-------------------------------------------------------------------------------
WaitInit ==
    /\ now = 0 /\ callerDone = FALSE /\ waitErr = "none"
    /\ phase \in Phases
    /\ duration \in 0..(MaxDuration + 1)
    /\ interval \in 0..(MaxInterval + 1)
    /\ pc = "start" /\ latest = "none" /\ due = 0 /\ outcome = "none"

Return(r) == pc' = "returned" /\ outcome' = r

\* Zero means the default, anything outside the range is refused.
Or(n, default) == IF n = 0 THEN default ELSE n

Start ==
    /\ pc = "start"
    /\ duration' = Or(duration, DefaultDuration)
    /\ interval' = Or(interval, DefaultInterval)
    /\ IF duration' > MaxDuration \/ interval' > MaxInterval
       THEN Return("invalid_input")
       ELSE pc' = "request" /\ UNCHANGED outcome
    /\ UNCHANGED <<now, callerDone, waitErr, phase, latest, due>>

\* Argo answers with the current phase before the context ends the request.
Answered ==
    /\ pc = "request" /\ waitErr = "none" /\ phase # "gone"
    /\ latest' = phase
    /\ pc' = "check_caller"
    /\ UNCHANGED <<now, callerDone, waitErr, phase, duration, interval, due, outcome>>

\* The request fails: not found, any other error, or the context ended it.
Failed ==
    /\ pc = "request"
    /\ pc' = "failed"
    /\ UNCHANGED <<now, callerDone, waitErr, phase, duration, interval, latest, due, outcome>>

FailedCaller ==
    /\ pc = "failed"
    /\ IF callerDone THEN Return("cancelled") ELSE pc' = "failed_deadline" /\ UNCHANGED outcome
    /\ UNCHANGED <<now, callerDone, waitErr, phase, duration, interval, latest, due>>

\* Mutant: times out without a status to show.
FailedDeadlineEmpty ==
    /\ pc = "failed_deadline"
    /\ Return(IF waitErr = "deadline" THEN "timed_out" ELSE "argo_error")
    /\ UNCHANGED <<now, callerDone, waitErr, phase, duration, interval, latest, due>>

\* Mutant: an error before the first answer is retried.
FailedDeadlineRetries ==
    /\ pc = "failed_deadline"
    /\ IF latest # "none"
       THEN Return(IF waitErr = "deadline" THEN "timed_out" ELSE "argo_error")
       ELSE pc' = "request" /\ UNCHANGED outcome
    /\ UNCHANGED <<now, callerDone, waitErr, phase, duration, interval, latest, due>>

\* Mutant: any end of the derived context is taken for the deadline.
FailedDeadlineAnyEnd ==
    /\ pc = "failed_deadline"
    /\ Return(IF waitErr # "none" /\ latest # "none" THEN "timed_out" ELSE "argo_error")
    /\ UNCHANGED <<now, callerDone, waitErr, phase, duration, interval, latest, due>>

FailedDeadline ==
    /\ pc = "failed_deadline"
    /\ Return(IF waitErr = "deadline" /\ latest # "none" THEN "timed_out" ELSE "argo_error")
    /\ UNCHANGED <<now, callerDone, waitErr, phase, duration, interval, latest, due>>

CheckCaller ==
    /\ pc = "check_caller"
    /\ IF callerDone THEN Return("cancelled") ELSE pc' = "check_deadline" /\ UNCHANGED outcome
    /\ UNCHANGED <<now, callerDone, waitErr, phase, duration, interval, latest, due>>

\* The derived context is looked at before the phase that was just read, and only
\* whether it has ended, not by what.
CheckDeadline ==
    /\ pc = "check_deadline"
    /\ IF waitErr # "none"
       THEN Return("timed_out") /\ UNCHANGED due
       ELSE IF Terminal(latest)
            THEN Return("completed") /\ UNCHANGED due
            ELSE pc' = "sleep" /\ due' = now + interval /\ UNCHANGED outcome
    /\ UNCHANGED <<now, callerDone, waitErr, phase, duration, interval, latest>>

\* The select between the two contexts and the poll timer.
Sleep ==
    /\ pc = "sleep"
    /\ \/ callerDone /\ Return("cancelled")
       \/ waitErr # "none" /\ Return(IF callerDone THEN "cancelled" ELSE "timed_out")
       \/ now >= due /\ pc' = "request" /\ UNCHANGED outcome
    /\ UNCHANGED <<now, callerDone, waitErr, phase, duration, interval, latest, due>>

\* The derived context ends with the caller's, or at the deadline.
CallerCancels ==
    /\ ~callerDone
    /\ callerDone' = TRUE
    /\ waitErr' = IF waitErr = "none" THEN "canceled" ELSE waitErr
    /\ UNCHANGED <<now, phase, call>>

Tick ==
    /\ pc # "start" /\ now < MaxTime
    /\ now' = now + 1
    /\ waitErr' = IF waitErr = "none" /\ now' >= duration THEN "deadline" ELSE waitErr
    /\ UNCHANGED <<callerDone, phase, call>>

\* A workflow ends, is retried or deleted, whatever the handler does.
PhaseChanges ==
    /\ phase' \in Phases \ {phase}
    /\ UNCHANGED <<now, callerDone, waitErr, call>>

Handler == Start \/ Answered \/ Failed \/ FailedCaller \/ FailedDeadline
           \/ CheckCaller \/ CheckDeadline \/ Sleep

WaitNext == Handler \/ CallerCancels \/ Tick \/ PhaseChanges

WaitSpec == WaitInit /\ [][WaitNext]_waitVars

\* Time passes and the handler's goroutine runs; a request may stay without an
\* answer until its context ends it.  The caller need not cancel.
WaitFairness ==
    /\ WF_waitVars(Tick)
    /\ WF_waitVars(waitErr # "none" /\ Failed)
    /\ WF_waitVars(Start \/ FailedCaller \/ FailedDeadline \/ CheckCaller \/ CheckDeadline \/ Sleep)

FairWaitSpec == WaitSpec /\ WaitFairness
-------------------------------------------------------------------------------
Outcomes == {"none", "invalid_input", "completed", "timed_out", "cancelled", "argo_error"}

\* The type of every variable.
WaitTypeOK ==
    /\ now \in 0..MaxTime
    /\ callerDone \in BOOLEAN /\ waitErr \in {"none", "canceled", "deadline"}
    /\ phase \in Phases
    /\ duration \in 0..(MaxDuration + 1) /\ interval \in 0..(MaxInterval + 1)
    /\ pc \in {"start", "request", "check_caller", "check_deadline", "failed",
               "failed_deadline", "sleep", "returned"}
    /\ latest \in {"none", "Running"} \cup TerminalPhases
    /\ due \in Nat
    /\ pc # "start" /\ outcome # "invalid_input" =>
         duration \in 1..MaxDuration /\ interval \in 1..MaxInterval
    /\ outcome \in Outcomes /\ (outcome = "none" <=> pc # "returned")

\* The variables keep their types, the waiting times of an accepted call within
\* their bounds.  What a result says about the workflow and the two contexts is true: it
\* completes only on a terminal status it has read, it times out only with a
\* status to show and, for a caller who stays, not before the duration has
\* passed, and an error is blamed on the caller only when the caller did cancel.
\* What a caller who cancels may be told is TimedOutMeansDeadline's question.
OutcomeJustified ==
    /\ WaitTypeOK
    /\ outcome = "completed" => Terminal(latest)
    /\ outcome = "timed_out" => latest # "none" /\ (callerDone \/ now >= duration)
    /\ outcome = "cancelled" => callerDone

\* Whenever the caller cancels, the wait times out only by its deadline, whether a
\* request fails or the poll timer is waited for.  The third way of timing out,
\* behind an answer (line 56 of wait.go), does not keep this: TimedOutMeansDeadline.
TimesOutAtDeadline ==
    [][pc # "check_deadline" /\ outcome # "timed_out" /\ outcome' = "timed_out"
         => waitErr = "deadline"]_waitVars

\* The wait ends, at the latest with its deadline, whatever Argo answers, also
\* when it never answers a request.
WaitEnds == <>(pc = "returned")

\* `timed_out`: "Whether the owned wait deadline expired" (design/design.go:384);
\* "Parent cancellation is always an error" (docs/design-v0.3.0.md:53).  A caller who
\* cancels between the two checks behind an answer ends the derived context, and
\* the second check, which does not ask by what it ended, reports a timeout.
TimedOutMeansDeadline == outcome = "timed_out" => waitErr = "deadline"

\* `completed`: "Whether the workflow reached a terminal phase"
\* (design/design.go:383).  WaitWorkflow looks at the deadline first, and reports
\* a workflow that has finished as a wait that timed out.
CompletedMeansTerminal ==
    ~callerDone /\ outcome \in {"completed", "timed_out"} => (outcome = "completed" <=> Terminal(latest))
===============================================================================
