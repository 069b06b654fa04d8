------------------------------- MODULE EventWatch -------------------------------
(***************************************************************************)
(* ObserveWorkflowEvents and readEventWatch of internal/argoapi: a bounded *)
(* observation of an event stream by two goroutines.                       *)
(*                                                                         *)
(* The reader opens the stream, hands the response body to the collector   *)
(* and sends it one frame at a time; the collector ends the observation at *)
(* its own timer, the event limit, the end of the stream, an error or the  *)
(* caller's cancellation, then cancels the reader and closes the body.     *)
(* Both channels are unbuffered, so a send and its receive are one step.   *)
(* A select with several ready cases takes any of them.                    *)
(***************************************************************************)
EXTENDS Integers, Sequences

CONSTANTS
    Limit,     \* the number of events that ends an observation
    MaxFrames  \* bound on the events the stream carries

ASSUME EventWatchAssumption == Limit \in Nat \ {0} /\ MaxFrames \in Nat

VARIABLES
    cancelled,    \* the caller's context is done
    watchDone,    \* the reader's context is done: cancelled with the caller's or by cancel()
    timer,        \* the collector's own timer has fired
    collector,    \* where the collector is
    result,       \* why the collector stopped
    events,       \* the events it has collected
    bodyEvents,   \* it still listens for the body
    held,         \* it has the body
    reader,       \* where the reader is
    body,         \* the response body
    framesClosed, \* close(frames) has run
    bodiesClosed, \* close(bodies) has run
    decoded,      \* history: the number of events decoded from the stream
    failed        \* history: the reader met an error while its context was live

context == <<cancelled, watchDone, timer>>
collecting == <<collector, result, events, bodyEvents, held>>
reading == <<reader, body, framesClosed, bodiesClosed, decoded, failed>>
vars == <<context, collecting, reading>>
-------------------------------------------------------------------------------
Init ==
    /\ cancelled \in BOOLEAN
    /\ watchDone = cancelled
    /\ timer = FALSE
    /\ collector = "lookup" /\ result = "none"
    /\ events = << >> /\ bodyEvents = TRUE /\ held = FALSE
    /\ reader = "unstarted" /\ body = "none"
    /\ framesClosed = FALSE /\ bodiesClosed = FALSE
    /\ decoded = 0 /\ failed = FALSE

Cancel ==
    /\ ~cancelled
    /\ cancelled' = TRUE /\ watchDone' = TRUE
    /\ UNCHANGED <<timer, collecting, reading>>

\* The timer starts with the reader, before the watch is dispatched.
TimerFires ==
    /\ reader # "unstarted" /\ ~timer
    /\ timer' = TRUE
    /\ UNCHANGED <<cancelled, watchDone, collecting, reading>>

\* The workflow is read for its UID; without one there is nothing to watch.
Lookup ==
    /\ collector = "lookup"
    /\ \/ collector' = "select" /\ reader' = "dial" /\ UNCHANGED result
       \/ collector' = "returned" /\ result' = "lookup_failed" /\ UNCHANGED reader
    /\ UNCHANGED <<context, events, bodyEvents, held, body, framesClosed, bodiesClosed,
                   decoded, failed>>
-------------------------------------------------------------------------------
(* The reader. *)

\* Mutant: a failing reader just leaves.
LeaveSilently == reader' = "close_frames" /\ failed' = (failed \/ ~watchDone)

\* It fails: the error is sent only when its own context is still live.
ReportOrLeave ==
    /\ reader' = IF watchDone THEN "close_frames" ELSE "send_error"
    /\ failed' = (failed \/ ~watchDone)

Dial ==
    /\ reader = "dial"
    /\ \/ /\ ~watchDone
          /\ reader' = "hand_over" /\ body' = "open" /\ UNCHANGED failed
       \/ ReportOrLeave /\ UNCHANGED body
    /\ UNCHANGED <<context, collecting, framesClosed, bodiesClosed, decoded>>

\* Mutant: a body nobody takes is dropped.
DropBody ==
    /\ reader = "hand_over" /\ watchDone
    /\ reader' = "close_frames"
    /\ UNCHANGED <<context, collecting, body, framesClosed, bodiesClosed, decoded, failed>>

\* Nobody takes the body any more: the reader closes it itself.
KeepBody ==
    /\ reader = "hand_over" /\ watchDone
    /\ body' = "closed"
    /\ reader' = "close_frames"
    /\ UNCHANGED <<context, collecting, framesClosed, bodiesClosed, decoded, failed>>

\* An error status is reported; otherwise scanning starts.
CheckStatus ==
    /\ reader = "status"
    /\ \/ reader' = "scan"
       \/ reader' = "send_error"
    /\ failed' = (failed \/ reader' = "send_error")
    /\ UNCHANGED <<context, collecting, body, framesClosed, bodiesClosed, decoded>>

\* The next line is an event; or it is malformed or too long; or the stream
\* ends, or the read fails (at the latest when the body is closed).
Scan ==
    /\ reader = "scan"
    /\ \/ /\ decoded < MaxFrames
          /\ decoded' = decoded + 1
          /\ reader' = "send" /\ UNCHANGED failed
       \/ reader' = "send_error" /\ failed' = TRUE /\ UNCHANGED decoded
       \/ reader' = "close_frames" /\ UNCHANGED <<failed, decoded>>
       \/ ReportOrLeave /\ UNCHANGED decoded
    /\ UNCHANGED <<context, collecting, body, framesClosed, bodiesClosed>>

\* A blocked send is abandoned when the reader's context is done.
AbandonSend ==
    /\ reader \in {"send", "send_error"} /\ watchDone
    /\ reader' = "close_frames"
    /\ UNCHANGED <<context, collecting, body, framesClosed, bodiesClosed, decoded, failed>>

\* The deferred closes, last deferred first.
CloseFrames ==
    /\ reader = "close_frames"
    /\ framesClosed' = TRUE /\ reader' = "close_bodies"
    /\ UNCHANGED <<context, collecting, body, bodiesClosed, decoded, failed>>

CloseBodies ==
    /\ reader = "close_bodies"
    /\ bodiesClosed' = TRUE /\ reader' = "close_done"
    /\ UNCHANGED <<context, collecting, body, framesClosed, decoded, failed>>

CloseDone ==
    /\ reader = "close_done"
    /\ reader' = "done"
    /\ UNCHANGED <<context, collecting, body, framesClosed, bodiesClosed, decoded, failed>>
-------------------------------------------------------------------------------
(* The two of them. *)

HandOverBody ==
    /\ reader = "hand_over" /\ collector = "select" /\ bodyEvents
    /\ held' = TRUE /\ bodyEvents' = FALSE
    /\ reader' = "status"
    /\ UNCHANGED <<context, collector, result, events, body, framesClosed, bodiesClosed,
                   decoded, failed>>

Stop(why) == collector' = "cleanup" /\ result' = why

SendEvent ==
    /\ reader = "send" /\ collector = "select"
    /\ events' = Append(events, decoded)
    /\ reader' = "scan"
    /\ IF Len(events') = Limit
       THEN Stop(IF cancelled THEN "cancelled" ELSE "limit")
       ELSE UNCHANGED <<collector, result>>
    /\ UNCHANGED <<context, bodyEvents, held, body, framesClosed, bodiesClosed, decoded, failed>>

SendError ==
    /\ reader = "send_error" /\ collector = "select"
    /\ reader' = "close_frames"
    /\ Stop("stream_error")
    /\ UNCHANGED <<context, events, bodyEvents, held, body, framesClosed, bodiesClosed,
                   decoded, failed>>
-------------------------------------------------------------------------------
(* The collector. *)

OnCancelled ==
    /\ collector = "select" /\ cancelled
    /\ Stop("cancelled")
    /\ UNCHANGED <<context, events, bodyEvents, held, reading>>

\* Mutant: the timer's case does not look at the caller's context.
OnTimerUnchecked ==
    /\ collector = "select" /\ timer
    /\ Stop("window")
    /\ UNCHANGED <<context, events, bodyEvents, held, reading>>

OnTimer ==
    /\ collector = "select" /\ timer
    /\ Stop(IF cancelled THEN "cancelled" ELSE "window")
    /\ UNCHANGED <<context, events, bodyEvents, held, reading>>

OnBodiesClosed ==
    /\ collector = "select" /\ bodyEvents /\ bodiesClosed
    /\ bodyEvents' = FALSE
    /\ UNCHANGED <<context, collector, result, events, held, reading>>

OnFramesClosed ==
    /\ collector = "select" /\ framesClosed
    /\ Stop(IF cancelled THEN "cancelled" ELSE "end_of_stream")
    /\ UNCHANGED <<context, events, bodyEvents, held, reading>>

Cleanup ==
    /\ collector = "cleanup"
    /\ watchDone' = TRUE
    /\ IF held
       THEN body' = "closed" /\ collector' = "join"
       ELSE UNCHANGED body /\ collector' = "returned"
    /\ UNCHANGED <<cancelled, timer, result, events, bodyEvents, held, reader, framesClosed,
                   bodiesClosed, decoded, failed>>

Join ==
    /\ collector = "join" /\ reader = "done"
    /\ collector' = "returned"
    /\ UNCHANGED <<context, result, events, bodyEvents, held, reading>>

\* A second passes first: the call fails, whatever it had collected.
JoinTimeout ==
    /\ collector = "join"
    /\ collector' = "returned"
    /\ result' = "reader_stuck"
    /\ UNCHANGED <<context, events, bodyEvents, held, reading>>

Reader == Dial \/ KeepBody \/ CheckStatus \/ Scan \/ AbandonSend
          \/ CloseFrames \/ CloseBodies \/ CloseDone
Both == HandOverBody \/ SendEvent \/ SendError
Collector == Lookup \/ OnCancelled \/ OnTimer \/ OnBodiesClosed \/ OnFramesClosed
             \/ Cleanup \/ Join \/ JoinTimeout

Next == Cancel \/ TimerFires \/ Reader \/ Both \/ Collector

Spec == Init /\ [][Next]_vars

\* The scheduler runs both goroutines and the timer.  A read of an open body
\* may block as long as it likes: only a cancelled dial and a read of a closed
\* body, which net/http aborts, must make progress.  The caller need not cancel.
Fairness ==
    /\ WF_vars(TimerFires)
    /\ WF_vars(Collector)
    /\ WF_vars(watchDone /\ Dial)
    /\ WF_vars((body = "closed" \/ watchDone) /\ Scan)
    /\ WF_vars(KeepBody \/ CheckStatus \/ AbandonSend \/ CloseFrames \/ CloseBodies \/ CloseDone)

FairSpec == Spec /\ Fairness
-------------------------------------------------------------------------------
Results == {"none", "lookup_failed", "limit", "window", "end_of_stream", "cancelled",
            "stream_error", "reader_stuck"}
Successes == {"limit", "window", "end_of_stream"}

\* The type of every variable.
TypeOK ==
    /\ cancelled \in BOOLEAN /\ watchDone \in BOOLEAN /\ timer \in BOOLEAN
    /\ collector \in {"lookup", "select", "cleanup", "join", "returned"}
    /\ result \in Results
    /\ events \in Seq(Nat)
    /\ bodyEvents \in BOOLEAN /\ held \in BOOLEAN
    /\ reader \in {"unstarted", "dial", "hand_over", "status", "scan", "send", "send_error",
                   "close_frames", "close_bodies", "close_done", "done"}
    /\ body \in {"none", "open", "closed"} /\ (held => body # "none")
    /\ framesClosed \in BOOLEAN /\ bodiesClosed \in BOOLEAN
    /\ decoded \in Nat /\ failed \in BOOLEAN

\* The variables keep their types, and the collector holds no body that never
\* arrived.  The events returned are the first ones of the stream, in its order, never
\* more than the limit; a stream that ended by itself lost none of them and
\* hid no error: a failing reader cannot pass for one that reached the end.
HonestObservation ==
    /\ TypeOK
    /\ Len(events) <= Limit
    /\ \A i \in DOMAIN events : events[i] = i
    /\ result = "limit" => Len(events) = Limit
    /\ result = "end_of_stream" => Len(events) = decoded /\ ~failed

\* A caller that has already cancelled is never told of success, whichever of
\* the ready cases the select happens to take.
CancelledNeverSucceeds ==
    [][result = "none" /\ cancelled => result' \notin Successes]_vars

\* Every observation ends, and then the reader ends and no response body stays
\* open, even when the timer fires between the response and its hand-over and
\* nobody waits for the reader ("Always close the body",
\* docs/plans/issue-2-expanded-tools.md:51).
EverythingStops ==
    <>[](collector = "returned" /\ reader \in {"unstarted", "done"} /\ body # "open")
===============================================================================
