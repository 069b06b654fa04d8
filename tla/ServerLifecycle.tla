---------------------------- MODULE ServerLifecycle ----------------------------
(***************************************************************************)
(* The life of one server process (internal/server) and the audit log of   *)
(* its tool calls (internal/mcpaudit): what is acquired at startup is      *)
(* released on every way out, while handlers are still running.            *)
(*                                                                         *)
(* One main goroutine starts, serves and stops; every tool call runs in a  *)
(* goroutine of its own, wrapped by the audit interceptor, which writes    *)
(* its record between the tool and the answer.  net/http and the stdio     *)
(* transport are external: a handler may run for ever.                     *)
(***************************************************************************)
EXTENDS Integers

CONSTANTS
    Calls,
    ShutdownBudget  \* 5 seconds in the code, in steps of the clock

ASSUME ServerLifecycleAssumption == ShutdownBudget \in Nat \ {0}

VARIABLES
    http,      \* HTTP, or stdio
    auditing,  \* MCP_AUDIT_ENABLED
    main,      \* where the main goroutine is
    exit,      \* what Run returns
    signal,    \* SIGINT or SIGTERM: the context is done
    telemetry, audit, \* the two resources
    serving,   \* the HTTP accept loop
    waited,    \* the time Shutdown has waited
    call,      \* per call: where its handler is
    reachable, \* the calls whose connection is open
    recorded   \* the calls with a record in the audit file

config == <<http, auditing>>
handlers == <<call, reachable, recorded>>
lifecycle == <<config, main, exit, signal, telemetry, audit, serving, waited, handlers>>

InFlight(c) == call[c] \in {"running", "executed", "recorded"}
-------------------------------------------------------------------------------
LifecycleInit ==
    /\ http \in BOOLEAN /\ auditing \in BOOLEAN
    /\ main = "start_telemetry" /\ exit = "none" /\ signal = FALSE
    /\ telemetry = "none" /\ audit = "none" /\ serving = "none" /\ waited = 0
    /\ call = [c \in Calls |-> "idle"] /\ reachable = {} /\ recorded = {}

Signal ==
    /\ ~signal /\ signal' = TRUE
    /\ UNCHANGED <<config, main, exit, telemetry, audit, serving, waited, handlers>>

\* Every way out after telemetry has started leads through Close.
Leave(result) == main' = "close_audit" /\ exit' = result

\* Without telemetry there is nothing to unwind.
StartTelemetry ==
    /\ main = "start_telemetry"
    /\ \/ telemetry' = "running" /\ main' = "configure" /\ UNCHANGED exit
       \/ main' = "exited" /\ exit' = "error" /\ UNCHANGED telemetry
    /\ UNCHANGED <<config, signal, audit, serving, waited, handlers>>

\* The Kubernetes client refuses its configuration, or the service is built.
Configure ==
    /\ main = "configure"
    /\ \/ main' = (IF auditing THEN "open_audit" ELSE "build") /\ UNCHANGED exit
       \/ Leave("error")
    /\ UNCHANGED <<config, signal, telemetry, audit, serving, waited, handlers>>

OpenAudit ==
    /\ main = "open_audit"
    /\ \/ audit' = "open" /\ main' = "build" /\ UNCHANGED exit
       \/ Leave("error") /\ UNCHANGED audit
    /\ UNCHANGED <<config, signal, telemetry, serving, waited, handlers>>

\* Mutant: a failure after the audit log was opened returns without cleanup.
BuildServerBare ==
    /\ main = "build"
    /\ \/ main' = (IF http THEN "listen" ELSE "serve") /\ UNCHANGED exit
       \/ main' = "exited" /\ exit' = "error"
    /\ UNCHANGED <<config, signal, telemetry, audit, serving, waited, handlers>>

BuildServer ==
    /\ main = "build"
    /\ \/ main' = (IF http THEN "listen" ELSE "serve") /\ UNCHANGED exit
       \/ Leave("error")
    /\ UNCHANGED <<config, signal, telemetry, audit, serving, waited, handlers>>

Listen ==
    /\ main = "listen"
    /\ \/ serving' = "accepting" /\ main' = "serve" /\ UNCHANGED exit
       \/ Leave("error") /\ UNCHANGED serving
    /\ UNCHANGED <<config, signal, telemetry, audit, waited, handlers>>

\* The stdio transport ends with its input, with an error or by the signal
\* (its context.Canceled counts as success); its session is closed.
StdioEnds ==
    /\ main = "serve" /\ ~http
    /\ \E result \in {"ok", "error"} : Leave(result)
    /\ reachable' = {}
    /\ UNCHANGED <<config, signal, telemetry, audit, serving, waited, call, recorded>>

\* Serve returns an error of its own.
ServeFails ==
    /\ serving = "accepting" /\ serving' = "failed"
    /\ UNCHANGED <<config, main, exit, signal, telemetry, audit, waited, handlers>>

OnServeError ==
    /\ main = "serve" /\ serving = "failed"
    /\ Leave("error")
    /\ UNCHANGED <<config, signal, telemetry, audit, serving, waited, handlers>>

\* Shutdown closes the listener, then waits for the connections to fall idle.
OnSignal ==
    /\ main = "serve" /\ http /\ signal
    /\ main' = "shutdown" /\ serving' = "stopped"
    /\ UNCHANGED <<config, exit, signal, telemetry, audit, waited, handlers>>

Drained ==
    /\ main = "shutdown" /\ \A c \in Calls : ~InFlight(c)
    /\ Leave("ok")
    /\ UNCHANGED <<config, signal, telemetry, audit, serving, waited, handlers>>

ShutdownWaits ==
    /\ main = "shutdown" /\ waited < ShutdownBudget
    /\ waited' = waited + 1
    /\ UNCHANGED <<config, main, exit, signal, telemetry, audit, serving, handlers>>

\* Mutant: the server stops without Close, connections and handlers stay.
GiveUp ==
    /\ main = "shutdown" /\ waited = ShutdownBudget
    /\ Leave("ok")
    /\ UNCHANGED <<config, signal, telemetry, audit, serving, waited, handlers>>

\* Mutant: the server closes its connections at once.
CloseAtOnce ==
    /\ main = "shutdown"
    /\ reachable' = {} /\ Leave("ok")
    /\ UNCHANGED <<config, signal, telemetry, audit, serving, waited, call, recorded>>

\* Mutant: Shutdown waits without a deadline.
NeverForce == FALSE

\* The budget is spent: Close cuts every connection.  The handlers run on.
ForceClose ==
    /\ main = "shutdown" /\ waited = ShutdownBudget
    /\ reachable' = {} /\ Leave("ok")
    /\ UNCHANGED <<config, signal, telemetry, audit, serving, waited, call, recorded>>

CloseAudit ==
    /\ main = "close_audit"
    /\ audit' = IF audit = "open" THEN "closed" ELSE audit
    /\ main' = "close_telemetry"
    /\ UNCHANGED <<config, exit, signal, telemetry, serving, waited, handlers>>

\* Telemetry may fail to flush; then the process ends, and every handler with it.
CloseTelemetry ==
    /\ main = "close_telemetry"
    /\ telemetry' = "shut_down" /\ main' = "exited"
    /\ exit' \in {exit, "error"}
    /\ call' = [c \in Calls |-> IF InFlight(c) THEN "cut" ELSE call[c]]
    /\ reachable' = {}
    /\ UNCHANGED <<config, signal, audit, serving, waited, recorded>>
-------------------------------------------------------------------------------
(* The tool calls. *)

\* A request comes over stdio, on a new connection or, when only the accept
\* loop has failed, on one that is still open.
Accepting ==
    main # "exited" /\ IF http THEN serving \in {"accepting", "failed"} ELSE main = "serve"

Arrive(c) ==
    /\ call[c] = "idle" /\ Accepting
    /\ call' = [call EXCEPT ![c] = "running"]
    /\ reachable' = reachable \cup {c}
    /\ UNCHANGED <<config, main, exit, signal, telemetry, audit, serving, waited, recorded>>

\* The gate in front of the handler turns a request away at once.
TurnAway(c) ==
    /\ call[c] = "idle" /\ Accepting /\ http
    /\ call' = [call EXCEPT ![c] = "refused"]
    /\ UNCHANGED <<config, main, exit, signal, telemetry, audit, serving, waited, reachable, recorded>>

Execute(c) ==
    /\ call[c] = "running"
    /\ call' = [call EXCEPT ![c] = "executed"]
    /\ UNCHANGED <<config, main, exit, signal, telemetry, audit, serving, waited, reachable, recorded>>

\* The interceptor writes the record under the log's mutex; after Close the
\* write fails and its error is dropped.
Record(c) ==
    /\ call[c] = "executed"
    /\ recorded' = IF audit = "open" THEN recorded \cup {c} ELSE recorded
    /\ call' = [call EXCEPT ![c] = "recorded"]
    /\ UNCHANGED <<config, main, exit, signal, telemetry, audit, serving, waited, reachable>>

Answer(c) ==
    /\ call[c] = "recorded"
    /\ call' = [call EXCEPT ![c] = IF c \in reachable THEN "answered" ELSE "cut"]
    /\ reachable' = reachable \ {c}
    /\ UNCHANGED <<config, main, exit, signal, telemetry, audit, serving, waited, recorded>>

HangUp(c) ==
    /\ InFlight(c) /\ c \in reachable
    /\ reachable' = reachable \ {c}
    /\ UNCHANGED <<config, main, exit, signal, telemetry, audit, serving, waited, call, recorded>>

Main == StartTelemetry \/ Configure \/ OpenAudit \/ BuildServer \/ Listen \/ OnServeError
        \/ OnSignal \/ Drained \/ ShutdownWaits \/ ForceClose \/ CloseAudit \/ CloseTelemetry

-------------------------------------------------------------------------------
LifecycleTypeOK ==
    /\ http \in BOOLEAN /\ auditing \in BOOLEAN /\ signal \in BOOLEAN
    /\ main \in {"start_telemetry", "configure", "open_audit", "build", "listen", "serve",
                 "shutdown", "close_audit", "close_telemetry", "exited"}
    /\ exit \in {"none", "ok", "error"} /\ (main = "exited" => exit # "none")
    /\ telemetry \in {"none", "running", "shut_down"}
    /\ audit \in {"none", "open", "closed"}
    /\ serving \in {"none", "accepting", "failed", "stopped"}
    /\ waited \in 0..ShutdownBudget
    /\ call \in [Calls -> {"idle", "running", "executed", "recorded", "answered", "cut", "refused"}]
    /\ reachable \subseteq {c \in Calls : InFlight(c)}
    /\ recorded \subseteq {c \in Calls : call[c] \notin {"idle", "running", "executed"}}

\* The variables keep their types, and however the process ends, from whichever
\* step of startup or serving, both resources it acquired are released; it only
\* reports success after a full start, and an HTTP server only when it was told
\* to stop ("Initialization errors must unwind resources before main exits",
\* docs/plans/issue-3-transports.md:17).
CleanExit ==
    /\ LifecycleTypeOK
    /\ main = "exited" =>
        /\ telemetry # "running" /\ audit # "open"
        /\ exit = "ok" => /\ telemetry = "shut_down"
                          /\ audit = (IF auditing THEN "closed" ELSE "none")
                          /\ http => signal

\* Over HTTP no caller gets an answer whose call is missing from the audit log,
\* also when the answer races the shutdown; only the failure of the accept
\* loop, where the log is closed while connections stay open, is exempt.
AnsweredIsRecorded ==
    http /\ auditing /\ serving # "failed" =>
        \A c \in Calls : call[c] = "answered" => c \in recorded

\* No step of the HTTP server cuts a call in flight before the shutdown budget
\* is spent, the failure of the accept loop again exempt ("allow in-flight
\* requests up to five seconds to finish before forced shutdown", README.md:338).
GraceKept ==
    [][http /\ main' # main /\ serving # "failed" /\ waited < ShutdownBudget =>
         \A c \in reachable : c \in reachable' /\ call'[c] = call[c]]_lifecycle

\* A signal ends the process, whatever its handlers do.
StopsOnSignal == signal ~> main = "exited"
===============================================================================
