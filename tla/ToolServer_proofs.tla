--------------------------- MODULE ToolServer_proofs ---------------------------
(***************************************************************************)
(* Proofs about the server, for any number of calls, every configuration,  *)
(* request and answer, and handlers that may run for ever.                 *)
(*                                                                         *)
(* Each step of ToolServer is, for the variables of ServerLifecycle, one   *)
(* of its actions, a call that is made again, or a stutter (LifeStep); the *)
(* invariant of the life of the process is shown for those.                *)
(*                                                                         *)
(* Six invariants carry the results, each shown with those before it:      *)
(*   LifeInv    what the process holds, and the calls it has in flight;    *)
(*   Told       an outcome is well formed, and the record is about it;     *)
(*   Admitted   a server that listens was let start, its calls let in;     *)
(*   Answered   an outcome keeps to the policy and to what was asked;      *)
(*   Hinted     a call's hints and its missing fields are no more than the *)
(*              required fields, and a hint is about its request;          *)
(*   Secretive  secrets are given only where they are redacted.            *)
(* The last three rest on what every tool's schema, example and handler    *)
(* are (the sections on the catalog, the schemas and the handlers).        *)
(***************************************************************************)
EXTENDS ToolServer, FiniteSetTheorems, WellFoundedInduction, TLAPS

\* A caller makes its call again.
Again(c) ==
    /\ call[c] = "answered" /\ Accepting
    /\ call' = [call EXCEPT ![c] = "running"]
    /\ reachable' = reachable \cup {c}
    /\ recorded' = recorded \ {c}
    /\ UNCHANGED <<config, main, exit, signal, telemetry, audit, serving, waited>>

\* The configuration is refused before anything is acquired.
Refused ==
    /\ main = "start_telemetry" /\ main' = "exited" /\ exit' = "error"
    /\ UNCHANGED <<config, signal, telemetry, audit, serving, waited, handlers>>

CallStep(c) == Arrive(c) \/ TurnAway(c) \/ Execute(c) \/ Record(c) \/ Answer(c) \/ HangUp(c) \/ Again(c)

LifeStep ==
    \/ Main \/ StdioEnds \/ ServeFails \/ Signal \/ Refused
    \/ \E c \in Calls : CallStep(c)
    \/ UNCHANGED lifecycle

LEMMA NextIsLifeStep == [Next]_vars => LifeStep
  <1> SUFFICES ASSUME [Next]_vars PROVE LifeStep
    OBVIOUS
  <1> USE DEF LifeStep
  <1>1. CASE RefuseStart
    BY <1>1 DEF RefuseStart, Refused
  <1>2. CASE Live(Main) \/ Live(StdioEnds) \/ Live(ServeFails) \/ Live(Signal)
    BY <1>2 DEF Live
  <1>3. ASSUME NEW c \in Calls, Live(HangUp(c))
        PROVE  LifeStep
    BY <1>3 DEF Live, CallStep
  <1>4. ASSUME NEW c \in Calls, \E r \in Requests[deployment.callers] : Receive(c, r)
        PROVE  LifeStep
    BY <1>4 DEF Receive, CallStep
  <1>5. ASSUME NEW c \in Calls, RefuseInput(c) \/ Read(c) \/ GetServerContext(c) \/ Mutate(c)
        PROVE  LifeStep
    <2>1. Execute(c)
      BY <1>5 DEF RefuseInput, Read, GetServerContext, Mutate, Conclude
    <2>2. QED
      BY <2>1 DEF CallStep
  <1>6. ASSUME NEW c \in Calls, WriteRecord(c) \/ Reply(c)
        PROVE  LifeStep
    BY <1>6 DEF WriteRecord, Reply, CallStep
  <1>7. ASSUME NEW c \in Calls, FollowHint(c)
        PROVE  LifeStep
    BY <1>7 DEF FollowHint, Again, CallStep
  <1>8. CASE UNCHANGED vars
    BY <1>8 DEF vars
  <1>9. QED
    BY <1>1, <1>2, <1>3, <1>4, <1>5, <1>6, <1>7, <1>8 DEF Next
-------------------------------------------------------------------------------
(* The life of the process. *)

Stopping == {"close_audit", "close_telemetry", "exited"}

\* What is acquired where, and what is released.
Resources ==
    /\ (exit = "none") <=> (main \notin Stopping)
    /\ main = "start_telemetry" => telemetry = "none" /\ audit = "none"
    /\ main \notin {"start_telemetry", "exited"} => telemetry = "running"
    /\ main \in {"configure", "open_audit"} => audit = "none"
    /\ main = "open_audit" => auditing
    /\ main \in {"build", "listen", "serve", "shutdown"} =>
        audit = (IF auditing THEN "open" ELSE "none")
    /\ main = "close_audit" /\ exit = "ok" => audit = (IF auditing THEN "open" ELSE "none")
    /\ main = "close_telemetry" => audit # "open"
    /\ main \in {"close_telemetry", "exited"} /\ exit = "ok" =>
        audit = (IF auditing THEN "closed" ELSE "none")
    /\ main = "exited" => telemetry # "running" /\ audit # "open"
    /\ main = "exited" /\ exit = "ok" => telemetry = "shut_down"
    /\ (main = "shutdown" \/ exit = "ok") => (http => signal)

\* Where the listener is, and when it has no calls in flight any more.
Listening ==
    /\ main = "listen" => http
    /\ main = "shutdown" => http
    /\ serving # "none" => http
    /\ serving = "accepting" => main = "serve"
    /\ serving = "failed" => main \in {"serve"} \cup Stopping
    /\ serving = "stopped" => main \in {"shutdown"} \cup Stopping
    /\ main = "serve" /\ http => serving \in {"accepting", "failed"}
    /\ main = "shutdown" => serving = "stopped"
    /\ http /\ serving = "none" => reachable = {} /\ \A c \in Calls : call[c] = "idle"
    /\ serving = "stopped" /\ main # "shutdown" => reachable = {}

\* The log is still kept: the accept loop has not ended the process.
Kept == http /\ auditing /\ ~(serving = "failed" /\ main # "serve")

Recorded ==
    Kept => \A c \in Calls :
        (call[c] = "recorded" /\ c \in reachable) \/ call[c] = "answered" => c \in recorded

LifeInv == LifecycleTypeOK /\ Resources /\ Listening /\ Recorded

LEMMA LifeInit == LifecycleInit => LifeInv
  <1> SUFFICES ASSUME LifecycleInit PROVE LifeInv
    OBVIOUS
  <1>1. LifecycleTypeOK
    <2>1. waited \in 0..ShutdownBudget
      BY ServerLifecycleAssumption DEF LifecycleInit
    <2>2. QED
      BY <2>1 DEF LifecycleInit, LifecycleTypeOK, InFlight
  <1>2. Resources /\ Listening /\ Recorded
    BY DEF LifecycleInit, Resources, Stopping, Listening, Recorded, Kept
  <1>3. QED
    BY <1>1, <1>2 DEF LifeInv

LEMMA LifeStepKeeps == LifeInv /\ LifeStep => LifeInv'
  <1> SUFFICES ASSUME LifeInv, LifeStep PROVE LifeInv'
    OBVIOUS
  <1> USE ServerLifecycleAssumption DEF LifeInv
  \* Startup, and the signal.
  <1>1. CASE Signal \/ StartTelemetry \/ Configure \/ OpenAudit \/ BuildServer \/ Listen \/ Refused
    <2>1. LifecycleTypeOK'
      BY <1>1 DEF LifecycleTypeOK, Signal, StartTelemetry, Configure, OpenAudit, BuildServer, Listen,
                  Refused, Leave, config, handlers, InFlight, Resources, Stopping
    <2>2. Resources'
      BY <1>1 DEF LifecycleTypeOK, Signal, StartTelemetry, Configure, OpenAudit, BuildServer, Listen,
                  Refused, Leave, config, handlers, Resources, Stopping
    <2>3. Listening'
      BY <1>1 DEF LifecycleTypeOK, Signal, StartTelemetry, Configure, OpenAudit, BuildServer, Listen,
                  Refused, Leave, config, handlers, Listening, Resources, Stopping
    <2>4. Recorded'
      BY <1>1 DEF LifecycleTypeOK, Signal, StartTelemetry, Configure, OpenAudit, BuildServer, Listen,
                  Refused, Leave, config, handlers, Recorded, Kept, Listening, Resources, Stopping
    <2>5. QED
      BY <2>1, <2>2, <2>3, <2>4
  \* Serving ends.
  <1>2. CASE StdioEnds \/ ServeFails \/ OnServeError \/ OnSignal \/ Drained \/ ShutdownWaits \/ ForceClose
    <2>1. LifecycleTypeOK'
      BY <1>2 DEF LifecycleTypeOK, StdioEnds, ServeFails, OnServeError, OnSignal, Drained,
         ShutdownWaits,
                  ForceClose, Leave, config, handlers, InFlight, Resources, Stopping
    <2>2. Resources'
      BY <1>2 DEF LifecycleTypeOK, StdioEnds, ServeFails, OnServeError, OnSignal, Drained,
         ShutdownWaits,
                  ForceClose, Leave, config, handlers, Resources, Stopping, Listening
    <2>3. Listening'
      BY <1>2 DEF LifecycleTypeOK, StdioEnds, ServeFails, OnServeError, OnSignal, Drained,
         ShutdownWaits,
                  ForceClose, Leave, config, handlers, Listening, Resources, Stopping
    <2>4. Recorded'
      BY <1>2 DEF LifecycleTypeOK, StdioEnds, ServeFails, OnServeError, OnSignal, Drained,
         ShutdownWaits,
                  ForceClose, Leave, config, handlers, Recorded, Kept, Listening
    <2>5. QED
      BY <2>1, <2>2, <2>3, <2>4
  \* What was acquired is released.
  <1>3. CASE CloseAudit
    <2>1. LifecycleTypeOK' /\ Resources' /\ Listening'
      BY <1>3 DEF LifecycleTypeOK, CloseAudit, config, handlers, InFlight, Resources, Stopping,
         Listening
    <2>2. Recorded'
      BY <1>3 DEF LifecycleTypeOK, CloseAudit, config, handlers, Recorded, Kept
    <2>3. QED
      BY <2>1, <2>2
  <1>4. CASE CloseTelemetry
    <2>1. LifecycleTypeOK'
      BY <1>4 DEF LifecycleTypeOK, CloseTelemetry, config, InFlight, Resources, Stopping
    <2>2. Resources'
      BY <1>4 DEF LifecycleTypeOK, CloseTelemetry, config, Resources, Stopping
    <2>3. Listening'
      BY <1>4 DEF LifecycleTypeOK, CloseTelemetry, config, Listening, Stopping, InFlight
    <2>4. Recorded'
      BY <1>4 DEF LifecycleTypeOK, CloseTelemetry, config, Recorded, Kept, InFlight
    <2>5. QED
      BY <2>1, <2>2, <2>3, <2>4
  \* The calls.
  <1>5. ASSUME NEW c \in Calls, CallStep(c)
        PROVE  LifeInv'
    <2> USE <1>5 DEF CallStep, config
    <2>1. LifecycleTypeOK'
      BY DEF LifecycleTypeOK, InFlight, Arrive, TurnAway, Execute, Record, Answer, HangUp, Again,
         Accepting
    <2>2. Resources'
      BY DEF Resources, Stopping, Arrive, TurnAway, Execute, Record, Answer, HangUp, Again
    <2>3. Listening'
      BY DEF LifecycleTypeOK, InFlight, Listening, Stopping, Arrive, TurnAway, Execute, Record,
         Answer, HangUp,
             Again, Accepting
    <2>4. Recorded'
      <3> SUFFICES ASSUME Kept', NEW d \in Calls,
                          ((call[d] = "recorded" /\ d \in reachable) \/ call[d] = "answered")'
                   PROVE  (d \in recorded)'
        BY DEF Recorded
      <3>1. Kept
        BY DEF Kept, Arrive, TurnAway, Execute, Record, Answer, HangUp, Again
      <3>2. CASE Record(c)
        <4>1. CASE d = c
          <5>1. main \in {"serve", "shutdown"}
            BY <3>1, <3>2, <4>1 DEF Kept, Record, Listening, LifecycleTypeOK, Stopping, InFlight
          <5>2. audit = "open"
            BY <3>1, <5>1 DEF Kept, Resources
          <5>3. QED
            BY <3>2, <4>1, <5>2 DEF Record
        <4>2. QED
          BY <3>1, <3>2, <4>1 DEF Record, Recorded, LifecycleTypeOK
      <3>3. CASE ~Record(c)
        BY <3>1, <3>3 DEF LifecycleTypeOK, Recorded, Arrive, TurnAway, Execute, Answer, HangUp, Again
      <3>4. QED
        BY <3>2, <3>3
    <2>5. QED
      BY <2>1, <2>2, <2>3, <2>4
  <1>6. CASE UNCHANGED lifecycle
    BY <1>6 DEF lifecycle, config, handlers, LifecycleTypeOK, InFlight, Resources, Stopping,
       Listening, Recorded, Kept
  <1>7. QED
    BY <1>1, <1>2, <1>3, <1>4, <1>5, <1>6 DEF LifeStep, Main

THEOREM SpecLifeInv == Spec => []LifeInv
  <1>1. Init => LifeInv
    BY LifeInit DEF Init
  <1>2. LifeInv /\ [Next]_vars => LifeInv'
    BY NextIsLifeStep, LifeStepKeeps
  <1>3. QED
    BY <1>1, <1>2, PTL DEF Spec

\* However the process ends, what it acquired is released.
THEOREM ExitsAreClean == Spec => []CleanExit
  <1>1. LifeInv => CleanExit
    BY DEF LifeInv, Resources, CleanExit
  <1>2. QED
    BY <1>1, SpecLifeInv, PTL

\* Over HTTP no caller gets an answer that is not in the audit log.
THEOREM AnswersAreRecorded == Spec => []AnsweredIsRecorded
  <1>1. LifeInv => AnsweredIsRecorded
    BY DEF LifeInv, Recorded, Kept, AnsweredIsRecorded
  <1>2. QED
    BY <1>1, SpecLifeInv, PTL

\* The shutdown cuts no call in flight before its budget is spent.
THEOREM GraceIsKept == Spec => GraceKept
  <1> DEFINE Grace == http /\ main' # main /\ serving # "failed" /\ waited < ShutdownBudget =>
                         \A c \in reachable : c \in reachable' /\ call'[c] = call[c]
  <1>1. LifeInv /\ LifeStep => Grace
    <2> SUFFICES ASSUME LifeInv, LifeStep, http, main' # main, serving # "failed", waited < ShutdownBudget
                 PROVE  \A c \in reachable : c \in reachable' /\ call'[c] = call[c]
      OBVIOUS
    <2>1. ~ForceClose
      BY ServerLifecycleAssumption DEF ForceClose, LifeInv, LifecycleTypeOK
    <2>2. CASE CloseTelemetry
      BY <2>2 DEF CloseTelemetry, LifeInv, LifecycleTypeOK, Listening
    <2>3. \A c \in Calls : ~CallStep(c)
      BY DEF CallStep, Arrive, TurnAway, Execute, Record, Answer, HangUp, Again
    <2>4. CASE UNCHANGED handlers
      BY <2>4 DEF handlers
    <2>5. CASE ~CloseTelemetry /\ ~UNCHANGED handlers
      BY <2>1, <2>3, <2>5
         DEF LifeStep, Main, StartTelemetry, Configure, OpenAudit, BuildServer, Listen, OnServeError,
             OnSignal,
             Drained, ShutdownWaits, CloseAudit, StdioEnds, ServeFails, Signal, Refused, lifecycle
    <2>6. QED
      BY <2>2, <2>4, <2>5
  <1>2. LifeInv /\ [Next]_vars => [Grace]_lifecycle
    BY <1>1, NextIsLifeStep
  <1>3. QED
    BY <1>2, SpecLifeInv, PTL DEF Spec, GraceKept
-------------------------------------------------------------------------------
(* What is on record is what the caller was told. *)

\* An error of the protocol is an error, and a write that did not fail is the "ok".
Sound(result) ==
    /\ result.protocol => result.error # "none"
    /\ result.sent = "write" /\ result.error = "none" => result.status = "ok"
    /\ result.status = "ok" => result.sent = "write"

Told ==
    /\ outcome = [c \in Calls |-> outcome[c]] /\ log = [c \in Calls |-> log[c]]
    /\ \A c \in Calls : Sound(outcome[c]) /\ (call[c] = "idle" => outcome[c] = Nowhere)
    /\ \A c \in recorded :
        /\ log[c].status = Status(outcome[c].protocol, outcome[c].error # "none")
        /\ log[c].summary = ResultSummary(outcome[c].protocol, outcome[c].status)

\* Every tool ends with a sound result.
LEMMA ToolsConclude ==
    ASSUME NEW c \in Calls, RefuseInput(c) \/ Read(c) \/ GetServerContext(c) \/ Mutate(c)
    PROVE  \E result : Sound(result) /\ Conclude(c, result)
  <1> USE DEF Sound, Failed, Nowhere
  <1>1. CASE RefuseInput(c)
    BY <1>1 DEF RefuseInput
  <1>2. CASE Read(c)
    <2> DEFINE p == Payload(Input(c), request[c].given, Omitted)
    <2>1. PICK e, a, d : \/ Conclude(c, Failed(e))
                         \/ Conclude(c, [Failed(e) EXCEPT !.sent = "read", !.asked = a, !.differs = d])
      BY <1>2 DEF Read
    <2>2. QED
      BY <2>1
  <1>3. CASE GetServerContext(c)
    <2>1. PICK e, s : s \in {"read", "nothing"} /\ Conclude(c, [Failed(e) EXCEPT !.sent = s])
      BY <1>3 DEF GetServerContext
    <2>2. QED
      BY <2>1
  <1>4. CASE Mutate(c)
    <2>1. PICK e, a : \/ Conclude(c, [Nowhere EXCEPT !.status = "denied"])
                      \/ Conclude(c, Failed(e))
                      \/ Conclude(c, [Nowhere EXCEPT !.status = "dry_run"])
                      \/ Conclude(c, [Nowhere EXCEPT !.sent = "write", !.asked = a, !.status = "ok"])
                      \/ Conclude(c, [Nowhere EXCEPT !.sent = "write", !.asked = a, !.error = "may_have_reached_argo"])
      BY <1>4 DEF Mutate
    <2>2. QED
      BY <2>1
  <1>5. QED
    BY <1>1, <1>2, <1>3, <1>4

LEMMA ToldInit == Init => Told
  BY DEF Init, LifecycleInit, Told, Sound, Nowhere

LEMMA ToldStep == LifeInv /\ Told /\ [Next]_vars => Told'
  <1> SUFFICES ASSUME LifeInv, Told, [Next]_vars PROVE Told'
    OBVIOUS
  <1> USE DEF LifeInv, LifecycleTypeOK
  \* What changes nothing of the calls, or none that is recorded.
  <1>1. CASE /\ UNCHANGED <<outcome, log, recorded>>
             /\ \A c \in Calls : call'[c] = "idle" => call[c] = "idle"
    BY <1>1 DEF Told
  <1>2. CASE RefuseStart \/ UNCHANGED vars
    BY <1>1, <1>2 DEF RefuseStart, vars, calls, lifecycle, handlers
  <1>3. CASE \/ Live(Main) \/ Live(StdioEnds) \/ Live(ServeFails) \/ Live(Signal)
             \/ \E c \in Calls : Live(HangUp(c))
    <2>1. UNCHANGED <<outcome, log, recorded>>
      BY <1>3 DEF Live, calls, Main, StartTelemetry, Configure, OpenAudit, BuildServer, Listen,
         OnServeError,
                  OnSignal, Drained, ShutdownWaits, ForceClose, CloseAudit, CloseTelemetry, StdioEnds, ServeFails,
                  Signal, HangUp, handlers
    <2>2. UNCHANGED call \/ call' = [c \in Calls |-> IF InFlight(c) THEN "cut" ELSE call[c]]
      BY <1>3 DEF Live, Main, StartTelemetry, Configure, OpenAudit, BuildServer, Listen, OnServeError,
                  OnSignal, Drained, ShutdownWaits, ForceClose, CloseAudit, CloseTelemetry, StdioEnds, ServeFails,
                  Signal, HangUp, handlers
    <2>3. QED
      BY <1>1, <2>1, <2>2
  <1>4. ASSUME NEW c \in Calls, NEW r, Receive(c, r)
        PROVE  Told'
    <2>1. call[c] = "idle" /\ outcome[c] = Nowhere
      BY <1>4 DEF Receive, TurnAway, Arrive, Told
    <2>2. UNCHANGED <<log, recorded>> /\ c \notin recorded
      BY <1>4, <2>1 DEF Receive, TurnAway, Arrive
    <2>3. \A d \in Calls : call'[d] = "idle" => call[d] = "idle" /\ d # c
      BY <1>4 DEF Receive, TurnAway, Arrive
    <2>4. PICK result : Sound(result) /\ (outcome' = outcome \/ outcome' = [outcome EXCEPT ![c] = result])
      <3>1. CASE UNCHANGED outcome
        BY <3>1 DEF Told
      <3>2. CASE outcome' = [outcome EXCEPT ![c].error = Admission(env, r)]
        <4>1. outcome' = [outcome EXCEPT ![c] = [Nowhere EXCEPT !.error = Admission(env, r)]]
          BY <2>1, <3>2
        <4>2. Sound([Nowhere EXCEPT !.error = Admission(env, r)])
          BY DEF Sound, Nowhere
        <4>3. QED
          BY <4>1, <4>2
      <3>3. QED
        BY <1>4, <3>1, <3>2 DEF Receive
    <2>5. QED
      BY <2>1, <2>2, <2>3, <2>4 DEF Told
  <1>5. ASSUME NEW c \in Calls, RefuseInput(c) \/ Read(c) \/ GetServerContext(c) \/ Mutate(c)
        PROVE  Told'
    <2>1. PICK result : Sound(result) /\ Conclude(c, result)
      BY <1>5, ToolsConclude
    <2>2. c \notin recorded
      BY <2>1 DEF Conclude, Execute
    <2>3. QED
      BY <2>1, <2>2 DEF Conclude, Execute, Told
  <1>6. ASSUME NEW c \in Calls, WriteRecord(c)
        PROVE  Told'
    BY <1>6 DEF WriteRecord, Record, Told
  <1>7. ASSUME NEW c \in Calls, Reply(c)
        PROVE  Told'
    BY <1>1, <1>7 DEF Reply, Answer, calls
  <1>8. ASSUME NEW c \in Calls, FollowHint(c)
        PROVE  Told'
    BY <1>8 DEF FollowHint, Told, Sound, Nowhere
  <1>9. QED
    BY <1>2, <1>3, <1>4, <1>5, <1>6, <1>7, <1>8 DEF Next

LEMMA SpecTold == Spec => []Told
  BY ToldInit, ToldStep, SpecLifeInv, PTL DEF Spec

\* The record of a call tells what its caller was told.
THEOREM RecordsTellOutcomes == Spec => []RecordTellsOutcome
  <1>1. LifeInv /\ Told => RecordTellsOutcome
    BY DEF LifeInv, LifecycleTypeOK, Told, Sound, RecordTellsOutcome, Status, ResultSummary, Error
  <1>2. QED
    BY <1>1, SpecTold, SpecLifeInv, PTL
-------------------------------------------------------------------------------
(* Only calls that passed the gate run. *)

LEMMA CanonicalHostIsNamed == ASSUME NEW spelled PROVE CanonicalHost(spelled) # ""
  BY DEF CanonicalHost

LEMMA SplitKeepsHost ==
    ASSUME NEW a, NEW p, SplitAuthority(a, p) # Bad
    PROVE  SplitAuthority(a, p).host = IF a.host = "" THEN "" ELSE CanonicalHost(a.host)
  BY DEF SplitAuthority

LEMMA SameHost ==
    ASSUME NEW a, NEW p, NEW b, NEW q, SplitAuthority(a, p) = SplitAuthority(b, q), SplitAuthority(a, p) # Bad
    PROVE  CanonicalHost(a.host) = CanonicalHost(b.host)
  BY SplitKeepsHost, CanonicalHostIsNamed

\* A request with its headers.
Shaped(r) ==
    /\ DOMAIN r = {"host", "origins", "authorization", "tool", "given"}
    /\ r.authorization \in Seq([scheme : STRING, token : STRING])
    /\ r.origins \in Seq([scheme : STRING, host : STRING, port : Int])

\* What OnlyAdmittedCallsRun says of one request.
Entitled(r) ==
    LET credentials == {r.authorization[i].token : i \in DOMAIN r.authorization}
    IN  /\ env.token # Unset => Len(r.authorization) = 1 /\ credentials = {env.token}
        /\ env.token = Unset => IsLoopback(Addr(env).host) \/ env.allowUnauthenticated = "true"
        /\ Len(r.origins) <= 1
        /\ CanonicalHost(r.host.host) \in
               {CanonicalHost(entry.host) : entry \in Entries(env.hosts) \cup {env.addr}}
               \cup (IF env.hosts = <<>> THEN {"localhost", "127.0.0.1", "::1"} ELSE {})

LEMMA AdmittedIsEntitled ==
    ASSUME NEW r, Shaped(r), Admission(env, r) = "admitted", ~ListenerRefused(env)
    PROVE  Entitled(r)
  <1>1. ~HostRefused(env, r) /\ ~OriginRefused(env, r) /\ ~CredentialRefused(env, r)
    BY DEF Admission
  <1>2. ASSUME env.token # Unset
        PROVE  Len(r.authorization) = 1 /\ {r.authorization[i].token : i \in DOMAIN r.authorization} = {env.token}
    <2>1. Len(r.authorization) = 1 /\ r.authorization[1].token = env.token
      BY <1>1, <1>2 DEF CredentialRefused
    <2>2. DOMAIN r.authorization = {1}
      BY <2>1 DEF Shaped
    <2>3. QED
      BY <2>1, <2>2
  <1>3. env.token = Unset => IsLoopback(Addr(env).host) \/ env.allowUnauthenticated = "true"
    BY DEF ListenerRefused
  <1>4. Len(r.origins) <= 1
    BY <1>1 DEF OriginRefused, Shaped
  <1>5. CanonicalHost(r.host.host) \in
            {CanonicalHost(entry.host) : entry \in Entries(env.hosts) \cup {env.addr}}
            \cup (IF env.hosts = <<>> THEN {"localhost", "127.0.0.1", "::1"} ELSE {})
    <2> DEFINE named == SplitAuthority(r.host, 80)
    <2>1. named \in AllowedHosts(env) /\ named # Bad
      BY <1>1 DEF HostRefused
    <2>2. CASE env.hosts # <<>>
      <3>1. PICK entry \in Entries(env.hosts) : named = SplitAuthority(entry, 0)
        BY <2>1, <2>2 DEF AllowedHosts
      <3>2. CanonicalHost(r.host.host) = CanonicalHost(entry.host)
        BY <2>1, <3>1, SameHost
      <3>3. QED
        BY <3>2
    <2>3. CASE env.hosts = <<>> /\ IsLoopback(Addr(env).host)
      <3>1. named.host \in {"localhost", "127.0.0.1", "::1"}
        BY <2>1, <2>3 DEF AllowedHosts
      <3>2. named.host = CanonicalHost(r.host.host)
        BY <2>1, <3>1, SplitKeepsHost
      <3>3. QED
        BY <2>3, <3>1, <3>2
    <2>4. CASE env.hosts = <<>> /\ ~IsLoopback(Addr(env).host)
      <3>1. named = SplitAuthority(env.addr, 0)
        BY <2>1, <2>4 DEF AllowedHosts, Addr
      <3>2. CanonicalHost(r.host.host) = CanonicalHost(env.addr.host)
        BY <2>1, <3>1, SameHost
      <3>3. QED
        BY <3>2
    <2>5. QED
      BY <2>2, <2>3, <2>4
  <1>6. QED
    BY <1>2, <1>3, <1>4, <1>5 DEF Entitled

\* A server that listens was let start, and its calls were let in.
Admitted ==
    /\ deployment \in Deployments /\ http = (env.transport # "stdio")
    /\ serving # "none" => ~StartRefused(env)
    /\ request = [c \in Calls |-> request[c]]
    /\ \A c \in Calls : http /\ call[c] \notin {"idle", "refused"} =>
        Shaped(request[c]) /\ Admission(env, request[c]) = "admitted"
    /\ \A c \in Calls : call[c] = "refused" =>
        http /\ Shaped(request[c]) /\ Admission(env, request[c]) # "admitted"

LEMMA AdmittedInit == Init => Admitted
  BY DEF Init, LifecycleInit, Admitted

LEMMA AdmittedStep == LifeInv /\ Admitted /\ [Next]_vars => Admitted'
  <1> SUFFICES ASSUME LifeInv, Admitted, [Next]_vars PROVE Admitted'
    OBVIOUS
  <1> USE DEF LifeInv, LifecycleTypeOK
  <1>1. UNCHANGED deployment /\ UNCHANGED http /\ env' = env
    <2>1. UNCHANGED http
      BY NextIsLifeStep
         DEF LifeStep, CallStep, Main, StartTelemetry, Configure, OpenAudit, BuildServer, Listen,
             OnServeError,
             OnSignal, Drained, ShutdownWaits, ForceClose, CloseAudit, CloseTelemetry, StdioEnds, ServeFails,
             Signal, Refused, Arrive, TurnAway, Execute, Record, Answer, HangUp, Again, lifecycle, config
    <2>2. UNCHANGED deployment
      BY DEF Next, RefuseStart, Live, Receive, RefuseInput, Read, GetServerContext, Mutate, Conclude,
         WriteRecord,
             Reply, FollowHint, vars
    <2>3. QED
      BY <2>1, <2>2 DEF env
  <1>2. (serving # "none" => ~StartRefused(env))'
    <2>1. CASE Live(Main) \/ Live(ServeFails)
      BY <1>1, <2>1 DEF Live
    <2>2. CASE ~(Live(Main) \/ Live(ServeFails))
      <3>1. UNCHANGED serving
        BY <2>2
           DEF Next, RefuseStart, Live, StdioEnds, Signal, HangUp, Receive, RefuseInput, Read,
               GetServerContext,
               Mutate, Conclude, WriteRecord, Reply, FollowHint, Arrive, TurnAway, Execute, Record, Answer,
               vars, lifecycle
      <3>2. QED
        BY <1>1, <3>1 DEF Admitted
    <2>3. QED
      BY <2>1, <2>2
  \* A call that runs came in through Receive.
  <1>3. CASE /\ UNCHANGED request
             /\ \A c \in Calls : call'[c] \notin {"idle", "refused"} => call[c] \notin {"idle", "refused"}
             /\ \A c \in Calls : call'[c] = "refused" => call[c] = "refused"
    BY <1>1, <1>2, <1>3 DEF Admitted
  <1>4. ASSUME NEW c \in Calls, NEW r \in Requests[deployment.callers], Receive(c, r)
        PROVE  Admitted'
    <2>1. request' = [request EXCEPT ![c] = r]
      BY <1>4 DEF Receive
    <2>2. Shaped(r)
      BY <1>4, ToolServerAssumption DEF Admitted, Shaped
    <2>3. IF call'[c] = "refused" THEN http /\ Admission(env, r) # "admitted"
          ELSE http => Admission(env, r) = "admitted"
      BY <1>4 DEF Receive, TurnAway, Arrive
    <2>4. \A d \in Calls \ {c} : call'[d] = call[d]
      BY <1>4 DEF Receive, TurnAway, Arrive
    <2>5. QED
      BY <1>1, <1>2, <2>1, <2>2, <2>3, <2>4 DEF Admitted
  <1>5. ASSUME NEW c \in Calls, FollowHint(c)
        PROVE  Admitted'
    <2>1. PICK given : request' = [request EXCEPT ![c] = [request[c] EXCEPT !.given = given]]
      BY <1>5 DEF FollowHint, Admitted
    <2>2. call' = [call EXCEPT ![c] = "running"] /\ call[c] = "answered"
      BY <1>5 DEF FollowHint
    <2>3. http => Shaped(request[c]) /\ Admission(env, request[c]) = "admitted"
      BY <2>2 DEF Admitted
    <2>4. http => Shaped(request'[c]) /\ Admission(env, request'[c]) = "admitted"
      BY <2>1, <2>3 DEF Admitted, Shaped, Admission, HostRefused, OriginRefused, DirectOrigin,
         CredentialRefused
    <2>5. QED
      BY <1>1, <1>2, <2>1, <2>2, <2>4 DEF Admitted
  <1>6. CASE RefuseStart \/ UNCHANGED vars \/ Live(StdioEnds) \/ Live(ServeFails) \/ Live(Signal) \/ Live(Main)
    <2>1. UNCHANGED request
      BY <1>6 DEF RefuseStart, Live, vars, calls
    <2>2. UNCHANGED call \/ call' = [c \in Calls |-> IF InFlight(c) THEN "cut" ELSE call[c]]
      BY <1>6 DEF RefuseStart, Live, Main, StartTelemetry, Configure, OpenAudit, BuildServer, Listen,
         OnServeError,
                  OnSignal, Drained, ShutdownWaits, ForceClose, CloseAudit, CloseTelemetry, StdioEnds, ServeFails,
                  Signal, handlers, vars, lifecycle
    <2>3. QED
      BY <1>3, <2>1, <2>2 DEF InFlight
  <1>7. ASSUME NEW c \in Calls, \/ Live(HangUp(c)) \/ WriteRecord(c) \/ Reply(c)
                                \/ RefuseInput(c) \/ Read(c) \/ GetServerContext(c) \/ Mutate(c)
        PROVE  Admitted'
    <2>1. UNCHANGED request
      BY <1>7 DEF Live, calls, WriteRecord, Reply, RefuseInput, Read, GetServerContext, Mutate, Conclude
    <2>2. HangUp(c) \/ Record(c) \/ Answer(c) \/ Execute(c)
      BY <1>7 DEF Live, WriteRecord, Reply, RefuseInput, Read, GetServerContext, Mutate, Conclude
    <2>3. QED
      BY <1>3, <2>1, <2>2 DEF HangUp, Record, Answer, Execute
  <1>8. QED
    BY <1>4, <1>5, <1>6, <1>7 DEF Next

LEMMA SpecAdmitted == Spec => []Admitted
  BY AdmittedInit, AdmittedStep, SpecLifeInv, PTL DEF Spec

\* No tool runs for a request that the gate does not let in.
THEOREM OnlyAdmittedRun == Spec => []OnlyAdmittedCallsRun
  <1>1. LifeInv /\ Admitted => OnlyAdmittedCallsRun
    <2> SUFFICES ASSUME LifeInv, Admitted, NEW c \in Calls, http, call[c] \notin {"idle", "refused"}
                 PROVE  Entitled(request[c])
      BY DEF OnlyAdmittedCallsRun, Entitled
    <2>1. serving # "none"
      BY DEF LifeInv, Listening
    <2>2. ~ListenerRefused(env)
      BY <2>1 DEF Admitted, StartRefused
    <2>3. QED
      BY <2>2, AdmittedIsEntitled DEF Admitted
  <1>2. QED
    BY <1>1, SpecAdmitted, SpecLifeInv, PTL

\* What OwnClientsAdmitted says of a client the server must let in.
Names(r, entry) ==
    /\ CanonicalHost(r.host.host) = CanonicalHost(entry.host) /\ CanonicalHost(r.host.host) # "bad"
    /\ (IF r.host.port = NoPort THEN 80 ELSE r.host.port) = entry.port

Own(r) ==
    /\ IF env.hosts # <<>> THEN \E entry \in Entries(env.hosts) : Names(r, entry) ELSE Names(r, env.addr)
    /\ r.origins = <<>> \/ r.origins =
           <<[scheme |-> "http", host |-> r.host.host, port |-> r.host.port]>>
    /\ env.token = Unset \/ r.authorization = <<[scheme |-> "Bearer", token |-> env.token]>>

\* Two authorities with the same well-formed host and the same port are split alike.
LEMMA SplitAlike ==
    ASSUME NEW a, NEW p, NEW b, NEW q,
           CanonicalHost(a.host) = CanonicalHost(b.host), CanonicalHost(a.host) # "bad",
           (IF a.port = NoPort THEN p ELSE a.port) = (IF b.port = NoPort THEN q ELSE b.port),
           SplitAuthority(b, q) # Bad
    PROVE  SplitAuthority(a, p) = SplitAuthority(b, q)
  <1>1. a.host # "" /\ b.host # ""
    BY DEF CanonicalHost
  <1>2. a # NoAuthority /\ b # NoAuthority
    <2>1. NoAuthority.host = ""
      BY DEF NoAuthority
    <2>2. QED
      BY <1>1, <2>1
  <1> DEFINE split(authority, default) ==
          LET port == IF authority.port = NoPort THEN default ELSE authority.port
          IN  IF CanonicalHost(authority.host) = "bad" \/ ~ValidPort(port)
              THEN Bad ELSE [host |-> CanonicalHost(authority.host), port |-> port]
  <1>3. SplitAuthority(a, p) = split(a, p) /\ SplitAuthority(b, q) = split(b, q)
    BY <1>1, <1>2 DEF SplitAuthority
  <1>4. split(a, p) = split(b, q)
    OBVIOUS
  <1>5. QED
    BY <1>3, <1>4

LEMMA SplitNeedsPort ==
    ASSUME NEW a, SplitAuthority(a, 0) # Bad
    PROVE  a.port # NoPort
  <1>1. ~ValidPort(0)
    BY DEF ValidPort
  <1>2. a.port = NoPort => SplitAuthority(a, 0) = Bad
    BY <1>1 DEF SplitAuthority
  <1>3. QED
    BY <1>2

LEMMA OwnIsAdmitted ==
    ASSUME NEW r, Own(r), ~ListenerRefused(env)
    PROVE  Admission(env, r) = "admitted"
  <1> DEFINE named == SplitAuthority(r.host, 80)
             name  == CanonicalHost(r.host.host)
             port  == IF r.host.port = NoPort THEN 80 ELSE r.host.port
  <1>1. named \in AllowedHosts(env) /\ named # Bad
    <2>1. CASE env.hosts # <<>>
      <3>1. PICK entry \in Entries(env.hosts) : Names(r, entry)
        BY <2>1 DEF Own
      <3>2. SplitAuthority(entry, 0) \in AllowedHosts(env) /\ SplitAuthority(entry, 0) # Bad
        <4>1. SplitAuthority(entry, 0) \in AllowedHosts(env)
          BY <2>1, <3>1 DEF AllowedHosts
        <4>2. Bad \notin AllowedHosts(env)
          BY DEF ListenerRefused
        <4>3. QED
          BY <4>1, <4>2
      <3>3. entry.port # NoPort
        BY <3>2, SplitNeedsPort
      <3>4. named = SplitAuthority(entry, 0)
        BY <3>1, <3>2, <3>3, SplitAlike DEF Names
      <3>5. QED
        BY <3>2, <3>4
    <2>2. CASE env.hosts = <<>>
      <3>1. Names(r, env.addr)
        BY <2>2 DEF Own
      <3>2. Addr(env) # Bad
        BY DEF ListenerRefused
      <3>3. env.addr.port # NoPort
        BY <3>2, SplitNeedsPort DEF Addr
      <3>4. named = Addr(env)
        BY <3>1, <3>2, <3>3, SplitAlike DEF Addr, Names
      <3>5. named = [host |-> named.host, port |-> named.port]
        BY <3>2, <3>4 DEF SplitAuthority
      <3>6. named \in AllowedHosts(env)
        BY <2>2, <3>4, <3>5 DEF AllowedHosts, IsLoopback
      <3>7. QED
        BY <3>2, <3>4, <3>6
    <2>3. QED
      BY <2>1, <2>2
  <1>2. ~HostRefused(env, r)
    BY <1>1 DEF HostRefused
  <1>3. ~OriginRefused(env, r)
    <2>1. CASE r.origins = <<>>
      BY <2>1 DEF OriginRefused
    <2>2. CASE r.origins = <<[scheme |-> "http", host |-> r.host.host, port |-> r.host.port]>>
      <3>1. Len(r.origins) = 1
            /\ r.origins[1] = [scheme |-> "http", host |-> r.host.host, port |-> r.host.port]
        BY <2>2
      <3>2. named = [host |-> name, port |-> port] /\ name # "bad" /\ ValidPort(port)
        <4>1. name # "bad"
          BY DEF Own, Names
        <4>2. r.host.host # ""
          BY <4>1 DEF CanonicalHost
        <4>3. QED
          BY <1>1, <4>1, <4>2 DEF SplitAuthority
      <3>3. CanonicalOrigin(r.origins[1]) = [scheme |-> "http", host |-> name, port |-> port]
        BY <3>1, <3>2 DEF CanonicalOrigin
      <3>4. DirectOrigin(r) = [scheme |-> "http", host |-> name, port |-> port]
        BY <3>2 DEF DirectOrigin
      <3>5. [scheme |-> "http", host |-> name, port |-> port] # Bad
        BY <3>2 DEF Bad
      <3>6. QED
        BY <3>1, <3>3, <3>4, <3>5 DEF OriginRefused
    <2>3. QED
      BY <2>1, <2>2 DEF Own
  <1>4. ~CredentialRefused(env, r)
    <2>1. CASE env.token = Unset
      BY <2>1 DEF CredentialRefused
    <2>2. CASE r.authorization = <<[scheme |-> "Bearer", token |-> env.token]>>
      <3>1. Len(r.authorization) = 1 /\ r.authorization[1].scheme = "Bearer"
            /\ r.authorization[1].token = env.token
        BY <2>2
      <3>2. QED
        BY <3>1 DEF CredentialRefused
    <2>3. QED
      BY <2>1, <2>2 DEF Own
  <1>5. QED
    BY <1>2, <1>3, <1>4 DEF Admission

\* A client that names the server as its owner configured it is never turned away.
THEOREM OwnClientsEnter == Spec => []OwnClientsAdmitted
  <1>1. LifeInv /\ Admitted => OwnClientsAdmitted
    <2> SUFFICES ASSUME LifeInv, Admitted, NEW c \in Calls, call[c] = "refused"
                 PROVE  ~Own(request[c])
      BY DEF OwnClientsAdmitted, Own, Names
    <2>1. http /\ Admission(env, request[c]) # "admitted"
      BY DEF Admitted
    <2>2. serving # "none"
      BY <2>1 DEF LifeInv, Listening
    <2>3. ~ListenerRefused(env)
      BY <2>1, <2>2 DEF Admitted, StartRefused
    <2>4. QED
      BY <2>1, <2>3, OwnIsAdmitted
  <1>2. QED
    BY <1>1, SpecAdmitted, SpecLifeInv, PTL

-------------------------------------------------------------------------------
(* A handler is a sequence of checks, and the first that holds ends it. That   *)
(* there is a first one is the induction here: the naturals are well-founded.  *)

LEMMA LeastIndex ==
    ASSUME NEW n \in Nat, NEW T, T \subseteq 1..n, T # {}
    PROVE  \E i \in T : \A j \in 1..(i - 1) : j \notin T
  <1>1. T \subseteq Nat
    OBVIOUS
  <1>2. PICK i \in T : \A j \in T : ~(<<j, i>> \in OpToRel(<, Nat))
    BY <1>1, NatLessThanWellFounded, WFMin
  <1>3. \A j \in T : ~(j < i)
    BY <1>1, <1>2 DEF OpToRel
  <1>4. QED
    BY <1>1, <1>3

\* The first of a handler's checks that holds ends it.
LEMMA FirstOfChecks ==
    ASSUME NEW n \in Nat, NEW checks, DOMAIN checks = 1..n
    PROVE  \/ FirstRefusal(checks) = "none" /\ \A i \in 1..n : ~checks[i][2]
           \/ \E i \in 1..n : checks[i][2] /\ FirstRefusal(checks) = checks[i][1]
  <1>1. CASE \A i \in 1..n : ~checks[i][2]
    BY <1>1 DEF FirstRefusal
  <1>2. CASE \E i \in 1..n : checks[i][2]
    <2> DEFINE T == {i \in 1..n : checks[i][2]}
               P(i) == checks[i][2] /\ \A j \in 1..(i - 1) : ~checks[j][2]
    <2>1. PICK i \in T : \A j \in 1..(i - 1) : j \notin T
      BY <1>2, LeastIndex
    <2>2. P(i) /\ i \in DOMAIN checks
      BY <2>1
    <2>3. PICK k \in DOMAIN checks : P(k) /\ FirstRefusal(checks) = checks[k][1]
      BY <2>2 DEF FirstRefusal
    <2>4. QED
      BY <2>3
  <1>3. QED
    BY <1>1, <1>2

-------------------------------------------------------------------------------
(* The catalog, group by group: the schema of each tool.                       *)

LEMMA GroupDomains ==
    /\ DOMAIN WorkflowTools = {"list_workflows", "get_workflow", "get_workflow_logs",
                                 "terminate_workflow", "retry_workflow"}
    /\ DOMAIN CronTools = {"list_cron_workflows", "get_cron_workflow", "get_cron_history",
                             "toggle_cron_suspension"}
    /\ DOMAIN TemplateTools = {"list_workflow_templates", "get_workflow_template",
                                 "list_cluster_workflow_templates", "get_cluster_workflow_template"}
    /\ DOMAIN InspectionTools = {"get_workflow_nodes", "get_workflow_events",
                                   "list_archived_workflows", "get_archived_workflow",
                                   "get_workflow_artifacts"}
    /\ DOMAIN ObservationTools = {"read_workflow_artifact", "get_resource_spec",
                                    "get_workflow_pod_diagnostics", "wait_workflow"}
    /\ DOMAIN LifecycleTools = {"lint_workflow", "lint_workflow_template",
                                  "submit_workflow_template", "suspend_workflow", "resume_workflow",
                                  "resubmit_workflow", "trigger_cron_workflow"}
  <1>1. DOMAIN WorkflowTools = {"list_workflows", "get_workflow", "get_workflow_logs",
                                 "terminate_workflow", "retry_workflow"}
    BY DEF WorkflowTools
  <1>2. DOMAIN CronTools = {"list_cron_workflows", "get_cron_workflow", "get_cron_history",
                             "toggle_cron_suspension"}
    BY DEF CronTools
  <1>3. DOMAIN TemplateTools = {"list_workflow_templates", "get_workflow_template",
                                 "list_cluster_workflow_templates", "get_cluster_workflow_template"}
    BY DEF TemplateTools
  <1>4. DOMAIN InspectionTools = {"get_workflow_nodes", "get_workflow_events",
                                   "list_archived_workflows", "get_archived_workflow",
                                   "get_workflow_artifacts"}
    BY DEF InspectionTools
  <1>5. DOMAIN ObservationTools = {"read_workflow_artifact", "get_resource_spec",
                                    "get_workflow_pod_diagnostics", "wait_workflow"}
    BY DEF ObservationTools
  <1>6. DOMAIN LifecycleTools = {"lint_workflow", "lint_workflow_template",
                                  "submit_workflow_template", "suspend_workflow", "resume_workflow",
                                  "resubmit_workflow", "trigger_cron_workflow"}
    BY DEF LifecycleTools
  <1>7. QED
    BY <1>1, <1>2, <1>3, <1>4, <1>5, <1>6

LEMMA CatalogDomain ==
    DOMAIN Inputs = {"list_workflows", "get_workflow", "get_workflow_logs", "terminate_workflow",
                     "retry_workflow", "list_cron_workflows", "get_cron_workflow",
                     "get_cron_history", "toggle_cron_suspension", "list_workflow_templates",
                     "get_workflow_template", "list_cluster_workflow_templates",
                     "get_cluster_workflow_template", "get_workflow_nodes", "get_workflow_events",
                     "list_archived_workflows", "get_archived_workflow", "get_workflow_artifacts",
                     "read_workflow_artifact", "get_resource_spec", "get_workflow_pod_diagnostics",
                     "wait_workflow", "lint_workflow", "lint_workflow_template",
                     "submit_workflow_template", "suspend_workflow", "resume_workflow",
                     "resubmit_workflow", "trigger_cron_workflow"}
  <1>1. DOMAIN Inputs = UNION {DOMAIN WorkflowTools, DOMAIN CronTools, DOMAIN TemplateTools,
                               DOMAIN InspectionTools, DOMAIN ObservationTools, DOMAIN LifecycleTools}
    BY DEF Inputs
  <1>2. QED
    BY <1>1, GroupDomains

LEMMA CatalogGroups ==
    /\ \A tool \in DOMAIN WorkflowTools : Inputs[tool] = WorkflowTools[tool]
    /\ \A tool \in DOMAIN CronTools : Inputs[tool] = CronTools[tool]
    /\ \A tool \in DOMAIN TemplateTools : Inputs[tool] = TemplateTools[tool]
    /\ \A tool \in DOMAIN InspectionTools : Inputs[tool] = InspectionTools[tool]
    /\ \A tool \in DOMAIN ObservationTools : Inputs[tool] = ObservationTools[tool]
    /\ \A tool \in DOMAIN LifecycleTools : Inputs[tool] = LifecycleTools[tool]
  <1>1. ASSUME NEW tool \in DOMAIN WorkflowTools
        PROVE  Inputs[tool] = WorkflowTools[tool]
    <2>1. tool \in DOMAIN Inputs
      BY DEF Inputs
    <2>2. tool \notin DOMAIN CronTools /\ tool \notin DOMAIN TemplateTools
          /\ tool \notin DOMAIN InspectionTools /\ tool \notin DOMAIN ObservationTools /\ tool \notin DOMAIN LifecycleTools
      BY GroupDomains
    <2>3. QED
      BY <2>1, <2>2, Zenon DEF Inputs
  <1>2. ASSUME NEW tool \in DOMAIN CronTools
        PROVE  Inputs[tool] = CronTools[tool]
    <2>1. tool \in DOMAIN Inputs
      BY DEF Inputs
    <2>2. tool \notin DOMAIN WorkflowTools /\ tool \notin DOMAIN TemplateTools
          /\ tool \notin DOMAIN InspectionTools /\ tool \notin DOMAIN ObservationTools /\ tool \notin DOMAIN LifecycleTools
      BY GroupDomains
    <2>3. QED
      BY <2>1, <2>2, Zenon DEF Inputs
  <1>3. ASSUME NEW tool \in DOMAIN TemplateTools
        PROVE  Inputs[tool] = TemplateTools[tool]
    <2>1. tool \in DOMAIN Inputs
      BY DEF Inputs
    <2>2. tool \notin DOMAIN WorkflowTools /\ tool \notin DOMAIN CronTools
          /\ tool \notin DOMAIN InspectionTools /\ tool \notin DOMAIN ObservationTools /\ tool \notin DOMAIN LifecycleTools
      BY GroupDomains
    <2>3. QED
      BY <2>1, <2>2, Zenon DEF Inputs
  <1>4. ASSUME NEW tool \in DOMAIN InspectionTools
        PROVE  Inputs[tool] = InspectionTools[tool]
    <2>1. tool \in DOMAIN Inputs
      BY DEF Inputs
    <2>2. tool \notin DOMAIN WorkflowTools /\ tool \notin DOMAIN CronTools
          /\ tool \notin DOMAIN TemplateTools /\ tool \notin DOMAIN ObservationTools /\ tool \notin DOMAIN LifecycleTools
      BY GroupDomains
    <2>3. QED
      BY <2>1, <2>2, Zenon DEF Inputs
  <1>5. ASSUME NEW tool \in DOMAIN ObservationTools
        PROVE  Inputs[tool] = ObservationTools[tool]
    <2>1. tool \in DOMAIN Inputs
      BY DEF Inputs
    <2>2. tool \notin DOMAIN WorkflowTools /\ tool \notin DOMAIN CronTools
          /\ tool \notin DOMAIN TemplateTools /\ tool \notin DOMAIN InspectionTools /\ tool \notin DOMAIN LifecycleTools
      BY GroupDomains
    <2>3. QED
      BY <2>1, <2>2, Zenon DEF Inputs
  <1>6. ASSUME NEW tool \in DOMAIN LifecycleTools
        PROVE  Inputs[tool] = LifecycleTools[tool]
    <2>1. tool \in DOMAIN Inputs
      BY DEF Inputs
    <2>2. tool \notin DOMAIN WorkflowTools /\ tool \notin DOMAIN CronTools
          /\ tool \notin DOMAIN TemplateTools /\ tool \notin DOMAIN InspectionTools /\ tool \notin DOMAIN ObservationTools
      BY GroupDomains
    <2>3. QED
      BY <2>1, <2>2, Zenon DEF Inputs
  <1>7. QED
    BY <1>1, <1>2, <1>3, <1>4, <1>5, <1>6

LEMMA CatalogEntries ==
    /\ Inputs["list_workflows"] = ListWorkflowsInput
    /\ Inputs["get_workflow"] = GetWorkflowInput
    /\ Inputs["get_workflow_logs"] = GetWorkflowLogsInput
    /\ Inputs["terminate_workflow"] = TerminateWorkflowInput
    /\ Inputs["retry_workflow"] = RetryWorkflowInput
    /\ Inputs["list_cron_workflows"] = ListCronWorkflowsInput
    /\ Inputs["get_cron_workflow"] = GetCronWorkflowInput
    /\ Inputs["get_cron_history"] = GetCronHistoryInput
    /\ Inputs["toggle_cron_suspension"] = ToggleCronSuspensionInput
    /\ Inputs["list_workflow_templates"] = ListWorkflowTemplatesInput
    /\ Inputs["get_workflow_template"] = GetWorkflowTemplateInput
    /\ Inputs["list_cluster_workflow_templates"] = ListClusterWorkflowTemplatesInput
    /\ Inputs["get_cluster_workflow_template"] = GetClusterWorkflowTemplateInput
    /\ Inputs["get_workflow_nodes"] = GetWorkflowNodesInput
    /\ Inputs["get_workflow_events"] = GetWorkflowEventsInput
    /\ Inputs["list_archived_workflows"] = ListArchivedWorkflowsInput
    /\ Inputs["get_archived_workflow"] = GetArchivedWorkflowInput
    /\ Inputs["get_workflow_artifacts"] = GetWorkflowArtifactsInput
    /\ Inputs["read_workflow_artifact"] = ReadWorkflowArtifactInput
    /\ Inputs["get_resource_spec"] = GetResourceSpecInput
    /\ Inputs["get_workflow_pod_diagnostics"] = GetWorkflowPodDiagnosticsInput
    /\ Inputs["wait_workflow"] = WaitWorkflowInput
    /\ Inputs["lint_workflow"] = LintWorkflowInput
    /\ Inputs["lint_workflow_template"] = LintWorkflowTemplateInput
    /\ Inputs["submit_workflow_template"] = SubmitWorkflowTemplateInput
    /\ Inputs["suspend_workflow"] = SuspendWorkflowInput
    /\ Inputs["resume_workflow"] = ResumeWorkflowInput
    /\ Inputs["resubmit_workflow"] = ResubmitWorkflowInput
    /\ Inputs["trigger_cron_workflow"] = TriggerCronWorkflowInput
  <1>1. /\ Inputs["list_workflows"] = ListWorkflowsInput
        /\ Inputs["get_workflow"] = GetWorkflowInput
        /\ Inputs["get_workflow_logs"] = GetWorkflowLogsInput
        /\ Inputs["terminate_workflow"] = TerminateWorkflowInput
        /\ Inputs["retry_workflow"] = RetryWorkflowInput
    BY CatalogGroups, GroupDomains DEF WorkflowTools
  <1>2. /\ Inputs["list_cron_workflows"] = ListCronWorkflowsInput
        /\ Inputs["get_cron_workflow"] = GetCronWorkflowInput
        /\ Inputs["get_cron_history"] = GetCronHistoryInput
        /\ Inputs["toggle_cron_suspension"] = ToggleCronSuspensionInput
    BY CatalogGroups, GroupDomains DEF CronTools
  <1>3. /\ Inputs["list_workflow_templates"] = ListWorkflowTemplatesInput
        /\ Inputs["get_workflow_template"] = GetWorkflowTemplateInput
        /\ Inputs["list_cluster_workflow_templates"] = ListClusterWorkflowTemplatesInput
        /\ Inputs["get_cluster_workflow_template"] = GetClusterWorkflowTemplateInput
    BY CatalogGroups, GroupDomains DEF TemplateTools
  <1>4. /\ Inputs["get_workflow_nodes"] = GetWorkflowNodesInput
        /\ Inputs["get_workflow_events"] = GetWorkflowEventsInput
        /\ Inputs["list_archived_workflows"] = ListArchivedWorkflowsInput
        /\ Inputs["get_archived_workflow"] = GetArchivedWorkflowInput
        /\ Inputs["get_workflow_artifacts"] = GetWorkflowArtifactsInput
    BY CatalogGroups, GroupDomains DEF InspectionTools
  <1>5. /\ Inputs["read_workflow_artifact"] = ReadWorkflowArtifactInput
        /\ Inputs["get_resource_spec"] = GetResourceSpecInput
        /\ Inputs["get_workflow_pod_diagnostics"] = GetWorkflowPodDiagnosticsInput
        /\ Inputs["wait_workflow"] = WaitWorkflowInput
    BY CatalogGroups, GroupDomains DEF ObservationTools
  <1>6. /\ Inputs["lint_workflow"] = LintWorkflowInput
        /\ Inputs["lint_workflow_template"] = LintWorkflowTemplateInput
        /\ Inputs["submit_workflow_template"] = SubmitWorkflowTemplateInput
        /\ Inputs["suspend_workflow"] = SuspendWorkflowInput
        /\ Inputs["resume_workflow"] = ResumeWorkflowInput
        /\ Inputs["resubmit_workflow"] = ResubmitWorkflowInput
        /\ Inputs["trigger_cron_workflow"] = TriggerCronWorkflowInput
    BY CatalogGroups, GroupDomains DEF LifecycleTools
  <1>7. QED
    BY <1>1, <1>2, <1>3, <1>4, <1>5, <1>6

\* The required fields are fields of the tool, and not named like another refusal.
WellFormed(schema) ==
    \E n \in Nat : /\ DOMAIN schema.required = 1..n /\ Len(schema.required) = n
                   /\ \A i \in 1..n : schema.required[i] \in schema.fields \ {"none", "arguments"}

LEMMA SchemaWellFormed ==
    ASSUME NEW n \in Nat, NEW required, DOMAIN required = 1..n, Len(required) = n,
           \A i \in 1..n : required[i] \notin {"none", "arguments"},
           NEW optional, NEW limits, NEW defaults
    PROVE  WellFormed(Schema(required, optional, limits, defaults))
  BY DEF WellFormed, Schema, ToSet

LEMMA SchemasWellFormed == \A tool \in DOMAIN Inputs : WellFormed(Inputs[tool])
  <1> DEFINE Usable(required) ==
          \A optional, limits, defaults : WellFormed(Schema(required, optional, limits, defaults))
  <1>1. Usable(<<>>)
    <2>1. 0 \in Nat /\ DOMAIN <<>> = 1..0 /\ Len(<<>>) = 0
          /\ \A i \in 1..0 : <<>>[i] \notin {"none", "arguments"}
      OBVIOUS
    <2>2. QED
      BY <2>1, SchemaWellFormed
  <1>2. ASSUME NEW f, f \notin {"none", "arguments"}
        PROVE  Usable(<<f>>)
    <2>1. 1 \in Nat /\ DOMAIN <<f>> = 1..1 /\ Len(<<f>>) = 1
          /\ \A i \in 1..1 : <<f>>[i] \notin {"none", "arguments"}
      BY <1>2
    <2>2. QED
      BY <2>1, SchemaWellFormed
  <1>3. ASSUME NEW f, NEW g, f \notin {"none", "arguments"}, g \notin {"none", "arguments"}
        PROVE  Usable(<<f, g>>)
    <2>1. 2 \in Nat /\ DOMAIN <<f, g>> = 1..2 /\ Len(<<f, g>>) = 2
          /\ \A i \in 1..2 : <<f, g>>[i] \notin {"none", "arguments"}
      BY <1>3
    <2>2. QED
      BY <2>1, SchemaWellFormed
  <1>4. Usable(<<"name", "node_id", "artifact_name">>)
    <2> DEFINE required == <<"name", "node_id", "artifact_name">>
    <2>1. 3 \in Nat /\ DOMAIN required = 1..3 /\ Len(required) = 3
          /\ \A i \in 1..3 : required[i] \notin {"none", "arguments"}
      OBVIOUS
    <2>2. QED
      BY <2>1, SchemaWellFormed
  <1> HIDE DEF Usable
  <1>5. \A required, optional, limits, defaults :
            Usable(required) => WellFormed(Schema(required, optional, limits, defaults))
    BY DEF Usable
  <1>6. \A tool \in DOMAIN WorkflowTools : WellFormed(Inputs[tool])
    BY <1>1, <1>2, <1>3, <1>4, <1>5, GroupDomains, CatalogEntries
       DEF ByName, ListWorkflowsInput, GetWorkflowInput, GetWorkflowLogsInput, TerminateWorkflowInput,
           RetryWorkflowInput
  <1>7. \A tool \in DOMAIN CronTools : WellFormed(Inputs[tool])
    BY <1>1, <1>2, <1>3, <1>4, <1>5, GroupDomains, CatalogEntries
       DEF ByName, ListCronWorkflowsInput, GetCronWorkflowInput, GetCronHistoryInput,
           ToggleCronSuspensionInput
  <1>8. \A tool \in DOMAIN TemplateTools : WellFormed(Inputs[tool])
    BY <1>1, <1>2, <1>3, <1>4, <1>5, GroupDomains, CatalogEntries
       DEF ByName, ListWorkflowTemplatesInput, GetWorkflowTemplateInput,
           ListClusterWorkflowTemplatesInput, GetClusterWorkflowTemplateInput
  <1>9. \A tool \in DOMAIN InspectionTools : WellFormed(Inputs[tool])
    BY <1>1, <1>2, <1>3, <1>4, <1>5, GroupDomains, CatalogEntries
       DEF ByName, GetWorkflowNodesInput, GetWorkflowEventsInput, ListArchivedWorkflowsInput,
           GetArchivedWorkflowInput, GetWorkflowArtifactsInput
  <1>10. \A tool \in DOMAIN ObservationTools : WellFormed(Inputs[tool])
    BY <1>1, <1>2, <1>3, <1>4, <1>5, GroupDomains, CatalogEntries
       DEF ByName, ReadWorkflowArtifactInput, GetResourceSpecInput, GetWorkflowPodDiagnosticsInput,
           WaitWorkflowInput
  <1>11. \A tool \in DOMAIN LifecycleTools : WellFormed(Inputs[tool])
    BY <1>1, <1>2, <1>3, <1>4, <1>5, GroupDomains, CatalogEntries
       DEF ByName, LintWorkflowInput, LintWorkflowTemplateInput, SubmitWorkflowTemplateInput,
           SuspendWorkflowInput, ResumeWorkflowInput, ResubmitWorkflowInput, TriggerCronWorkflowInput
  <1>12. QED
    BY <1>6, <1>7, <1>8, <1>9, <1>10, <1>11 DEF Inputs

-------------------------------------------------------------------------------
(* What a schema lets through: every required field is there, and a field with *)
(* limits is within them, given or not.                                        *)

\* The first of the missing fields is one of them.
LEMMA FirstMissing ==
    ASSUME NEW schema, WellFormed(schema), NEW given, Missing(schema, given) # {}
    PROVE  Min(Missing(schema, given)) \in Missing(schema, given)
  <1> DEFINE T == Missing(schema, given)
  <1>1. PICK n \in Nat : DOMAIN schema.required = 1..n
    BY DEF WellFormed
  <1>2. T \subseteq 1..n
    BY <1>1 DEF Missing
  <1>3. PICK i \in T : \A j \in 1..(i - 1) : j \notin T
    BY <1>2, LeastIndex
  <1>4. \A j \in T : i <= j
    BY <1>2, <1>3
  <1>5. QED
    BY <1>4 DEF Min

LEMMA AcceptedInput ==
    ASSUME NEW schema, WellFormed(schema), NEW given, InputRefusal(schema, given) = "none"
    PROVE  ~Undecodable(schema, given) /\ Missing(schema, given) = {} /\ ~OutOfSchema(schema, given)
  <1>1. CASE Missing(schema, given) # {}
    <2>1. Min(Missing(schema, given)) \in DOMAIN schema.required
      BY <1>1, FirstMissing DEF Missing
    <2>2. schema.required[Min(Missing(schema, given))] # "none"
      BY <2>1 DEF WellFormed
    <2>3. QED
      BY <1>1, <2>2 DEF InputRefusal
  <1>2. CASE Missing(schema, given) = {}
    BY <1>2 DEF InputRefusal
  <1>3. QED
    BY <1>1, <1>2

\* A field with limits that is required or has a default within them.
Bounded(schema, field, range) ==
    /\ field \in schema.fields /\ field \in DOMAIN schema.limits /\ schema.limits[field] = range
    /\ \/ \E i \in DOMAIN schema.required : schema.required[i] = field
       \/ field \in DOMAIN schema.defaults /\ schema.defaults[field] \in range

Within(schema, p) == \A field, range : Bounded(schema, field, range) => p[field] \in range

LEMMA PayloadWithin ==
    ASSUME NEW schema, WellFormed(schema), NEW given, InputRefusal(schema, given) = "none"
    PROVE  Within(schema, Payload(schema, given, Omitted))
  <1> SUFFICES ASSUME NEW field, NEW range, Bounded(schema, field, range)
               PROVE  Payload(schema, given, Omitted)[field] \in range
    BY DEF Within
  <1>1. ~OutOfSchema(schema, given) /\ Missing(schema, given) = {}
    BY AcceptedInput
  <1>2. Payload(schema, given, Omitted)[field] =
            IF field \in DOMAIN given THEN given[field][2]
            ELSE IF field \in DOMAIN schema.defaults THEN schema.defaults[field] ELSE Omitted
    BY DEF Bounded, Payload
  <1>3. CASE field \in DOMAIN given
    BY <1>1, <1>2, <1>3 DEF OutOfSchema, Bounded
  <1>4. CASE field \notin DOMAIN given
    BY <1>1, <1>2, <1>4 DEF Missing, Bounded
  <1>5. QED
    BY <1>3, <1>4

LEMMA Sizes ==
    /\ KiB(64) \in 4..KiB(256) /\ KiB(64) \in KiB(1)..KiB(256)
    /\ MiB(1) \in KiB(1)..MiB(4) /\ 0 \in 0..MiB(16)
  <1>1. \A n \in Int : KiB(n) = 1024 * n
    BY DEF KiB
  <1>2. MiB(1) = KiB(1024) /\ MiB(4) = KiB(4096) /\ MiB(16) = KiB(16384)
    BY DEF MiB
  <1>3. QED
    BY <1>1, <1>2

\* The limits of the schemas, whose defaults keep to them.
LEMMA SchemaBounds ==
    /\ Bounded(ListWorkflowsInput, "limit", 1..200)
    /\ Bounded(ListCronWorkflowsInput, "limit", 1..200)
    /\ Bounded(GetCronHistoryInput, "limit", 1..200)
    /\ Bounded(ListWorkflowTemplatesInput, "limit", 1..200)
    /\ Bounded(ListClusterWorkflowTemplatesInput, "limit", 1..200)
    /\ Bounded(ListArchivedWorkflowsInput, "limit", 1..200)
    /\ Bounded(GetWorkflowNodesInput, "limit", 1..200)
    /\ Bounded(GetWorkflowNodesInput, "offset", Nat)
    /\ Bounded(GetWorkflowArtifactsInput, "limit", 1..200)
    /\ Bounded(GetWorkflowArtifactsInput, "offset", Nat)
    /\ Bounded(GetWorkflowEventsInput, "limit", 1..200)
    /\ Bounded(GetWorkflowEventsInput, "duration_seconds", 1..10)
    /\ Bounded(GetWorkflowLogsInput, "source", {"auto", "live", "archive"})
    /\ Bounded(GetWorkflowLogsInput, "max_bytes", KiB(1)..MiB(4))
    /\ Bounded(GetWorkflowLogsInput, "max_lines", Nat)
    /\ Bounded(ReadWorkflowArtifactInput, "direction", {"inputs", "outputs"})
    /\ Bounded(ReadWorkflowArtifactInput, "max_bytes", 4..KiB(256))
    /\ Bounded(ReadWorkflowArtifactInput, "offset_bytes", 0..MiB(16))
    /\ Bounded(GetResourceSpecInput, "kind",
               {"workflow", "workflow_template", "cluster_workflow_template", "cron_workflow"})
    /\ Bounded(GetResourceSpecInput, "section", {"summary", "arguments", "templates", "spec"})
    /\ Bounded(GetResourceSpecInput, "max_bytes", KiB(1)..KiB(256))
    /\ Bounded(GetWorkflowPodDiagnosticsInput, "limit", 1..50)
    /\ Bounded(WaitWorkflowInput, "duration_seconds", 1..30)
    /\ Bounded(WaitWorkflowInput, "poll_interval_seconds", 1..5)
  <1> USE DEF Bounded, Schema, ToSet, Upto50, Upto200
  <1>1. /\ Bounded(ListWorkflowsInput, "limit", 1..200)
    BY DEF ListWorkflowsInput
  <1>2. /\ Bounded(ListCronWorkflowsInput, "limit", 1..200)
    BY DEF ListCronWorkflowsInput
  <1>3. /\ Bounded(GetCronHistoryInput, "limit", 1..200)
    BY DEF GetCronHistoryInput
  <1>4. /\ Bounded(ListWorkflowTemplatesInput, "limit", 1..200)
    BY DEF ListWorkflowTemplatesInput
  <1>5. /\ Bounded(ListClusterWorkflowTemplatesInput, "limit", 1..200)
    BY DEF ListClusterWorkflowTemplatesInput
  <1>6. /\ Bounded(ListArchivedWorkflowsInput, "limit", 1..200)
    BY DEF ListArchivedWorkflowsInput
  <1>7. /\ Bounded(GetWorkflowNodesInput, "limit", 1..200)
         /\ Bounded(GetWorkflowNodesInput, "offset", Nat)
    BY DEF GetWorkflowNodesInput
  <1>8. /\ Bounded(GetWorkflowArtifactsInput, "limit", 1..200)
         /\ Bounded(GetWorkflowArtifactsInput, "offset", Nat)
    BY DEF GetWorkflowArtifactsInput
  <1>9. /\ Bounded(GetWorkflowEventsInput, "limit", 1..200)
         /\ Bounded(GetWorkflowEventsInput, "duration_seconds", 1..10)
    BY DEF GetWorkflowEventsInput
  <1>10. /\ Bounded(GetWorkflowLogsInput, "source", {"auto", "live", "archive"})
         /\ Bounded(GetWorkflowLogsInput, "max_bytes", KiB(1)..MiB(4))
         /\ Bounded(GetWorkflowLogsInput, "max_lines", Nat)
    BY Sizes DEF GetWorkflowLogsInput
  <1>11. /\ Bounded(ReadWorkflowArtifactInput, "direction", {"inputs", "outputs"})
         /\ Bounded(ReadWorkflowArtifactInput, "max_bytes", 4..KiB(256))
         /\ Bounded(ReadWorkflowArtifactInput, "offset_bytes", 0..MiB(16))
    BY Sizes DEF ReadWorkflowArtifactInput
  <1>12. /\ Bounded(GetResourceSpecInput, "kind",
               {"workflow", "workflow_template", "cluster_workflow_template", "cron_workflow"})
         /\ Bounded(GetResourceSpecInput, "section", {"summary", "arguments", "templates", "spec"})
         /\ Bounded(GetResourceSpecInput, "max_bytes", KiB(1)..KiB(256))
    BY Sizes DEF GetResourceSpecInput
  <1>13. /\ Bounded(GetWorkflowPodDiagnosticsInput, "limit", 1..50)
    BY DEF GetWorkflowPodDiagnosticsInput
  <1>14. /\ Bounded(WaitWorkflowInput, "duration_seconds", 1..30)
         /\ Bounded(WaitWorkflowInput, "poll_interval_seconds", 1..5)
    BY DEF WaitWorkflowInput
  <1>15. QED
    BY <1>1, <1>2, <1>3, <1>4, <1>5, <1>6, <1>7, <1>8, <1>9, <1>10, <1>11, <1>12, <1>13, <1>14

-------------------------------------------------------------------------------
(* The handlers of the tools that read, and the limits they check once more.   *)

\* The tools that read, but the one that reports what the server is.
Reading == ReadOnly \ {"get_server_context"}

\* The handler of each tool that reads.
LEMMA HandlerChecks ==
    ASSUME NEW p, NEW s
    PROVE  /\ Checks("list_workflows", p, s) = ListWorkflows(p, s)
           /\ Checks("list_cron_workflows", p, s) = ListCronWorkflows(p, s)
           /\ Checks("list_workflow_templates", p, s) = ListWorkflowTemplates(p, s)
           /\ Checks("get_workflow", p, s) = GetWorkflow(p, s)
           /\ Checks("get_cron_workflow", p, s) = GetCronWorkflow(p, s)
           /\ Checks("get_workflow_template", p, s) = GetWorkflowTemplate(p, s)
           /\ Checks("list_cluster_workflow_templates", p, s) = ListClusterWorkflowTemplates(p, s)
           /\ Checks("get_cluster_workflow_template", p, s) = GetClusterWorkflowTemplate(p, s)
           /\ Checks("get_cron_history", p, s) = GetCronHistory(p, s)
           /\ Checks("get_workflow_nodes", p, s) = GetWorkflowNodes(p, s)
           /\ Checks("get_workflow_artifacts", p, s) = GetWorkflowArtifacts(p, s)
           /\ Checks("get_workflow_events", p, s) = GetWorkflowEvents(p, s)
           /\ Checks("list_archived_workflows", p, s) = ListArchivedWorkflows(p, s)
           /\ Checks("get_archived_workflow", p, s) = GetArchivedWorkflow(p, s)
           /\ Checks("get_workflow_logs", p, s) = GetWorkflowLogs(p, s)
           /\ Checks("read_workflow_artifact", p, s) = ReadWorkflowArtifact(p, s)
           /\ Checks("wait_workflow", p, s) = WaitWorkflow(p, s)
           /\ Checks("get_workflow_pod_diagnostics", p, s) = GetWorkflowPodDiagnostics(p, s)
           /\ Checks("get_resource_spec", p, s) = GetResourceSpec(p, s)
           /\ Checks("lint_workflow", p, s) = LintWorkflow(p, s)
           /\ Checks("lint_workflow_template", p, s) = LintWorkflowTemplate(p, s)
  BY Zenon DEF Checks

LEMMA ReadingTools ==
    Reading = {"list_workflows", "list_cron_workflows", "list_workflow_templates",
               "get_workflow", "get_cron_workflow", "get_workflow_template",
               "list_cluster_workflow_templates", "get_cluster_workflow_template", "get_cron_history",
               "get_workflow_nodes", "get_workflow_artifacts", "get_workflow_events",
               "list_archived_workflows", "get_archived_workflow", "get_workflow_logs",
               "read_workflow_artifact", "wait_workflow", "get_workflow_pod_diagnostics",
               "get_resource_spec", "lint_workflow", "lint_workflow_template"}
  BY CatalogDomain DEF Reading, ReadOnly, Tools

LEMMA LimitKept ==
    ASSUME NEW tool, NEW p, Within(Inputs[tool], p), NEW field, NEW range, Bounded(Inputs[tool], field, range)
    PROVE  p[field] \in range
  BY DEF Within

\* A handler none of whose checks for the range of a number or the choice of a word fails.
Ranged(checks, n) ==
    /\ DOMAIN checks = 1..n
    /\ \A i \in 1..n : checks[i][1] # "none" /\ (checks[i][1] = "out_of_range" => ~checks[i][2])

LEMMA GetWorkflowNodesRanged ==
    ASSUME NEW p, NEW s,
           BoundedDiagnostic(p)
    PROVE  Ranged(GetWorkflowNodes(p, s), 5)
  <1>1. /\ DOMAIN GetWorkflowNodes(p, s) = 1..5
        /\ \A i \in 1..5 \ {3} :
              GetWorkflowNodes(p, s)[i][1] \notin {"none", "out_of_range"}
    BY DEF GetWorkflowNodes
  <1>2. /\ GetWorkflowNodes(p, s)[3][1] = "out_of_range"
        /\ GetWorkflowNodes(p, s)[3][2] = (~BoundedDiagnostic(p))
    BY DEF GetWorkflowNodes
  <1>3. QED
    BY <1>1, <1>2 DEF Ranged

LEMMA GetWorkflowArtifactsRanged ==
    ASSUME NEW p, NEW s,
           BoundedDiagnostic(p)
    PROVE  Ranged(GetWorkflowArtifacts(p, s), 5)
  <1>1. /\ DOMAIN GetWorkflowArtifacts(p, s) = 1..5
        /\ \A i \in 1..5 \ {3} :
              GetWorkflowArtifacts(p, s)[i][1] \notin {"none", "out_of_range"}
    BY DEF GetWorkflowArtifacts
  <1>2. /\ GetWorkflowArtifacts(p, s)[3][1] = "out_of_range"
        /\ GetWorkflowArtifacts(p, s)[3][2] = (~BoundedDiagnostic(p))
    BY DEF GetWorkflowArtifacts
  <1>3. QED
    BY <1>1, <1>2 DEF Ranged

LEMMA GetWorkflowEventsRanged ==
    ASSUME NEW p, NEW s,
           ~PageRefused(p),
           ~Outside(p.duration_seconds, 1..10)
    PROVE  Ranged(GetWorkflowEvents(p, s), 4)
  <1>1. /\ DOMAIN GetWorkflowEvents(p, s) = 1..4
        /\ \A i \in 1..4 \ {3} :
              GetWorkflowEvents(p, s)[i][1] \notin {"none", "out_of_range"}
    BY DEF GetWorkflowEvents
  <1>2. /\ GetWorkflowEvents(p, s)[3][1] = "out_of_range"
        /\ GetWorkflowEvents(p, s)[3][2] = (PageRefused(p) \/ Outside(p.duration_seconds, 1..10))
    BY DEF GetWorkflowEvents
  <1>3. QED
    BY <1>1, <1>2 DEF Ranged

LEMMA GetWorkflowLogsRanged ==
    ASSUME NEW p, NEW s,
           p.source \in {"auto", "live", "archive"},
           ~(p.max_lines < 0),
           ~Outside(p.max_bytes, KiB(1)..MiB(4))
    PROVE  Ranged(GetWorkflowLogs(p, s), 7)
  <1>1. /\ DOMAIN GetWorkflowLogs(p, s) = 1..7
        /\ \A i \in 1..7 \ {3} :
              GetWorkflowLogs(p, s)[i][1] \notin {"none", "out_of_range"}
    BY DEF GetWorkflowLogs
  <1>2. /\ GetWorkflowLogs(p, s)[3][1] = "out_of_range"
        /\ GetWorkflowLogs(p, s)[3][2] = (p.source \notin {"auto", "live", "archive"} \/ p.max_lines < 0
                \/ Outside(p.max_bytes, KiB(1)..MiB(4)))
    BY DEF GetWorkflowLogs
  <1>3. QED
    BY <1>1, <1>2 DEF Ranged

LEMMA ReadWorkflowArtifactRanged ==
    ASSUME NEW p, NEW s,
           p.direction \in {"inputs", "outputs"},
           p.offset_bytes \in 0..MiB(16),
           ~Outside(p.max_bytes, 4..KiB(256))
    PROVE  Ranged(ReadWorkflowArtifact(p, s), 6)
  <1>1. /\ DOMAIN ReadWorkflowArtifact(p, s) = 1..6
        /\ \A i \in 1..6 \ {3, 6} :
              ReadWorkflowArtifact(p, s)[i][1] \notin {"none", "out_of_range"}
    BY DEF ReadWorkflowArtifact
  <1>2. /\ ReadWorkflowArtifact(p, s)[3][1] = "out_of_range"
        /\ ReadWorkflowArtifact(p, s)[3][2] =
               (p.offset_bytes \notin 0..MiB(16) \/ Outside(p.max_bytes, 4..KiB(256)))
    BY DEF ReadWorkflowArtifact
  <1>3. /\ ReadWorkflowArtifact(p, s)[6][1] = "out_of_range"
        /\ ReadWorkflowArtifact(p, s)[6][2] = (p.direction \notin {"inputs", "outputs"})
    BY DEF ReadWorkflowArtifact
  <1>4. QED
    BY <1>1, <1>2, <1>3 DEF Ranged

LEMMA WaitWorkflowRanged ==
    ASSUME NEW p, NEW s,
           ~Outside(p.duration_seconds, 1..30),
           ~Outside(p.poll_interval_seconds, 1..5)
    PROVE  Ranged(WaitWorkflow(p, s), 4)
  <1>1. /\ DOMAIN WaitWorkflow(p, s) = 1..4
        /\ \A i \in 1..4 \ {3} :
              WaitWorkflow(p, s)[i][1] \notin {"none", "out_of_range"}
    BY DEF WaitWorkflow
  <1>2. /\ WaitWorkflow(p, s)[3][1] = "out_of_range"
        /\ WaitWorkflow(p, s)[3][2] =
               (Outside(p.duration_seconds, 1..30) \/ Outside(p.poll_interval_seconds, 1..5))
    BY DEF WaitWorkflow
  <1>3. QED
    BY <1>1, <1>2 DEF Ranged

LEMMA GetResourceSpecRanged ==
    ASSUME NEW p, NEW s,
           p.kind \in {"workflow", "workflow_template", "cluster_workflow_template", "cron_workflow"},
           p.section \in {"summary", "arguments", "templates", "spec"},
           ~Outside(p.max_bytes, KiB(1)..KiB(256))
    PROVE  Ranged(GetResourceSpec(p, s), 9)
  <1>1. /\ DOMAIN GetResourceSpec(p, s) = 1..9
        /\ \A i \in 1..9 \ {2, 6, 8} :
              GetResourceSpec(p, s)[i][1] \notin {"none", "out_of_range"}
    BY DEF GetResourceSpec
  <1>2. /\ GetResourceSpec(p, s)[2][1] = "out_of_range"
        /\ GetResourceSpec(p, s)[2][2] = (p.kind \notin {"workflow", "workflow_template", "cluster_workflow_template",
                  "cron_workflow"})
    BY DEF GetResourceSpec
  <1>3. /\ GetResourceSpec(p, s)[6][1] = "out_of_range"
        /\ GetResourceSpec(p, s)[6][2] = (p.section \notin {"summary", "arguments", "templates", "spec"})
    BY DEF GetResourceSpec
  <1>4. /\ GetResourceSpec(p, s)[8][1] = "out_of_range"
        /\ GetResourceSpec(p, s)[8][2] = (Outside(p.max_bytes, KiB(1)..KiB(256)))
    BY DEF GetResourceSpec
  <1>5. QED
    BY <1>1, <1>2, <1>3, <1>4 DEF Ranged

LEMMA ReadsRanged ==
    ASSUME NEW tool \in Reading, NEW p, NEW s, Within(Inputs[tool], p)
    PROVE  \E n \in Nat : Ranged(Checks(tool, p, s), n)
  <1>1. CASE tool \in {"list_workflows", "list_cron_workflows", "list_workflow_templates"}
    <2>1. Bounded(Inputs[tool], "limit", 1..200)
      BY <1>1, SchemaBounds, CatalogEntries
    <2>2. p["limit"] \in 1..200
      BY <2>1, LimitKept
    <2>3. ~PageRefused(p)
      BY <2>2 DEF Outside, PageRefused, BoundedDiagnostic
    <2>4. Ranged(List(p, s), 3)
      BY <2>3 DEF Ranged, List
    <2>5. QED
      BY <1>1, <2>4, HandlerChecks DEF ListWorkflows, ListCronWorkflows, ListWorkflowTemplates
  <1>2. CASE tool = "list_cluster_workflow_templates"
    <2>1. Bounded(Inputs[tool], "limit", 1..200)
      BY <1>2, SchemaBounds, CatalogEntries
    <2>2. p["limit"] \in 1..200
      BY <2>1, LimitKept
    <2>3. ~PageRefused(p)
      BY <2>2 DEF Outside, PageRefused, BoundedDiagnostic
    <2>4. Ranged(ListClusterWorkflowTemplates(p, s), 2)
      BY <2>3 DEF Ranged, ListClusterWorkflowTemplates
    <2>5. QED
      BY <1>2, <2>4, HandlerChecks
  <1>3. CASE tool \in {"get_workflow", "get_cron_workflow", "get_workflow_template"}
    <2>1. Ranged(Get(p, s), 3)
      BY DEF Ranged, Get
    <2>2. QED
      BY <1>3, <2>1, HandlerChecks DEF GetWorkflow, GetCronWorkflow, GetWorkflowTemplate
  <1>4. CASE tool = "get_cluster_workflow_template"
    <2>1. Ranged(GetClusterWorkflowTemplate(p, s), 2)
      BY DEF Ranged, GetClusterWorkflowTemplate
    <2>2. QED
      BY <1>4, <2>1, HandlerChecks
  <1>5. CASE tool = "get_cron_history"
    <2>1. Bounded(Inputs[tool], "limit", 1..200)
      BY <1>5, SchemaBounds, CatalogEntries
    <2>2. p["limit"] \in 1..200
      BY <2>1, LimitKept
    <2>3. ~PageRefused(p)
      BY <2>2 DEF Outside, PageRefused, BoundedDiagnostic
    <2>4. Ranged(GetCronHistory(p, s), 4)
      BY <2>3 DEF Ranged, GetCronHistory
    <2>5. QED
      BY <1>5, <2>4, HandlerChecks
  <1>6. CASE tool = "list_archived_workflows"
    <2>1. Bounded(Inputs[tool], "limit", 1..200)
      BY <1>6, SchemaBounds, CatalogEntries
    <2>2. p["limit"] \in 1..200
      BY <2>1, LimitKept
    <2>3. ~PageRefused(p)
      BY <2>2 DEF Outside, PageRefused, BoundedDiagnostic
    <2>4. Ranged(ListArchivedWorkflows(p, s), 3)
      BY <2>3 DEF Ranged, ListArchivedWorkflows
    <2>5. QED
      BY <1>6, <2>4, HandlerChecks
  <1>7. CASE tool = "get_archived_workflow"
    <2>1. Ranged(GetArchivedWorkflow(p, s), 3)
      BY DEF Ranged, GetArchivedWorkflow
    <2>2. QED
      BY <1>7, <2>1, HandlerChecks
  <1>8. CASE tool = "get_workflow_pod_diagnostics"
    <2>1. Bounded(Inputs[tool], "limit", 1..50)
      BY <1>8, SchemaBounds, CatalogEntries
    <2>2. p["limit"] \in 1..50
      BY <2>1, LimitKept
    <2>3. ~Outside(p.limit, 1..50)
      BY <2>2 DEF Outside, PageRefused, BoundedDiagnostic
    <2>4. Ranged(GetWorkflowPodDiagnostics(p, s), 6)
      BY <2>3 DEF Ranged, GetWorkflowPodDiagnostics
    <2>5. QED
      BY <1>8, <2>4, HandlerChecks
  <1>9. CASE tool = "lint_workflow"
    <2>1. Ranged(LintWorkflow(p, s), 3)
      BY DEF Ranged, LintWorkflow
    <2>2. QED
      BY <1>9, <2>1, HandlerChecks
  <1>10. CASE tool = "lint_workflow_template"
    <2>1. Ranged(LintWorkflowTemplate(p, s), 4)
      BY DEF Ranged, LintWorkflowTemplate
    <2>2. QED
      BY <1>10, <2>1, HandlerChecks
  <1>11. CASE tool = "get_workflow_nodes"
    <2>1. /\ Bounded(Inputs[tool], "limit", 1..200)
          /\ Bounded(Inputs[tool], "offset", Nat)
      BY <1>11, SchemaBounds, CatalogEntries
    <2>2. /\ p["limit"] \in 1..200
          /\ p["offset"] \in Nat
      BY <2>1, LimitKept
    <2>3. BoundedDiagnostic(p)
      BY <2>2 DEF Outside, PageRefused, BoundedDiagnostic
    <2>4. Ranged(GetWorkflowNodes(p, s), 5)
      BY <2>3, GetWorkflowNodesRanged
    <2>5. QED
      BY <1>11, <2>4, HandlerChecks
  <1>12. CASE tool = "get_workflow_artifacts"
    <2>1. /\ Bounded(Inputs[tool], "limit", 1..200)
          /\ Bounded(Inputs[tool], "offset", Nat)
      BY <1>12, SchemaBounds, CatalogEntries
    <2>2. /\ p["limit"] \in 1..200
          /\ p["offset"] \in Nat
      BY <2>1, LimitKept
    <2>3. BoundedDiagnostic(p)
      BY <2>2 DEF Outside, PageRefused, BoundedDiagnostic
    <2>4. Ranged(GetWorkflowArtifacts(p, s), 5)
      BY <2>3, GetWorkflowArtifactsRanged
    <2>5. QED
      BY <1>12, <2>4, HandlerChecks
  <1>13. CASE tool = "get_workflow_events"
    <2>1. /\ Bounded(Inputs[tool], "limit", 1..200)
          /\ Bounded(Inputs[tool], "duration_seconds", 1..10)
      BY <1>13, SchemaBounds, CatalogEntries
    <2>2. /\ p["limit"] \in 1..200
          /\ p["duration_seconds"] \in 1..10
      BY <2>1, LimitKept
    <2>3. /\ ~PageRefused(p)
          /\ ~Outside(p.duration_seconds, 1..10)
      BY <2>2 DEF Outside, PageRefused, BoundedDiagnostic
    <2>4. Ranged(GetWorkflowEvents(p, s), 4)
      BY <2>3, GetWorkflowEventsRanged
    <2>5. QED
      BY <1>13, <2>4, HandlerChecks
  <1>14. CASE tool = "get_workflow_logs"
    <2>1. /\ Bounded(Inputs[tool], "source", {"auto", "live", "archive"})
          /\ Bounded(Inputs[tool], "max_lines", Nat)
          /\ Bounded(Inputs[tool], "max_bytes", KiB(1)..MiB(4))
      BY <1>14, SchemaBounds, CatalogEntries
    <2>2. /\ p["source"] \in {"auto", "live", "archive"}
          /\ p["max_lines"] \in Nat
          /\ p["max_bytes"] \in KiB(1)..MiB(4)
      BY <2>1, LimitKept
    <2>3. /\ p.source \in {"auto", "live", "archive"}
          /\ ~(p.max_lines < 0)
          /\ ~Outside(p.max_bytes, KiB(1)..MiB(4))
      BY <2>2 DEF Outside, PageRefused, BoundedDiagnostic
    <2>4. Ranged(GetWorkflowLogs(p, s), 7)
      BY <2>3, GetWorkflowLogsRanged
    <2>5. QED
      BY <1>14, <2>4, HandlerChecks
  <1>15. CASE tool = "read_workflow_artifact"
    <2>1. /\ Bounded(Inputs[tool], "direction", {"inputs", "outputs"})
          /\ Bounded(Inputs[tool], "max_bytes", 4..KiB(256))
          /\ Bounded(Inputs[tool], "offset_bytes", 0..MiB(16))
      BY <1>15, SchemaBounds, CatalogEntries
    <2>2. /\ p["direction"] \in {"inputs", "outputs"}
          /\ p["max_bytes"] \in 4..KiB(256)
          /\ p["offset_bytes"] \in 0..MiB(16)
      BY <2>1, LimitKept
    <2>3. /\ p.direction \in {"inputs", "outputs"}
          /\ p.offset_bytes \in 0..MiB(16)
          /\ ~Outside(p.max_bytes, 4..KiB(256))
      BY <2>2 DEF Outside, PageRefused, BoundedDiagnostic
    <2>4. Ranged(ReadWorkflowArtifact(p, s), 6)
      BY <2>3, ReadWorkflowArtifactRanged
    <2>5. QED
      BY <1>15, <2>4, HandlerChecks
  <1>16. CASE tool = "wait_workflow"
    <2>1. /\ Bounded(Inputs[tool], "duration_seconds", 1..30)
          /\ Bounded(Inputs[tool], "poll_interval_seconds", 1..5)
      BY <1>16, SchemaBounds, CatalogEntries
    <2>2. /\ p["duration_seconds"] \in 1..30
          /\ p["poll_interval_seconds"] \in 1..5
      BY <2>1, LimitKept
    <2>3. /\ ~Outside(p.duration_seconds, 1..30)
          /\ ~Outside(p.poll_interval_seconds, 1..5)
      BY <2>2 DEF Outside, PageRefused, BoundedDiagnostic
    <2>4. Ranged(WaitWorkflow(p, s), 4)
      BY <2>3, WaitWorkflowRanged
    <2>5. QED
      BY <1>16, <2>4, HandlerChecks
  <1>17. CASE tool = "get_resource_spec"
    <2>1. /\ Bounded(Inputs[tool], "kind", {"workflow", "workflow_template", "cluster_workflow_template",
                 "cron_workflow"})
          /\ Bounded(Inputs[tool], "section", {"summary", "arguments", "templates", "spec"})
          /\ Bounded(Inputs[tool], "max_bytes", KiB(1)..KiB(256))
      BY <1>17, SchemaBounds, CatalogEntries
    <2>2. /\ p["kind"] \in {"workflow", "workflow_template", "cluster_workflow_template",
                 "cron_workflow"}
          /\ p["section"] \in {"summary", "arguments", "templates", "spec"}
          /\ p["max_bytes"] \in KiB(1)..KiB(256)
      BY <2>1, LimitKept
    <2>3. /\ p.kind \in {"workflow", "workflow_template", "cluster_workflow_template",
                 "cron_workflow"}
          /\ p.section \in {"summary", "arguments", "templates", "spec"}
          /\ ~Outside(p.max_bytes, KiB(1)..KiB(256))
      BY <2>2 DEF Outside, PageRefused, BoundedDiagnostic
    <2>4. Ranged(GetResourceSpec(p, s), 9)
      BY <2>3, GetResourceSpecRanged
    <2>5. QED
      BY <1>17, <2>4, HandlerChecks
  <1>18. QED
    BY ReadingTools, <1>1, <1>2, <1>3, <1>4, <1>5, <1>6, <1>7, <1>8, <1>9, <1>10, <1>11, <1>12, <1>13,
       <1>14, <1>15, <1>16, <1>17

-------------------------------------------------------------------------------
(* The policy, and the answers of Argo.                                        *)

\* The tools that ask about a namespace of Kubernetes and bring no manifest.
Namespaced == Reading \ {"list_cluster_workflow_templates", "get_cluster_workflow_template",
                         "get_resource_spec", "lint_workflow", "lint_workflow_template"}

LEMMA Asked ==
    ASSUME NEW p
    PROVE  /\ NamespacesAsked("list_cluster_workflow_templates", p) = {}
           /\ NamespacesAsked("get_cluster_workflow_template", p) = {}
           /\ NamespacesAsked("get_resource_spec", p) =
                  IF p.kind = "cluster_workflow_template" THEN {} ELSE {Namespace(p)}
           /\ NamespacesAsked("lint_workflow_template", p) =
                  IF p.cluster_scope
                  THEN {Manifests[p.manifest_json].namespace} \ {Omitted}
                  ELSE {Namespace(p), ManifestNamespace(p.manifest_json, Namespace(p))}
           /\ NamespacesAsked("lint_workflow", p) =
                  {Namespace(p), ManifestNamespace(p.manifest_json, Namespace(p))}
           /\ \A tool \in Namespaced : NamespacesAsked(tool, p) = {Namespace(p)}
  <1>1. ASSUME NEW tool \in Namespaced
        PROVE  NamespacesAsked(tool, p) = {Namespace(p)}
    <2>1. /\ tool \notin {"list_cluster_workflow_templates", "get_cluster_workflow_template",
                          "get_server_context"}
          /\ tool # "get_resource_spec" /\ tool # "lint_workflow_template" /\ tool # "lint_workflow"
      BY DEF Namespaced, Reading
    <2>2. QED
      BY Zenon, <2>1 DEF NamespacesAsked
  <1>2. QED
    BY Zenon, <1>1 DEF NamespacesAsked

\* They ask the policy first.
LEMMA PolicyFirst ==
    ASSUME NEW tool \in Namespaced, NEW p, NEW s
    PROVE  1 \in DOMAIN Checks(tool, p, s) /\ Checks(tool, p, s)[1][2] = Denied(p, s)
  <1> DEFINE First(checks) == 1 \in DOMAIN checks /\ checks[1][2] = Denied(p, s)
  <1>1. First(List(p, s)) /\ First(Get(p, s))
    BY DEF List, Get
  <1>2. First(GetCronHistory(p, s)) /\ First(GetWorkflowNodes(p, s)) /\ First(GetWorkflowArtifacts(p, s))
    BY DEF GetCronHistory, GetWorkflowNodes, GetWorkflowArtifacts
  <1>3. /\ First(GetWorkflowEvents(p, s)) /\ First(ListArchivedWorkflows(p, s))
        /\ First(GetArchivedWorkflow(p, s))
    BY DEF GetWorkflowEvents, ListArchivedWorkflows, GetArchivedWorkflow
  <1>4. First(GetWorkflowLogs(p, s)) /\ First(ReadWorkflowArtifact(p, s))
    BY DEF GetWorkflowLogs, ReadWorkflowArtifact
  <1>5. First(WaitWorkflow(p, s)) /\ First(GetWorkflowPodDiagnostics(p, s))
    BY DEF WaitWorkflow, GetWorkflowPodDiagnostics
  <1> HIDE DEF First
  <1>6. First(Checks(tool, p, s))
    BY <1>1, <1>2, <1>3, <1>4, <1>5, HandlerChecks, ReadingTools
       DEF Namespaced, ListWorkflows, ListCronWorkflows, ListWorkflowTemplates, GetWorkflow,
           GetCronWorkflow,
           GetWorkflowTemplate
  <1>7. QED
    BY <1>6 DEF First

\* A manifest that is not refused names no namespace but the call's own.
LEMMA ManifestKeepsNamespace ==
    ASSUME NEW text, NEW namespace
    PROVE  /\ \A kind : ~ManifestRefused(text, kind, namespace) /\ kind # "ClusterWorkflowTemplate" =>
                  ManifestNamespace(text, namespace) = namespace
           /\ ~ManifestRefused(text, "ClusterWorkflowTemplate", namespace) =>
                  Manifests[text].namespace = Omitted
  <1>1. ASSUME NEW kind, ~ManifestRefused(text, kind, namespace)
        PROVE  Manifests[text].namespace \in
                   (IF kind = "ClusterWorkflowTemplate" THEN {Omitted} ELSE {Omitted, namespace})
    BY <1>1 DEF ManifestRefused
  <1>2. ASSUME NEW kind, ~ManifestRefused(text, kind, namespace), kind # "ClusterWorkflowTemplate"
        PROVE  ManifestNamespace(text, namespace) = namespace
    <2>1. Manifests[text].namespace \in {Omitted, namespace}
      BY <1>1, <1>2
    <2>2. QED
      BY <2>1 DEF ManifestNamespace
  <1>3. ASSUME ~ManifestRefused(text, "ClusterWorkflowTemplate", namespace)
        PROVE  Manifests[text].namespace = Omitted
    BY <1>1, <1>3
  <1>4. QED
    BY <1>2, <1>3

\* No check fails, so every namespace that is asked about is allowed.
LEMMA ReadsAllowed ==
    ASSUME NEW tool \in Reading, NEW p, NEW s,
           \A i \in DOMAIN Checks(tool, p, s) : ~Checks(tool, p, s)[i][2],
           NEW namespace \in NamespacesAsked(tool, p)
    PROVE  Authorized(namespace, s)
  <1>1. CASE tool \in Namespaced
    <2>1. ~Denied(p, s)
      BY <1>1, PolicyFirst
    <2>2. namespace = Namespace(p)
      BY <1>1, Asked
    <2>3. QED
      BY <2>1, <2>2 DEF Denied
  <1>2. CASE tool \in {"list_cluster_workflow_templates", "get_cluster_workflow_template"}
    BY <1>2, Asked
  <1>3. CASE tool = "get_resource_spec"
    <2>1. 4 \in DOMAIN GetResourceSpec(p, s)
      BY DEF GetResourceSpec
    <2>2. GetResourceSpec(p, s)[4][2] = (~(p.kind = "cluster_workflow_template") /\ Denied(p, s))
      BY DEF GetResourceSpec
    <2>3. ~(~(p.kind = "cluster_workflow_template") /\ Denied(p, s))
      BY <1>3, <2>1, <2>2, HandlerChecks
    <2>4. QED
      BY <1>3, <2>3, Asked DEF Denied
  <1>4. CASE tool = "lint_workflow"
    <2>1. {1, 2} \subseteq DOMAIN LintWorkflow(p, s)
      BY DEF LintWorkflow
    <2>2. /\ LintWorkflow(p, s)[1][2] = Denied(p, s)
          /\ LintWorkflow(p, s)[2][2] = ManifestRefused(p.manifest_json, "Workflow", Namespace(p))
      BY DEF LintWorkflow
    <2>3. ~Denied(p, s) /\ ~ManifestRefused(p.manifest_json, "Workflow", Namespace(p))
      BY <1>4, <2>1, <2>2, HandlerChecks
    <2>4. ManifestNamespace(p.manifest_json, Namespace(p)) = Namespace(p)
      BY <2>3, ManifestKeepsNamespace
    <2>5. QED
      BY <1>4, <2>3, <2>4, Asked DEF Denied
  <1>5. CASE tool = "lint_workflow_template"
    <2> DEFINE kind == IF p.cluster_scope THEN "ClusterWorkflowTemplate" ELSE "WorkflowTemplate"
    <2>1. {2, 3} \subseteq DOMAIN LintWorkflowTemplate(p, s)
      BY DEF LintWorkflowTemplate
    <2>2. /\ LintWorkflowTemplate(p, s)[2][2] = (~p.cluster_scope /\ Denied(p, s))
          /\ LintWorkflowTemplate(p, s)[3][2] = ManifestRefused(p.manifest_json, kind, Namespace(p))
      BY DEF LintWorkflowTemplate
    <2>3. ~(~p.cluster_scope /\ Denied(p, s)) /\ ~ManifestRefused(p.manifest_json, kind, Namespace(p))
      BY <1>5, <2>1, <2>2, HandlerChecks
    <2>4. CASE p.cluster_scope
      BY <1>5, <2>3, <2>4, ManifestKeepsNamespace, Asked
    <2>5. CASE ~p.cluster_scope
      <3>1. ManifestNamespace(p.manifest_json, Namespace(p)) = Namespace(p)
        BY <2>3, <2>5, ManifestKeepsNamespace
      <3>2. QED
        BY <1>5, <2>3, <2>5, <3>1, Asked DEF Denied
    <2>6. QED
      BY <2>4, <2>5
  <1>6. QED
    BY <1>1, <1>2, <1>3, <1>4, <1>5 DEF Namespaced

\* What a tool reads.
LEMMA ReadRefusals ==
    ASSUME NEW tool \in Reading, NEW p, NEW s, Within(Inputs[tool], p)
    PROVE  /\ ReadRefusal(tool, p, s) # "out_of_range"
           /\ ReadRefusal(tool, p, s) = "none" =>
                 \A namespace \in NamespacesAsked(tool, p) : Authorized(namespace, s)
  <1>1. PICK n \in Nat : Ranged(Checks(tool, p, s), n)
    BY ReadsRanged
  <1>2. DOMAIN Checks(tool, p, s) = 1..n
    BY <1>1 DEF Ranged
  <1>3. CASE FirstRefusal(Checks(tool, p, s)) = "none" /\ \A i \in 1..n : ~Checks(tool, p, s)[i][2]
    BY <1>2, <1>3, ReadsAllowed DEF ReadRefusal
  <1>4. CASE \E i \in 1..n :
                Checks(tool, p, s)[i][2] /\ FirstRefusal(Checks(tool, p, s)) = Checks(tool, p, s)[i][1]
    BY <1>1, <1>4 DEF Ranged, ReadRefusal
  <1>5. QED
    BY <1>2, <1>3, <1>4, FirstOfChecks

\* What the caller is told of an answer is Argo's, or what is wrong with it.
LEMMA ArgoErrors ==
    ASSUME NEW tool, NEW p, NEW status
    PROVE  ArgoError(tool, p, status) \notin {"none", "out_of_range", "namespace_denied"}
  <1> DEFINE checks == <<
            <<"argo_not_found",        status = 404>>,
            <<"argo_access_denied",    status \in {401, 403}>>,
            <<"invalid_input",         ~OlderRead(tool, p) /\ status \in {400, 422}>>,
            <<"invalid_state",         ~OlderRead(tool, p) /\ status = 409>>,
            <<"argo_api_error",        ~OlderRead(tool, p) /\ status = 429>>,
            <<"argo_request_rejected", status \in 400..499>>,
            <<"argo_api_error",        TRUE>> >>
  <1>1. DOMAIN checks = 1..7 /\ checks[7][2]
    OBVIOUS
  <1>2. \A i \in 1..7 : checks[i][1] \notin {"none", "out_of_range", "namespace_denied"}
    OBVIOUS
  <1>3. ArgoError(tool, p, status) = FirstRefusal(checks)
    BY DEF ArgoError
  <1> HIDE DEF checks
  <1>4. 7 \in Nat /\ 7 \in 1..7
    OBVIOUS
  <1>5. QED
    BY <1>1, <1>2, <1>3, <1>4, FirstOfChecks

\* A result says that nothing was wrong with the answer.
LEMMA AnswerErrors ==
    ASSUME NEW tool, NEW p, NEW answer
    PROVE  /\ AnswerError(tool, p, answer) \notin {"out_of_range", "namespace_denied"}
           /\ AnswerError(tool, p, answer) = "none" => ~Mismatch(tool, p, answer.differs)
  <1>1. CASE answer.status # 200
    BY <1>1, ArgoErrors DEF AnswerError
  <1>2. CASE answer.status = 200
    BY Zenon, <1>2 DEF AnswerError
  <1>3. QED
    BY <1>1, <1>2

\* What is compared of an answer.
LEMMA Compared ==
    ASSUME NEW p, NEW differs
    PROVE  /\ \A tool \in {"get_workflow_nodes", "get_workflow_artifacts", "read_workflow_artifact",
                           "get_workflow_logs"} :
                  Mismatch(tool, p, differs) = (Given(p.archive_uid) /\ differs # {})
           /\ Mismatch("get_archived_workflow", p, differs) = ("namespace" \in differs)
           /\ Mismatch("get_resource_spec", p, differs) = ({"namespace", "name"} \cap differs # {})
  BY Zenon DEF Mismatch

\* No mutation is refused for the range of a number.
LEMMA MutationRefusals ==
    ASSUME NEW r, r.tool \in MutatingTools, NEW s
    PROVE  MutationRefusal(r, s) # "out_of_range"
  <1>1. ASSUME NEW valid
        PROVE  DestructiveRefusal(r, s, valid) # "out_of_range"
    <2> DEFINE checks == <<
            <<"namespace_denied",    ~Authorized(Namespace(r), s)>>,
            <<"invalid_input",       ~valid>>,
            <<"denied",              ~(s.mutations /\ s.destructive)>>,
            <<"configuration_error", ~s.argo>> >>
    <2>1. DOMAIN checks = 1..4 /\ \A i \in 1..4 : checks[i][1] # "out_of_range"
      OBVIOUS
    <2> HIDE DEF checks
    <2>2. FirstRefusal(checks) # "out_of_range"
      BY <2>1, 4 \in Nat, FirstOfChecks
    <2>3. QED
      BY <2>2 DEF checks, DestructiveRefusal
  <1>2. SetSuspended(r, s) # "out_of_range"
    <2> DEFINE checks == <<
            <<"namespace_denied",    ~Authorized(Namespace(r), s)>>,
            <<"invalid_input",       ~Named(r)>>,
            <<"denied",              ~s.mutations>>,
            <<"configuration_error", ~s.argo>> >>
    <2>1. DOMAIN checks = 1..4 /\ \A i \in 1..4 : checks[i][1] # "out_of_range"
      OBVIOUS
    <2> HIDE DEF checks
    <2>2. FirstRefusal(checks) # "out_of_range"
      BY <2>1, 4 \in Nat, FirstOfChecks
    <2>3. QED
      BY <2>2 DEF checks, SetSuspended
  <1>3. Create(r, s) # "out_of_range"
    <2> DEFINE checks == <<
            <<"namespace_denied",    ~Authorized(Namespace(r), s)>>,
            <<"denied",              ~s.mutations>>,
            <<"invalid_input",       ~Named(r)>>,
            <<"configuration_error", ~s.argo>> >>
    <2>1. DOMAIN checks = 1..4 /\ \A i \in 1..4 : checks[i][1] # "out_of_range"
      OBVIOUS
    <2> HIDE DEF checks
    <2>2. FirstRefusal(checks) # "out_of_range"
      BY <2>1, 4 \in Nat, FirstOfChecks
    <2>3. QED
      BY <2>2 DEF checks, Create
  <1>4. QED
    BY Zenon, <1>1, <1>2, <1>3
       DEF MutationRefusal, TerminateWorkflow, RetryWorkflow, MutatingTools, Destructive

-------------------------------------------------------------------------------
(* What a call ends with.                                                      *)

\* The tools that read by the UID of an archived workflow.
LEMMA ReadByUid ==
    ASSUME NEW tool \in Reading, "archive_uid" \in Inputs[tool].fields
    PROVE  tool \in {"get_workflow_nodes", "get_workflow_artifacts", "read_workflow_artifact",
                     "get_workflow_logs"}
  <1> DEFINE Lacks(schema) == "archive_uid" \notin schema.fields
  <1>1. Lacks(ByName) /\ Lacks(ListWorkflowsInput) /\ Lacks(ListCronWorkflowsInput) /\ Lacks(GetCronHistoryInput)
    BY DEF ByName, ListWorkflowsInput, ListCronWorkflowsInput, GetCronHistoryInput, Schema, ToSet
  <1>2. /\ Lacks(ListWorkflowTemplatesInput) /\ Lacks(ListClusterWorkflowTemplatesInput)
        /\ Lacks(GetClusterWorkflowTemplateInput)
    BY DEF ListWorkflowTemplatesInput, ListClusterWorkflowTemplatesInput,
       GetClusterWorkflowTemplateInput,
           Schema, ToSet
  <1>3. Lacks(GetWorkflowEventsInput) /\ Lacks(ListArchivedWorkflowsInput) /\ Lacks(GetArchivedWorkflowInput)
    BY DEF GetWorkflowEventsInput, ListArchivedWorkflowsInput, GetArchivedWorkflowInput, Schema, ToSet
  <1>4. Lacks(GetResourceSpecInput) /\ Lacks(GetWorkflowPodDiagnosticsInput) /\ Lacks(WaitWorkflowInput)
    BY DEF GetResourceSpecInput, GetWorkflowPodDiagnosticsInput, WaitWorkflowInput, Schema, ToSet
  <1>5. Lacks(LintWorkflowInput) /\ Lacks(LintWorkflowTemplateInput)
    BY DEF LintWorkflowInput, LintWorkflowTemplateInput, Schema, ToSet
  <1>6. ~Lacks(Inputs[tool])
    OBVIOUS
  <1> HIDE DEF Lacks
  <1>7. QED
    BY <1>1, <1>2, <1>3, <1>4, <1>5, <1>6, ReadingTools, CatalogEntries
       DEF GetWorkflowInput, GetCronWorkflowInput, GetWorkflowTemplateInput

\* What ReadsInsidePolicy, LayersAgree and AnswersWhatWasAsked say of a result.
InsidePolicy(r, result) ==
    /\ result.error = "namespace_denied" => result.sent = "nothing"
    /\ r.tool \in ReadOnly =>
        result.sent # "write" /\ \A namespace \in result.asked : Authorized(namespace, env)

AsAsked(r, result) ==
    result.sent = "read" /\ result.error = "none" =>
        /\ "archive_uid" \in DOMAIN r.given /\ Given(r.given["archive_uid"][2]) => result.differs = {}
        /\ r.tool \in {"get_archived_workflow", "get_resource_spec"} => "namespace" \notin result.differs
        /\ r.tool = "get_resource_spec" => "name" \notin result.differs

Fit(r, result) == result.error # "out_of_range" /\ InsidePolicy(r, result) /\ AsAsked(r, result)

LEMMA NothingSentFits ==
    ASSUME NEW r, NEW error, error # "out_of_range"
    PROVE  Fit(r, [Nowhere EXCEPT !.error = error])
  BY DEF Fit, InsidePolicy, AsAsked, Nowhere

LEMMA ServerPolicy ==
    ASSUME deployment \in Deployments
    PROVE  \A namespace : Authorized(namespace, server) = Authorized(namespace, env)
  <1>1. {"allowed", "denied"} \subseteq DOMAIN env
    BY ToolServerAssumption DEF env
  <1>2. server.allowed = env.allowed /\ server.denied = env.denied
    BY <1>1 DEF server
  <1>3. QED
    BY <1>2 DEF Authorized

\* The result of a read.
LEMMA ReadFits ==
    ASSUME deployment \in Deployments, NEW c \in Calls, Read(c)
    PROVE  \E result : Fit(request[c], result) /\ Conclude(c, result)
  <1> DEFINE tool == Tool(c)
             given == request[c].given
             p == Payload(Inputs[tool], given, Omitted)
             refusal == ReadRefusal(tool, p, server)
  <1>1. tool \in Reading /\ tool \in DOMAIN Inputs /\ InputRefusal(Inputs[tool], given) = "none"
    BY CatalogDomain, ReadingTools DEF Read, Accepted, Input, Reading
  <1>2. WellFormed(Inputs[tool])
    BY <1>1, SchemasWellFormed
  <1>3. Within(Inputs[tool], p)
    BY <1>1, <1>2, PayloadWithin
  <1>4. /\ refusal # "out_of_range"
        /\ refusal = "none" => \A namespace \in NamespacesAsked(tool, p) : Authorized(namespace, server)
    BY <1>1, <1>3, ReadRefusals
  <1>5. CASE refusal # "none"
    <2>1. Conclude(c, Failed(refusal))
      BY <1>5 DEF Read, Input
    <2>2. QED
      BY <1>4, <2>1, NothingSentFits DEF Failed
  <1>6. CASE refusal = "none"
    <2>1. PICK answer : Conclude(c, [Failed(AnswerError(tool, p, answer)) EXCEPT
                                        !.sent = "read", !.asked = NamespacesAsked(tool, p),
                                        !.differs = answer.differs])
      BY <1>6 DEF Read, Input
    <2> DEFINE error == AnswerError(tool, p, answer)
               result == [Failed(error) EXCEPT !.sent = "read", !.asked = NamespacesAsked(tool, p),
                                               !.differs = answer.differs]
    <2>2. /\ result.error = error /\ result.sent = "read"
          /\ result.asked = NamespacesAsked(tool, p) /\ result.differs = answer.differs
      BY DEF Failed, Nowhere
    <2>3. error \notin {"out_of_range", "namespace_denied"} /\ (error = "none" => ~Mismatch(tool, p, answer.differs))
      BY AnswerErrors
    <2>4. InsidePolicy(request[c], result)
      BY <1>4, <1>6, <2>2, <2>3, ServerPolicy DEF InsidePolicy
    <2>5. AsAsked(request[c], result)
      <3> SUFFICES ASSUME error = "none"
                   PROVE  /\ "archive_uid" \in DOMAIN given /\ Given(given["archive_uid"][2]) => answer.differs = {}
                          /\ tool \in {"get_archived_workflow", "get_resource_spec"} => "namespace" \notin answer.differs
                          /\ tool = "get_resource_spec" => "name" \notin answer.differs
        BY <2>2 DEF AsAsked, Tool
      <3>1. ~Mismatch(tool, p, answer.differs)
        BY <2>3
      <3>2. ASSUME "archive_uid" \in DOMAIN given, Given(given["archive_uid"][2])
            PROVE  answer.differs = {}
        <4>1. "archive_uid" \in Inputs[tool].fields
          BY <1>1, <1>2, <3>2, AcceptedInput DEF Undecodable
        <4>2. p["archive_uid"] = given["archive_uid"][2]
          BY <3>2, <4>1 DEF Payload
        <4>3. tool \in {"get_workflow_nodes", "get_workflow_artifacts", "read_workflow_artifact",
                        "get_workflow_logs"}
          BY <1>1, <4>1, ReadByUid
        <4>4. Mismatch(tool, p, answer.differs) = (Given(p["archive_uid"]) /\ answer.differs # {})
          BY <4>3, Compared
        <4>5. QED
          BY <3>1, <3>2, <4>2, <4>4
      <3>3. QED
        BY <3>1, <3>2, Compared
    <2>6. QED
      BY <2>1, <2>2, <2>3, <2>4, <2>5 DEF Fit
  <1>7. QED
    BY <1>5, <1>6

LEMMA ToolsFit ==
    ASSUME deployment \in Deployments,
           NEW c \in Calls, RefuseInput(c) \/ Read(c) \/ GetServerContext(c) \/ Mutate(c)
    PROVE  \E result : Fit(request[c], result) /\ Conclude(c, result)
  <1>1. CASE RefuseInput(c)
    <2>1. PICK hint, protocol :
              Conclude(c, [Failed("invalid_params") EXCEPT !.hint = hint, !.protocol = protocol])
      BY <1>1 DEF RefuseInput
    <2>2. QED
      BY <2>1 DEF Failed, Nowhere, Fit, InsidePolicy, AsAsked
  <1>2. CASE GetServerContext(c)
    <2>1. PICK error \in {"none", "cancelled"}, sent \in {"read", "nothing"} :
              Conclude(c, [Failed(error) EXCEPT !.sent = sent])
      BY <1>2 DEF GetServerContext
    <2>2. QED
      BY <1>2, <2>1 DEF Failed, Nowhere, Fit, InsidePolicy, AsAsked, GetServerContext, Tool
  <1>3. CASE Mutate(c)
    <2> DEFINE m == Mutation(c)
               refusal == MutationRefusal(m, server)
    <2>1. Tool(c) \notin ReadOnly /\ m.tool \in MutatingTools
      BY <1>3 DEF Mutate, ReadOnly, MutatingTools, Destructive, Reversible, Creating, Mutation
    <2>2. refusal # "out_of_range"
      BY <2>1, MutationRefusals
    <2>3. PICK a : \/ Conclude(c, [Nowhere EXCEPT !.status = "denied"])
                   \/ Conclude(c, Failed(refusal))
                   \/ Conclude(c, [Nowhere EXCEPT !.status = "dry_run"])
                   \/ Conclude(c, [Nowhere EXCEPT !.sent = "write", !.asked = a, !.status = "ok"])
                   \/ Conclude(c, [Nowhere EXCEPT !.sent = "write", !.asked = a, !.error = "may_have_reached_argo"])
                   \/ Conclude(c, Failed("confirmation_invalid"))
      BY <1>3 DEF Mutate
    <2>4. QED
      BY <2>1, <2>2, <2>3 DEF Failed, Nowhere, Fit, InsidePolicy, AsAsked, Tool
  <1>4. QED
    BY <1>1, <1>2, <1>3, ReadFits

Answered == \A c \in Calls : Fit(request[c], outcome[c])

LEMMA AnsweredInit == Init => Answered
  <1>1. Nowhere = [Nowhere EXCEPT !.error = "none"]
    BY DEF Nowhere
  <1>2. \A r : Fit(r, Nowhere)
    BY <1>1, NothingSentFits
  <1>3. QED
    BY <1>2 DEF Init, Answered

LEMMA AnsweredStep == LifeInv /\ Told /\ Admitted /\ Answered /\ [Next]_vars => Answered'
  <1> SUFFICES ASSUME LifeInv, Told, Admitted, Answered, [Next]_vars
               PROVE  Answered'
    OBVIOUS
  <1>1. env' = env
    <2>1. UNCHANGED deployment
      BY DEF Next, RefuseStart, Live, Receive, RefuseInput, Read, GetServerContext, Mutate, Conclude,
         WriteRecord,
             Reply, FollowHint, vars
    <2>2. QED
      BY <2>1 DEF env
  <1>2. \A r, result : Fit(r, result)' = Fit(r, result)
    BY <1>1 DEF Fit, InsidePolicy, AsAsked
  <1>3. CASE UNCHANGED <<request, outcome>>
    BY <1>2, <1>3 DEF Answered
  <1>4. ASSUME NEW c \in Calls, NEW r, Receive(c, r)
        PROVE  Answered'
    <2>1. outcome[c] = Nowhere
      BY <1>4 DEF Receive, TurnAway, Arrive, Told
    <2>2. PICK error : /\ error # "out_of_range"
                       /\ outcome' = [outcome EXCEPT ![c] = [Nowhere EXCEPT !.error = error]]
      <3>1. CASE UNCHANGED outcome
        <4>1. Nowhere = [Nowhere EXCEPT !.error = "none"]
          BY DEF Nowhere
        <4>2. outcome' = [outcome EXCEPT ![c] = [Nowhere EXCEPT !.error = "none"]]
          BY <2>1, <3>1, <4>1 DEF Told
        <4>3. QED
          BY <4>2
      <3>2. CASE outcome' = [outcome EXCEPT ![c].error = Admission(env, r)]
        <4>1. outcome' = [outcome EXCEPT ![c] = [Nowhere EXCEPT !.error = Admission(env, r)]]
          BY <2>1, <3>2
        <4>2. Admission(env, r) # "out_of_range"
          BY DEF Admission
        <4>3. QED
          BY <4>1, <4>2
      <3>3. QED
        BY <1>4, <3>1, <3>2 DEF Receive
    <2>3. Fit(request'[c], outcome'[c])
      <3>1. outcome'[c] = [Nowhere EXCEPT !.error = error]
        BY <2>2 DEF Told
      <3>2. QED
        BY <2>2, <3>1, NothingSentFits
    <2>4. \A d \in Calls \ {c} : request'[d] = request[d] /\ outcome'[d] = outcome[d]
      BY <1>4, <2>2 DEF Receive, Admitted, Told
    <2>5. QED
      BY <1>2, <2>3, <2>4 DEF Answered
  <1>5. ASSUME NEW c \in Calls, RefuseInput(c) \/ Read(c) \/ GetServerContext(c) \/ Mutate(c)
        PROVE  Answered'
    <2>1. PICK result : Fit(request[c], result) /\ Conclude(c, result)
      BY <1>5, ToolsFit DEF Admitted
    <2>2. UNCHANGED request /\ outcome' = [outcome EXCEPT ![c] = result]
      BY <2>1 DEF Conclude
    <2>3. QED
      BY <1>2, <2>1, <2>2 DEF Answered, Told
  <1>6. ASSUME NEW c \in Calls, FollowHint(c)
        PROVE  Answered'
    <2>1. outcome' = [outcome EXCEPT ![c] = Nowhere]
      BY <1>6 DEF FollowHint
    <2>2. Fit(request'[c], outcome'[c])
      <3>1. outcome'[c] = [Nowhere EXCEPT !.error = "none"]
        BY <2>1 DEF Told, Nowhere
      <3>2. QED
        BY <3>1, NothingSentFits
    <2>3. \A d \in Calls \ {c} : request'[d] = request[d] /\ outcome'[d] = outcome[d]
      BY <1>6, <2>1 DEF FollowHint, Admitted, Told
    <2>4. QED
      BY <1>2, <2>2, <2>3 DEF Answered
  <1>7. CASE RefuseStart \/ Live(Main) \/ Live(StdioEnds) \/ Live(ServeFails) \/ Live(Signal) \/ UNCHANGED vars
    BY <1>3, <1>7 DEF RefuseStart, Live, calls, vars
  <1>8. ASSUME NEW c \in Calls, Live(HangUp(c)) \/ WriteRecord(c) \/ Reply(c)
        PROVE  Answered'
    BY <1>3, <1>8 DEF Live, calls, WriteRecord, Reply
  <1>9. QED
    BY <1>4, <1>5, <1>6, <1>7, <1>8 DEF Next

LEMMA SpecAnswered == Spec => []Answered
  BY AnsweredInit, AnsweredStep, SpecTold, SpecAdmitted, SpecLifeInv, PTL DEF Spec

\* A tool that reads sends no write and asks about nothing that the policy denies.
THEOREM ReadsAreInsidePolicy == Spec => []ReadsInsidePolicy
  <1>1. Answered => ReadsInsidePolicy
    BY DEF Answered, Fit, InsidePolicy, ReadsInsidePolicy, Tool
  <1>2. QED
    BY <1>1, SpecAnswered, PTL

\* The service refuses no number and no word that the schema lets through.
THEOREM TheLayersAgree == Spec => []LayersAgree
  <1>1. Answered => LayersAgree
    BY DEF Answered, Fit, LayersAgree
  <1>2. QED
    BY <1>1, SpecAnswered, PTL

\* A result is about what was asked for: whatever Argo answers, no read by archive_uid
\* and no read of a specification shows another object, and get_archived_workflow
\* nothing of another namespace.
THEOREM AnswersAreOfWhatWasAsked == Spec => []AnswersWhatWasAsked
  <1>1. Answered => AnswersWhatWasAsked
    BY DEF Answered, Fit, AsAsked, AnswersWhatWasAsked, Tool, Error
  <1>2. QED
    BY <1>1, SpecAnswered, PTL

-------------------------------------------------------------------------------
(* The examples that the hints offer are complete: each is an accepted input.  *)

(* The examples of the hints are accepted. *)

LEMMA ExampleDomains ==
    /\ DOMAIN FirstExamples =
           {"list_workflows", "list_cron_workflows", "list_workflow_templates", "get_workflow",
            "retry_workflow", "get_cron_workflow", "get_workflow_logs", "terminate_workflow",
            "get_cron_history", "toggle_cron_suspension"}
    /\ DOMAIN SecondExamples =
           {"get_workflow_template", "get_cluster_workflow_template",
            "list_cluster_workflow_templates", "list_archived_workflows", "get_workflow_nodes",
            "get_workflow_artifacts", "get_workflow_events", "get_archived_workflow",
            "read_workflow_artifact", "get_resource_spec"}
    /\ DOMAIN ThirdExamples =
           {"suspend_workflow", "resume_workflow", "trigger_cron_workflow",
            "get_workflow_pod_diagnostics", "wait_workflow", "lint_workflow",
            "lint_workflow_template", "submit_workflow_template", "resubmit_workflow"}
  <1>1. DOMAIN FirstExamples =
           {"list_workflows", "list_cron_workflows", "list_workflow_templates", "get_workflow",
            "retry_workflow", "get_cron_workflow", "get_workflow_logs", "terminate_workflow",
            "get_cron_history", "toggle_cron_suspension"}
    BY DEF FirstExamples
  <1>2. DOMAIN SecondExamples =
           {"get_workflow_template", "get_cluster_workflow_template",
            "list_cluster_workflow_templates", "list_archived_workflows", "get_workflow_nodes",
            "get_workflow_artifacts", "get_workflow_events", "get_archived_workflow",
            "read_workflow_artifact", "get_resource_spec"}
    BY DEF SecondExamples
  <1>3. DOMAIN ThirdExamples =
           {"suspend_workflow", "resume_workflow", "trigger_cron_workflow",
            "get_workflow_pod_diagnostics", "wait_workflow", "lint_workflow",
            "lint_workflow_template", "submit_workflow_template", "resubmit_workflow"}
    BY DEF ThirdExamples
  <1>4. QED
    BY <1>1, <1>2, <1>3

LEMMA ExampleGroups ==
    /\ \A tool \in DOMAIN FirstExamples : Examples[tool] = FirstExamples[tool]
    /\ \A tool \in DOMAIN SecondExamples : Examples[tool] = SecondExamples[tool]
    /\ \A tool \in DOMAIN ThirdExamples : Examples[tool] = ThirdExamples[tool]
  <1>1. ASSUME NEW tool \in DOMAIN FirstExamples
        PROVE  Examples[tool] = FirstExamples[tool]
    <2>1. tool \in DOMAIN Inputs /\ tool \notin DOMAIN SecondExamples /\ tool \notin DOMAIN ThirdExamples
      BY CatalogDomain, ExampleDomains
    <2>2. QED
      BY <2>1, Zenon DEF Examples
  <1>2. ASSUME NEW tool \in DOMAIN SecondExamples
        PROVE  Examples[tool] = SecondExamples[tool]
    <2>1. tool \in DOMAIN Inputs /\ tool \notin DOMAIN FirstExamples /\ tool \notin DOMAIN ThirdExamples
      BY CatalogDomain, ExampleDomains
    <2>2. QED
      BY <2>1, Zenon DEF Examples
  <1>3. ASSUME NEW tool \in DOMAIN ThirdExamples
        PROVE  Examples[tool] = ThirdExamples[tool]
    <2>1. tool \in DOMAIN Inputs /\ tool \notin DOMAIN FirstExamples /\ tool \notin DOMAIN SecondExamples
      BY CatalogDomain, ExampleDomains
    <2>2. QED
      BY <2>1, Zenon DEF Examples
  <1>4. QED
    BY <1>1, <1>2, <1>3

LEMMA FieldTypes ==
    /\ \A field \in {"limit", "offset", "offset_bytes", "max_bytes", "max_lines",
                     "duration_seconds", "poll_interval_seconds"} : FieldType(field) = "number"
    /\ \A field \in {"suspend", "cluster_scope", "memoized"} : FieldType(field) = "boolean"
    /\ \A field \in {"name", "reason", "workflow_name", "container", "source", "uid", "node_id",
                     "artifact_name", "direction", "kind", "section", "manifest_json",
                     "template_name"} : FieldType(field) = "string"
  BY Zenon DEF FieldType

LEMMA ArgumentPairs ==
    ASSUME NEW x
    PROVE  /\ String(x) # Null /\ String(x)[1] = "string" /\ String(x)[2] = x
           /\ Number(x) # Null /\ Number(x)[1] = "number" /\ Number(x)[2] = x
  BY DEF String, Number, Null

LEMMA OffIsFlag == Off # Null /\ Off[1] = "boolean"
  BY DEF Off, Boolean, Null

\* An example that has all required fields and nothing the schema refuses.
Complete(schema, example) ==
    /\ \A i \in DOMAIN schema.required : schema.required[i] \in DOMAIN example
    /\ \A field \in DOMAIN example :
        /\ field \in schema.fields /\ example[field] # Null /\ example[field][1] = FieldType(field)
        /\ field \in DOMAIN schema.limits => example[field][2] \in schema.limits[field]

LEMMA CompleteIsAccepted ==
    ASSUME NEW schema, NEW example, Complete(schema, example)
    PROVE  InputRefusal(schema, example) = "none"
  <1>1. ~Undecodable(schema, example)
    BY DEF Complete, Undecodable
  <1>2. Missing(schema, example) = {}
    BY DEF Complete, Missing
  <1>3. ~OutOfSchema(schema, example)
    BY DEF Complete, OutOfSchema
  <1>4. QED
    BY <1>1, <1>2, <1>3 DEF InputRefusal

LEMMA ExamplesComplete == \A tool \in DOMAIN Inputs : Complete(Inputs[tool], Examples[tool])
  <1> USE ArgumentPairs, OffIsFlag, FieldTypes DEF Complete, Schema, ToSet, Example, OneName, FiftyOf, Nothing
  <1>1. Complete(ByName, OneName)
    BY DEF ByName
  <1>2. Complete(ListWorkflowsInput, FiftyOf)
    BY Sizes DEF ListWorkflowsInput, Upto200, Upto50
  <1>3. Complete(ListCronWorkflowsInput, FiftyOf)
    BY Sizes DEF ListCronWorkflowsInput, Upto200, Upto50
  <1>4. Complete(ListWorkflowTemplatesInput, FiftyOf)
    BY Sizes DEF ListWorkflowTemplatesInput, Upto200, Upto50
  <1>5. Complete(RetryWorkflowInput, OneName)
    BY Sizes DEF RetryWorkflowInput
  <1>6. Complete(GetWorkflowLogsInput,
            [workflow_name |-> Example, container |-> String("main"),
             source |-> String("auto"), max_bytes |-> Number(MiB(1)),
             max_lines |-> Number(200)])
    <2> DEFINE e == [workflow_name |-> Example, container |-> String("main"),
                    source |-> String("auto"), max_bytes |-> Number(MiB(1)),
                    max_lines |-> Number(200)]
    <2>1. \A i \in DOMAIN GetWorkflowLogsInput.required : GetWorkflowLogsInput.required[i] \in DOMAIN e
      BY DEF GetWorkflowLogsInput
    <2>2. DOMAIN e = {"workflow_name", "container", "source", "max_bytes", "max_lines"}
          /\ DOMAIN e \subseteq GetWorkflowLogsInput.fields
      BY DEF GetWorkflowLogsInput
    <2>3. /\ e["workflow_name"] = Example
          /\ e["container"] = String("main")
          /\ e["source"] = String("auto")
          /\ e["max_bytes"] = Number(MiB(1))
          /\ e["max_lines"] = Number(200)
      OBVIOUS
    <2>4. \A field \in DOMAIN e : e[field] # Null /\ e[field][1] = FieldType(field)
      <3> HIDE DEF e
      <3>1. QED
        BY <2>2, <2>3
    <2>5. /\ DOMAIN GetWorkflowLogsInput.limits = {"source", "max_bytes", "max_lines"}
          /\ GetWorkflowLogsInput.limits["source"] = {"auto", "live", "archive"}
          /\ GetWorkflowLogsInput.limits["max_bytes"] = KiB(1)..MiB(4)
          /\ GetWorkflowLogsInput.limits["max_lines"] = Nat
      BY DEF GetWorkflowLogsInput
    <2>6. \A field \in DOMAIN e : field \in DOMAIN GetWorkflowLogsInput.limits =>
              e[field][2] \in GetWorkflowLogsInput.limits[field]
      <3>1. /\ e["source"][2] \in GetWorkflowLogsInput.limits["source"]
            /\ e["max_bytes"][2] \in GetWorkflowLogsInput.limits["max_bytes"]
            /\ e["max_lines"][2] \in GetWorkflowLogsInput.limits["max_lines"]
        <4> HIDE DEF e
        <4>1. QED
          BY Sizes, <2>3, <2>5
      <3> HIDE DEF e
      <3>2. QED
        BY <2>5, <3>1
    <2>7. QED
      BY <2>1, <2>2, <2>4, <2>6
  <1>7. Complete(TerminateWorkflowInput,
            [name |-> Example, reason |-> Example])
    BY Sizes DEF TerminateWorkflowInput
  <1>8. Complete(GetCronHistoryInput,
            [name |-> Example, limit |-> Number(10)])
    BY Sizes DEF GetCronHistoryInput, Upto200, Upto50
  <1>9. Complete(ToggleCronSuspensionInput,
            [name |-> Example, suspend |-> Off])
    BY Sizes DEF ToggleCronSuspensionInput
  <1>10. Complete(GetClusterWorkflowTemplateInput, OneName)
    BY Sizes DEF GetClusterWorkflowTemplateInput
  <1>11. Complete(ListClusterWorkflowTemplatesInput, FiftyOf)
    BY Sizes DEF ListClusterWorkflowTemplatesInput, Upto200, Upto50
  <1>12. Complete(ListArchivedWorkflowsInput, FiftyOf)
    BY Sizes DEF ListArchivedWorkflowsInput, Upto200, Upto50
  <1>13. Complete(GetWorkflowNodesInput,
            [name |-> Example, limit |-> Number(50), offset |-> Number(0)])
    BY Sizes DEF GetWorkflowNodesInput
  <1>14. Complete(GetWorkflowArtifactsInput,
            [name |-> Example, limit |-> Number(50), offset |-> Number(0)])
    BY Sizes DEF GetWorkflowArtifactsInput
  <1>15. Complete(GetWorkflowEventsInput,
            [name |-> Example, limit |-> Number(50), duration_seconds |-> Number(2)])
    BY Sizes DEF GetWorkflowEventsInput
  <1>16. Complete(GetArchivedWorkflowInput,
            [uid |-> Example])
    BY Sizes DEF GetArchivedWorkflowInput
  <1>17. Complete(ReadWorkflowArtifactInput,
            [name |-> Example, node_id |-> Example, artifact_name |-> Example,
             direction |-> String("outputs"), max_bytes |-> Number(KiB(64)),
             offset_bytes |-> Number(0)])
    <2> DEFINE e == [name |-> Example, node_id |-> Example, artifact_name |-> Example,
                    direction |-> String("outputs"), max_bytes |-> Number(KiB(64)),
                    offset_bytes |-> Number(0)]
    <2>1. \A i \in DOMAIN ReadWorkflowArtifactInput.required : ReadWorkflowArtifactInput.required[i] \in DOMAIN e
      BY DEF ReadWorkflowArtifactInput
    <2>2. DOMAIN e = {"name", "node_id", "artifact_name", "direction", "max_bytes",
                       "offset_bytes"} /\ DOMAIN e \subseteq ReadWorkflowArtifactInput.fields
      BY DEF ReadWorkflowArtifactInput
    <2>3. /\ e["name"] = Example
          /\ e["node_id"] = Example
          /\ e["artifact_name"] = Example
          /\ e["direction"] = String("outputs")
          /\ e["max_bytes"] = Number(KiB(64))
          /\ e["offset_bytes"] = Number(0)
      OBVIOUS
    <2>4. \A field \in DOMAIN e : e[field] # Null /\ e[field][1] = FieldType(field)
      <3> HIDE DEF e
      <3>1. QED
        BY <2>2, <2>3
    <2>5. /\ DOMAIN ReadWorkflowArtifactInput.limits = {"direction", "max_bytes", "offset_bytes"}
          /\ ReadWorkflowArtifactInput.limits["direction"] = {"inputs", "outputs"}
          /\ ReadWorkflowArtifactInput.limits["max_bytes"] = 4..KiB(256)
          /\ ReadWorkflowArtifactInput.limits["offset_bytes"] = 0..MiB(16)
      BY DEF ReadWorkflowArtifactInput
    <2>6. \A field \in DOMAIN e : field \in DOMAIN ReadWorkflowArtifactInput.limits =>
              e[field][2] \in ReadWorkflowArtifactInput.limits[field]
      <3>1. /\ e["direction"][2] \in ReadWorkflowArtifactInput.limits["direction"]
            /\ e["max_bytes"][2] \in ReadWorkflowArtifactInput.limits["max_bytes"]
            /\ e["offset_bytes"][2] \in ReadWorkflowArtifactInput.limits["offset_bytes"]
        <4> HIDE DEF e
        <4>1. QED
          BY Sizes, <2>3, <2>5
      <3> HIDE DEF e
      <3>2. QED
        BY <2>5, <3>1
    <2>7. QED
      BY <2>1, <2>2, <2>4, <2>6
  <1>18. Complete(GetResourceSpecInput,
            [name |-> Example, kind |-> String("workflow"),
             max_bytes |-> Number(KiB(64)), section |-> String("summary")])
    <2> DEFINE e == [name |-> Example, kind |-> String("workflow"),
                    max_bytes |-> Number(KiB(64)), section |-> String("summary")]
    <2>1. \A i \in DOMAIN GetResourceSpecInput.required : GetResourceSpecInput.required[i] \in DOMAIN e
      BY DEF GetResourceSpecInput
    <2>2. DOMAIN e = {"name", "kind", "max_bytes", "section"} /\ DOMAIN e \subseteq GetResourceSpecInput.fields
      BY DEF GetResourceSpecInput
    <2>3. /\ e["name"] = Example
          /\ e["kind"] = String("workflow")
          /\ e["max_bytes"] = Number(KiB(64))
          /\ e["section"] = String("summary")
      OBVIOUS
    <2>4. \A field \in DOMAIN e : e[field] # Null /\ e[field][1] = FieldType(field)
      <3> HIDE DEF e
      <3>1. QED
        BY <2>2, <2>3
    <2>5. /\ DOMAIN GetResourceSpecInput.limits = {"kind", "section", "max_bytes"}
          /\ GetResourceSpecInput.limits["kind"] = {"workflow", "workflow_template", "cluster_workflow_template",
                "cron_workflow"}
          /\ GetResourceSpecInput.limits["section"] = {"summary", "arguments", "templates", "spec"}
          /\ GetResourceSpecInput.limits["max_bytes"] = KiB(1)..KiB(256)
      BY DEF GetResourceSpecInput
    <2>6. \A field \in DOMAIN e : field \in DOMAIN GetResourceSpecInput.limits =>
              e[field][2] \in GetResourceSpecInput.limits[field]
      <3>1. /\ e["kind"][2] \in GetResourceSpecInput.limits["kind"]
            /\ e["section"][2] \in GetResourceSpecInput.limits["section"]
            /\ e["max_bytes"][2] \in GetResourceSpecInput.limits["max_bytes"]
        <4> HIDE DEF e
        <4>1. QED
          BY Sizes, <2>3, <2>5
      <3> HIDE DEF e
      <3>2. QED
        BY <2>5, <3>1
    <2>7. QED
      BY <2>1, <2>2, <2>4, <2>6
  <1>19. Complete(TriggerCronWorkflowInput, OneName)
    BY Sizes DEF TriggerCronWorkflowInput
  <1>20. Complete(GetWorkflowPodDiagnosticsInput,
            [name |-> Example, limit |-> Number(20)])
    BY Sizes DEF GetWorkflowPodDiagnosticsInput
  <1>21. Complete(WaitWorkflowInput,
            [name |-> Example, duration_seconds |-> Number(10),
             poll_interval_seconds |-> Number(2)])
    BY Sizes DEF WaitWorkflowInput
  <1>22. Complete(LintWorkflowInput,
            [manifest_json |-> Example])
    BY Sizes DEF LintWorkflowInput
  <1>23. Complete(LintWorkflowTemplateInput,
            [manifest_json |-> Example, cluster_scope |-> Off])
    BY Sizes DEF LintWorkflowTemplateInput
  <1>24. Complete(SubmitWorkflowTemplateInput,
            [template_name |-> Example, cluster_scope |-> Off])
    BY Sizes DEF SubmitWorkflowTemplateInput
  <1>25. Complete(ResubmitWorkflowInput,
            [name |-> Example, memoized |-> Off])
    BY Sizes DEF ResubmitWorkflowInput
  <1> HIDE ArgumentPairs, OffIsFlag, FieldTypes DEF Complete, Schema, ToSet, Example, OneName, FiftyOf, Nothing
  <1>26. \A tool \in DOMAIN FirstExamples : Complete(Inputs[tool], Examples[tool])
    BY <1>1, <1>2, <1>3, <1>4, <1>5, <1>6, <1>7, <1>8, <1>9,
       ExampleDomains, ExampleGroups, CatalogEntries
       DEF FirstExamples, GetWorkflowInput, GetCronWorkflowInput
  <1>27. \A tool \in DOMAIN SecondExamples : Complete(Inputs[tool], Examples[tool])
    BY <1>1, <1>10, <1>11, <1>12, <1>13, <1>14, <1>15, <1>16, <1>17, <1>18,
       ExampleDomains, ExampleGroups, CatalogEntries
       DEF SecondExamples, GetWorkflowTemplateInput
  <1>28. \A tool \in DOMAIN ThirdExamples : Complete(Inputs[tool], Examples[tool])
    BY <1>1, <1>19, <1>20, <1>21, <1>22, <1>23, <1>24, <1>25,
       ExampleDomains, ExampleGroups, CatalogEntries
       DEF ThirdExamples, SuspendWorkflowInput, ResumeWorkflowInput
  <1>29. QED
    BY <1>26, <1>27, <1>28, ExampleDomains, CatalogDomain

-------------------------------------------------------------------------------
(* Each hint leaves one required field fewer to give, or takes the example.    *)

\* The fields that are missing are no more than the required ones.
LEMMA MissingIsBounded ==
    ASSUME NEW schema, WellFormed(schema), NEW given
    PROVE  /\ Len(schema.required) \in Nat
           /\ IsFiniteSet(Missing(schema, given)) /\ Cardinality(Missing(schema, given)) \in Nat
           /\ Cardinality(Missing(schema, given)) <= Len(schema.required)
  <1>1. PICK n \in Nat : DOMAIN schema.required = 1..n /\ Len(schema.required) = n
    BY DEF WellFormed
  <1>2. Missing(schema, given) \in SUBSET (1..n)
    BY <1>1 DEF Missing
  <1>3. IsFiniteSet(1..n) /\ Cardinality(1..n) = n
    BY FS_Interval
  <1>4. IsFiniteSet(Missing(schema, given)) /\ Cardinality(Missing(schema, given)) <= n
    BY <1>2, <1>3, FS_Subset
  <1>5. QED
    BY <1>1, <1>4, FS_CardinalityType

\* A refusal says "arguments", or it is the first missing field.
LEMMA RefusedField ==
    ASSUME NEW schema, WellFormed(schema), NEW given,
           InputRefusal(schema, given) \notin {"none", "arguments"}
    PROVE  \E i \in Missing(schema, given) : schema.required[i] = InputRefusal(schema, given)
  <1>1. Missing(schema, given) # {} /\ InputRefusal(schema, given) = schema.required[Min(Missing(schema, given))]
    BY DEF InputRefusal
  <1>2. QED
    BY <1>1, FirstMissing

\* A field that was missing and is given from the example is missing no more.
LEMMA HintHelps ==
    ASSUME NEW schema, WellFormed(schema), NEW example, Complete(schema, example), NEW given,
           InputRefusal(schema, given) \notin {"none", "arguments"}
    PROVE  LET corrected == Corrected(example, given, InputRefusal(schema, given))
           IN  Cardinality(Missing(schema, corrected)) + 1 <= Cardinality(Missing(schema, given))
  <1> DEFINE field == InputRefusal(schema, given)
             corrected == Corrected(example, given, field)
  <1>1. PICK i \in Missing(schema, given) : schema.required[i] = field
    BY RefusedField
  <1>2. field \in DOMAIN example /\ example[field] # Null
    BY <1>1 DEF Missing, Complete
  <1>3. corrected = [f \in DOMAIN given \cup {field} |-> IF f = field THEN example[field] ELSE given[f]]
    BY <1>2 DEF Corrected
  <1> HIDE DEF field, corrected
  <1>4. Missing(schema, corrected) \subseteq Missing(schema, given) \ {i}
    BY <1>1, <1>2, <1>3 DEF Missing
  <1>5. /\ IsFiniteSet(Missing(schema, given)) /\ Cardinality(Missing(schema, given)) \in Nat
        /\ Cardinality(Missing(schema, corrected)) \in Nat
    BY MissingIsBounded
  <1>6. /\ IsFiniteSet(Missing(schema, given) \ {i})
        /\ Cardinality(Missing(schema, given) \ {i}) = Cardinality(Missing(schema, given)) - 1
    BY <1>5, FS_RemoveElement
  <1>7. Cardinality(Missing(schema, corrected)) <= Cardinality(Missing(schema, given) \ {i})
    BY <1>4, <1>6, FS_Subset
  <1>8. QED
    BY <1>5, <1>6, <1>7 DEF field, corrected

\* Every hint was followed for a field less that is missing, or its whole example was taken.
Progress(r, n) ==
    \/ r.given = Examples[r.tool]
    \/ n + Cardinality(Missing(Inputs[r.tool], r.given)) <= Len(Inputs[r.tool].required)

\* A hint is about the input of its request.
Hinting(r, result) ==
    result.hint # "none" =>
        r.tool \in DOMAIN Inputs /\ result.hint = InputRefusal(Inputs[r.tool], r.given)

Hinted ==
    /\ hints = [c \in Calls |-> hints[c]]
    /\ \A c \in Calls :
        /\ hints[c] \in Nat
        /\ call[c] = "idle" => hints[c] = 0
        /\ call[c] # "idle" =>
            /\ request[c].tool \in Tools
            /\ DOMAIN request[c] = {"host", "origins", "authorization", "tool", "given"}
            /\ request[c].tool \in DOMAIN Inputs => Progress(request[c], hints[c])
        /\ call[c] # "idle" => Hinting(request[c], outcome[c])

LEMMA HintedConverge == LifeInv /\ Hinted => HintsConverge
  <1> SUFFICES ASSUME LifeInv, Hinted, NEW c \in Calls, Done(c), outcome[c].hint # "none"
               PROVE  hints[c] <= Len(Input(c).required)
    BY DEF HintsConverge
  <1> DEFINE tool == request[c].tool
             given == request[c].given
  <1>1. call[c] # "idle"
    BY DEF Done
  <1>2. tool \in DOMAIN Inputs /\ InputRefusal(Inputs[tool], given) # "none" /\ hints[c] \in Nat
        /\ Progress(request[c], hints[c])
    BY <1>1 DEF Hinted, Hinting
  <1>3. given # Examples[tool]
    BY <1>2, ExamplesComplete, CompleteIsAccepted
  <1>4. hints[c] + Cardinality(Missing(Inputs[tool], given)) <= Len(Inputs[tool].required)
    BY <1>2, <1>3 DEF Progress
  <1>5. /\ Len(Inputs[tool].required) \in Nat
        /\ Cardinality(Missing(Inputs[tool], given)) \in Nat
    BY <1>2, SchemasWellFormed, MissingIsBounded
  <1>6. QED
    BY <1>2, <1>4, <1>5 DEF Input, Tool

\* What a caller makes of a hint.
LEMMA FollowedHint ==
    ASSUME NEW tool \in DOMAIN Inputs, NEW given, NEW n \in Nat,
           InputRefusal(Inputs[tool], given) # "none",
           \/ given = Examples[tool]
           \/ n + Cardinality(Missing(Inputs[tool], given)) <= Len(Inputs[tool].required)
    PROVE  LET corrected == Corrected(Examples[tool], given, InputRefusal(Inputs[tool], given))
           IN  \/ corrected = Examples[tool]
               \/ n + 1 + Cardinality(Missing(Inputs[tool], corrected)) <= Len(Inputs[tool].required)
  <1> DEFINE hint == InputRefusal(Inputs[tool], given)
             corrected == Corrected(Examples[tool], given, hint)
  <1>1. WellFormed(Inputs[tool]) /\ Complete(Inputs[tool], Examples[tool])
    BY SchemasWellFormed, ExamplesComplete
  <1>2. CASE hint = "arguments"
    BY <1>2 DEF Corrected
  <1>3. CASE hint # "arguments"
    <2>1. given # Examples[tool]
      BY <1>1, CompleteIsAccepted
    <2>2. n + Cardinality(Missing(Inputs[tool], given)) <= Len(Inputs[tool].required)
      BY <2>1
    <2>3. Cardinality(Missing(Inputs[tool], corrected)) + 1 <= Cardinality(Missing(Inputs[tool], given))
      BY <1>1, <1>3, HintHelps
    <2>4. /\ Len(Inputs[tool].required) \in Nat
          /\ Cardinality(Missing(Inputs[tool], given)) \in Nat
          /\ Cardinality(Missing(Inputs[tool], corrected)) \in Nat
      BY <1>1, MissingIsBounded
    <2> HIDE DEF corrected
    <2>5. n + 1 + Cardinality(Missing(Inputs[tool], corrected)) <= Len(Inputs[tool].required)
      BY <2>2, <2>3, <2>4
    <2>6. QED
      BY <2>5 DEF corrected
  <1>4. QED
    BY <1>2, <1>3

LEMMA ToolsHint ==
    ASSUME NEW c \in Calls, Tool(c) \in Tools, RefuseInput(c) \/ Read(c) \/ GetServerContext(c) \/ Mutate(c)
    PROVE  \E result : Hinting(request[c], result) /\ Conclude(c, result)
  <1> USE DEF Hinting, Failed, Nowhere, Tool
  <1>1. CASE RefuseInput(c)
    <2>1. Tool(c) # "get_server_context"
      BY <1>1 DEF RefuseInput, Accepted
    <2>2. PICK protocol : Conclude(c, [Failed("invalid_params") EXCEPT
                                          !.hint = InputRefusal(Inputs[Tool(c)], request[c].given),
                                          !.protocol = protocol])
      BY <1>1 DEF RefuseInput, Input
    <2>3. QED
      BY <2>1, <2>2 DEF Tools
  <1>2. CASE Read(c)
    <2>1. PICK e, a, d : \/ Conclude(c, Failed(e))
                         \/ Conclude(c, [Failed(e) EXCEPT !.sent = "read", !.asked = a, !.differs = d])
      BY <1>2 DEF Read
    <2>2. QED
      BY <2>1
  <1>3. CASE GetServerContext(c)
    <2>1. PICK e, s : Conclude(c, [Failed(e) EXCEPT !.sent = s])
      BY <1>3 DEF GetServerContext
    <2>2. QED
      BY <2>1
  <1>4. CASE Mutate(c)
    <2>1. PICK e, a : \/ Conclude(c, [Nowhere EXCEPT !.status = "denied"])
                      \/ Conclude(c, Failed(e))
                      \/ Conclude(c, [Nowhere EXCEPT !.status = "dry_run"])
                      \/ Conclude(c, [Nowhere EXCEPT !.sent = "write", !.asked = a, !.status = "ok"])
                      \/ Conclude(c, [Nowhere EXCEPT !.sent = "write", !.asked = a, !.error = "may_have_reached_argo"])
      BY <1>4 DEF Mutate
    <2>2. QED
      BY <2>1
  <1>5. QED
    BY <1>1, <1>2, <1>3, <1>4

LEMMA HintedInit == Init => Hinted
  BY DEF Init, LifecycleInit, Hinted, Hinting, Nowhere

LEMMA HintedStep == LifeInv /\ Told /\ Admitted /\ Hinted /\ [Next]_vars => Hinted'
  <1> SUFFICES ASSUME LifeInv, Told, Admitted, Hinted, [Next]_vars
               PROVE  Hinted'
    OBVIOUS
  <1> USE DEF LifeInv, LifecycleTypeOK
  <1>1. CASE /\ UNCHANGED <<request, hints, outcome>>
             /\ \A c \in Calls : call'[c] = "idle" <=> call[c] = "idle"
    BY <1>1 DEF Hinted, Hinting, Progress
  <1>2. CASE RefuseStart \/ UNCHANGED vars
    BY <1>1, <1>2 DEF RefuseStart, vars, calls, lifecycle, handlers
  <1>3. CASE \/ Live(Main) \/ Live(StdioEnds) \/ Live(ServeFails) \/ Live(Signal)
             \/ \E c \in Calls : Live(HangUp(c))
    <2>1. UNCHANGED <<request, hints, outcome>>
      BY <1>3 DEF Live, calls
    <2>2. UNCHANGED call \/ call' = [c \in Calls |-> IF InFlight(c) THEN "cut" ELSE call[c]]
      BY <1>3 DEF Live, Main, StartTelemetry, Configure, OpenAudit, BuildServer, Listen, OnServeError,
                  OnSignal, Drained, ShutdownWaits, ForceClose, CloseAudit, CloseTelemetry, StdioEnds, ServeFails,
                  Signal, HangUp, handlers
    <2>3. QED
      BY <1>1, <2>1, <2>2 DEF InFlight
  <1>4. ASSUME NEW c \in Calls, NEW r \in Requests[deployment.callers], Receive(c, r)
        PROVE  Hinted'
    <2>1. /\ UNCHANGED hints /\ request' = [request EXCEPT ![c] = r]
          /\ call[c] = "idle" /\ outcome[c] = Nowhere
          /\ \A d \in Calls \ {c} : call'[d] = call[d]
          /\ UNCHANGED outcome \/ outcome' = [outcome EXCEPT ![c].error = Admission(env, r)]
      BY <1>4 DEF Receive, TurnAway, Arrive, Told
    <2>2. r.tool \in Tools /\ DOMAIN r = {"host", "origins", "authorization", "tool", "given"}
      BY <1>4, ToolServerAssumption DEF Admitted
    <2>3. outcome'[c].hint = "none"
      BY <2>1 DEF Told, Nowhere
    <2>4. call'[c] # "idle"
      BY <1>4 DEF Receive, TurnAway, Arrive
    <2>5. hints[c] = 0 /\ (r.tool \in DOMAIN Inputs => Progress(r, 0))
      BY <2>1, SchemasWellFormed, MissingIsBounded DEF Hinted, Progress
    <2>6. request'[c] = r /\ \A d \in Calls \ {c} : request'[d] = request[d] /\ outcome'[d] = outcome[d]
      BY <2>1 DEF Admitted, Told
    <2>7. QED
      BY <2>1, <2>2, <2>3, <2>4, <2>5, <2>6 DEF Hinted, Hinting, Progress
  <1>5. ASSUME NEW c \in Calls, RefuseInput(c) \/ Read(c) \/ GetServerContext(c) \/ Mutate(c)
        PROVE  Hinted'
    <2>1. call[c] = "running"
      BY <1>5 DEF RefuseInput, Read, GetServerContext, Mutate
    <2>2. Tool(c) \in Tools
      BY <2>1 DEF Hinted, Tool
    <2>3. PICK result : Hinting(request[c], result) /\ Conclude(c, result)
      BY <1>5, <2>2, ToolsHint
    <2>4. /\ UNCHANGED <<request, hints>> /\ outcome' = [outcome EXCEPT ![c] = result]
          /\ \A d \in Calls : call'[d] = "idle" <=> call[d] = "idle"
      BY <2>1, <2>3 DEF Conclude, Execute
    <2>5. QED
      BY <2>1, <2>3, <2>4 DEF Hinted, Hinting, Progress, Told
  <1>6. ASSUME NEW c \in Calls, WriteRecord(c) \/ Reply(c)
        PROVE  Hinted'
    BY <1>1, <1>6 DEF WriteRecord, Record, Reply, Answer, calls
  <1>7. ASSUME NEW c \in Calls, FollowHint(c)
        PROVE  Hinted'
    <2> DEFINE r == request[c]
               corrected == Corrected(Examples[r.tool], r.given, outcome[c].hint)
    <2>1. /\ call[c] = "answered" /\ outcome[c].hint # "none"
          /\ hints' = [hints EXCEPT ![c] = hints[c] + 1]
          /\ request' = [request EXCEPT ![c].given = corrected]
          /\ outcome' = [outcome EXCEPT ![c] = Nowhere]
          /\ call' = [call EXCEPT ![c] = "running"]
      BY <1>7 DEF FollowHint, Tool
    <2>2. /\ r.tool \in DOMAIN Inputs /\ outcome[c].hint = InputRefusal(Inputs[r.tool], r.given)
          /\ hints[c] \in Nat /\ Progress(r, hints[c])
          /\ DOMAIN r = {"host", "origins", "authorization", "tool", "given"}
      BY <2>1 DEF Hinted, Hinting
    <2>3. \/ corrected = Examples[r.tool]
          \/ hints[c] + 1 + Cardinality(Missing(Inputs[r.tool], corrected)) <= Len(Inputs[r.tool].required)
      BY <2>1, <2>2, FollowedHint DEF Progress
    <2>4. /\ request'[c].tool = r.tool /\ request'[c].given = corrected
          /\ DOMAIN request'[c] = DOMAIN r
      BY <2>1, <2>2 DEF Admitted
    <2>5. /\ hints'[c] = hints[c] + 1 /\ outcome'[c].hint = "none" /\ call'[c] # "idle"
          /\ \A d \in Calls \ {c} : /\ request'[d] = request[d] /\ outcome'[d] = outcome[d]
                                    /\ hints'[d] = hints[d] /\ call'[d] = call[d]
      BY <2>1 DEF Admitted, Told, Hinted, Nowhere
    <2>6. Progress(request'[c], hints'[c])
      BY <2>3, <2>4, <2>5 DEF Progress
    <2>7. hints' = [d \in Calls |-> hints'[d]]
      BY <2>1 DEF Hinted
    <2>8. QED
      BY <2>2, <2>4, <2>5, <2>6, <2>7 DEF Hinted, Hinting, Progress, Tools
  <1>8. QED
    BY <1>2, <1>3, <1>4, <1>5, <1>6, <1>7 DEF Next

LEMMA SpecHinted == Spec => []Hinted
  BY HintedInit, HintedStep, SpecTold, SpecAdmitted, SpecLifeInv, PTL DEF Spec

\* A caller that follows the hints is accepted after one for each required field and one more.
THEOREM HintsLeadToAcceptance == Spec => []HintsConverge
  BY HintedConverge, SpecHinted, SpecLifeInv, PTL

-------------------------------------------------------------------------------
(* Nothing secret is on record.                                                *)

\* The tools whose parameters and manifests the interceptor hides are those that have them.
LEMMA HiddenFields ==
    ASSUME NEW tool \in DOMAIN Inputs
    PROVE  /\ "parameters" \in Inputs[tool].fields => HidesParameters(tool)
           /\ "manifest_json" \in Inputs[tool].fields => HidesManifest(tool)
  <1> DEFINE Plain(schema) == {"parameters", "manifest_json"} \cap schema.fields = {}
  <1> USE DEF Schema, ToSet
  <1>1. /\ Plain(ByName) /\ Plain(ListWorkflowsInput) /\ Plain(ListCronWorkflowsInput)
        /\ Plain(GetCronHistoryInput) /\ Plain(ToggleCronSuspensionInput)
    BY DEF ByName, ListWorkflowsInput, ListCronWorkflowsInput, GetCronHistoryInput,
       ToggleCronSuspensionInput
  <1>2. Plain(GetWorkflowLogsInput) /\ Plain(TerminateWorkflowInput) /\ Plain(RetryWorkflowInput)
    BY DEF GetWorkflowLogsInput, TerminateWorkflowInput, RetryWorkflowInput
  <1>3. /\ Plain(ListWorkflowTemplatesInput) /\ Plain(ListClusterWorkflowTemplatesInput)
        /\ Plain(GetClusterWorkflowTemplateInput)
    BY DEF ListWorkflowTemplatesInput, ListClusterWorkflowTemplatesInput,
       GetClusterWorkflowTemplateInput
  <1>4. /\ Plain(GetWorkflowEventsInput) /\ Plain(ListArchivedWorkflowsInput)
        /\ Plain(GetArchivedWorkflowInput)
    BY DEF GetWorkflowEventsInput, ListArchivedWorkflowsInput, GetArchivedWorkflowInput
  <1>5. Plain(GetWorkflowNodesInput) /\ Plain(GetWorkflowArtifactsInput)
    BY DEF GetWorkflowNodesInput, GetWorkflowArtifactsInput
  <1>6. Plain(ReadWorkflowArtifactInput)
    BY DEF ReadWorkflowArtifactInput
  <1>7. Plain(GetResourceSpecInput) /\ Plain(GetWorkflowPodDiagnosticsInput) /\ Plain(WaitWorkflowInput)
    BY DEF GetResourceSpecInput, GetWorkflowPodDiagnosticsInput, WaitWorkflowInput
  <1>8. /\ "parameters" \notin LintWorkflowInput.fields
        /\ "parameters" \notin LintWorkflowTemplateInput.fields
    BY DEF LintWorkflowInput, LintWorkflowTemplateInput
  <1>9. /\ "manifest_json" \notin SubmitWorkflowTemplateInput.fields
        /\ "manifest_json" \notin ResubmitWorkflowInput.fields
        /\ "manifest_json" \notin TriggerCronWorkflowInput.fields
    BY DEF SubmitWorkflowTemplateInput, ResubmitWorkflowInput, TriggerCronWorkflowInput
  <1>10. CASE tool \in {"lint_workflow", "lint_workflow_template"}
    BY <1>8, <1>10, CatalogEntries DEF HidesManifest
  <1>11. CASE tool \in {"submit_workflow_template", "resubmit_workflow", "trigger_cron_workflow"}
    BY <1>9, <1>11, CatalogEntries DEF HidesParameters
  <1>12. CASE tool \notin {"lint_workflow", "lint_workflow_template", "submit_workflow_template",
                           "resubmit_workflow", "trigger_cron_workflow"}
    <2> HIDE DEF Plain, Schema, ToSet
    <2>1. Plain(Inputs[tool])
      BY <1>1, <1>2, <1>3, <1>4, <1>5, <1>6, <1>7, <1>12, CatalogDomain, CatalogEntries
         DEF GetWorkflowInput, GetCronWorkflowInput, GetWorkflowTemplateInput, SuspendWorkflowInput,
             ResumeWorkflowInput
    <2>2. QED
      BY <2>1 DEF Plain
  <1>13. QED
    BY <1>10, <1>11, <1>12

\* A field is kept as it is, redacted, or reduced to the names in it.
LEMMA FieldForms ==
    ASSUME NEW tool, NEW key, NEW value
    PROVE  /\ RedactField(tool, key, value) \in {value, Redacted, SummarizeParameters(value)}
           /\ MayHoldSecret(tool, key) =>
                 RedactField(tool, key, value) \in {Redacted, SummarizeParameters(value)}
  <1>1. RedactField(tool, key, value) \in {value, Redacted, SummarizeParameters(value)}
    BY Zenon DEF RedactField
  <1>2. ASSUME MayHoldSecret(tool, key)
        PROVE  \/ HidesManifest(tool) /\ LowerCase(key) = "manifest_json"
               \/ HidesParameters(tool) /\ LowerCase(key) = "parameters"
               \/ Sensitive(key)
    BY <1>2, HiddenFields DEF MayHoldSecret, Sensitive
  <1>3. ASSUME \/ HidesManifest(tool) /\ LowerCase(key) = "manifest_json"
               \/ HidesParameters(tool) /\ LowerCase(key) = "parameters"
               \/ Sensitive(key)
        PROVE  RedactField(tool, key, value) \in {Redacted, SummarizeParameters(value)}
    BY Zenon, <1>3 DEF RedactField
  <1>4. QED
    BY <1>1, <1>2, <1>3

LEMMA SecretFree ==
    ASSUME NEW tool, NEW key, NEW value, DiscreetField(tool, key, value)
    PROVE  /\ Secrets \cap LeafTexts(RedactField(tool, key, value)) = {}
           /\ RedactField(tool, key, value)[1] = "object" =>
                 RedactField(tool, key, value) = value /\ ~MayHoldSecret(tool, key)
  <1>1. Redacted[1] = "string" /\ Secrets \cap LeafTexts(Redacted) = {}
    <2>1. Redacted[1] = "string"
      BY DEF Redacted, String
    <2>2. QED
      BY <2>1, SecretsAssumption DEF Texts
  <1>2. /\ SummarizeParameters(value)[1] # "object"
        /\ Secrets \cap LeafTexts(SummarizeParameters(value)) = {}
    <2>1. CASE value[1] = "object"
      <3>1. SummarizeParameters(value) = <<"names", DOMAIN value[2]>>
        BY <2>1 DEF SummarizeParameters
      <3>2. LeafTexts(SummarizeParameters(value)) = DOMAIN value[2]
        <4> DEFINE names == <<"names", DOMAIN value[2]>>
        <4>1. names[1] = "names" /\ names[2] = DOMAIN value[2]
          OBVIOUS
        <4> HIDE DEF names
        <4>2. LeafTexts(names) = names[2]
          BY Zenon, <4>1 DEF LeafTexts
        <4>3. QED
          BY <3>1, <4>1, <4>2 DEF names
      <3>3. QED
        BY <2>1, <3>1, <3>2 DEF DiscreetField
    <2>2. CASE value[1] # "object"
      BY <1>1, <2>2 DEF SummarizeParameters
    <2>3. QED
      BY <2>1, <2>2
  <1>3. QED
    BY <1>1, <1>2, FieldForms DEF DiscreetField

LEMMA RecordIsDiscreet ==
    ASSUME NEW tool, NEW fields, Discreet(tool, fields), NEW key \in DOMAIN RedactValue(tool, fields)
    PROVE  Secrets \cap Texts(RedactValue(tool, fields)[key]) = {}
  <1> DEFINE kept == RedactField(tool, key, fields[key])
             inside == [inner \in DOMAIN kept[2] |-> RedactField(tool, inner, kept[2][inner])]
  <1>1. /\ key \in DOMAIN fields
        /\ RedactValue(tool, fields)[key] = IF kept[1] = "object" THEN Object(inside) ELSE kept
    BY DEF RedactValue
  <1>2. DiscreetField(tool, key, fields[key])
    BY <1>1 DEF Discreet
  <1>3. CASE kept[1] # "object"
    BY <1>1, <1>2, <1>3, SecretFree DEF Texts
  <1>4. CASE kept[1] = "object"
    <2>1. kept = fields[key] /\ ~MayHoldSecret(tool, key)
      BY <1>2, <1>4, SecretFree
    <2>2. \A inner \in DOMAIN kept[2] : DiscreetField(tool, inner, kept[2][inner])
      BY <1>1, <1>4, <2>1 DEF Discreet
    <2>3. \A inner \in DOMAIN kept[2] : Secrets \cap LeafTexts(RedactField(tool, inner, kept[2][inner])) = {}
      BY <2>2, SecretFree
    <2>4. Texts(Object(inside)) = UNION {LeafTexts(inside[inner]) : inner \in DOMAIN inside}
      BY DEF Texts, Object
    <2>5. QED
      BY <1>1, <1>4, <2>3, <2>4
  <1>5. QED
    BY <1>3, <1>4

\* A hint's example adds no secret.
LEMMA CorrectedIsDiscreet ==
    ASSUME NEW tool \in DOMAIN Inputs, NEW given, Discreet(tool, given), NEW hint
    PROVE  Discreet(tool, Corrected(Examples[tool], given, hint))
  <1>1. Discreet(tool, Examples[tool])
    BY SecretsAssumption
  <1>2. CASE hint = "arguments" \/ hint \notin DOMAIN Examples[tool]
    BY <1>1, <1>2 DEF Corrected
  <1>3. CASE hint # "arguments" /\ hint \in DOMAIN Examples[tool]
    <2> DEFINE corrected == [field \in DOMAIN given \cup {hint} |->
                                IF field = hint THEN Examples[tool][hint] ELSE given[field]]
    <2>1. Corrected(Examples[tool], given, hint) = corrected
      BY <1>3 DEF Corrected
    <2>2. \A key \in DOMAIN corrected :
              \/ key \in DOMAIN Examples[tool] /\ corrected[key] = Examples[tool][key]
              \/ key \in DOMAIN given /\ corrected[key] = given[key]
      BY <1>3
    <2> HIDE DEF corrected
    <2>3. Discreet(tool, corrected)
      BY <1>1, <2>2 DEF Discreet
    <2>4. QED
      BY <2>1, <2>3
  <1>4. QED
    BY <1>2, <1>3

\* What callers give, and what is on record of it.
Secretive ==
    /\ \A c \in Calls : call[c] # "idle" => Discreet(request[c].tool, request[c].given)
    /\ \A c \in recorded :
        \A key \in DOMAIN log[c].arguments : Secrets \cap Texts(log[c].arguments[key]) = {}

LEMMA SecretiveInit == Init => Secretive
  BY DEF Init, LifecycleInit, Secretive

LEMMA SecretiveStep == LifeInv /\ Told /\ Admitted /\ Hinted /\ Secretive /\ [Next]_vars => Secretive'
  <1> SUFFICES ASSUME LifeInv, Told, Admitted, Hinted, Secretive, [Next]_vars
               PROVE  Secretive'
    OBVIOUS
  <1> USE DEF LifeInv, LifecycleTypeOK
  <1>1. CASE /\ UNCHANGED <<request, log, recorded>>
             /\ \A c \in Calls : call'[c] = "idle" <=> call[c] = "idle"
    BY <1>1 DEF Secretive
  <1>2. CASE RefuseStart \/ UNCHANGED vars
    BY <1>1, <1>2 DEF RefuseStart, vars, calls, lifecycle, handlers
  <1>3. CASE \/ Live(Main) \/ Live(StdioEnds) \/ Live(ServeFails) \/ Live(Signal)
             \/ \E c \in Calls : Live(HangUp(c))
    <2>1. UNCHANGED <<request, log, recorded>>
      BY <1>3 DEF Live, calls, Main, StartTelemetry, Configure, OpenAudit, BuildServer, Listen,
         OnServeError,
                  OnSignal, Drained, ShutdownWaits, ForceClose, CloseAudit, CloseTelemetry, StdioEnds, ServeFails,
                  Signal, HangUp, handlers
    <2>2. UNCHANGED call \/ call' = [c \in Calls |-> IF InFlight(c) THEN "cut" ELSE call[c]]
      BY <1>3 DEF Live, Main, StartTelemetry, Configure, OpenAudit, BuildServer, Listen, OnServeError,
                  OnSignal, Drained, ShutdownWaits, ForceClose, CloseAudit, CloseTelemetry, StdioEnds, ServeFails,
                  Signal, HangUp, handlers
    <2>3. QED
      BY <1>1, <2>1, <2>2 DEF InFlight
  <1>4. ASSUME NEW c \in Calls, NEW r \in Requests[deployment.callers], Receive(c, r)
        PROVE  Secretive'
    <2>1. /\ request' = [request EXCEPT ![c] = r] /\ UNCHANGED <<log, recorded>>
          /\ \A d \in Calls \ {c} : call'[d] = call[d]
      BY <1>4 DEF Receive, TurnAway, Arrive
    <2>2. Discreet(r.tool, r.given)
      BY <1>4, SecretsAssumption DEF Admitted
    <2>3. request'[c] = r /\ \A d \in Calls \ {c} : request'[d] = request[d]
      BY <2>1 DEF Admitted
    <2>4. QED
      BY <2>1, <2>2, <2>3 DEF Secretive
  <1>5. ASSUME NEW c \in Calls, RefuseInput(c) \/ Read(c) \/ GetServerContext(c) \/ Mutate(c)
        PROVE  Secretive'
    <2>1. PICK result : Sound(result) /\ Conclude(c, result)
      BY <1>5, ToolsConclude
    <2>2. /\ UNCHANGED <<request, log, recorded>>
          /\ \A d \in Calls : call'[d] = "idle" <=> call[d] = "idle"
      BY <2>1 DEF Conclude, Execute
    <2>3. QED
      BY <1>1, <2>2
  <1>6. ASSUME NEW c \in Calls, WriteRecord(c)
        PROVE  Secretive'
    <2>1. /\ UNCHANGED request /\ recorded' \subseteq recorded \cup {c}
          /\ call[c] # "idle" /\ \A d \in Calls : call'[d] = "idle" <=> call[d] = "idle"
      BY <1>6 DEF WriteRecord, Record
    <2>2. /\ log'[c].arguments = RedactValue(Tool(c), request[c].given)
          /\ \A d \in Calls \ {c} : log'[d] = log[d]
      BY <1>6 DEF WriteRecord, Told
    <2>3. Discreet(Tool(c), request[c].given)
      BY <2>1 DEF Secretive, Tool
    <2>4. \A key \in DOMAIN log'[c].arguments : Secrets \cap Texts(log'[c].arguments[key]) = {}
      BY <2>2, <2>3, RecordIsDiscreet
    <2>5. QED
      BY <2>1, <2>2, <2>4 DEF Secretive
  <1>7. ASSUME NEW c \in Calls, Reply(c)
        PROVE  Secretive'
    BY <1>1, <1>7 DEF Reply, Answer, calls
  <1>8. ASSUME NEW c \in Calls, FollowHint(c)
        PROVE  Secretive'
    <2> DEFINE r == request[c]
               corrected == Corrected(Examples[r.tool], r.given, outcome[c].hint)
    <2>1. /\ call[c] = "answered" /\ outcome[c].hint # "none"
          /\ request' = [request EXCEPT ![c].given = corrected]
          /\ recorded' = recorded \ {c} /\ UNCHANGED log
          /\ call' = [call EXCEPT ![c] = "running"]
      BY <1>8 DEF FollowHint, Tool
    <2>2. /\ r.tool \in DOMAIN Inputs /\ Discreet(r.tool, r.given)
          /\ DOMAIN r = {"host", "origins", "authorization", "tool", "given"}
      BY <2>1 DEF Hinted, Hinting, Secretive
    <2>3. Discreet(r.tool, corrected)
      BY <2>2, CorrectedIsDiscreet
    <2>4. /\ request'[c].tool = r.tool /\ request'[c].given = corrected
          /\ \A d \in Calls \ {c} : request'[d] = request[d]
      BY <2>1, <2>2 DEF Admitted
    <2>5. QED
      BY <2>1, <2>3, <2>4 DEF Secretive
  <1>9. QED
    BY <1>2, <1>3, <1>4, <1>5, <1>6, <1>7, <1>8 DEF Next

\* No record keeps a parameter's value, a manifest or a credential.
THEOREM NoSecretIsRecorded == Spec => []NothingSecretRecorded
  <1>1. Spec => []Secretive
    BY SecretiveInit, SecretiveStep, SpecTold, SpecAdmitted, SpecHinted, SpecLifeInv, PTL DEF Spec
  <1>2. Secretive => NothingSecretRecorded
    BY DEF Secretive, NothingSecretRecorded
  <1>3. QED
    BY <1>1, <1>2, PTL
================================================================================
