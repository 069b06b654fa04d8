\* Two calls through a failing server; single calls at the gate, with every kind of
\* argument, under every policy, and for every answer of Argo.
SPECIFICATION FairSpec
CONSTANTS
    Calls = {c1, c2}
    ShutdownBudget = 2
    Default = "dev"
    Omitted = Omitted
    Star = Star
    Blank = Blank
    Unsafe = Unsafe
    Manifests <- MCManifests
    Deployments <- MCDeployments
    Requests <- MCRequests
    Answers <- MCAnswers
    Secrets <- MCSecrets
INVARIANTS
    CleanExit
    AnsweredIsRecorded
    OnlyAdmittedCallsRun
    OwnClientsAdmitted
    RecordTellsOutcome
    NothingSecretRecorded
    HintsConverge
    LayersAgree
    ReadsInsidePolicy
    AnswersWhatWasAsked
PROPERTIES
    GraceKept
    StopsOnSignal
\* The process exits.
CHECK_DEADLOCK FALSE
