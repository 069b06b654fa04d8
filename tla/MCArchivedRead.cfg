\* One call at a time and every answer of Argo, for what the design says of archive reads.
SPECIFICATION Spec
CONSTANTS
    Calls = {c1, c2}
    ShutdownBudget = 2
    Default = "dev"
    Omitted = Omitted
    Star = Star
    Blank = Blank
    Unsafe = Unsafe
    Manifests <- MCManifests
    Deployments <- Answered
    Requests <- MCRequests
    Answers <- MCAnswers
    Secrets <- MCSecrets
INVARIANTS
    ArchiveReadsVerified
\* The process exits.
CHECK_DEADLOCK FALSE
