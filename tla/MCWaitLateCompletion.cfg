\* The same instance, for what the design says of completed.
SPECIFICATION WaitSpec
CONSTANTS
    DefaultDuration = 2
    MaxDuration = 4
    DefaultInterval = 1
    MaxInterval = 3
    MaxTime = 5
INVARIANTS
    CompletedMeansTerminal
\* The wait ends.
CHECK_DEADLOCK FALSE
