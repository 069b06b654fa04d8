\* Four keys in two and more pages, and two changes between them.
SPECIFICATION Spec
CONSTANTS
    LastKey = 4
    Limits <- MCLimits
    DefaultLimit = 2
    MaximumLimit = 2
    MaxCalls = 4
    MaxChanges = 2
INVARIANTS CompleteUnlessLeft OnceUnlessJoined
\* The bounded calls end.
CHECK_DEADLOCK FALSE
