\* A backend that keeps the list contract while its items change, and one that
\* answers anything: too many items, repeated cursors, endless pages.
SPECIFICATION Spec
CONSTANTS
    LastKey = 3
    MaxBackendPages = 3
    DefaultLimit = 1
    MaximumLimit = 2
    Limits <- MCLimits
    Kinds = {"match", "other", "hidden"}
    MaxCalls = 3
    MaxChanges = 1
INVARIANTS
    NothingSkipped
    InBackendOrder
    ScanBounded
\* The bounded calls end.
CHECK_DEADLOCK FALSE
