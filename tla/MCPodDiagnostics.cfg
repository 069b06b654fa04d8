\* Pages of up to three pods and a clock that passes the deadline.
SPECIFICATION Spec
CONSTANTS
    Limits <- MCLimits
    DefaultLimit = 1
    MaximumLimit = 2
    MaxPods = 3
    Deadline = 2
    MaxTime = 3
    Uids = {first, second}
INVARIANTS HonestReport AtMostOneLateRequest
\* The bounded calls end.
CHECK_DEADLOCK FALSE
