\* The logs of the same instance, for what the design says of returned_lines.
SPECIFICATION TextSpec
CONSTANTS
    UTFMax = 3
    Contents <- MCContents
    Offsets <- MCOffsets
    PageSizes <- MCPageSizes
    MaxPage = 4
    MaxOffset = 7
    MaxHops = 1
    MaxCalls = 4
    Requests <- MCRequests
    Streams <- MCStreams
    Retained <- MCRetained
    Nodes <- MCNodes
    MaxNodes = 2
    MinBudget = 3
    MaxBudget = 6
    Label <- MCLabel
INVARIANTS
    ReturnedLinesAreInLogs
\* The bounded calls end.
CHECK_DEADLOCK FALSE
