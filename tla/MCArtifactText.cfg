\* Artifacts of up to three characters, pages from one character wide to two; three
\* nodes of which two are read, and budgets around the size of a few lines.
SPECIFICATION TextSpec
CONSTANTS
    UTFMax = 3
    Contents <- MCContents
    Offsets <- MCOffsets
    PageSizes <- MCPageSizes
    MaxPage = 4
    MaxOffset = 7
    MaxHops = 1
    MaxCalls = 4
    Requests <- MCRequests
    Streams <- MCStreams
    Retained <- MCRetained
    Nodes <- MCNodes
    MaxNodes = 2
    MinBudget = 3
    MaxBudget = 6
    Label <- MCLabel
INVARIANTS
    PagesRejoin
    PagesAreWholeText
    TextIsReadable
    CompleteUnlessTruncated
    CollectedPrefix
    FallbackIsJustified
\* The bounded calls end.
CHECK_DEADLOCK FALSE
