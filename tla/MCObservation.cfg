\* A stream that carries one event more than the limit of two, and a wait of up to
\* four seconds, shorter, equal to and longer than its interval.
SPECIFICATION ObservationSpec
CONSTANTS
    Limit = 2
    MaxFrames = 3
    DefaultDuration = 2
    MaxDuration = 4
    DefaultInterval = 1
    MaxInterval = 3
    MaxTime = 5
INVARIANTS
    HonestObservation
    OutcomeJustified
PROPERTIES
    CancelledNeverSucceeds
    TimesOutAtDeadline
    EverythingStops
    WaitEnds
\* Both calls end.
CHECK_DEADLOCK FALSE
