\* A streamed response of six content events, or five events without streaming,
\* deltas without text among them.
SPECIFICATION AnswersSpec
CONSTANTS
    MaxEvents = 6
    MaxReceived = 5
INVARIANTS
    ItemsOneByOne
    DoneEndsInItsDeltas
    CompletedRepeatsTheStream
    SameVerdict
    NothingLostOrDoubled
CHECK_DEADLOCK FALSE
