\* Upstream errors of any text, the adapter's own empty-response text included.
SPECIFICATION FairSpec
CONSTANTS
    ErrorTexts = {"error", "emptyError"}
    MaxEvents = 3
INVARIANTS
    OneDoneLast
    EmptyErrorHidden
    NothingLostOrReordered
    FinishIsTruthful
PROPERTIES
    StreamEnds
CHECK_DEADLOCK FALSE
