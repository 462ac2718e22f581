\* Two concurrent requests over two keys, with disconnections and refreshes.
SPECIFICATION Spec
CONSTANTS
    r1 = r1
    r2 = r2
    Requests = {r1, r2}
    KeyList <- TwoKeys
    Amounts <- Balances
    TTL = 1
    Backoff = 0
SYMMETRY Symmetry
INVARIANTS
    ExhaustedOnlyWhenAllRejected
    AttemptsBounded
PROPERTIES
    NoAttemptAfterEvent
    FundedKeysFirst
    StaleCacheIsBeingRefreshed
    FailoverSpec
CHECK_DEADLOCK FALSE
