\* Two requests that both refresh a pool never fetched before.
SPECIFICATION Spec
CONSTANTS
    r1 = r1
    r2 = r2
    Requests = {r1, r2}
    KeyList <- TwoKeys
    Amounts <- Balances
    TTL = 1
    Backoff = 0
PROPERTIES
    SuccessLeavesNoError
CHECK_DEADLOCK FALSE
