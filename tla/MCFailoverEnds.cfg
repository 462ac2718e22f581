\* One request over three keys, under the fairness of the scheduler.
SPECIFICATION FairSpec
CONSTANTS
    r1 = r1
    Requests = {r1}
    KeyList <- ThreeKeys
    Amounts <- Balances
    TTL = 1
    Backoff = 0
PROPERTIES
    RequestsEnd
CHECK_DEADLOCK FALSE
