\* One request and one administrator, one replacement and one restart.
SPECIFICATION Spec
CONSTANTS
    r1 = r1
    a1 = a1
    s1 = s1
    s2 = s2
    Requests = {r1}
    Admins = {a1}
    Values = {s1, s2}
    Default = s1
    Sourced = Sourced
    Unquoted = Unquoted
    MaxClients = 2
    MaxPools = 1
    MaxRestarts = 1
INVARIANTS
    KeysFollowFile
