\* Two requests and two administrators, at most two replacements and one restart.
SPECIFICATION Spec
CONSTANTS
    r1 = r1
    r2 = r2
    a1 = a1
    a2 = a2
    s1 = s1
    s2 = s2
    Requests = {r1, r2}
    Admins = {a1, a2}
    Values = {s1, s2}
    Default = s1
    Sourced = Sourced
    Unquoted = Unquoted
    MaxClients = 3
    MaxPools = 2
    MaxRestarts = 1
SYMMETRY Symmetry
INVARIANTS
    ClientFollowsConfig
    ConfigFollowsFile
    CurrentClientStaysOpen
PROPERTIES
    NoPostOnClosedPool
