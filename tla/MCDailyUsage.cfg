\* A model, two days and the next, reports of any of their ranges, and two requests
\* to count, one of which may take no tokens.
SPECIFICATION Spec
CONSTANTS
    Models = {m1}
    m1 = m1
    All = All
    Tokens = {0, 1}
    MaxDay = 2
    MaxFinishes = 2
    Zones = {"west", "east"}
    MaxSpent = 2
INVARIANTS
    TypeOK
    FiguresAreClose
    OnlyFailedWritesAreMissing
PROPERTIES
    FileOnlyGrows
