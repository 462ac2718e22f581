\* Conversations of at most four blocks in three messages, or releases of at most
\* three models, or two tools.
SPECIFICATION RequestSpec
CONSTANTS
    c1 = c1
    c2 = c2
    f = f
    g = g
    Ids = {c1, c2}
    Names = {f, g}
    MaxBlocks = 4
    MaxMessages = 3
    None = None
    Found <- FoundIds
    StaticMap <- BuiltInNames
    StaticEfforts <- BuiltInEfforts
    Lists <- EffortLists
    Highest = 5
    MaxEntries = 3
    Tools = {f, g}
    Budgets = {3999, 4000, 7999, 8000, 15999, 16000}
SYMMETRY Symmetry
INVARIANTS
    NamedAfterTheirCalls
    NothingLostOrDoubled
    ProtocolsAgree
    SessionIsStable
    EffortsFit
    ListedModelsAreServed
    ToolChoiceFits
CHECK_DEADLOCK FALSE
