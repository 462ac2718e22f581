\* One stream of up to MaxBlocks content blocks.
SPECIFICATION FairSpec
CONSTANTS
    MaxBlocks = 6
INVARIANTS
    FlagsAgree
PROPERTIES
    WireSpec
    StreamEnds
CHECK_DEADLOCK FALSE
