\* An upstream error may carry the empty-response text.
SPECIFICATION Spec
CONSTANTS
    ErrorTexts = {"error", "emptyError"}
    MaxEvents = 2
INVARIANTS
    NoRetryAfterVisible
CHECK_DEADLOCK FALSE
