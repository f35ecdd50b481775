CONSTANTS
    None = None
    Commands = {c1}
    Concluding = {c1}
    Flows = {f1}
    Bodies = {b1}
    MaxEpoch = 2
    MaxRev = 2
    MaxFaults = 1
SPECIFICATION FairSpec
INVARIANTS FreshIsCurrent SentIsRemembered
PROPERTIES AnswersAreTrue CatchesUp
CHECK_DEADLOCK FALSE
