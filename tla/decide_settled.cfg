CONSTANTS
    None = None
    Commands = {c1}
    Concluding = {c1}
    Flows = {f1}
    Bodies = {b1}
    MaxEpoch = 2
    MaxRev = 2
    MaxFaults = 0
SPECIFICATION Spec
PROPERTIES AppliedIsRecorded
CHECK_DEADLOCK FALSE
