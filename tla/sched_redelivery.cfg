CONSTANTS
    Deadlines = {}
    Jobs = {j1}
    Polls = {}
    Daemon = daemon
    Clis = {}
    DeadlineWait = 1
    JobIntervals = {1}
    PollInterval = 1
    EnvelopeLife = 1
    MaxTime = 3
    MaxVersion = 0
    MaxFaults = 0
    MaxSessions = 0
SPECIFICATION Spec
PROPERTY DeliversPendingOnly
