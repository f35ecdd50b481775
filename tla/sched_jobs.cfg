CONSTANTS
    Deadlines = {}
    Jobs = {j1}
    Polls = {}
    Daemon = daemon
    Clis = {}
    DeadlineWait = 1
    JobIntervals = {1, 2}
    PollInterval = 1
    EnvelopeLife = 1
    MaxTime = 4
    MaxVersion = 0
    MaxFaults = 1
    MaxSessions = 0
SPECIFICATION FairSpec
INVARIANTS OneToDeliver NoFireLost GapIsExact
PROPERTIES PendingSettles
