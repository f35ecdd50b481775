CONSTANTS
    Deadlines = {}
    Jobs = {}
    Polls = {p1}
    Daemon = daemon
    Clis = {cli}
    DeadlineWait = 1
    JobIntervals = {1}
    PollInterval = 1
    EnvelopeLife = 2
    MaxTime = 2
    MaxVersion = 1
    MaxFaults = 0
    MaxSessions = 2
SPECIFICATION Spec
INVARIANT NoClockError
