CONSTANTS
    Deadlines = {}
    Jobs = {}
    Polls = {p1}
    Daemon = daemon
    Clis = {cli}
    DeadlineWait = 1
    JobIntervals = {1}
    PollInterval = 1
    EnvelopeLife = 1
    MaxTime = 2
    MaxVersion = 2
    MaxFaults = 1
    MaxSessions = 2
SPECIFICATION FairSpec
INVARIANTS ClockFollowsSchedule PendingIsCurrent NoEarlyOccurrence
PROPERTIES PollEnds
