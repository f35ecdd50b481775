CONSTANTS
    Deadlines = {d1}
    Jobs = {}
    Polls = {}
    Daemon = daemon
    Clis = {}
    DeadlineWait = 1
    JobIntervals = {1}
    PollInterval = 1
    EnvelopeLife = 1
    MaxTime = 3
    MaxVersion = 3
    MaxFaults = 2
    MaxSessions = 0
SPECIFICATION FairSpec
INVARIANTS TypeOK NeverRejected
PROPERTIES ImplementsContract DeadlineElapsedOnOpenItem DeadlineNeverPostponed DeadlineEnds
