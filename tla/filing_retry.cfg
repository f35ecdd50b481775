CONSTANTS
    Instances = {1}
    Repos = {r1}
    RepoOf <- OneRepo
    Runs = {w1}
    RunOf <- OneRun
    Legacy = {}
    Apps = {a1, a2}
    AttemptBound = 2
    ListingBound = 2
    MaxPerDay = 1
    MaxPerRun = 1
    MaxFaults = 3
SPECIFICATION FairSpec
INVARIANTS AtMostOneIssue RefusedCreatedNothing
PROPERTIES ImplementsContract FilingEnds NoticesClear
