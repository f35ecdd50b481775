CONSTANTS
    Instances = {1, 2}
    Repos = {r1}
    RepoOf <- OneRepo
    Runs = {w1}
    RunOf <- OneRun
    Legacy = {}
    Apps = {a1, a2}
    AttemptBound = 2
    ListingBound = 1
    MaxPerDay = 1
    MaxPerRun = 1
    MaxFaults = 1
SYMMETRY AppSymmetry
SPECIFICATION Spec
INVARIANTS LedgerNamesOwnIssue OneOutstanding CapsHold EndIsExplained
PROPERTIES ClosedClaimsNothing
