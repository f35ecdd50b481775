CONSTANTS
    Instances = {1, 2}
    Repos = {r1}
    RepoOf <- OneRepo
    Runs = {1, 2}
    RunOf <- OwnRun
    Legacy = {1}
    Apps = {a1}
    AttemptBound = 1
    ListingBound = 1
    MaxPerDay = 1
    MaxPerRun = 1
    MaxFaults = 0
SPECIFICATION FairSpec
INVARIANTS CapsHold
PROPERTIES NoAdoptionAfterAmbiguity FilingEnds
