CONSTANTS
    t1 = t1  r1 = r1  r2 = r2  i1 = i1  i2 = i2  i3 = i3
    Tasks = {t1}
    Runs = {r1}
    TaskOf <- OneTask
    CampaignOf <- OneCampaign
    Invs = {i1, i2, i3}
    RunOf <- FirstRun
    KindOf <- WorkKinds
    Uncovered = {}
    MaxFacts = 0
    MaxRequests = 1
    MaxEpoch = 1
    MaxFaults = 1
SPECIFICATION Spec
INVARIANTS TypeOK ConfirmedIsQuiescent
PROPERTIES ImplementsStopContract
CHECK_DEADLOCK FALSE
