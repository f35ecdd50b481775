CONSTANTS
    t1 = t1  r1 = r1  r2 = r2  i1 = i1  i2 = i2  i3 = i3
    Tasks = {t1}
    Runs = {r1, r2}
    TaskOf <- OneTask
    CampaignOf <- OneCampaign
    Invs = {i1}
    RunOf <- FirstRun
    KindOf <- Judgment
    Uncovered = {}
    MaxFacts = 3
    MaxRequests = 2
    MaxEpoch = 0
    MaxFaults = 1
SPECIFICATION FairSpec
INVARIANTS SlotStaysReleased ClosuresStayReadable
PROPERTIES SlotHeldUntilProven ClosedRunsStayFenced StopIsAnswered RetriedUntilProven
CHECK_DEADLOCK FALSE
