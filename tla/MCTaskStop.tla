------------------------------ MODULE MCTaskStop ------------------------------
(* One task with two runs.                                                   *)
EXTENDS TaskStopProperties
CONSTANTS t1, r1, r2, i1, i2, i3

OneTask == [r \in Runs |-> t1]
OneCampaign == [r \in Runs |-> "campaign"]
FirstRun == [i \in Invs |-> r1]
WorkKinds ==
    [i \in Invs |-> CASE i = i1 -> "stage" [] i = i2 -> "room" [] OTHER -> "publish"]
Judgment == [i \in Invs |-> "judgment"]
=============================================================================
