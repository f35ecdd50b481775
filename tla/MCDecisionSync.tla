---------------------------- MODULE MCDecisionSync ----------------------------
(* Instances of DecisionSync for TLC.                                        *)
EXTENDS DecisionSyncProperties
=============================================================================
