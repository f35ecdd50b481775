--------------------------- MODULE MCFollowUpFiling ---------------------------
(* Instances of FollowUpFiling for TLC: every filing goes into one           *)
(* repository, where they contend.                                         *)
EXTENDS FollowUpFilingProperties, TLC

OneRepo == [i \in Instances |-> CHOOSE r \in Repos : TRUE]
OneRun == [i \in Instances |-> CHOOSE run \in Runs : TRUE]

\* Each filing from a run of its own, of the same number.
OwnRun == [i \in Instances |-> i]

\* Nothing tells the Apps apart; used by the safety run only.
AppSymmetry == Permutations(Apps)
=============================================================================
