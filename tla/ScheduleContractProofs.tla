------------------------ MODULE ScheduleContractProofs ------------------------
(***************************************************************************)
(* What follows from the contract of ScheduleContract alone, whatever      *)
(* implements it.                                                          *)
(***************************************************************************)
EXTENDS ScheduleContract, TLAPS

\* Each variable has one value per schedule.
Shape ==
    /\ gen \in [ScheduleIDs -> Nat]
    /\ DOMAIN status = ScheduleIDs /\ status = [s \in ScheduleIDs |-> status[s]]
    /\ DOMAIN owed = ScheduleIDs /\ owed = [s \in ScheduleIDs |-> owed[s]]
    /\ DOMAIN settled = ScheduleIDs /\ settled = [s \in ScheduleIDs |-> settled[s]]

CInv == Shape /\ OwedByLiveGeneration /\ SettledOnce

\* What one step does to the debt of the schedule it is about.
LEMMA StepKeepsContract ==
    ASSUME CInv, [Next]_vars
    PROVE  CInv'
  <1>1. ASSUME NEW s \in ScheduleIDs, Arm(s)
        PROVE  CInv'
    <2>1. Shape'
      <3>1. gen' \in [ScheduleIDs -> Nat]
        BY <1>1 DEF CInv, Shape, Arm
      <3>2. status' = [status EXCEPT ![s] = "armed"]
        BY <1>1 DEF Arm
      <3>3. owed' = [owed EXCEPT ![s] = {}] /\ settled' = [settled EXCEPT ![s] = @ \cup owed[s]]
        BY <1>1 DEF Arm
      <3>4. DOMAIN status' = ScheduleIDs /\ status' = [r \in ScheduleIDs |-> status'[r]]
        BY <3>2 DEF CInv, Shape
      <3> QED
        BY <3>1, <3>3, <3>4 DEF CInv, Shape
    <2>2. OwedByLiveGeneration'
      BY <1>1 DEF CInv, Shape, OwedByLiveGeneration, Arm
    <2>3. SettledOnce'
      BY <1>1 DEF CInv, Shape, SettledOnce, Arm
    <2> QED
      BY <2>1, <2>2, <2>3 DEF CInv
  <1>2. ASSUME NEW s \in ScheduleIDs, NEW o \in owed'[s], Owe(s, o)
        PROVE  CInv'
    <2>1. PICK superseded \in SUBSET owed[s] :
            /\ owed' = [owed EXCEPT ![s] = (@ \ superseded) \cup {o}]
            /\ settled' = [settled EXCEPT ![s] = @ \cup superseded]
      BY <1>2 DEF Owe
    <2>2. gen' = gen /\ status' = status /\ status[s] = "armed" /\ o.gen = gen[s]
          /\ o \notin owed[s] \cup settled[s]
      BY <1>2 DEF Owe
    <2> QED
      BY <2>1, <2>2 DEF CInv, Shape, OwedByLiveGeneration, SettledOnce
  <1>3. ASSUME NEW s \in ScheduleIDs, Settle(s)
        PROVE  CInv'
    BY ZenonT(200), <1>3 DEF CInv, Shape, OwedByLiveGeneration, SettledOnce, Settle
  <1>4. ASSUME NEW s \in ScheduleIDs, End(s)
        PROVE  CInv'
    BY <1>4 DEF CInv, Shape, OwedByLiveGeneration, SettledOnce, End
  <1>5. CASE UNCHANGED vars
    BY <1>5 DEF CInv, Shape, OwedByLiveGeneration, SettledOnce, vars
  <1> QED
    BY <1>1, <1>2, <1>3, <1>4, <1>5 DEF Next

LEMMA ContractInvariance == Spec => []CInv
  <1>1. Init => CInv
    BY DEF Init, CInv, Shape, OwedByLiveGeneration, SettledOnce
  <1> QED
    BY <1>1, StepKeepsContract, PTL DEF Spec

\* An occurrence is owed only to the live armed generation of its schedule.
THEOREM OwedIsLive == Spec => []OwedByLiveGeneration
  <1>1. CInv => OwedByLiveGeneration
    BY DEF CInv
  <1> QED
    BY <1>1, ContractInvariance, PTL

\* What has an outcome is never owed again.
THEOREM SettledForGood == Spec => []SettledOnce
  <1>1. CInv => SettledOnce
    BY DEF CInv
  <1> QED
    BY <1>1, ContractInvariance, PTL
=============================================================================
