------------------------- MODULE FilingContractProofs -------------------------
(***************************************************************************)
(* What FilingContract entails, for any set of instances.                  *)
(***************************************************************************)
EXTENDS FilingContract, TLAPS

TypeOK ==
    /\ made \subseteq Instances
    /\ outcome \in [Instances -> Outcomes]

Inv == TypeOK /\ OutcomeIsTrue

\* The outcome recorded for a proposal agrees with GitHub after every step: a
\* create that could falsify a refusal is not a step of the contract.
THEOREM Truthful == Spec => []OutcomeIsTrue
<1>1. Init => Inv
  BY DEF Init, Inv, TypeOK, OutcomeIsTrue, Outcomes
<1>2. Inv /\ [Next]_vars => Inv'
  <2> SUFFICES ASSUME Inv, [Next]_vars PROVE Inv'
    OBVIOUS
  <2>1. ASSUME NEW i \in Instances, Make(i) PROVE Inv'
    BY <2>1 DEF Inv, TypeOK, OutcomeIsTrue, Make, Outcomes
  <2>2. ASSUME NEW i \in Instances, NEW o \in Outcomes \ {"none"}, Resolve(i, o) PROVE Inv'
    BY <2>2 DEF Inv, TypeOK, OutcomeIsTrue, Resolve, Outcomes
  <2>3. CASE UNCHANGED vars
    BY <2>3 DEF Inv, TypeOK, OutcomeIsTrue, vars
  <2> QED BY <2>1, <2>2, <2>3 DEF Next
<1>3. Inv => OutcomeIsTrue
  BY DEF Inv
<1> QED BY <1>1, <1>2, <1>3, PTL DEF Spec

\* A recorded outcome never changes and an issue is never unmade: no later pass
\* turns a refusal or an ambiguity into a filing.
THEOREM Permanent == Spec => Final
<1>1. Init => TypeOK
  BY DEF Init, TypeOK, Outcomes
<1>2. TypeOK /\ [Next]_vars => TypeOK'
  BY DEF TypeOK, Next, Make, Resolve, vars, Outcomes
<1>3. TypeOK /\ [Next]_vars =>
        [\A i \in Instances :
            /\ outcome[i] # "none" => outcome'[i] = outcome[i]
            /\ i \in made => i \in made']_vars
  BY DEF TypeOK, Next, Make, Resolve, vars, Outcomes
<1> QED BY <1>1, <1>2, <1>3, PTL DEF Spec, Final
=============================================================================
