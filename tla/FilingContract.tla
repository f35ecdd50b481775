---------------------------- MODULE FilingContract ----------------------------
(***************************************************************************)
(* What follow-up filing promises (plan §5.17), per approved proposal: at  *)
(* most one issue ever exists for it; a filing recorded as filed has its   *)
(* issue; one recorded as refused has none and never will; only a filing   *)
(* recorded as ambiguous may still get an issue afterwards.                *)
(***************************************************************************)
CONSTANT Instances

VARIABLES
    made,     \* proposals whose issue exists on GitHub
    outcome   \* the recorded outcome of each

vars == <<made, outcome>>
Outcomes == {"none", "ledgered", "refused", "ambiguous"}

Init == made = {} /\ outcome = [i \in Instances |-> "none"]

\* The issue comes into being.
Make(i) ==
    /\ i \notin made
    /\ outcome[i] \in {"none", "ambiguous"}
    /\ made' = made \cup {i}
    /\ UNCHANGED outcome

\* The outcome is decided, once.
Resolve(i, o) ==
    /\ outcome[i] = "none"
    /\ o = "ledgered" => i \in made
    /\ o = "refused" => i \notin made
    /\ outcome' = [outcome EXCEPT ![i] = o]
    /\ UNCHANGED made

Next == \E i \in Instances : Make(i) \/ \E o \in Outcomes \ {"none"} : Resolve(i, o)

Spec == Init /\ [][Next]_vars

\* A recorded outcome tells the truth about GitHub, from then on.
OutcomeIsTrue ==
    \A i \in Instances :
        /\ outcome[i] = "ledgered" => i \in made
        /\ outcome[i] = "refused" => i \notin made

\* An outcome is final, and an issue is made once.
Final ==
    [][\A i \in Instances :
         /\ outcome[i] # "none" => outcome'[i] = outcome[i]
         /\ i \in made => i \in made']_vars
=============================================================================
