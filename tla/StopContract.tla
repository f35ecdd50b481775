----------------------------- MODULE StopContract -----------------------------
(***************************************************************************)
(* What a Stop promises, whatever launches, proves or crashes: from the     *)
(* moment a task is fenced its work only ends, and a confirmed task has     *)
(* none.                                                                   *)
(***************************************************************************)
CONSTANTS Tasks, Work, WorkTask  \* the task of each piece of work

VARIABLES fenced, confirmed, live

vars == <<fenced, confirmed, live>>

Begin(i) ==
    /\ WorkTask[i] \notin fenced
    /\ i \notin live
    /\ live' = live \cup {i}
    /\ UNCHANGED <<fenced, confirmed>>

\* Work ends, any of it at once.
End ==
    /\ \E S \in SUBSET live : live' = S
    /\ UNCHANGED <<fenced, confirmed>>

Fence(t) ==
    /\ fenced' = fenced \cup {t}
    /\ UNCHANGED <<confirmed, live>>

Confirm(t) ==
    /\ t \in fenced
    /\ \A i \in live : WorkTask[i] # t
    /\ confirmed' = confirmed \cup {t}
    /\ UNCHANGED <<fenced, live>>

Init == fenced = {} /\ confirmed = {} /\ live = {}
Next ==
    \/ \E i \in Work : Begin(i)
    \/ End
    \/ \E t \in Tasks : Fence(t) \/ Confirm(t)
Spec == Init /\ [][Next]_vars
=============================================================================
