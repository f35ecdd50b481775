--------------------------- MODULE ScheduleContract ---------------------------
(***************************************************************************)
(* What the durable scheduler promises of one schedule at a time (plan     *)
(* §5.16): an occurrence is owed only to the live armed generation, leaves *)
(* the debt once, with its outcome, and a generation that ends or is       *)
(* replaced settles all it owes in the same step.                          *)
(***************************************************************************)
EXTENDS Naturals

CONSTANT ScheduleIDs

VARIABLES
    gen,      \* the live generation, 0 before the first arming
    status,   \* absent, armed, or the terminal status it ended with
    owed,     \* occurrences still to deliver
    settled   \* occurrences with an outcome

vars == <<gen, status, owed, settled>>

Init ==
    /\ gen = [s \in ScheduleIDs |-> 0]
    /\ status = [s \in ScheduleIDs |-> "absent"]
    /\ owed = [s \in ScheduleIDs |-> {}]
    /\ settled = [s \in ScheduleIDs |-> {}]

\* The schedule gets its next generation, armed, and owes nothing yet.
Arm(s) ==
    /\ gen' = [gen EXCEPT ![s] = @ + 1]
    /\ status' = [status EXCEPT ![s] = "armed"]
    /\ owed' = [owed EXCEPT ![s] = {}]
    /\ settled' = [settled EXCEPT ![s] = @ \cup owed[s]]

\* A nominal instant comes due: one new occurrence, which may supersede others.
Owe(s, o) ==
    /\ status[s] = "armed"
    /\ o.gen = gen[s]
    /\ o \notin owed[s] \cup settled[s]
    /\ \E superseded \in SUBSET owed[s] :
        /\ owed' = [owed EXCEPT ![s] = (@ \ superseded) \cup {o}]
        /\ settled' = [settled EXCEPT ![s] = @ \cup superseded]
    /\ UNCHANGED <<gen, status>>

\* An owed occurrence gets its outcome; the schedule goes on.
Settle(s) ==
    /\ \E o \in owed[s] :
        /\ owed' = [owed EXCEPT ![s] = @ \ {o}]
        /\ settled' = [settled EXCEPT ![s] = @ \cup {o}]
    /\ UNCHANGED <<gen, status>>

\* The live generation ends, with everything it owes.
End(s) ==
    /\ status[s] = "armed"
    /\ \E end \in {"fired", "resolved", "expired"} : status' = [status EXCEPT ![s] = end]
    /\ owed' = [owed EXCEPT ![s] = {}]
    /\ settled' = [settled EXCEPT ![s] = @ \cup owed[s]]
    /\ UNCHANGED gen

Next ==
    \E s \in ScheduleIDs :
        Arm(s) \/ (\E o \in owed'[s] : Owe(s, o)) \/ Settle(s) \/ End(s)

Spec == Init /\ [][Next]_vars

\* Nothing is owed by a schedule that is not armed, or by an old generation.
OwedByLiveGeneration ==
    \A s \in ScheduleIDs : \A o \in owed[s] : status[s] = "armed" /\ o.gen = gen[s]

\* What is settled stays settled and is never owed again.
SettledOnce == \A s \in ScheduleIDs : owed[s] \cap settled[s] = {}
=============================================================================
