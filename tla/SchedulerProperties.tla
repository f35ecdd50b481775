------------------------- MODULE SchedulerProperties -------------------------
(***************************************************************************)
(* What must hold of Scheduler: the properties TLC checks, the contract it *)
(* implements, and the inductive invariant SchedulerProofs proves.         *)
(***************************************************************************)
EXTENDS Scheduler

Labels == {"down", "arming", "idle", "pass", "fire", "clock", "dead",
           "converge", "await", "stopping"}
Stages == {"idle", "handle", "consume", "done"}

Subject == [ver : Nat, live : BOOLEAN, expires : Nat]
Boot == [todo : SUBSET ScheduleIDs, ver : Nat, expires : Nat,
         then : {"idle", "down"}, s : ScheduleIDs \cup {"none"}]
Scan == [now : Nat, snap : [ScheduleIDs -> Schedule],
         pend : SUBSET Identity, due : SUBSET ScheduleIDs]
Fire == [s : ScheduleIDs \cup {"none"}, redel : SUBSET Identity, at : Nat, gap : Gap]
Handler == [stage : Stages, id : SUBSET Identity, sc : Schedule,
            outcome : Outcomes, put : Schedule, recheck : BOOLEAN]
Errors == {"none", "handler", "no_timer", "rejected"}

\* Every table row and every process-local value has its declared shape.
TypeOK ==
    /\ now \in Nat
    /\ subject \in [ScheduleIDs -> Subject]
    /\ sched \in [ScheduleIDs -> Schedule]
    /\ timer \in [ScheduleIDs -> Timer]
    /\ DOMAIN occ \subseteq Identity /\ occ \in [DOMAIN occ -> Occurrence]
    /\ firstFire \in [ScheduleIDs -> Nat]
    /\ pc \in [Procs -> Labels]
    /\ boot \in [Procs -> Boot]
    /\ scan \in [Procs -> Scan]
    /\ cur \in [Procs -> Fire]
    /\ hand \in [Procs -> [ScheduleIDs -> Handler]]
    /\ err \in [Procs -> Errors]
    /\ faults \in Nat /\ sessions \in Nat

\* A recurring schedule has a clock exactly while it is armed, and it is the
\* clock of the live generation: no conclusion or re-arm of one process, racing
\* a fire of another, leaves a stale clock behind.
ClockFollowsSchedule ==
    \A s \in ScheduleIDs :
        IF s \in Recurring /\ sched[s].status = "armed"
        THEN timer[s].gen = sched[s].gen
        ELSE timer[s] = NoTimer

\* A pending occurrence always belongs to the live armed generation: whoever
\* concludes or re-arms a schedule settles its occurrences with it, and no
\* stale fire of any process inserts one afterwards.
PendingIsCurrent ==
    \A i \in DOMAIN occ : occ[i].outcome = "pending" =>
        sched[i.s].status = "armed" /\ sched[i.s].gen = i.gen

\* The daemon's own schedules never have two occurrences to deliver: missed
\* fires coalesce into one, and a due fire never overtakes a pending one.
OneToDeliver ==
    \A i, j \in DOMAIN occ :
        (i.s = j.s /\ i.s \notin Polls /\ Pending(i) /\ Pending(j)) => i = j

\* No occurrence is created before its nominal instant, whatever a second
\* scheduler process did to the shared clock since the scan.
NoEarlyOccurrence == \A i \in DOMAIN occ : i.at <= now

\* Every nominal instant behind a recurring clock is answered for: by its own
\* occurrence, or by the recorded gap of the later one it was folded into.  A
\* coalesced occurrence answers for nothing, so no fire of a generation is lost
\* however often it is folded.
NoFireLost ==
    \A s \in Recurring : sched[s].status = "armed" =>
        \A n \in firstFire[s] .. (timer[s].next - 1) :
            (n - firstFire[s]) % sched[s].interval = 0 =>
                \E i \in DOMAIN occ :
                    /\ i.s = s /\ i.gen = sched[s].gen
                    /\ occ[i].outcome # "coalesced"
                    /\ \/ i.at = n
                       \/ occ[i].gap # NoGap /\ occ[i].gap.earliest <= n /\ n < i.at

\* A recorded gap counts exactly the nominal instants between its earliest one
\* and its carrier, through any number of foldings.
GapIsExact ==
    \A i \in DOMAIN occ : (occ[i].gap # NoGap /\ sched[i.s].gen = i.gen) =>
        i.at - occ[i].gap.earliest = occ[i].gap.missed * sched[i.s].interval

\* No handler outcome or conclusion is ever refused by PutSchedule's transition
\* rules: a raced fire is recognised as stale first and never stops a scheduler.
NeverRejected == \A p \in Procs : err[p] # "rejected"

\* The scheduler implements the contract of ScheduleContract: per schedule, the
\* live generation, the occurrences it still owes and those it has settled.
Contract == INSTANCE ScheduleContract WITH
    gen <- [s \in ScheduleIDs |-> sched[s].gen],
    status <- [s \in ScheduleIDs |-> sched[s].status],
    owed <- [s \in ScheduleIDs |-> {[gen |-> i.gen, at |-> i.at] : i \in PendingOf(s)}],
    settled <- [s \in ScheduleIDs |->
        {[gen |-> i.gen, at |-> i.at] : i \in {j \in DOMAIN occ : j.s = s} \ PendingOf(s)}]

\* Every transaction of every process is one step of the contract, or none.
ImplementsContract == Contract!Spec

\* A deadline is recorded as elapsed only for an open item, at the version it
\* was bound to, and in the transaction that marks its occurrence handled.
DeadlineElapsedOnOpenItem ==
    [][\A s \in Deadlines :
         (sched[s].status # "fired" /\ sched'[s].status = "fired") =>
            /\ subject[s].live /\ subject[s].ver = sched[s].ver
            /\ sched[s].fireAt <= now
            /\ \E i \in DOMAIN occ :
                 i.s = s /\ Pending(i) /\ occ'[i].outcome = "handled"]_vars

\* Re-arming a deadline onto a newer item version never postpones it.
DeadlineNeverPostponed ==
    [][\A s \in Deadlines :
         sched[s] # NoSchedule => sched'[s].fireAt = sched[s].fireAt]_vars

\* §5.16: a one-shot deadline always ends fired-and-handled or resolved.
DeadlineEnds ==
    \A s \in Deadlines :
        (sched[s].status = "armed" /\ sched[s].fireAt <= MaxTime)
            ~> sched[s].status \in {"fired", "resolved"}

\* Every pending occurrence is settled in the end, across crashes, failed
\* handlers, raced consumptions and restarts.
PendingSettles == \A s \in ScheduleIDs : []<>(PendingOf(s) = {})

\* A poll the operator never resumes still ends once its envelope expires.
PollEnds ==
    \A s \in Polls :
        (sched[s].status = "armed" /\ sched[s].expires <= MaxTime)
            ~> (sched[s].status # "armed" \/ sched[s].expires > MaxTime)

\* convergeOccurrence (scheduler.go:545-547): an identity already consumed is
\* not deliverable; a handler gets pending occurrences only.
DeliversPendingOnly ==
    [][\A p \in Procs, s \in ScheduleIDs :
         (hand[p][s] = NoHandler /\ hand'[p][s].stage = "handle") =>
            \A i \in hand'[p][s].id : occ'[i].outcome = "pending"]_vars

\* latestNominal (scheduler.go:617-625) and Run: a fire made stale by another
\* scheduler process is not an error and does not stop this one.
NoClockError == \A p \in Procs : err[p] # "no_timer"

-----------------------------------------------------------------------------
(* The inductive invariant behind PendingIsCurrent, ClockFollowsSchedule   *)
(* and NeverRejected.                                                      *)

Firing(p) == pc[p] \in {"fire", "clock", "dead", "converge"}

\* A row has generation 0 exactly before its first arming.
ScheduleShape ==
    \A s \in ScheduleIDs :
        /\ sched[s].gen = 0 <=> sched[s].status = "absent"
        /\ sched[s].gen = 0 => sched[s] = NoSchedule
        /\ (s \in Recurring /\ sched[s].gen > 0) => sched[s].interval > 0

\* A copy sc taken earlier of what is now row: of an armed generation that may
\* have been replaced or concluded since, and is unchanged otherwise.
Copy(sc, row, s) ==
    /\ sc.status = "armed"
    /\ 0 < sc.gen /\ sc.gen <= row.gen
    /\ s \in Recurring => sc.interval > 0
    /\ sc.fireAt = row.fireAt
    /\ (sc.gen = row.gen /\ row.status = "armed") => row = sc

\* An occurrence belongs to a generation that was armed; a deadline's is at its
\* one nominal instant.
OccurrenceShape ==
    \A i \in DOMAIN occ :
        /\ 0 < i.gen /\ i.gen <= sched[i.s].gen
        /\ i.s \in Deadlines => i.at = sched[i.s].fireAt

\* What a pass still has to look at.
ScanShape ==
    \A p \in Procs :
        /\ scan[p].due \subseteq Registered(p)
        /\ \A s \in scan[p].due : Copy(scan[p].snap[s], sched[s], s)
        /\ \A i \in scan[p].pend :
            /\ i \in DOMAIN occ /\ i.s \in Registered(p) /\ i.s \notin scan[p].due
            /\ Copy(scan[p].snap[i.s], sched[i.s], i.s) /\ scan[p].snap[i.s].gen = i.gen

\* What a fire is working on.
FireShape ==
    \A p \in Procs : Firing(p) =>
        /\ cur[p].s \in Registered(p) /\ cur[p].s \notin scan[p].due
        /\ Copy(Snap(p), sched[cur[p].s], cur[p].s)
        /\ \A i \in cur[p].redel : i \in DOMAIN occ /\ i.s = cur[p].s /\ i.gen = Snap(p).gen
        /\ (pc[p] = "converge" /\ cur[p].s \in Deadlines) =>
            cur[p].redel = {} /\ cur[p].at = Snap(p).fireAt

\* A deadline found due without a pending occurrence stays as it was found until
\* the daemon fires it: only a handler with a pending occurrence could move it.
DueDeadlineIsFresh ==
    \A s \in Deadlines :
        (\/ s \in scan[Daemon].due
         \/ Firing(Daemon) /\ cur[Daemon].s = s /\ cur[Daemon].redel = {}) =>
            sched[s] = scan[Daemon].snap[s] /\ PendingOf(s) = {}

\* What a handler in flight was given, and what it may have decided.
HandlerShape ==
    \A p \in Procs, s \in ScheduleIDs :
        LET h == hand[p][s] IN
        h.stage # "idle" =>
            /\ s \in Registered(p)
            /\ Copy(h.sc, sched[s], s)
            /\ \E i \in DOMAIN occ : h.id = {i} /\ i.s = s /\ i.gen = h.sc.gen
            /\ \/ h.put = NoSchedule
               \/ \E end \in {"fired", "resolved"} : h.put = Concluded(h.sc, end)
               \/ s \in Deadlines /\ h.put = ReArmed(h.sc, h.put.ver)

BootShape ==
    /\ boot[Daemon].todo \subseteq Jobs
    /\ \A p \in Clis : pc[p] = "arming" => boot[p].s \in Polls

IInv ==
    /\ TypeOK /\ ScheduleShape /\ OccurrenceShape /\ ScanShape /\ FireShape
    /\ DueDeadlineIsFresh /\ HandlerShape /\ BootShape
    /\ ClockFollowsSchedule /\ PendingIsCurrent /\ NeverRejected

-----------------------------------------------------------------------------
(* What IInv needs beside it for NoEarlyOccurrence, OneToDeliver,          *)
(* GapIsExact and DeadlineElapsedOnOpenItem.                               *)

\* A pass works at a clock reading of the past, and nothing it is to create an
\* occurrence for lies after that reading.
PassInThePast ==
    \A p \in Procs :
        /\ scan[p].now <= now
        /\ \A s \in scan[p].due \cap Deadlines : scan[p].snap[s].fireAt <= scan[p].now
        /\ (Firing(p) /\ cur[p].s \in Deadlines /\ cur[p].redel = {}) =>
              Snap(p).fireAt <= scan[p].now
        /\ pc[p] = "converge" => cur[p].at <= scan[p].now

\* The daemon's pass over a schedule it alone drives: what it found due has
\* nothing pending, and what it redelivers is all that is pending.
DaemonSeesPending ==
    \A s \in ScheduleIDs \ Polls :
        /\ s \in scan[Daemon].due => PendingOf(s) = {}
        /\ \A i \in scan[Daemon].pend : i.s = s =>
              /\ PendingOf(s) \subseteq {i}
              /\ \A j \in scan[Daemon].pend : j.s = s => j = i
        /\ (Firing(Daemon) /\ cur[Daemon].s = s) =>
              /\ PendingOf(s) \subseteq cur[Daemon].redel
              /\ \A i \in scan[Daemon].pend : i.s # s

\* A handler that would record a deadline as elapsed rechecks its item.
ElapsedIsRechecked ==
    \A p \in Procs, s \in ScheduleIDs :
        hand[p][s].put.status = "fired" => hand[p][s].recheck /\ hand[p][s].outcome = "handled"

\* The occurrence a fire is about to write has an exact gap, unless the row was
\* replaced or concluded in between and the fire is stale.
FireGapIsExact ==
    \A p \in Procs :
        (/\ pc[p] = "converge" /\ cur[p].gap # NoGap
         /\ sched[cur[p].s].gen = Snap(p).gen /\ sched[cur[p].s].status = "armed") =>
            cur[p].at - cur[p].gap.earliest = cur[p].gap.missed * Snap(p).interval

OrderInv ==
    PassInThePast /\ DaemonSeesPending /\ ElapsedIsRechecked
        /\ NoEarlyOccurrence /\ OneToDeliver
        /\ FireGapIsExact /\ GapIsExact

-----------------------------------------------------------------------------
(* What NoFireLost needs beside IInv and OrderInv.                         *)

\* The nominal instants of the live generation of s.
Nominal(s, n) == firstFire[s] <= n /\ (n - firstFire[s]) % sched[s].interval = 0

\* A snapshot of generation gen is the live one.
Live(s, gen) == sched[s].status = "armed" /\ sched[s].gen = gen

\* The clock stands at a nominal instant, and every occurrence of the live
\* generation is a nominal instant it has left behind.
ClockLeads ==
    \A s \in Recurring : sched[s].status = "armed" =>
        /\ Nominal(s, timer[s].next)
        /\ \A i \in DOMAIN occ : (i.s = s /\ i.gen = sched[s].gen) =>
              Nominal(s, i.at) /\ i.at < timer[s].next

\* The occurrence a fire is about to write is the latest nominal instant of its
\* pass; its gap reaches back to the clock, and over what it redelivers.
FireFolds ==
    \A p \in Procs :
        (pc[p] = "converge" /\ cur[p].s \in Recurring /\ Live(cur[p].s, Snap(p).gen)) =>
            /\ Nominal(cur[p].s, cur[p].at)
            /\ scan[p].now < cur[p].at + Snap(p).interval
            /\ IF cur[p].gap = NoGap
               THEN cur[p].redel = {} /\ cur[p].at <= timer[cur[p].s].next
               ELSE /\ cur[p].gap.earliest <= timer[cur[p].s].next
                    /\ \A i \in cur[p].redel :
                          /\ cur[p].gap.earliest <= i.at
                          /\ occ[i].gap # NoGap => cur[p].gap.earliest <= occ[i].gap.earliest

\* A fire redelivers one occurrence, and only a fire folds one away.
OneRedelivered == \A p \in Procs : Firing(p) => \A i, j \in cur[p].redel : i = j
HandlersNeverFold == \A p \in Procs, s \in ScheduleIDs : hand[p][s].outcome # "coalesced"

FireInv == ClockLeads /\ FireFolds /\ OneRedelivered /\ HandlersNeverFold /\ NoFireLost
-----------------------------------------------------------------------------
(* What the invariants entail of a row's outcome, of the permanent jobs and *)
(* of the one error a fire can report.                                      *)

\* ConsumeScheduleOccurrence flips a pending row only, and nothing deletes one:
\* an outcome, once recorded, is what every later reader finds.
OutcomesAreFinal ==
    [][\A i \in DOMAIN occ :
         /\ i \in DOMAIN occ'
         /\ occ[i].outcome # "pending" => occ'[i] = occ[i]]_vars

\* A permanent job, once armed, is armed for good: no expiry, dead subject or
\* outcome of a pass concludes doctor, janitor or image upkeep.
JobsArmedForGood ==
    [][\A s \in Jobs : sched[s].status = "armed" => sched'[s].status = "armed"]_vars

\* The error of a fire without a clock is reported of a poll alone, and of one
\* that another process concluded or replaced since the pass read it.
ClockErrorsAreRaces ==
    [][\A p \in Procs : (err[p] # "no_timer" /\ err'[p] = "no_timer") =>
         cur[p].s \in Polls /\ Superseded(cur[p].s, Snap(p))]_vars

\* What those need: nothing on its way to a job's row would conclude it.
JobsNeverEnd ==
    /\ \A s \in Jobs : sched[s].status \in {"absent", "armed"}
    /\ \A p \in Procs : pc[p] = "dead" => cur[p].s \notin Jobs
    /\ \A p \in Procs, s \in Jobs : hand[p][s].put = NoSchedule
=============================================================================
