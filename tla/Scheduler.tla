------------------------------ MODULE Scheduler ------------------------------
(***************************************************************************)
(* The durable scheduler (daemon/internal/scheduler, store/schedule.go and *)
(* the handlers registered in cmd/freesided).  Durable state lives in one  *)
(* SQLite database that serialises transactions; each transaction is one   *)
(* atomic step here.  The daemon drives every kind; onboarding CLI         *)
(* processes drive installation polls beside it, over the same database.   *)
(* Everything a process holds in memory (the scan of a pass, the fire it   *)
(* is validating, the handlers in flight) is lost when it dies.            *)
(***************************************************************************)
EXTENDS Integers, FiniteSets

CONSTANTS
    Deadlines,      \* one-shot schedules bound to an attention item
    Jobs,           \* permanent trusted-config jobs (doctor, janitor, upkeep)
    Polls,          \* installation polls
    Daemon, Clis,   \* the daemon process and the onboarding CLI processes
    DeadlineWait,   \* DefaultPRChecksDeadline / DefaultReviewWaitThreshold
    JobIntervals,   \* the intervals a job may be configured with
    PollInterval,   \* installPollInterval
    EnvelopeLife,   \* lifetime of a pending installation envelope
    MaxTime,        \* bound: the clock stops here
    MaxVersion,     \* bound: item versions and envelope revisions
    MaxFaults,      \* bound: crashes and handler failures
    MaxSessions     \* bound: onboarding CLI sessions

ScheduleIDs == Deadlines \cup Jobs \cup Polls
Recurring == Jobs \cup Polls
Procs == {Daemon} \cup Clis

ASSUME KindsDisjoint ==
    /\ Deadlines \cap Recurring = {}
    /\ Jobs \cap Polls = {}
ASSUME DaemonIsNotCli == Daemon \notin Clis
ASSUME Durations ==
    /\ DeadlineWait \in Nat
    /\ EnvelopeLife \in Nat \ {0}
    /\ PollInterval \in Nat \ {0}
    /\ JobIntervals \subseteq Nat \ {0}

VARIABLES
    now,        \* the host's wall clock
    subject,    \* item or authority-document envelope each schedule watches
    sched,      \* schedules table: one aggregate per id
    timer,      \* schedule_timers table: the recurring clock
    occ,        \* schedule_occurrences table, keyed by identity
    firstFire,  \* history: first nominal instant of the live generation
    pc,         \* where each process is
    boot,       \* schedules a starting process still arms, and what it read
    scan,       \* one pass: its clock reading and its snapshot of the store
    cur,        \* the fire a pass is validating
    hand,       \* handler goroutines; an entry is the in-flight mark
    err,        \* error reported to the loop (s.errs, or a pass error)
    faults, sessions  \* counters for the bounds

store == <<sched, timer, occ, firstFire>>
memory == <<pc, boot, scan, cur, hand, err>>
vars == <<now, subject, sched, timer, occ, firstFire,
          pc, boot, scan, cur, hand, err, faults, sessions>>

-----------------------------------------------------------------------------
(* Values.                                                                 *)

Statuses == {"absent", "armed", "fired", "resolved", "expired"}
Outcomes == {"pending", "handled", "condition_no_longer_applies", "re_armed",
             "coalesced", "stale_generation", "observe_failed"}

\* domain.Schedule, with what the kinds share; an absent row has generation 0.
\* ver is the subject's version binding; fireAt belongs to deadlines, interval
\* to recurring kinds, expires to polls.
Schedule == [gen : Nat, status : Statuses, ver : Nat,
             fireAt : Nat, interval : Nat, expires : Nat]
NoSchedule == [gen |-> 0, status |-> "absent", ver |-> 0,
               fireAt |-> 0, interval |-> 0, expires |-> 0]

Timer == [gen : Nat, next : Nat]
NoTimer == [gen |-> 0, next |-> 0]

\* §5.16 occurrence identity.
Identity == [s : ScheduleIDs, gen : Nat, at : Nat]

\* domain.ScheduleFireGap; missed = 0 stands for a nil gap.
Gap == [missed : Nat, earliest : Nat]
NoGap == [missed |-> 0, earliest |-> 0]
Occurrence == [outcome : Outcomes, gap : Gap]

Pending(i) == i \in DOMAIN occ /\ occ[i].outcome = "pending"
PendingOf(s) == {i \in DOMAIN occ : i.s = s /\ occ[i].outcome = "pending"}

Registered(p) == IF p = Daemon THEN ScheduleIDs ELSE Polls

NoScan == [now |-> 0, snap |-> [s \in ScheduleIDs |-> NoSchedule],
           pend |-> {}, due |-> {}]
NoFire == [s |-> "none", redel |-> {}, at |-> 0, gap |-> NoGap]
NoHandler == [stage |-> "idle", id |-> {}, sc |-> NoSchedule,
              outcome |-> "pending", put |-> NoSchedule, recheck |-> FALSE]
NoBoot == [todo |-> {}, ver |-> 0, expires |-> 0, then |-> "idle", s |-> "none"]

-----------------------------------------------------------------------------
(* The schedule aggregate and the occurrence ledger.                       *)

\* Schedule.Concluded and Schedule.ReArmed.
Concluded(sc, status) == [sc EXCEPT !.status = status]
ReArmed_FromNow(sc, ver) == \* fault: a re-arm restarts the deadline
    [sc EXCEPT !.gen = @ + 1, !.status = "armed", !.ver = ver, !.fireAt = now + DeadlineWait]
ReArmed(sc, ver) == [sc EXCEPT !.gen = @ + 1, !.status = "armed", !.ver = ver]

\* ValidateScheduleTransition, enforced by PutSchedule.
TransitionOk(old, new) ==
    \/ old = NoSchedule
    \/ old = new
    \/ /\ new.gen = old.gen
       /\ old.status = "armed"
       /\ new.status # "armed"
       /\ [new EXCEPT !.status = "armed"] = old
    \/ new.gen = old.gen + 1 /\ new.status = "armed"

\* A snapshot sc of schedule s that is no longer the live armed generation.
Superseded_Unchecked(s, sc) == FALSE \* fault: the transaction does not re-read
Superseded(s, sc) == sched[s].gen # sc.gen \/ sched[s].status # "armed"

\* ConsumeScheduleOccurrence over a set of rows: only a pending row flips.
Settle(ledger, ids, outcome) ==
    [i \in DOMAIN ledger |->
        IF i \in ids /\ ledger[i].outcome = "pending"
        THEN [ledger[i] EXCEPT !.outcome = outcome]
        ELSE ledger[i]]

\* settlePending: every pending row of one schedule.
SettlePending_Skipped(ledger, s, outcome) == ledger \* fault: rows outlive their generation
SettlePending(ledger, s, outcome) ==
    Settle(ledger, {i \in DOMAIN ledger : i.s = s}, outcome)

\* CreatePendingScheduleOccurrence: a duplicate identity inserts nothing.
CreatePending_Bare(ledger, id, gap) == \* fault: the row carries no gap column
    [i \in DOMAIN ledger \cup {id} |->
        IF i \in DOMAIN ledger THEN ledger[i] ELSE [outcome |-> "pending"]]
CreatePending(ledger, id, gap) ==
    [i \in DOMAIN ledger \cup {id} |->
        IF i \in DOMAIN ledger THEN ledger[i]
        ELSE [outcome |-> "pending", gap |-> gap]]

\* convergeOccurrence's insert: the older pending row is superseded by the new one.
Supersede_Keeps(redel, id, gap) == CreatePending(occ, id, gap) \* fault: nothing is coalesced
Supersede(redel, id, gap) == CreatePending(Settle(occ, redel, "coalesced"), id, gap)

\* The clock of schedule s does not make snapshot sc due at instant t: it belongs
\* to another generation, or another process moved it on.
ClockStale_Unchecked(s, sc, t) == FALSE \* fault: the clock is not rechecked
ClockStale_Early(s, sc, t) == timer[s].gen # sc.gen \* fault: a moved clock is due
ClockStale(s, sc, t) == timer[s].gen # sc.gen \/ timer[s].next > t

\* ListDueSchedules at instant t.
DueAt(t) ==
    {s \in ScheduleIDs :
        /\ sched[s].status = "armed"
        /\ IF s \in Deadlines
           THEN sched[s].fireAt <= t
           ELSE /\ timer[s].gen = sched[s].gen
                /\ timer[s].next <= t}

\* Converge and seedTimer for a recurring schedule, in the caller's
\* transaction: keep an armed row of the same shape (and its clock), otherwise
\* write the next generation, settle the old one's rows and seed the timer.
\* An absent row (generation 0) becomes generation 1 the same way.
Converge(s, ver, interval, expires, firstFireAt) ==
    LET old == sched[s]
        same == /\ old.status = "armed"
                /\ old.ver = ver
                /\ old.interval = interval
                /\ old.expires = expires
        new == [ReArmed(old, ver) EXCEPT !.interval = interval, !.expires = expires]
        seeded == [gen |-> new.gen, next |-> firstFireAt]
    IN  IF same
        THEN /\ timer' = [timer EXCEPT ![s] =
                    IF @ = NoTimer THEN [gen |-> old.gen, next |-> firstFireAt] ELSE @]
             /\ UNCHANGED <<sched, occ, firstFire>>
        ELSE /\ sched' = [sched EXCEPT ![s] = new]
             /\ occ' = SettlePending(occ, s, "stale_generation")
             /\ timer' = [timer EXCEPT ![s] = seeded]
             /\ firstFire' = [firstFire EXCEPT ![s] = firstFireAt]

-----------------------------------------------------------------------------
(* Starting, stopping and losing a process.                                *)

GoTo(p, label) == pc' = [pc EXCEPT ![p] = label]

Forget(p) ==
    /\ GoTo(p, "down")
    /\ boot' = [boot EXCEPT ![p] = NoBoot]
    /\ scan' = [scan EXCEPT ![p] = NoScan]
    /\ cur' = [cur EXCEPT ![p] = NoFire]
    /\ hand' = [hand EXCEPT ![p] = [s \in ScheduleIDs |-> NoHandler]]
    /\ err' = [err EXCEPT ![p] = "none"]

NoneInFlight(p) == \A s \in ScheduleIDs : hand[p][s] = NoHandler

\* Daemon start: armTrustedConfigJobs runs before the scheduler loop.
BootDaemon ==
    /\ pc[Daemon] = "down"
    /\ GoTo(Daemon, "arming")
    /\ boot' = [boot EXCEPT ![Daemon] = [NoBoot EXCEPT !.todo = Jobs]]
    /\ UNCHANGED <<now, subject, store, scan, cur, hand, err, faults, sessions>>

\* One job of armTrustedConfigJobs: a fresh schedule first fires one interval
\* out; a reconfigured interval is a new shape.
ArmJob(s) ==
    /\ pc[Daemon] = "arming"
    /\ s \in boot[Daemon].todo
    /\ \E interval \in JobIntervals : Converge(s, 0, interval, 0, now + interval)
    /\ boot' = [boot EXCEPT ![Daemon].todo = @ \ {s}]
    /\ UNCHANGED <<now, subject, pc, scan, cur, hand, err, faults, sessions>>

StartLoop ==
    /\ pc[Daemon] = "arming"
    /\ boot[Daemon].todo = {}
    /\ GoTo(Daemon, "idle")
    /\ boot' = [boot EXCEPT ![Daemon] = NoBoot]
    /\ UNCHANGED <<now, subject, store, scan, cur, hand, err, faults, sessions>>

\* onboard without -resume: BeginInstallation records (or replaces) the pending
\* intent in the authority document, then the session arms its poll and exits.
BeginInstallation(p, s) ==
    /\ pc[p] = "down"
    /\ sessions < MaxSessions
    /\ subject[s].ver < MaxVersion
    /\ LET e == [ver |-> subject[s].ver + 1, live |-> TRUE,
                 expires |-> now + EnvelopeLife]
       IN  /\ subject' = [subject EXCEPT ![s] = e]
           /\ boot' = [boot EXCEPT ![p] =
                 [todo |-> {s}, ver |-> e.ver, expires |-> e.expires,
                  then |-> "down", s |-> s]]
    /\ GoTo(p, "arming")
    /\ sessions' = sessions + 1
    /\ UNCHANGED <<now, store, scan, cur, hand, err, faults>>

\* onboard -resume: read the pending envelope, arm its poll, then await it.
ResumeInstallation(p, s) ==
    /\ pc[p] = "down"
    /\ sessions < MaxSessions
    /\ subject[s].live
    /\ boot' = [boot EXCEPT ![p] =
          [todo |-> {s}, ver |-> subject[s].ver, expires |-> subject[s].expires,
           then |-> "idle", s |-> s]]
    /\ GoTo(p, "arming")
    /\ sessions' = sessions + 1
    /\ UNCHANGED <<now, subject, store, scan, cur, hand, err, faults>>

\* armInstallationPoll: the poll fires first at the arming instant.
ArmPoll(p) ==
    /\ p \in Clis
    /\ pc[p] = "arming"
    /\ Converge(boot[p].s, boot[p].ver, PollInterval, boot[p].expires, now)
    /\ GoTo(p, boot[p].then)
    /\ boot' = [boot EXCEPT ![p] =
          IF @.then = "down" THEN NoBoot ELSE [@ EXCEPT !.todo = {}]]
    /\ UNCHANGED <<now, subject, scan, cur, hand, err, faults, sessions>>

\* The loop's select takes a reported handler error.  It is not preferred over
\* the ticker: a pass may start first (StartPass).
StopOnError ==
    /\ pc[Daemon] = "idle"
    /\ err[Daemon] # "none"
    /\ GoTo(Daemon, "stopping")
    /\ UNCHANGED <<now, subject, store, boot, scan, cur, hand, err, faults, sessions>>

\* Run returns after its deferred wg.Wait; a CLI process just exits.
Stopped(p) ==
    /\ pc[p] = "stopping"
    /\ p = Daemon => NoneInFlight(p)
    /\ Forget(p)
    /\ UNCHANGED <<now, subject, store, faults, sessions>>

\* awaitInstallationPoll after RunOnce's wg.Wait: leave on an error or once the
\* poll is terminal, else wait for the ticker.
AwaitPoll(p) ==
    /\ pc[p] = "await"
    /\ NoneInFlight(p)
    /\ IF err[p] = "none" /\ sched[boot[p].s].status = "armed"
       THEN GoTo(p, "idle") /\ UNCHANGED <<boot, scan, cur, hand, err>>
       ELSE Forget(p)
    /\ UNCHANGED <<now, subject, store, faults, sessions>>

Crash(p) ==
    /\ pc[p] # "down"
    /\ faults < MaxFaults
    /\ faults' = faults + 1
    /\ Forget(p)
    /\ UNCHANGED <<now, subject, store, sessions>>

-----------------------------------------------------------------------------
(* One scheduling pass.                                                    *)

\* ListPendingScheduleOccurrences, for the kinds the process registers.
Redeliverable_Never(p) == {} \* fault: a restart does not look for pending rows
Redeliverable(p) == {i \in DOMAIN occ : Pending(i) /\ i.s \in Registered(p)}

\* One read transaction: the pending occurrences with their schedules, and the
\* due schedules.  A schedule with a pending occurrence is handled by the
\* redelivery half alone, whatever becomes of that occurrence.
StartPass(p) ==
    /\ pc[p] = "idle"
    /\ LET pend == Redeliverable(p)
           handled == {i.s : i \in pend}
           due == (DueAt(now) \cap Registered(p)) \ handled
       IN  scan' = [scan EXCEPT ![p] =
             [now |-> now, pend |-> pend, due |-> due,
              snap |-> [s \in ScheduleIDs |->
                          IF s \in handled \cup due THEN sched[s] ELSE NoSchedule]]]
    /\ GoTo(p, "pass")
    /\ UNCHANGED <<now, subject, store, boot, cur, hand, err, faults, sessions>>

InFlight(p, s) == hand[p][s] # NoHandler

\* Redelivery of one pending occurrence, in creation order per schedule.
Redeliver(p) ==
    /\ pc[p] = "pass"
    /\ \E i \in scan[p].pend :
        LET sc == scan[p].snap[i.s] IN
        /\ \A j \in scan[p].pend : j.s = i.s => i.gen < j.gen \/ (i.gen = j.gen /\ i.at <= j.at)
        /\ scan' = [scan EXCEPT ![p].pend = @ \ {i}]
        /\ IF InFlight(p, i.s)
           THEN UNCHANGED <<pc, cur, occ>>
           ELSE IF sc.gen # i.gen \/ sc.status # "armed"
           THEN /\ occ' = Settle(occ, {i}, "stale_generation")
                /\ UNCHANGED <<pc, cur>>
           ELSE /\ cur' = [cur EXCEPT ![p] = [NoFire EXCEPT !.s = i.s, !.redel = {i}]]
                /\ GoTo(p, "fire")
                /\ UNCHANGED occ
    /\ UNCHANGED <<now, subject, sched, timer, firstFire, boot, hand, err, faults, sessions>>

\* A due schedule, after every pending occurrence of the snapshot.
TakeDue(p) ==
    /\ pc[p] = "pass"
    /\ scan[p].pend = {}
    /\ \E s \in scan[p].due :
        /\ scan' = [scan EXCEPT ![p].due = @ \ {s}]
        /\ IF InFlight(p, s)
           THEN UNCHANGED <<pc, cur>>
           ELSE /\ cur' = [cur EXCEPT ![p] = [NoFire EXCEPT !.s = s]]
                /\ GoTo(p, "fire")
    /\ UNCHANGED <<now, subject, store, boot, hand, err, faults, sessions>>

\* The daemon goes back to its select; RunOnce waits for its handlers first.
EndPass(p) ==
    /\ pc[p] = "pass"
    /\ scan[p].pend = {} /\ scan[p].due = {}
    /\ GoTo(p, IF p = Daemon THEN "idle" ELSE "await")
    /\ scan' = [scan EXCEPT ![p] = NoScan]
    /\ UNCHANGED <<now, subject, store, boot, cur, hand, err, faults, sessions>>

-----------------------------------------------------------------------------
(* fire: validate one schedule of the snapshot, converge its occurrence    *)
(* and dispatch the handler.                                               *)

Snap(p) == scan[p].snap[cur[p].s]

\* The end of fire without a handler.
FireOver(p) == GoTo(p, "pass") /\ cur' = [cur EXCEPT ![p] = NoFire]

\* A pass error: Run (or RunOnce) returns it.
PassFails(p, cause) ==
    /\ GoTo(p, "stopping")
    /\ cur' = [cur EXCEPT ![p] = NoFire]
    /\ scan' = [scan EXCEPT ![p] = NoScan]
    /\ err' = [err EXCEPT ![p] = cause]

\* The transaction of conclude: a snapshot that is no longer the live armed
\* generation concludes nothing.
ConcludeFire(p, status) ==
    LET s == cur[p].s
        new == Concluded(Snap(p), status)
    IN  IF Superseded(s, Snap(p))
        THEN FireOver(p) /\ UNCHANGED <<store, scan, err>>
        ELSE IF ~TransitionOk(sched[s], new)
        THEN PassFails(p, "rejected") /\ UNCHANGED store
        ELSE /\ sched' = [sched EXCEPT ![s] = new]
             /\ timer' = [timer EXCEPT ![s] = NoTimer]
             /\ occ' = SettlePending(occ, s, "condition_no_longer_applies")
             /\ FireOver(p)
             /\ UNCHANGED <<firstFire, scan, err>>

\* Expiry precedes everything that could construct an event.
Expired_Never(p) == FALSE \* fault: expiry is not validated
Expired(p) == cur[p].s \in Polls /\ scan[p].now >= Snap(p).expires

FireExpired(p) ==
    /\ pc[p] = "fire"
    /\ Expired(p)
    /\ ConcludeFire(p, "expired")
    /\ UNCHANGED <<now, subject, boot, hand, faults, sessions>>

\* subjectLive: the item is open; the authority document still holds the exact
\* envelope; a job's subject is always live.
SubjectLive(sc, s) ==
    \/ s \in Jobs
    \/ s \in Deadlines /\ subject[s].live
    \/ s \in Polls /\ subject[s].live /\ subject[s].ver = sc.ver

CheckSubject(p) ==
    /\ pc[p] = "fire"
    /\ ~Expired(p)
    /\ GoTo(p, IF SubjectLive(Snap(p), cur[p].s) THEN "clock" ELSE "dead")
    /\ UNCHANGED <<now, subject, store, boot, scan, cur, hand, err, faults, sessions>>

FireDead_Drops(p) == \* fault: a fire on a dead subject is silently discarded
    /\ pc[p] = "dead"
    /\ FireOver(p)
    /\ UNCHANGED <<now, subject, store, boot, scan, hand, err, faults, sessions>>
FireDead(p) ==
    /\ pc[p] = "dead"
    /\ ConcludeFire(p, "resolved")
    /\ UNCHANGED <<now, subject, boot, hand, faults, sessions>>

\* Start the handler goroutine for an occurrence, marking the schedule in flight.
Dispatch(p, id) ==
    /\ hand' = [hand EXCEPT ![p][id.s] =
          [NoHandler EXCEPT !.stage = "handle", !.id = {id}, !.sc = Snap(p)]]
    /\ FireOver(p)

\* latestNominal from one base instant: the latest nominal fire at or before the
\* pass's clock reading, folding what lies between into the gap.
Latest_ForgetsGap(base, gap, interval, t) == \* fault: the folded gap is dropped
    LET k == IF t - base >= interval THEN (t - base) \div interval ELSE 0
    IN  [at  |-> base + k * interval,
         gap |-> IF k = 0 THEN gap ELSE [missed |-> k, earliest |-> base]]
Latest_Miscounts(base, gap, interval, t) == \* fault: the carrier counts as missed
    LET k == IF t - base >= interval THEN (t - base) \div interval ELSE 0
    IN  [at  |-> base + k * interval,
         gap |-> IF k = 0 THEN gap ELSE [missed |-> k + 1, earliest |-> base]]
Latest(base, gap, interval, t) ==
    LET k == IF t - base >= interval THEN (t - base) \div interval ELSE 0
    IN  [at  |-> base + k * interval,
         gap |-> IF k = 0 THEN gap
                 ELSE IF gap = NoGap THEN [missed |-> k, earliest |-> base]
                 ELSE [missed |-> k + gap.missed, earliest |-> gap.earliest]]

\* The read half of convergeOccurrence.  An occurrence redelivered at its own
\* nominal instant goes straight to the handler.  A clock of another
\* generation, or one moved past the pass's reading, is not due; a missing
\* clock is an error.
ReadClock(p) ==
    /\ pc[p] = "clock"
    /\ LET s == cur[p].s
           sc == Snap(p)
           redel == cur[p].redel
           fired == IF s \in Deadlines
                    THEN [at |-> sc.fireAt, gap |-> NoGap]
                    ELSE IF redel # {}
                    THEN LET i == CHOOSE i \in redel : TRUE
                         IN  Latest(i.at, occ[i].gap, sc.interval, scan[p].now)
                    ELSE Latest(timer[s].next, NoGap, sc.interval, scan[p].now)
           id == [s |-> s, gen |-> sc.gen, at |-> fired.at]
       IN  IF redel = {} /\ s \in Recurring /\ timer[s] = NoTimer
           THEN PassFails(p, "no_timer") /\ UNCHANGED hand
           ELSE /\ IF /\ redel = {} /\ s \in Recurring
                      /\ ClockStale(s, sc, scan[p].now)
                   THEN FireOver(p) /\ UNCHANGED hand
                   ELSE IF id \in redel
                   THEN Dispatch(p, id)
                   ELSE /\ GoTo(p, "converge")
                        /\ cur' = [cur EXCEPT ![p].at = fired.at, ![p].gap = fired.gap]
                        /\ UNCHANGED hand
                /\ UNCHANGED <<scan, err>>
    /\ UNCHANGED <<now, subject, store, boot, faults, sessions>>

\* The write half of convergeOccurrence, one transaction: recheck a recurring
\* clock, fold a redelivered occurrence away, insert the new one, advance the
\* clock.  An identity already consumed is not delivered.
ConvergeOccurrence(p) ==
    /\ pc[p] = "converge"
    /\ LET s == cur[p].s
           sc == Snap(p)
           id == [s |-> s, gen |-> sc.gen, at |-> cur[p].at]
           ledger == Supersede(cur[p].redel, id, cur[p].gap)
       IN  IF s \in Recurring /\ ClockStale(s, sc, scan[p].now)
           THEN FireOver(p) /\ UNCHANGED <<occ, timer, hand>>
           ELSE /\ occ' = ledger
                /\ IF ledger[id].outcome # "pending"
                   THEN FireOver(p) /\ UNCHANGED <<timer, hand>>
                   ELSE /\ timer' = IF s \in Deadlines THEN timer
                                    ELSE [timer EXCEPT ![s] = [gen |-> sc.gen, next |-> id.at + sc.interval]]
                        /\ Dispatch(p, id)
    /\ UNCHANGED <<now, subject, sched, firstFire, boot, scan, err, faults, sessions>>

-----------------------------------------------------------------------------
(* Handler goroutines: decide outside any transaction, then consume.       *)

Decide(p, s, outcome, put, recheck) ==
    hand' = [hand EXCEPT ![p][s] =
        [@ EXCEPT !.stage = "consume", !.outcome = outcome, !.put = put, !.recheck = recheck]]

\* deadlineRegistration and recheckItemSubject: a moved item version re-arms at
\* the same nominal instant, a concluded item records proof, and an open one
\* fires, to be rechecked inside the consuming transaction.
HandleDeadline(p, s) ==
    /\ s \in Deadlines
    /\ hand[p][s].stage = "handle"
    /\ LET sc == hand[p][s].sc IN
       IF subject[s].ver # sc.ver
       THEN Decide(p, s, "re_armed", ReArmed(sc, subject[s].ver), FALSE)
       ELSE IF ~subject[s].live
       THEN Decide(p, s, "condition_no_longer_applies", Concluded(sc, "resolved"), FALSE)
       ELSE Decide(p, s, "handled", Concluded(sc, "fired"), TRUE)
    /\ UNCHANGED <<now, subject, store, pc, boot, scan, cur, err, faults, sessions>>

\* Doctor, janitor and image upkeep passes: done, or failed transiently.
HandleJob(p, s) ==
    /\ s \in Jobs
    /\ hand[p][s].stage = "handle"
    /\ \E outcome \in {"handled", "observe_failed"} :
        Decide(p, s, outcome, NoSchedule, FALSE)
    /\ UNCHANGED <<now, subject, store, pc, boot, scan, cur, err, faults, sessions>>

\* A persistent failure stops the scheduler; the occurrence stays pending.
\* s.errs has room for one error, a second is dropped.
FailJob(p, s) ==
    /\ s \in Jobs
    /\ hand[p][s].stage = "handle"
    /\ faults < MaxFaults
    /\ faults' = faults + 1
    /\ hand' = [hand EXCEPT ![p][s].stage = "done"]
    /\ err' = [err EXCEPT ![p] = IF @ = "none" THEN "handler" ELSE @]
    /\ UNCHANGED <<now, subject, store, pc, boot, scan, cur, sessions>>

\* installPollRegistration: the exact envelope is gone, or its grant is ready
\* (the janitor's observation), or the poll simply goes on.
HandlePoll(p, s) ==
    /\ s \in Polls
    /\ hand[p][s].stage = "handle"
    /\ LET sc == hand[p][s].sc IN
       IF ~SubjectLive(sc, s)
       THEN Decide(p, s, "condition_no_longer_applies", Concluded(sc, "resolved"), FALSE)
       ELSE \E put \in {Concluded(sc, "resolved"), NoSchedule} :
              Decide(p, s, "handled", put, FALSE)
    /\ UNCHANGED <<now, subject, store, pc, boot, scan, cur, err, faults, sessions>>

\* The deadline's Commit: the item moved since the handler read it.
Moved_Unchecked(h, s) == FALSE \* fault: the transaction trusts the handler's read
Moved(h, s) == h.recheck /\ ~(subject[s].live /\ subject[s].ver = h.sc.ver)

\* The transaction of consume, whole.  A plain outcome settles its row.  One
\* that changes the aggregate re-reads it first; a raced row applies nothing;
\* the deadline's Commit rolls everything back when the item moved, leaving the
\* row pending for the next pass.
Consume(p, s) ==
    /\ hand[p][s].stage = "consume"
    /\ LET h == hand[p][s]
           id == CHOOSE i \in h.id : TRUE
           settled(outcome) == occ' = Settle(occ, h.id, outcome)
           rest == IF h.put.status = "armed"
                   THEN "stale_generation" ELSE "condition_no_longer_applies"
           finish == hand' = [hand EXCEPT ![p][s].stage = "done"]
       IN  IF h.put = NoSchedule
           THEN settled(h.outcome) /\ finish /\ UNCHANGED <<sched, timer, err>>
           ELSE IF Superseded(s, h.sc)
           THEN settled("stale_generation") /\ finish /\ UNCHANGED <<sched, timer, err>>
           ELSE IF Pending(id) /\ ~TransitionOk(sched[s], h.put)
           THEN /\ err' = [err EXCEPT ![p] = IF @ = "none" THEN "rejected" ELSE @]
                /\ finish /\ UNCHANGED <<sched, timer, occ>>
           ELSE IF ~Pending(id) \/ Moved(h, s)
           THEN finish /\ UNCHANGED <<sched, timer, occ, err>>
           ELSE /\ sched' = [sched EXCEPT ![s] = h.put]
                /\ occ' = SettlePending(Settle(occ, h.id, h.outcome), s, rest)
                /\ timer' = [timer EXCEPT ![s] = NoTimer]
                /\ finish /\ UNCHANGED err
    /\ UNCHANGED <<now, subject, firstFire, pc, boot, scan, cur, faults, sessions>>

\* The deferred clearInFlight, after the consumption.
ClearInFlight(p, s) ==
    /\ hand[p][s].stage = "done"
    /\ hand' = [hand EXCEPT ![p][s] = NoHandler]
    /\ UNCHANGED <<now, subject, store, pc, boot, scan, cur, err, faults, sessions>>

-----------------------------------------------------------------------------
(* The world: the clock, operators, the engine.                            *)

Tick ==
    /\ now < MaxTime
    /\ now' = now + 1
    /\ UNCHANGED <<subject, store, memory, faults, sessions>>

\* A ready_for_final_review item appears, is written again, or is concluded;
\* every write bumps its version.
WriteItem(s) ==
    /\ subject[s].ver < MaxVersion
    /\ subject[s].ver = 0 \/ subject[s].live
    /\ \E live \in BOOLEAN :
        /\ subject[s].ver = 0 => live
        /\ subject' = [subject EXCEPT ![s].ver = @ + 1, ![s].live = live]
    /\ UNCHANGED <<now, store, memory, faults, sessions>>

\* armPublicationWatches, run by the daemon's engine for an open item: it
\* creates a missing watch and never touches one that exists.
ArmPublicationWatch(s) ==
    /\ pc[Daemon] # "down"
    /\ subject[s].live
    /\ sched[s].status = "absent"
    /\ sched' = [sched EXCEPT ![s] =
          [ReArmed(NoSchedule, subject[s].ver) EXCEPT !.fireAt = now + DeadlineWait]]
    /\ UNCHANGED <<now, subject, timer, occ, firstFire, memory, faults, sessions>>

\* PromoteInstallation: the pending envelope leaves the authority document.
PromoteInstallation(s) ==
    /\ subject[s].live
    /\ now < subject[s].expires
    /\ subject' = [subject EXCEPT ![s].live = FALSE]
    /\ UNCHANGED <<now, store, memory, faults, sessions>>

-----------------------------------------------------------------------------
Init ==
    /\ now = 0
    /\ subject = [s \in ScheduleIDs |-> [ver |-> 0, live |-> FALSE, expires |-> 0]]
    /\ sched = [s \in ScheduleIDs |-> NoSchedule]
    /\ timer = [s \in ScheduleIDs |-> NoTimer]
    /\ occ = [i \in {} |-> [outcome |-> "pending", gap |-> NoGap]]
    /\ firstFire = [s \in ScheduleIDs |-> 0]
    /\ pc = [p \in Procs |-> "down"]
    /\ boot = [p \in Procs |-> NoBoot]
    /\ scan = [p \in Procs |-> NoScan]
    /\ cur = [p \in Procs |-> NoFire]
    /\ hand = [p \in Procs |-> [s \in ScheduleIDs |-> NoHandler]]
    /\ err = [p \in Procs |-> "none"]
    /\ faults = 0
    /\ sessions = 0

PassStep(p) ==
    \/ StartPass(p) \/ Redeliver(p) \/ TakeDue(p) \/ EndPass(p)
    \/ FireExpired(p) \/ CheckSubject(p) \/ FireDead(p)
    \/ ReadClock(p) \/ ConvergeOccurrence(p)

HandlerStep(p, s) ==
    \/ HandleDeadline(p, s) \/ HandleJob(p, s) \/ HandlePoll(p, s)
    \/ Consume(p, s) \/ ClearInFlight(p, s)

DaemonBoot == BootDaemon \/ (\E s \in Jobs : ArmJob(s)) \/ StartLoop

CliStep(p) ==
    \/ \E s \in Polls : BeginInstallation(p, s) \/ ResumeInstallation(p, s)
    \/ ArmPoll(p) \/ AwaitPoll(p)

World ==
    \/ Tick
    \/ \E s \in Deadlines : WriteItem(s) \/ ArmPublicationWatch(s)
    \/ \E s \in Polls : PromoteInstallation(s)

Next ==
    \/ DaemonBoot
    \/ \E p \in Clis : CliStep(p)
    \/ \E p \in Procs :
        \/ PassStep(p)
        \/ \E s \in ScheduleIDs : HandlerStep(p, s) \/ FailJob(p, s)
        \/ Stopped(p)
        \/ Crash(p)
    \/ StopOnError
    \/ World

Spec == Init /\ [][Next]_vars

(***************************************************************************)
(* Fairness.  The Go runtime runs every goroutine and the ticker keeps     *)
(* firing, so a process that can go on does; the operator restarts a       *)
(* daemon that is down; the clock runs.  Nothing forces an operator, an    *)
(* onboarding session or a crash.  FailJob and the items need no fairness. *)
(***************************************************************************)
Fairness ==
    /\ WF_vars(Tick)
    /\ WF_vars(DaemonBoot)
    /\ WF_vars(StopOnError)
    /\ \A p \in Procs : WF_vars(PassStep(p)) /\ WF_vars(Stopped(p))
    /\ \A p \in Clis : WF_vars(ArmPoll(p)) /\ WF_vars(AwaitPoll(p))
    /\ \A p \in Procs, s \in ScheduleIDs : WF_vars(HandlerStep(p, s))

FairSpec == Spec /\ Fairness
=============================================================================
