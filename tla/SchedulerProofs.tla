--------------------------- MODULE SchedulerProofs ---------------------------
(***************************************************************************)
(* IInv is an inductive invariant of Scheduler, for any number of          *)
(* schedules, processes, faults and sessions: the two tables agree with    *)
(* the live generation whatever the processes interleave.                  *)
(***************************************************************************)
EXTENDS SchedulerProperties, TLAPS

-----------------------------------------------------------------------------
(* Rows only move forward, and what a process remembers survives that.     *)

\* What one transaction may do to a row of the schedules table.
Evolves(old, new) ==
    \/ new = old
    \/ /\ old.status = "armed" /\ new.status # "armed"
       /\ new.gen = old.gen /\ new.fireAt = old.fireAt
    \/ new.gen = old.gen + 1 /\ (old.gen > 0 => new.fireAt = old.fireAt)

\* The store moved forward without dropping an occurrence.
Forward ==
    /\ \A s \in ScheduleIDs : Evolves(sched[s], sched'[s])
    /\ DOMAIN occ \subseteq DOMAIN occ'

\* Passes look at less of their snapshot, or drop it.
ScansShrink ==
    \A p \in Procs :
        /\ scan'[p].pend \subseteq scan[p].pend
        /\ scan'[p].due \subseteq scan[p].due
        /\ scan'[p].snap = scan[p].snap \/ (scan'[p].pend = {} /\ scan'[p].due = {})

\* A fire goes on with what it had, or is over.
FiresGoOn ==
    \A p \in Procs : Firing(p)' =>
        /\ Firing(p)
        /\ cur'[p] = cur[p]
        /\ scan'[p].snap = scan[p].snap
        /\ pc'[p] = "converge" => pc[p] = "converge"

\* A handler keeps what it was given and what it decided, or is gone.
HandlersGoOn ==
    \A p \in Procs, s \in ScheduleIDs :
        hand'[p][s].stage # "idle" =>
            /\ hand[p][s].stage # "idle"
            /\ hand'[p][s].sc = hand[p][s].sc
            /\ hand'[p][s].id = hand[p][s].id
            /\ hand'[p][s].put = hand[p][s].put

\* A deadline the daemon is still to fire, without an occurrence to deliver, is
\* left alone.
DeadlinesRest ==
    \A s \in Deadlines :
        (/\ s \in scan'[Daemon].due \/ (Firing(Daemon)' /\ cur'[Daemon].s = s)
         /\ sched[s].status = "armed"
         /\ PendingOf(s) = {}) => sched'[s] = sched[s] /\ PendingOf(s)' = {}

\* A snapshot taken before a transaction is still a copy after it.
LEMMA CopySurvives ==
    ASSUME NEW s, NEW sc \in Schedule, NEW old \in Schedule, NEW new \in Schedule,
           Evolves(old, new), Copy(sc, old, s)
    PROVE  Copy(sc, new, s)
  BY DEF Evolves, Copy, Schedule

LEMMA ScanKept ==
    ASSUME TypeOK, TypeOK', ScanShape, Forward, ScansShrink
    PROVE  ScanShape'
  <1> SUFFICES ASSUME NEW p \in Procs
               PROVE /\ scan'[p].due \subseteq Registered(p)
                     /\ \A s \in scan'[p].due : Copy(scan'[p].snap[s], sched'[s], s)
                     /\ \A i \in scan'[p].pend :
                         /\ i \in DOMAIN occ' /\ i.s \in Registered(p) /\ i.s \notin scan'[p].due
                         /\ Copy(scan'[p].snap[i.s], sched'[i.s], i.s)
                         /\ scan'[p].snap[i.s].gen = i.gen
    BY DEF ScanShape
  <1>0. Registered(p) \subseteq ScheduleIDs
    BY DEF Registered, ScheduleIDs
  <1>1. scan'[p].due \subseteq Registered(p)
    BY DEF ScanShape, ScansShrink
  <1>2. ASSUME NEW s \in scan'[p].due
        PROVE  Copy(scan'[p].snap[s], sched'[s], s)
    <2>1. s \in ScheduleIDs /\ s \in scan[p].due /\ scan'[p].snap = scan[p].snap
      BY <1>0, <1>1 DEF ScansShrink
    <2>2. Copy(scan[p].snap[s], sched[s], s)
      BY <2>1 DEF ScanShape
    <2>3. sched[s] \in Schedule /\ sched'[s] \in Schedule /\ scan[p].snap[s] \in Schedule
      BY <2>1 DEF TypeOK, Scan
    <2> QED
      BY <2>1, <2>2, <2>3, CopySurvives DEF Forward
  <1>3. ASSUME NEW i \in scan'[p].pend
        PROVE  /\ i \in DOMAIN occ' /\ i.s \in Registered(p) /\ i.s \notin scan'[p].due
               /\ Copy(scan'[p].snap[i.s], sched'[i.s], i.s)
               /\ scan'[p].snap[i.s].gen = i.gen
    <2>1. i \in scan[p].pend /\ scan'[p].snap = scan[p].snap
          /\ scan'[p].due \subseteq scan[p].due
      BY DEF ScansShrink
    <2>2. /\ i \in DOMAIN occ /\ i.s \in Registered(p) /\ i.s \notin scan[p].due
          /\ Copy(scan[p].snap[i.s], sched[i.s], i.s) /\ scan[p].snap[i.s].gen = i.gen
      BY <2>1 DEF ScanShape
    <2>3. sched[i.s] \in Schedule /\ sched'[i.s] \in Schedule /\ scan[p].snap[i.s] \in Schedule
      BY <1>0, <2>2 DEF TypeOK, Scan
    <2> QED
      BY <1>0, <2>1, <2>2, <2>3, CopySurvives DEF Forward
  <1> QED
    BY <1>1, <1>2, <1>3

LEMMA FireKept ==
    ASSUME TypeOK, TypeOK', FireShape, Forward, FiresGoOn, ScansShrink
    PROVE  FireShape'
  <1> SUFFICES ASSUME NEW p \in Procs, Firing(p)'
               PROVE /\ cur'[p].s \in Registered(p) /\ cur'[p].s \notin scan'[p].due
                     /\ Copy(Snap(p)', sched'[cur'[p].s], cur'[p].s)
                     /\ \A i \in cur'[p].redel :
                          i \in DOMAIN occ' /\ i.s = cur'[p].s /\ i.gen = Snap(p)'.gen
                     /\ (pc'[p] = "converge" /\ cur'[p].s \in Deadlines) =>
                          cur'[p].redel = {} /\ cur'[p].at = Snap(p)'.fireAt
    BY DEF FireShape
  <1>1. Snap(p)' = Snap(p) /\ Firing(p) /\ cur'[p] = cur[p] /\ scan'[p].due \subseteq scan[p].due
        /\ (pc'[p] = "converge" => pc[p] = "converge")
    BY DEF Snap, FiresGoOn, ScansShrink
  <1>2. /\ cur[p].s \in Registered(p) /\ cur[p].s \notin scan[p].due
        /\ Copy(Snap(p), sched[cur[p].s], cur[p].s)
        /\ \A i \in cur[p].redel : i \in DOMAIN occ /\ i.s = cur[p].s /\ i.gen = Snap(p).gen
        /\ (pc[p] = "converge" /\ cur[p].s \in Deadlines) =>
             cur[p].redel = {} /\ cur[p].at = Snap(p).fireAt
    BY <1>1 DEF FireShape
  <1>3. cur[p].s \in ScheduleIDs
    BY <1>2 DEF Registered, ScheduleIDs
  <1>4. Snap(p) \in Schedule /\ sched[cur[p].s] \in Schedule /\ sched'[cur[p].s] \in Schedule
    BY <1>3 DEF TypeOK, Scan, Snap
  <1>5. Copy(Snap(p), sched'[cur[p].s], cur[p].s)
    BY <1>2, <1>3, <1>4, CopySurvives DEF Forward
  <1> QED
    BY <1>1, <1>2, <1>5 DEF Forward

LEMMA HandlerKept ==
    ASSUME TypeOK, TypeOK', HandlerShape, Forward, HandlersGoOn
    PROVE  HandlerShape'
  <1> SUFFICES ASSUME NEW p \in Procs, NEW s \in ScheduleIDs, hand'[p][s].stage # "idle"
               PROVE /\ s \in Registered(p)
                     /\ Copy(hand'[p][s].sc, sched'[s], s)
                     /\ \E i \in DOMAIN occ' :
                          hand'[p][s].id = {i} /\ i.s = s /\ i.gen = hand'[p][s].sc.gen
                     /\ \/ hand'[p][s].put = NoSchedule
                        \/ \E end \in {"fired", "resolved"} :
                             hand'[p][s].put = Concluded(hand'[p][s].sc, end)
                        \/ s \in Deadlines
                           /\ hand'[p][s].put = ReArmed(hand'[p][s].sc, hand'[p][s].put.ver)
    BY DEF HandlerShape, Concluded, ReArmed
  <1>1. /\ hand[p][s].stage # "idle"
        /\ hand'[p][s].sc = hand[p][s].sc
        /\ hand'[p][s].id = hand[p][s].id
        /\ hand'[p][s].put = hand[p][s].put
    BY DEF HandlersGoOn
  <1>2. /\ s \in Registered(p)
        /\ Copy(hand[p][s].sc, sched[s], s)
        /\ \E i \in DOMAIN occ : hand[p][s].id = {i} /\ i.s = s /\ i.gen = hand[p][s].sc.gen
        /\ \/ hand[p][s].put = NoSchedule
           \/ \E end \in {"fired", "resolved"} : hand[p][s].put = Concluded(hand[p][s].sc, end)
           \/ s \in Deadlines /\ hand[p][s].put = ReArmed(hand[p][s].sc, hand[p][s].put.ver)
    BY <1>1 DEF HandlerShape
  <1>3. hand[p][s].sc \in Schedule /\ sched[s] \in Schedule /\ sched'[s] \in Schedule
    BY DEF TypeOK, Handler
  <1>4. Copy(hand[p][s].sc, sched'[s], s)
    BY <1>2, <1>3, CopySurvives DEF Forward
  <1> QED
    BY <1>1, <1>2, <1>4 DEF Forward

\* The part of IInv that speaks of the tables alone.
Tables == ScheduleShape /\ OccurrenceShape /\ ClockFollowsSchedule /\ PendingIsCurrent

\* A step that leaves the tables alone.
LEMMA TablesUnchanged ==
    ASSUME Tables, UNCHANGED store
    PROVE  Tables' /\ Forward /\ DeadlinesRest
  BY DEF Tables, store, ScheduleShape, OccurrenceShape, ClockFollowsSchedule,
         PendingIsCurrent, Forward, Evolves, DeadlinesRest, PendingOf

LEMMA Kinds ==
    /\ Deadlines \subseteq ScheduleIDs /\ Recurring \subseteq ScheduleIDs
    /\ ScheduleIDs = Deadlines \cup Recurring /\ Deadlines \cap Recurring = {}
    /\ Registered(Daemon) = ScheduleIDs
    /\ \A p \in Procs : Registered(p) \subseteq ScheduleIDs
    /\ \A p \in Procs : p # Daemon => Registered(p) = Polls
    /\ Polls \subseteq Recurring /\ Jobs \subseteq Recurring
    /\ Daemon \in Procs /\ Clis \subseteq Procs
  BY KindsDisjoint DEF ScheduleIDs, Recurring, Registered, Procs

LEMMA FreshKept ==
    ASSUME TypeOK, ScanShape, FireShape, DueDeadlineIsFresh, ScansShrink, FiresGoOn, DeadlinesRest
    PROVE  DueDeadlineIsFresh'
  <1> SUFFICES ASSUME NEW s \in Deadlines,
                      \/ s \in scan'[Daemon].due
                      \/ Firing(Daemon)' /\ cur'[Daemon].s = s /\ cur'[Daemon].redel = {}
               PROVE  sched'[s] = scan'[Daemon].snap[s] /\ PendingOf(s)' = {}
    BY DEF DueDeadlineIsFresh
  <1>1. /\ \/ s \in scan[Daemon].due
           \/ Firing(Daemon) /\ cur[Daemon].s = s /\ cur[Daemon].redel = {}
        /\ scan'[Daemon].snap = scan[Daemon].snap
    BY SMTT(30), Kinds DEF ScansShrink, FiresGoOn
  <1>2. sched[s] = scan[Daemon].snap[s] /\ PendingOf(s) = {}
    BY <1>1 DEF DueDeadlineIsFresh
  <1>3. scan[Daemon].snap[s].status = "armed"
    <2>1. CASE s \in scan[Daemon].due
      BY <2>1, Kinds DEF ScanShape, Copy
    <2>2. CASE Firing(Daemon) /\ cur[Daemon].s = s
      BY <2>2, Kinds DEF FireShape, Copy, Snap
    <2> QED
      BY <1>1, <2>1, <2>2
  <1> QED
    BY <1>1, <1>2, <1>3 DEF DeadlinesRest

\* What an action has to establish when it starts no pass, fire or handler.
LEMMA StepKeeps ==
    ASSUME IInv, TypeOK', Tables', Forward, DeadlinesRest,
           ScansShrink, FiresGoOn, HandlersGoOn, BootShape', NeverRejected'
    PROVE  IInv'
  BY ScanKept, FireKept, HandlerKept, FreshKept DEF IInv, Tables

-----------------------------------------------------------------------------
(* One lemma per action.                                                   *)

LEMMA WorldStep ==
    ASSUME IInv, Tick \/ (\E s \in Deadlines : WriteItem(s))
                      \/ (\E s \in Polls : PromoteInstallation(s))
    PROVE  IInv'
  <1>1. UNCHANGED <<store, memory, faults, sessions>>
    BY DEF Tick, WriteItem, PromoteInstallation
  <1>2. UNCHANGED <<sched, timer, occ, firstFire, pc, boot, scan, cur, hand, err, faults, sessions>>
    BY <1>1 DEF store, memory
  <1>3. TypeOK'
    <2>0. TypeOK
      BY DEF IInv
    <2>1. CASE Tick
      <3>1. now' \in Nat /\ subject' = subject
        BY <2>0, <2>1 DEF TypeOK, Tick
      <3> QED
        BY <1>2, <2>0, <3>1 DEF TypeOK
    <2>2. CASE \E s \in Deadlines : WriteItem(s)
      <3>1. PICK s \in ScheduleIDs, live \in BOOLEAN :
              now' = now /\ subject' = [subject EXCEPT ![s].ver = @ + 1, ![s].live = live]
        BY <2>2, Kinds DEF WriteItem
      <3> DEFINE ver == subject[s].ver + 1
      <3>2. ver \in Nat
        BY <2>0 DEF TypeOK, Subject
      <3>3. subject' = [subject EXCEPT ![s].ver = ver, ![s].live = live]
        BY <3>1
      <3> HIDE DEF ver
      <3>4. subject' \in [ScheduleIDs -> Subject]
        BY <2>0, <3>2, <3>3 DEF TypeOK, Subject
      <3> QED
        BY <1>2, <2>0, <3>1, <3>4 DEF TypeOK
    <2>3. CASE \E s \in Polls : PromoteInstallation(s)
      <3>1. PICK s \in ScheduleIDs : now' = now /\ subject' = [subject EXCEPT ![s].live = FALSE]
        BY <2>3, Kinds DEF PromoteInstallation
      <3>2. subject' \in [ScheduleIDs -> Subject]
        BY <2>0, <3>1 DEF TypeOK, Subject
      <3> QED
        BY <1>2, <2>0, <3>1, <3>2 DEF TypeOK
    <2> QED
      BY <2>1, <2>2, <2>3
  <1>4. Tables' /\ Forward /\ DeadlinesRest
    BY <1>1, TablesUnchanged DEF IInv, Tables
  <1>5. ScansShrink /\ FiresGoOn /\ HandlersGoOn
    BY <1>2 DEF ScansShrink, FiresGoOn, HandlersGoOn, Firing
  <1>6. BootShape' /\ NeverRejected'
    BY <1>2 DEF IInv, BootShape, NeverRejected
  <1> QED
    BY <1>3, <1>4, <1>5, <1>6, StepKeeps

\* What every lemma below starts from.
LEMMA Facts ==
    ASSUME IInv
    PROVE  TypeOK /\ Tables /\ BootShape /\ NeverRejected
  BY DEF IInv, Tables

\* A process that dies forgets everything.
LEMMA ForgetStep ==
    ASSUME IInv, NEW p \in Procs, Forget(p), UNCHANGED <<now, subject, store, sessions>>,
           faults' \in Nat
    PROVE  IInv'
  <1>1. TypeOK'
    BY Facts DEF TypeOK, Forget, GoTo, store, Labels, Errors, Boot, Scan, Fire, Handler,
       NoBoot, NoScan, NoFire, NoHandler, NoSchedule, NoGap, Gap, Schedule, Statuses,
       Stages, Outcomes
  <1>2. Tables' /\ Forward /\ DeadlinesRest
    BY Facts, TablesUnchanged
  <1>3. ScansShrink
    BY Facts DEF TypeOK, Scan, Forget, ScansShrink, NoScan
  <1>4. FiresGoOn
    BY Facts DEF TypeOK, Forget, GoTo, FiresGoOn, Firing
  <1>5. HandlersGoOn
    BY Facts DEF TypeOK, Forget, HandlersGoOn, NoHandler
  <1>6. BootShape' /\ NeverRejected'
    BY Facts DEF TypeOK, Forget, GoTo, BootShape, NoBoot, NeverRejected
  <1> QED
    BY <1>1, <1>2, <1>3, <1>4, <1>5, <1>6, StepKeeps

LEMMA StoppedStep ==
    ASSUME IInv, NEW p \in Procs, Stopped(p) \/ Crash(p)
    PROVE  IInv'
  <1>1. faults' \in Nat
    BY Facts DEF TypeOK, Stopped, Crash
  <1> QED
    BY <1>1, ForgetStep DEF Stopped, Crash

LEMMA AwaitPollStep ==
    ASSUME IInv, NEW p \in Clis, AwaitPoll(p)
    PROVE  IInv'
  <1>0. p \in Procs
    BY Kinds
  <1>1. CASE Forget(p)
    BY <1>0, <1>1, Facts, ForgetStep DEF AwaitPoll, TypeOK
  <1>2. CASE GoTo(p, "idle") /\ UNCHANGED <<boot, scan, cur, hand, err>>
    <2>1. UNCHANGED <<now, subject, store, boot, scan, cur, hand, err, faults, sessions>>
      BY <1>2 DEF AwaitPoll
    <2>2. TypeOK'
      BY <1>2, <2>1, Facts DEF TypeOK, GoTo, Labels, store
    <2>3. Tables' /\ Forward /\ DeadlinesRest
      BY <2>1, Facts, TablesUnchanged
    <2>4. ScansShrink /\ HandlersGoOn /\ NeverRejected'
      BY <2>1, Facts DEF ScansShrink, HandlersGoOn, NeverRejected
    <2>5. FiresGoOn /\ BootShape'
      BY <1>0, <1>2, <2>1, Facts DEF TypeOK, GoTo, FiresGoOn, Firing, BootShape
    <2> QED
      BY <2>2, <2>3, <2>4, <2>5, StepKeeps
  <1> QED
    BY <1>1, <1>2 DEF AwaitPoll

\* Starting a daemon or a session touches pc and boot only.
LEMMA StartStep ==
    ASSUME IInv, BootDaemon \/ StartLoop \/ StopOnError
                 \/ (\E p \in Clis, s \in Polls : BeginInstallation(p, s) \/ ResumeInstallation(p, s))
    PROVE  IInv'
  <1>1. UNCHANGED <<store, scan, cur, hand, err, faults>> /\ now' = now
    BY DEF BootDaemon, StartLoop, StopOnError, BeginInstallation, ResumeInstallation
  <1>2. TypeOK' /\ BootShape' /\ FiresGoOn
    <2>1. CASE BootDaemon
      <3>1. [NoBoot EXCEPT !.todo = Jobs] \in Boot /\ [NoBoot EXCEPT !.todo = Jobs].todo = Jobs
        BY Kinds DEF NoBoot, Boot
      <3>2. TypeOK'
        BY <1>1, <2>1, <3>1, Facts, Kinds DEF TypeOK, BootDaemon, GoTo, Labels, store
      <3>3. BootShape'
        BY <1>1, <2>1, <3>1, Facts, Kinds, DaemonIsNotCli DEF TypeOK, BootDaemon, GoTo, BootShape
      <3> QED
        BY <1>1, <2>1, <3>2, <3>3, Facts, Kinds DEF TypeOK, BootDaemon, GoTo, FiresGoOn, Firing
    <2>2. CASE StartLoop
      BY <1>1, <2>2, Facts, Kinds DEF TypeOK, StartLoop, GoTo, Labels, Boot, NoBoot, store,
         BootShape, FiresGoOn, Firing
    <2>3. CASE StopOnError
      BY <1>1, <2>3, Facts, Kinds DEF TypeOK, StopOnError, GoTo, Labels, store,
         BootShape, FiresGoOn, Firing
    <2>4. ASSUME NEW p \in Clis, NEW s \in Polls, BeginInstallation(p, s)
          PROVE  TypeOK' /\ BootShape' /\ FiresGoOn
      <3> DEFINE ver == subject[s].ver + 1
                 expires == now + EnvelopeLife
      <3>1. ver \in Nat /\ expires \in Nat /\ s \in ScheduleIDs /\ p \in Procs
        BY Facts, Kinds, Durations DEF TypeOK, Subject
      <3>2. /\ subject' = [subject EXCEPT ![s] = [ver |-> ver, live |-> TRUE, expires |-> expires]]
            /\ boot' = [boot EXCEPT ![p] = [todo |-> {s}, ver |-> ver, expires |-> expires,
                                           then |-> "down", s |-> s]]
            /\ pc' = [pc EXCEPT ![p] = "arming"]
            /\ sessions' = sessions + 1
        BY <2>4 DEF BeginInstallation, GoTo
      <3> HIDE DEF ver, expires
      <3>3. subject' \in [ScheduleIDs -> Subject] /\ boot' \in [Procs -> Boot]
        BY <3>1, <3>2, Facts DEF TypeOK, Subject, Boot
      <3>4. TypeOK'
        BY <1>1, <3>1, <3>2, <3>3, Facts DEF TypeOK, Labels, store
      <3> QED
        BY <1>1, <3>1, <3>2, <3>4, Facts, DaemonIsNotCli DEF TypeOK, BootShape, FiresGoOn, Firing
    <2>5. ASSUME NEW p \in Clis, NEW s \in Polls, ResumeInstallation(p, s)
          PROVE  TypeOK' /\ BootShape' /\ FiresGoOn
      <3>1. s \in ScheduleIDs /\ p \in Procs
        BY Kinds
      <3>2. /\ boot' = [boot EXCEPT ![p] =
                  [todo |-> {s}, ver |-> subject[s].ver, expires |-> subject[s].expires,
                   then |-> "idle", s |-> s]]
            /\ pc' = [pc EXCEPT ![p] = "arming"]
            /\ sessions' = sessions + 1 /\ subject' = subject
        BY <2>5 DEF ResumeInstallation, GoTo
      <3>3. boot' \in [Procs -> Boot]
        BY <3>1, <3>2, Facts DEF TypeOK, Subject, Boot
      <3>4. TypeOK'
        BY <1>1, <3>1, <3>2, <3>3, Facts DEF TypeOK, Labels, store
      <3> QED
        BY <1>1, <3>1, <3>2, <3>4, Facts, DaemonIsNotCli DEF TypeOK, BootShape, FiresGoOn, Firing
    <2> QED
      BY <2>1, <2>2, <2>3, <2>4, <2>5
  <1>3. Tables' /\ Forward /\ DeadlinesRest
    BY <1>1, Facts, TablesUnchanged
  <1>4. ScansShrink /\ HandlersGoOn /\ NeverRejected'
    BY <1>1, Facts DEF ScansShrink, HandlersGoOn, NeverRejected
  <1> QED
    BY <1>2, <1>3, <1>4, StepKeeps

\* Every row that can be listed as due or pending is a copy of itself.
LEMMA ArmedCopiesItself ==
    ASSUME TypeOK, ScheduleShape, NEW s \in ScheduleIDs, sched[s].status = "armed"
    PROVE  Copy(sched[s], sched[s], s)
  BY DEF TypeOK, ScheduleShape, Copy, Schedule

\* A new pass: its snapshot is current, and a deadline it finds due has no
\* pending occurrence.
LEMMA StartPassStep ==
    ASSUME IInv, NEW p \in Procs, StartPass(p)
    PROVE  IInv'
  <1> DEFINE pend == Redeliverable(p)
             handled == {i.s : i \in pend}
             due == (DueAt(now) \cap Registered(p)) \ handled
             snap == [s \in ScheduleIDs |-> IF s \in handled \cup due THEN sched[s] ELSE NoSchedule]
  <1>1. /\ scan' = [scan EXCEPT ![p] = [now |-> now, pend |-> pend, due |-> due, snap |-> snap]]
        /\ pc' = [pc EXCEPT ![p] = "pass"]
        /\ UNCHANGED <<now, subject, store, boot, cur, hand, err, faults, sessions>>
    BY DEF StartPass, GoTo
  <1>2. UNCHANGED <<sched, timer, occ, firstFire>>
    BY <1>1 DEF store
  <1>3. /\ pend \subseteq Identity /\ pend \subseteq DOMAIN occ
        /\ \A i \in pend : i.s \in Registered(p) /\ Pending(i)
    BY Facts DEF Redeliverable, Pending, TypeOK
  <1>4. /\ due \subseteq Registered(p) /\ due \subseteq ScheduleIDs
        /\ \A s \in due : sched[s].status = "armed" /\ s \notin handled
    BY DEF DueAt
  <1>5. snap \in [ScheduleIDs -> Schedule]
    BY Facts DEF TypeOK, NoSchedule, Schedule, Statuses
  <1>6. \A s \in ScheduleIDs : s \in handled \cup due => snap[s] = sched[s]
    OBVIOUS
  <1>7. \A i \in pend : i.s \in handled
    OBVIOUS
  <1>8. p = Daemon => \A s \in due : PendingOf(s) = {}
    BY <1>4, Facts, Kinds DEF PendingOf, Redeliverable, Pending
  <1> HIDE DEF pend, handled, due, snap
  <1>9. TypeOK'
    <2>1. [now |-> now, pend |-> pend, due |-> due, snap |-> snap] \in Scan
      BY <1>3, <1>4, <1>5, Facts DEF Scan, TypeOK
    <2> QED
      BY <1>1, <1>2, <2>1, Facts DEF TypeOK, Labels
  <1>10. Tables' /\ Forward /\ DeadlinesRest
    BY <1>1, Facts, TablesUnchanged
  <1>11. FireShape' /\ HandlerShape'
    <2>1. \A q \in Procs : Firing(q)' => q # p /\ Firing(q) /\ scan'[q] = scan[q] /\ pc'[q] = pc[q]
      BY <1>1, Facts DEF TypeOK, Firing
    <2>2. FireShape'
      <3> SUFFICES ASSUME NEW q \in Procs, Firing(q)'
                   PROVE /\ cur'[q].s \in Registered(q) /\ cur'[q].s \notin scan'[q].due
                         /\ Copy(scan'[q].snap[cur'[q].s], sched'[cur'[q].s], cur'[q].s)
                         /\ \A i \in cur'[q].redel :
                              i \in DOMAIN occ' /\ i.s = cur'[q].s
                              /\ i.gen = scan'[q].snap[cur'[q].s].gen
                         /\ (pc'[q] = "converge" /\ cur'[q].s \in Deadlines) =>
                              cur'[q].redel = {} /\ cur'[q].at = scan'[q].snap[cur'[q].s].fireAt
        BY DEF FireShape, Snap
      <3>1. Firing(q) /\ cur'[q] = cur[q] /\ scan'[q] = scan[q] /\ pc'[q] = pc[q]
        BY <1>1, <2>1
      <3>2. /\ cur[q].s \in Registered(q) /\ cur[q].s \notin scan[q].due
            /\ Copy(scan[q].snap[cur[q].s], sched[cur[q].s], cur[q].s)
            /\ \A i \in cur[q].redel :
                  i \in DOMAIN occ /\ i.s = cur[q].s /\ i.gen = scan[q].snap[cur[q].s].gen
            /\ (pc[q] = "converge" /\ cur[q].s \in Deadlines) =>
                  cur[q].redel = {} /\ cur[q].at = scan[q].snap[cur[q].s].fireAt
        BY <3>1 DEF IInv, FireShape, Snap
      <3> QED
        BY <1>2, <3>1, <3>2
    <2>3. HandlersGoOn
      BY <1>1 DEF HandlersGoOn
    <2> QED
      BY <1>9, <1>10, <2>2, <2>3, HandlerKept DEF IInv
  <1>12. ScanShape'
    <2>1. \A q \in Procs : q # p => scan'[q] = scan[q]
      BY <1>1, Facts DEF TypeOK
    <2>2. scan'[p].pend = pend /\ scan'[p].due = due /\ scan'[p].snap = snap
      BY <1>1, Facts DEF TypeOK
    <2>3. ASSUME NEW s \in due
          PROVE  Copy(snap[s], sched[s], s)
      BY <1>4, <1>6, Facts, ArmedCopiesItself DEF Tables
    <2>4. ASSUME NEW i \in pend
          PROVE  i.s \notin due /\ Copy(snap[i.s], sched[i.s], i.s) /\ snap[i.s].gen = i.gen
      <3>1. i.s \in ScheduleIDs /\ sched[i.s].status = "armed" /\ sched[i.s].gen = i.gen
        BY <1>3, Facts, Kinds DEF Tables, PendingIsCurrent, Pending
      <3> QED
        BY <1>4, <1>6, <1>7, <3>1, Facts, ArmedCopiesItself DEF Tables
    <2>5. \A q \in Procs : q # p =>
            /\ scan[q].due \subseteq Registered(q)
            /\ \A s \in scan[q].due : Copy(scan[q].snap[s], sched[s], s)
            /\ \A i \in scan[q].pend :
                /\ i \in DOMAIN occ /\ i.s \in Registered(q) /\ i.s \notin scan[q].due
                /\ Copy(scan[q].snap[i.s], sched[i.s], i.s) /\ scan[q].snap[i.s].gen = i.gen
      BY DEF IInv, ScanShape
    <2> QED
      BY <1>2, <1>3, <1>4, <2>1, <2>2, <2>3, <2>4, <2>5 DEF ScanShape
  <1>13. DueDeadlineIsFresh'
    <2>1. CASE p = Daemon
      <3>1. scan'[Daemon].due = due /\ scan'[Daemon].snap = snap /\ ~Firing(Daemon)'
        BY <1>1, <2>1, Facts DEF TypeOK, Firing
      <3>2. \A s \in due : PendingOf(s)' = {}
        BY <1>2, <1>8, <2>1 DEF PendingOf
      <3> QED
        BY <1>2, <1>4, <1>6, <3>1, <3>2 DEF DueDeadlineIsFresh
    <2>2. CASE p # Daemon
      <3>1. /\ scan'[Daemon] = scan[Daemon] /\ cur'[Daemon] = cur[Daemon]
            /\ Firing(Daemon)' => Firing(Daemon)
        BY <1>1, <2>2, Facts DEF TypeOK, Firing
      <3> QED
        BY <1>2, <3>1 DEF IInv, DueDeadlineIsFresh, PendingOf
    <2> QED
      BY <2>1, <2>2
  <1> QED
    BY <1>1, <1>9, <1>10, <1>11, <1>12, <1>13, Facts, DaemonIsNotCli, Kinds
    DEF IInv, Tables, BootShape, NeverRejected, TypeOK

\* A pass turns to one schedule s of its snapshot: either it is in flight, or a
\* fire starts on it, with the pending occurrences in redel.
LEMMA TakeStep ==
    ASSUME IInv, NEW p \in Procs, NEW s \in Registered(p), NEW redel \in SUBSET Identity,
           NEW fire \in Fire, fire.s = s, fire.redel = redel,
           UNCHANGED <<now, subject, store, boot, hand, err, faults, sessions>>,
           scan' \in [Procs -> Scan], \A q \in Procs : q # p => scan'[q] = scan[q],
           scan'[p].pend \subseteq scan[p].pend, scan'[p].due \subseteq scan[p].due,
           scan'[p].snap = scan[p].snap, s \notin scan'[p].due, Copy(scan[p].snap[s], sched[s], s),
           \A i \in redel : i \in DOMAIN occ /\ i.s = s /\ i.gen = scan[p].snap[s].gen,
           redel = {} => s \in scan[p].due,
           pc[p] = "pass",
           \/ UNCHANGED <<pc, cur>>
           \/ /\ pc' = [pc EXCEPT ![p] = "fire"]
              /\ cur' = [cur EXCEPT ![p] = fire]
    PROVE  IInv'
  <1>0. TypeOK /\ UNCHANGED <<sched, timer, occ, firstFire>> /\ s \in ScheduleIDs
    BY Facts, Kinds DEF store
  <1>2. /\ \A q \in Procs : q # p => pc'[q] = pc[q] /\ cur'[q] = cur[q]
        /\ Firing(p)' => pc'[p] = "fire" /\ cur'[p] = fire
        /\ pc'[p] \in {"pass", "fire"}
        /\ ScansShrink
    BY SMTT(30), <1>0 DEF TypeOK, Firing, ScansShrink
  <1>3. TypeOK'
    <2>1. cur' \in [Procs -> Fire] /\ pc' \in [Procs -> Labels]
      BY ZenonT(200), <1>0 DEF TypeOK, Labels
    <2> QED
      BY <1>0, <2>1 DEF TypeOK, store
  <1>4. Tables' /\ Forward /\ DeadlinesRest
    BY Facts, TablesUnchanged
  <1>5. ScanShape' /\ HandlerShape'
    <2>1. HandlersGoOn
      BY DEF HandlersGoOn
    <2> QED
      BY <1>0, <1>2, <1>3, <1>4, <2>1, ScanKept, HandlerKept DEF IInv
  <1>6. FireShape'
    <2> SUFFICES ASSUME NEW q \in Procs, Firing(q)'
                 PROVE /\ cur'[q].s \in Registered(q) /\ cur'[q].s \notin scan'[q].due
                       /\ Copy(scan'[q].snap[cur'[q].s], sched[cur'[q].s], cur'[q].s)
                       /\ \A i \in cur'[q].redel :
                            i \in DOMAIN occ /\ i.s = cur'[q].s
                            /\ i.gen = scan'[q].snap[cur'[q].s].gen
                       /\ (pc'[q] = "converge" /\ cur'[q].s \in Deadlines) =>
                            cur'[q].redel = {} /\ cur'[q].at = scan'[q].snap[cur'[q].s].fireAt
      BY <1>0 DEF FireShape, Snap
    <2>1. CASE q = p
      BY <1>2, <2>1
    <2>2. CASE q # p
      <3>1. Firing(q) /\ cur'[q] = cur[q] /\ pc'[q] = pc[q]
        BY <1>2, <2>2 DEF Firing
      <3>2. /\ cur[q].s \in Registered(q) /\ cur[q].s \notin scan[q].due
            /\ Copy(scan[q].snap[cur[q].s], sched[cur[q].s], cur[q].s)
            /\ \A i \in cur[q].redel :
                  i \in DOMAIN occ /\ i.s = cur[q].s /\ i.gen = scan[q].snap[cur[q].s].gen
            /\ (pc[q] = "converge" /\ cur[q].s \in Deadlines) =>
                  cur[q].redel = {} /\ cur[q].at = scan[q].snap[cur[q].s].fireAt
        BY <3>1 DEF IInv, FireShape, Snap
      <3>3. scan'[q] = scan[q]
        BY <1>0, <2>2 DEF TypeOK
      <3> QED
        BY <3>1, <3>2, <3>3
    <2> QED
      BY <2>1, <2>2
  <1>7. DueDeadlineIsFresh'
    <2>1. CASE p = Daemon
      <3>1. /\ \A d \in Deadlines : PendingOf(d)' = PendingOf(d)
            /\ scan'[Daemon].snap = scan[Daemon].snap
            /\ scan'[Daemon].due \subseteq scan[Daemon].due
        BY <1>0, <2>1 DEF PendingOf
      <3>2. \A d \in Deadlines :
              (Firing(Daemon)' /\ cur'[Daemon].s = d /\ cur'[Daemon].redel = {}) =>
                d \in scan[Daemon].due
        BY <1>2, <2>1
      <3> QED
        BY <1>0, <3>1, <3>2 DEF IInv, DueDeadlineIsFresh
    <2>2. CASE p # Daemon
      <3>1. /\ scan'[Daemon] = scan[Daemon] /\ cur'[Daemon] = cur[Daemon]
            /\ Firing(Daemon)' => Firing(Daemon)
        BY <1>2, <2>2, Kinds DEF Firing
      <3> QED
        BY <1>0, <3>1 DEF IInv, DueDeadlineIsFresh, PendingOf
    <2> QED
      BY <2>1, <2>2
  <1>8. BootShape' /\ NeverRejected'
    BY <1>2, Facts, Kinds DEF BootShape, NeverRejected
  <1> QED
    BY <1>3, <1>4, <1>5, <1>6, <1>7, <1>8 DEF IInv, Tables

LEMMA RedeliverStep ==
    ASSUME IInv, NEW p \in Procs, Redeliver(p)
    PROVE  IInv'
  <1>1. PICK i \in scan[p].pend :
          /\ scan' = [scan EXCEPT ![p].pend = @ \ {i}]
          /\ IF InFlight(p, i.s)
             THEN UNCHANGED <<pc, cur, occ>>
             ELSE IF scan[p].snap[i.s].gen # i.gen \/ scan[p].snap[i.s].status # "armed"
             THEN /\ occ' = Settle(occ, {i}, "stale_generation")
                  /\ UNCHANGED <<pc, cur>>
             ELSE /\ cur' = [cur EXCEPT ![p] = [NoFire EXCEPT !.s = i.s, !.redel = {i}]]
                  /\ GoTo(p, "fire")
                  /\ UNCHANGED occ
    BY DEF Redeliver
  <1>2. UNCHANGED <<now, subject, sched, timer, firstFire, boot, hand, err, faults, sessions>>
        /\ pc[p] = "pass"
    BY DEF Redeliver
  \* A row of the snapshot is a copy of the occurrence's own armed generation.
  <1>3. /\ i \in DOMAIN occ /\ i \in Identity /\ i.s \in Registered(p) /\ i.s \notin scan[p].due
        /\ Copy(scan[p].snap[i.s], sched[i.s], i.s) /\ scan[p].snap[i.s].gen = i.gen
    BY Facts DEF IInv, ScanShape, TypeOK
  <1>4. scan[p].snap[i.s].status = "armed"
    BY <1>3 DEF Copy
  <1>5. UNCHANGED store
    BY <1>1, <1>2, <1>3, <1>4 DEF store
  <1>6. /\ scan' \in [Procs -> Scan] /\ \A q \in Procs : q # p => scan'[q] = scan[q]
        /\ scan'[p].pend \subseteq scan[p].pend /\ scan'[p].due = scan[p].due
        /\ scan'[p].snap = scan[p].snap
    <2> DEFINE rest == scan[p].pend \ {i}
    <2>1. rest \in SUBSET Identity /\ rest \subseteq scan[p].pend
      BY Facts DEF TypeOK, Scan
    <2>2. scan' = [scan EXCEPT ![p].pend = rest]
      BY <1>1
    <2> HIDE DEF rest
    <2> QED
      BY <2>1, <2>2, Facts DEF TypeOK, Scan
  <1> DEFINE fire == [NoFire EXCEPT !.s = i.s, !.redel = {i}]
  <1>7. \/ UNCHANGED <<pc, cur>>
        \/ /\ pc' = [pc EXCEPT ![p] = "fire"]
           /\ cur' = [cur EXCEPT ![p] = fire]
    BY <1>1, <1>3, <1>4 DEF GoTo
  <1>8. {i} \in SUBSET Identity /\ {i} # {}
    BY <1>3
  <1>9. fire \in Fire /\ fire.s = i.s /\ fire.redel = {i}
    BY <1>3, <1>8, Kinds DEF NoFire, NoGap, Gap, Fire
  <1> HIDE DEF fire
  <1> QED
    BY SMTT(60), <1>2, <1>3, <1>5, <1>6, <1>7, <1>8, <1>9, TakeStep

LEMMA TakeDueStep ==
    ASSUME IInv, NEW p \in Procs, TakeDue(p)
    PROVE  IInv'
  <1>1. PICK s \in scan[p].due :
          /\ scan' = [scan EXCEPT ![p].due = @ \ {s}]
          /\ \/ UNCHANGED <<pc, cur>>
             \/ /\ cur' = [cur EXCEPT ![p] = [NoFire EXCEPT !.s = s]]
                /\ pc' = [pc EXCEPT ![p] = "fire"]
    BY DEF TakeDue, GoTo
  <1>2. UNCHANGED <<now, subject, store, boot, hand, err, faults, sessions>> /\ pc[p] = "pass"
    BY DEF TakeDue
  <1>3. s \in Registered(p) /\ Copy(scan[p].snap[s], sched[s], s)
    BY DEF IInv, ScanShape
  <1>4. /\ scan' \in [Procs -> Scan] /\ \A q \in Procs : q # p => scan'[q] = scan[q]
        /\ scan'[p].pend = scan[p].pend /\ scan'[p].due = scan[p].due \ {s}
        /\ scan'[p].snap = scan[p].snap
    <2> DEFINE rest == scan[p].due \ {s}
    <2>1. rest \in SUBSET ScheduleIDs
      BY Facts DEF TypeOK, Scan
    <2>2. scan' = [scan EXCEPT ![p].due = rest]
      BY <1>1
    <2> HIDE DEF rest
    <2>3. scan' \in [Procs -> Scan] /\ scan'[p].due = rest /\ scan'[p].pend = scan[p].pend
          /\ scan'[p].snap = scan[p].snap /\ \A q \in Procs : q # p => scan'[q] = scan[q]
      BY ZenonT(200), <2>1, <2>2, Facts DEF TypeOK, Scan
    <2> QED
      BY <2>3 DEF rest
  <1> DEFINE fire == [NoFire EXCEPT !.s = s]
  <1>5. fire \in Fire /\ fire.s = s /\ fire.redel = {}
    BY <1>3, Kinds DEF NoFire, NoGap, Gap, Fire
  <1>6. \/ UNCHANGED <<pc, cur>>
        \/ pc' = [pc EXCEPT ![p] = "fire"] /\ cur' = [cur EXCEPT ![p] = fire]
    BY <1>1
  <1>7. {} \in SUBSET Identity /\ s \notin scan'[p].due
    BY <1>4
  <1> HIDE DEF fire
  <1> QED
    BY <1>2, <1>3, <1>4, <1>5, <1>6, <1>7, TakeStep

LEMMA EndPassStep ==
    ASSUME IInv, NEW p \in Procs, EndPass(p)
    PROVE  IInv'
  <1>1. /\ \E label \in {"idle", "await"} : pc' = [pc EXCEPT ![p] = label]
        /\ scan' = [scan EXCEPT ![p] = NoScan]
        /\ UNCHANGED <<now, subject, store, boot, cur, hand, err, faults, sessions>>
    BY DEF EndPass, GoTo
  <1>2. TypeOK'
    <2>1. NoScan \in Scan
      BY DEF NoScan, Scan, NoSchedule, Schedule, Statuses
    <2> QED
      BY <1>1, <2>1, Facts DEF TypeOK, Labels, store
  <1>3. Tables' /\ Forward /\ DeadlinesRest
    BY <1>1, Facts, TablesUnchanged
  <1>4. ScansShrink /\ FiresGoOn /\ HandlersGoOn
    BY <1>1, Facts DEF TypeOK, NoScan, ScansShrink, FiresGoOn, Firing, HandlersGoOn
  <1>5. BootShape' /\ NeverRejected'
    BY <1>1, Facts, Kinds DEF TypeOK, BootShape, NeverRejected
  <1> QED
    BY <1>2, <1>3, <1>4, <1>5, StepKeeps

LEMMA CheckSubjectStep ==
    ASSUME IInv, NEW p \in Procs, CheckSubject(p)
    PROVE  IInv'
  <1>1. /\ \E label \in {"clock", "dead"} : pc' = [pc EXCEPT ![p] = label]
        /\ pc[p] = "fire"
        /\ UNCHANGED <<now, subject, store, boot, scan, cur, hand, err, faults, sessions>>
    BY DEF CheckSubject, GoTo
  <1>2. TypeOK'
    BY <1>1, Facts DEF TypeOK, Labels, store
  <1>3. Tables' /\ Forward /\ DeadlinesRest
    BY <1>1, Facts, TablesUnchanged
  <1>4. ScansShrink /\ FiresGoOn /\ HandlersGoOn
    BY <1>1, Facts DEF TypeOK, ScansShrink, FiresGoOn, Firing, HandlersGoOn
  <1>5. BootShape' /\ NeverRejected'
    BY <1>1, Facts, Kinds DEF TypeOK, BootShape, NeverRejected
  <1> QED
    BY <1>2, <1>3, <1>4, <1>5, StepKeeps

-----------------------------------------------------------------------------
(* Transactions that end or replace a generation.                          *)

\* Concluding an armed row is a transition PutSchedule accepts.
LEMMA ConcludedRow ==
    ASSUME NEW old \in Schedule, old.status = "armed",
           NEW end \in {"fired", "resolved", "expired"}
    PROVE  /\ Concluded(old, end) \in Schedule
           /\ Concluded(old, end).status = end
           /\ Concluded(old, end).gen = old.gen
           /\ Concluded(old, end).fireAt = old.fireAt
           /\ Concluded(old, end).interval = old.interval
           /\ TransitionOk(old, Concluded(old, end))
  <1> DEFINE new == Concluded(old, end)
  <1>1. /\ new \in Schedule /\ new.status = end /\ new.gen = old.gen
        /\ new.fireAt = old.fireAt /\ new.interval = old.interval
    BY DEF Concluded, Schedule, Statuses
  <1>2. [new EXCEPT !.status = "armed"] = old
    BY DEF Concluded, Schedule
  <1> QED
    BY <1>1, <1>2 DEF TransitionOk

\* So is re-arming it; the next generation keeps the nominal instant.
LEMMA ReArmedRow ==
    ASSUME NEW old \in Schedule, NEW ver \in Nat
    PROVE  /\ ReArmed(old, ver) \in Schedule
           /\ ReArmed(old, ver).status = "armed"
           /\ ReArmed(old, ver).gen = old.gen + 1
           /\ ReArmed(old, ver).fireAt = old.fireAt
           /\ ReArmed(old, ver).interval = old.interval
           /\ TransitionOk(old, ReArmed(old, ver))
  <1> DEFINE gen == old.gen + 1
             new == [old EXCEPT !.gen = gen, !.status = "armed", !.ver = ver]
  <1>1. gen \in Nat
    BY DEF Schedule
  <1>2. ReArmed(old, ver) = new
    BY DEF ReArmed
  <1> HIDE DEF gen
  <1>3. /\ new \in Schedule /\ new.status = "armed" /\ new.gen = gen
        /\ new.fireAt = old.fireAt /\ new.interval = old.interval
    BY <1>1 DEF Schedule, Statuses
  <1> QED
    BY <1>2, <1>3 DEF TransitionOk, gen

\* Settling rows of the ledger.
LEMMA SettledRows ==
    ASSUME NEW rows, NEW ledger \in [rows -> Occurrence], NEW ids,
           NEW outcome \in Outcomes \ {"pending"}
    PROVE  /\ Settle(ledger, ids, outcome) \in [rows -> Occurrence]
           /\ \A i \in rows :
                Settle(ledger, ids, outcome)[i].outcome = "pending"
                  <=> ledger[i].outcome = "pending" /\ i \notin ids
  BY DEF Settle, Occurrence

\* Ending the generation of s, or re-arming a deadline, with its rows settled.
LEMMA GenerationOver ==
    ASSUME TypeOK, TypeOK', Tables, NEW s \in ScheduleIDs, NEW new \in Schedule,
           sched[s].status = "armed", new.fireAt = sched[s].fireAt,
           new.interval = sched[s].interval,
           \/ new.gen = sched[s].gen /\ new.status \notin {"armed", "absent"}
           \/ new.gen = sched[s].gen + 1 /\ new.status = "armed" /\ s \in Deadlines,
           sched' = [sched EXCEPT ![s] = new],
           timer' = [timer EXCEPT ![s] = NoTimer],
           DOMAIN occ' = DOMAIN occ,
           \A i \in DOMAIN occ : Pending(i)' <=> Pending(i) /\ i.s # s
    PROVE  Tables' /\ Forward
  <1>1. sched'[s] = new /\ timer'[s] = NoTimer
        /\ \A r \in ScheduleIDs : r # s => sched'[r] = sched[r] /\ timer'[r] = timer[r]
    BY DEF TypeOK
  <1>2. sched[s] \in Schedule /\ sched[s].gen > 0
    BY DEF TypeOK, Tables, ScheduleShape, Schedule
  <1>3. Forward
    BY <1>1 DEF Forward, Evolves
  <1>4. ScheduleShape'
    BY <1>1, <1>2 DEF Tables, ScheduleShape, Schedule
  <1>5. OccurrenceShape'
    <2> SUFFICES ASSUME NEW i \in DOMAIN occ
                 PROVE  /\ 0 < i.gen /\ i.gen <= sched'[i.s].gen
                        /\ i.s \in Deadlines => i.at = sched'[i.s].fireAt
      BY DEF OccurrenceShape
    <2>1. /\ 0 < i.gen /\ i.gen <= sched[i.s].gen
          /\ i.s \in Deadlines => i.at = sched[i.s].fireAt
      BY DEF Tables, OccurrenceShape
    <2>2. i.s \in ScheduleIDs /\ i.gen \in Nat
      BY DEF TypeOK, Identity
    <2> QED
      BY <1>1, <1>2, <2>1, <2>2 DEF Schedule
  <1>6. ClockFollowsSchedule'
    BY <1>1, Kinds DEF Tables, ClockFollowsSchedule
  <1>7. PendingIsCurrent'
    BY <1>1 DEF TypeOK, Tables, PendingIsCurrent, Pending, Identity
  <1> QED
    BY <1>3, <1>4, <1>5, <1>6, <1>7 DEF Tables

\* Settling every row of schedule s.
LEMMA SettledPending ==
    ASSUME TypeOK, NEW s, NEW outcome \in Outcomes \ {"pending"},
           occ' = SettlePending(occ, s, outcome)
    PROVE  /\ occ' \in [DOMAIN occ -> Occurrence] /\ DOMAIN occ' = DOMAIN occ
           /\ \A i \in DOMAIN occ : Pending(i)' <=> Pending(i) /\ i.s # s
  <1> DEFINE ids == {i \in DOMAIN occ : i.s = s}
  <1>1. occ' = Settle(occ, ids, outcome)
    BY DEF SettlePending
  <1>2. occ \in [DOMAIN occ -> Occurrence]
    BY DEF TypeOK
  <1> HIDE DEF ids
  <1>3. /\ occ' \in [DOMAIN occ -> Occurrence]
        /\ \A i \in DOMAIN occ :
             occ'[i].outcome = "pending" <=> occ[i].outcome = "pending" /\ i \notin ids
    BY <1>1, <1>2, SettledRows
  <1>4. DOMAIN occ' = DOMAIN occ
    BY <1>3
  <1> QED
    BY <1>3, <1>4 DEF ids, Pending

\* A fire whose schedule expired or lost its subject.
LEMMA ConcludeFireStep ==
    ASSUME IInv, NEW p \in Procs, Firing(p), NEW end \in {"resolved", "expired"},
           ConcludeFire(p, end), UNCHANGED <<now, subject, boot, hand, faults, sessions>>
    PROVE  IInv'
  <1> DEFINE s == cur[p].s
             new == Concluded(Snap(p), end)
  <1>1. /\ s \in Registered(p) /\ s \in ScheduleIDs /\ s \notin scan[p].due
        /\ Copy(Snap(p), sched[s], s) /\ Snap(p) \in Schedule /\ sched[s] \in Schedule
    <2>1. s \in Registered(p) /\ s \notin scan[p].due /\ Copy(Snap(p), sched[s], s)
      BY DEF IInv, FireShape
    <2>2. s \in ScheduleIDs
      BY <2>1, Kinds
    <2>3. Snap(p) \in Schedule /\ sched[s] \in Schedule
      BY <2>2, Facts DEF TypeOK, Scan, Snap
    <2> QED
      BY <2>1, <2>2, <2>3
  <1>2. CASE Superseded(s, Snap(p))
    <2>1. FireOver(p) /\ UNCHANGED <<store, scan, err>>
      BY <1>2 DEF ConcludeFire
    <2>2. TypeOK'
      BY <2>1, Facts DEF TypeOK, FireOver, GoTo, Labels, NoFire, NoGap, Gap, Fire, store
    <2>3. Tables' /\ Forward /\ DeadlinesRest
      BY <2>1, Facts, TablesUnchanged
    <2>4. ScansShrink /\ FiresGoOn /\ HandlersGoOn
      BY <2>1, Facts DEF TypeOK, FireOver, GoTo, ScansShrink, FiresGoOn, Firing, HandlersGoOn
    <2>5. BootShape' /\ NeverRejected'
      BY <2>1, Facts, Kinds DEF TypeOK, FireOver, GoTo, BootShape, NeverRejected
    <2> QED
      BY <2>2, <2>3, <2>4, <2>5, StepKeeps
  <1>3. CASE ~Superseded(s, Snap(p))
    <2>1. sched[s] = Snap(p) /\ sched[s].status = "armed"
      BY <1>1, <1>3 DEF Superseded, Copy
    <2>2. /\ new \in Schedule /\ new.status = end /\ new.gen = sched[s].gen
          /\ new.fireAt = sched[s].fireAt /\ new.interval = sched[s].interval
          /\ TransitionOk(sched[s], new)
      BY <1>1, <2>1, ConcludedRow
    <2>3. /\ sched' = [sched EXCEPT ![s] = new]
          /\ timer' = [timer EXCEPT ![s] = NoTimer]
          /\ occ' = SettlePending(occ, s, "condition_no_longer_applies")
          /\ FireOver(p)
          /\ UNCHANGED <<firstFire, scan, err>>
      BY <1>3, <2>2 DEF ConcludeFire
    <2> HIDE DEF new
    <2>4. /\ occ' \in [DOMAIN occ -> Occurrence] /\ DOMAIN occ' = DOMAIN occ
          /\ \A i \in DOMAIN occ : Pending(i)' <=> Pending(i) /\ i.s # s
      BY <2>3, Facts, SettledPending DEF Outcomes
    <2>5. TypeOK'
      <3>1. sched' \in [ScheduleIDs -> Schedule] /\ timer' \in [ScheduleIDs -> Timer]
        BY <2>2, <2>3, Facts DEF TypeOK, NoTimer, Timer
      <3>2. pc' \in [Procs -> Labels] /\ cur' \in [Procs -> Fire]
        BY <2>3, Facts DEF TypeOK, FireOver, GoTo, Labels, NoFire, NoGap, Gap, Fire
      <3> QED
        BY <2>3, <2>4, <3>1, <3>2, Facts DEF TypeOK
    <2>6. Tables' /\ Forward
      <3> HIDE DEF s
      <3> QED
        BY <1>1, <2>1, <2>2, <2>3, <2>4, <2>5, Facts, GenerationOver
    <2>7. ScansShrink /\ FiresGoOn /\ HandlersGoOn
      BY <2>3, Facts DEF TypeOK, FireOver, GoTo, ScansShrink, FiresGoOn, Firing, HandlersGoOn
    <2>8. BootShape' /\ NeverRejected'
      BY <2>3, Facts, Kinds DEF TypeOK, FireOver, GoTo, BootShape, NeverRejected
    <2>9. DeadlinesRest
      <3> SUFFICES ASSUME NEW d \in Deadlines,
                          d \in scan'[Daemon].due \/ (Firing(Daemon)' /\ cur'[Daemon].s = d),
                          PendingOf(d) = {}
                   PROVE  sched'[d] = sched[d] /\ PendingOf(d)' = {}
        BY DEF DeadlinesRest
      <3>1. d # s
        <4>1. CASE p = Daemon
          BY <1>1, <2>3, <4>1, Facts DEF FireOver, GoTo, TypeOK, Firing
        <4>2. CASE p # Daemon
          BY <1>1, <4>2, Kinds
        <4> QED
          BY <4>1, <4>2
      <3> QED
        BY <2>3, <2>4, <3>1, Facts, Kinds DEF TypeOK, PendingOf, Pending
    <2> QED
      BY <2>5, <2>6, <2>7, <2>8, <2>9, StepKeeps
  <1> QED
    BY <1>2, <1>3

LEMMA ExpiredOrDeadStep ==
    ASSUME IInv, NEW p \in Procs, FireExpired(p) \/ FireDead(p)
    PROVE  IInv'
  BY ConcludeFireStep DEF FireExpired, FireDead, Firing

-----------------------------------------------------------------------------
(* Fires that go on: the clock, the occurrence, the handler.               *)

\* latestNominal returns an instant and a gap.
LEMMA LatestIsTyped ==
    ASSUME NEW base \in Nat, NEW gap \in Gap, NEW interval \in Nat \ {0}, NEW t \in Nat
    PROVE  Latest(base, gap, interval, t).at \in Nat /\ Latest(base, gap, interval, t).gap \in Gap
  <1> DEFINE k == IF t - base >= interval THEN (t - base) \div interval ELSE 0
  <1>1. k \in Nat
    OBVIOUS
  <1>2. Latest(base, gap, interval, t) =
          [at  |-> base + k * interval,
           gap |-> IF k = 0 THEN gap
                   ELSE IF gap = NoGap THEN [missed |-> k, earliest |-> base]
                   ELSE [missed |-> k + gap.missed, earliest |-> gap.earliest]]
    BY DEF Latest
  <1> HIDE DEF k
  <1>3. k * interval \in Nat
    BY <1>1
  <1>4. base + k * interval \in Nat
    BY <1>3
  <1> DEFINE at == base + k * interval
             missed == k + gap.missed
  <1>5. at \in Nat /\ missed \in Nat /\ gap.earliest \in Nat
    BY <1>1, <1>4 DEF Gap
  <1> HIDE DEF at, missed
  <1>6. Latest(base, gap, interval, t) =
          [at  |-> at,
           gap |-> IF k = 0 THEN gap
                   ELSE IF gap = NoGap THEN [missed |-> k, earliest |-> base]
                   ELSE [missed |-> missed, earliest |-> gap.earliest]]
    BY <1>2 DEF at, missed
  <1> QED
    BY <1>1, <1>5, <1>6 DEF Gap

\* Dispatching occurrence id of the schedule a process p fires.
LEMMA DispatchShape ==
    ASSUME TypeOK, HandlerShape, Forward, sched' \in [ScheduleIDs -> Schedule],
           NEW p \in Procs, NEW id, id \in Identity, id \in DOMAIN occ', id.s \in Registered(p),
           Snap(p) \in Schedule, id.gen = Snap(p).gen, Copy(Snap(p), sched'[id.s], id.s),
           Dispatch(p, id)
    PROVE  /\ hand' \in [Procs -> [ScheduleIDs -> Handler]]
           /\ HandlerShape'
  <1> DEFINE new == [NoHandler EXCEPT !.stage = "handle", !.id = {id}, !.sc = Snap(p)]
  <1>1. /\ new.stage = "handle" /\ new.id = {id} /\ new.sc = Snap(p) /\ new.put = NoSchedule
        /\ new \in Handler
    <2>1. NoSchedule \in Schedule
      BY DEF NoSchedule, Schedule, Statuses
    <2> QED
      BY <2>1 DEF NoHandler, Handler, Stages, Outcomes
  <1>2. hand' = [hand EXCEPT ![p][id.s] = new]
    BY DEF Dispatch
  <1> HIDE DEF new
  <1>3. id.s \in ScheduleIDs
    BY DEF Identity
  <1>4. hand' \in [Procs -> [ScheduleIDs -> Handler]]
    BY <1>1, <1>2, <1>3 DEF TypeOK
  <1>5. HandlerShape'
    <2> SUFFICES ASSUME NEW q \in Procs, NEW s \in ScheduleIDs, hand'[q][s].stage # "idle"
                 PROVE /\ s \in Registered(q)
                       /\ Copy(hand'[q][s].sc, sched'[s], s)
                       /\ \E i \in DOMAIN occ' :
                            hand'[q][s].id = {i} /\ i.s = s /\ i.gen = hand'[q][s].sc.gen
                       /\ \/ hand'[q][s].put = NoSchedule
                          \/ \E end \in {"fired", "resolved"} :
                               hand'[q][s].put = Concluded(hand'[q][s].sc, end)
                          \/ s \in Deadlines
                             /\ hand'[q][s].put = ReArmed(hand'[q][s].sc, hand'[q][s].put.ver)
      BY DEF HandlerShape, Concluded, ReArmed
    <2>1. CASE q = p /\ s = id.s
      <3>1. hand'[q][s] = new
        BY <1>2, <1>3, <2>1 DEF TypeOK
      <3> QED
        BY <1>1, <2>1, <3>1
    <2>2. CASE ~(q = p /\ s = id.s)
      <3>1. hand'[q][s] = hand[q][s]
        BY <1>2, <1>3, <2>2 DEF TypeOK
      <3>2. /\ s \in Registered(q)
            /\ Copy(hand[q][s].sc, sched[s], s)
            /\ \E i \in DOMAIN occ : hand[q][s].id = {i} /\ i.s = s /\ i.gen = hand[q][s].sc.gen
            /\ \/ hand[q][s].put = NoSchedule
               \/ \E end \in {"fired", "resolved"} : hand[q][s].put = Concluded(hand[q][s].sc, end)
               \/ s \in Deadlines /\ hand[q][s].put = ReArmed(hand[q][s].sc, hand[q][s].put.ver)
        BY <3>1 DEF HandlerShape
      <3>3. hand[q][s].sc \in Schedule /\ sched[s] \in Schedule /\ sched'[s] \in Schedule
        BY DEF TypeOK, Handler
      <3>4. Copy(hand[q][s].sc, sched'[s], s)
        BY <3>2, <3>3, CopySurvives DEF Forward
      <3> QED
        BY <3>1, <3>2, <3>4 DEF Forward
    <2> QED
      BY <2>1, <2>2
  <1> QED
    BY <1>4, <1>5

\* What the fire of process p works on.
LEMMA FiringFacts ==
    ASSUME IInv, NEW p \in Procs, Firing(p)
    PROVE  /\ cur[p].s \in Registered(p) /\ cur[p].s \in ScheduleIDs /\ cur[p].s \notin scan[p].due
           /\ Copy(Snap(p), sched[cur[p].s], cur[p].s)
           /\ Snap(p) \in Schedule /\ sched[cur[p].s] \in Schedule
           /\ cur[p].redel \subseteq Identity /\ cur[p].redel \subseteq DOMAIN occ
           /\ \A i \in cur[p].redel : i.s = cur[p].s /\ i.gen = Snap(p).gen
  BY SMTT(30), Facts, Kinds DEF IInv, FireShape, TypeOK, Scan, Fire, Snap

\* The end of a fire with the tables and the handlers alone.
LEMMA FireOverStep ==
    ASSUME IInv, NEW p \in Procs, Firing(p), FireOver(p) \/ PassFails(p, "no_timer"),
           FireOver(p) => UNCHANGED <<scan, err>>,
           UNCHANGED <<now, subject, store, boot, hand, faults, sessions>>
    PROVE  IInv'
  <1>1. /\ \E label \in {"pass", "stopping"} : pc' = [pc EXCEPT ![p] = label]
        /\ cur' = [cur EXCEPT ![p] = NoFire]
        /\ scan' = scan \/ scan' = [scan EXCEPT ![p] = NoScan]
        /\ err' = err \/ err' = [err EXCEPT ![p] = "no_timer"]
    BY DEF FireOver, PassFails, GoTo
  <1>2. TypeOK'
    <2>1. NoScan \in Scan /\ NoFire \in Fire
      BY DEF NoScan, Scan, NoSchedule, Schedule, Statuses, NoFire, Fire, NoGap, Gap
    <2>2. pc' \in [Procs -> Labels] /\ cur' \in [Procs -> Fire]
      BY <1>1, <2>1, Facts DEF TypeOK, Labels
    <2>3. scan' \in [Procs -> Scan]
      BY <1>1, <2>1, Facts DEF TypeOK
    <2>4. err' \in [Procs -> Errors]
      BY <1>1, Facts DEF TypeOK, Errors
    <2> QED
      BY <2>2, <2>3, <2>4, Facts DEF TypeOK, store
  <1>3. Tables' /\ Forward /\ DeadlinesRest
    BY Facts, TablesUnchanged
  <1>4. ScansShrink /\ FiresGoOn /\ HandlersGoOn
    BY SMTT(30), <1>1, Facts DEF TypeOK, NoScan, ScansShrink, FiresGoOn, Firing, HandlersGoOn
  <1>5. BootShape' /\ NeverRejected'
    BY <1>1, Facts, Kinds DEF TypeOK, BootShape, NeverRejected
  <1> QED
    BY <1>2, <1>3, <1>4, <1>5, StepKeeps

\* A fire that hands an occurrence to its handler, or settles that it cannot.
LEMMA FireDoneShape ==
    ASSUME IInv, NEW p \in Procs, Firing(p), FireOver(p), TypeOK', Tables', Forward,
           HandlerShape', UNCHANGED <<scan, boot, err>>,
           \A d \in Deadlines : d # cur[p].s => sched'[d] = sched[d] /\ PendingOf(d)' = PendingOf(d)
    PROVE  IInv'
  <1>1. /\ \A q \in Procs : q # p => pc'[q] = pc[q] /\ cur'[q] = cur[q]
        /\ pc'[p] = "pass" /\ ~Firing(p)'
    BY Facts DEF TypeOK, FireOver, GoTo, Firing
  <1>2. ScansShrink
    BY DEF ScansShrink
  <1>3. FiresGoOn
    BY <1>1 DEF FiresGoOn, Firing
  <1>4. BootShape' /\ NeverRejected'
    BY <1>1, Facts, Kinds DEF BootShape, NeverRejected
  <1>5. DeadlinesRest
    <2> SUFFICES ASSUME NEW d \in Deadlines,
                        d \in scan'[Daemon].due \/ (Firing(Daemon)' /\ cur'[Daemon].s = d),
                        PendingOf(d) = {}
                 PROVE  sched'[d] = sched[d] /\ PendingOf(d)' = {}
      BY DEF DeadlinesRest
    <2>1. d # cur[p].s
      <3>1. CASE p = Daemon
        BY <1>1, <3>1, FiringFacts
      <3>2. CASE p # Daemon
        BY <3>2, FiringFacts, Kinds
      <3> QED
        BY <3>1, <3>2
    <2> QED
      BY <2>1
  <1> QED
    BY <1>2, <1>3, <1>4, <1>5, ScanKept, FireKept, FreshKept DEF IInv, Tables

LEMMA ReadClockStep ==
    ASSUME IInv, NEW p \in Procs, ReadClock(p)
    PROVE  IInv'
  <1> DEFINE s == cur[p].s
             sc == Snap(p)
             redel == cur[p].redel
             fired == IF s \in Deadlines
                      THEN [at |-> sc.fireAt, gap |-> NoGap]
                      ELSE IF redel # {}
                      THEN LET i == CHOOSE i \in redel : TRUE
                           IN  Latest(i.at, occ[i].gap, sc.interval, scan[p].now)
                      ELSE Latest(timer[s].next, NoGap, sc.interval, scan[p].now)
             id == [s |-> s, gen |-> sc.gen, at |-> fired.at]
  <1>0. pc[p] = "clock" /\ Firing(p)
    BY DEF ReadClock, Firing
  <1>1. /\ s \in Registered(p) /\ s \in ScheduleIDs /\ s \notin scan[p].due
        /\ Copy(sc, sched[s], s)
        /\ sc \in Schedule /\ sched[s] \in Schedule
        /\ redel \subseteq Identity /\ redel \subseteq DOMAIN occ
        /\ \A i \in redel : i.s = s /\ i.gen = sc.gen
    BY <1>0, FiringFacts
  <1>2. UNCHANGED <<now, subject, store, boot, faults, sessions>>
    BY DEF ReadClock
  <1>3. fired.at \in Nat /\ fired.gap \in Gap
    <2>1. CASE s \in Deadlines
      BY <1>1, <2>1 DEF Schedule, NoGap, Gap
    <2>2. CASE s \notin Deadlines
      <3>1. sc.interval \in Nat \ {0} /\ scan[p].now \in Nat /\ NoGap \in Gap
        BY <1>1, <2>2, Facts, Kinds DEF Copy, Schedule, TypeOK, Scan, NoGap, Gap
      <3>2. CASE redel # {}
        <4> DEFINE i == CHOOSE i \in redel : TRUE
        <4>1. i \in redel
          BY <3>2
        <4>2. i.at \in Nat /\ occ[i].gap \in Gap
          BY <1>1, <4>1, Facts DEF TypeOK, Identity, Occurrence
        <4>3. fired = Latest(i.at, occ[i].gap, sc.interval, scan[p].now)
          BY <2>2, <3>2
        <4> HIDE DEF i, sc, redel, s, fired
        <4> QED
          BY <3>1, <4>2, <4>3, LatestIsTyped
      <3>3. CASE redel = {}
        <4>1. timer[s].next \in Nat
          BY <1>1, Facts DEF TypeOK, Timer
        <4>2. fired = Latest(timer[s].next, NoGap, sc.interval, scan[p].now)
          BY <2>2, <3>3
        <4> HIDE DEF sc, redel, s, fired
        <4> QED
          BY <3>1, <4>1, <4>2, LatestIsTyped
      <3> QED
        BY <3>2, <3>3
    <2> QED
      BY <2>1, <2>2
  <1>4. \/ /\ FireOver(p) \/ PassFails(p, "no_timer")
           /\ FireOver(p) => UNCHANGED <<scan, err>>
           /\ UNCHANGED hand
        \/ /\ id \in redel /\ Dispatch(p, id) /\ UNCHANGED <<scan, err>>
        \/ /\ id \notin redel
           /\ pc' = [pc EXCEPT ![p] = "converge"]
           /\ cur' = [cur EXCEPT ![p].at = fired.at, ![p].gap = fired.gap]
           /\ UNCHANGED <<hand, scan, err>>
    <2>1. CASE redel = {} /\ s \in Recurring /\ timer[s] = NoTimer
      <3>1. PassFails(p, "no_timer") /\ UNCHANGED hand
        BY <2>1 DEF ReadClock
      <3>2. ~FireOver(p)
        BY <3>1, Facts DEF PassFails, FireOver, GoTo, TypeOK
      <3> QED
        BY <3>1, <3>2
    <2>2. CASE ~(redel = {} /\ s \in Recurring /\ timer[s] = NoTimer)
      BY <2>2 DEF ReadClock, GoTo
    <2> QED
      BY <2>1, <2>2
  <1> HIDE DEF fired
  <1>5. CASE /\ FireOver(p) \/ PassFails(p, "no_timer")
             /\ FireOver(p) => UNCHANGED <<scan, err>>
             /\ UNCHANGED hand
    BY <1>0, <1>2, <1>5, FireOverStep
  <1>6. CASE id \in redel /\ Dispatch(p, id) /\ UNCHANGED <<scan, err>>
    <2>1. UNCHANGED <<sched, timer, occ, firstFire>> /\ FireOver(p)
      BY <1>2, <1>6 DEF store, Dispatch
    <2>2. Tables' /\ Forward /\ \A d \in Deadlines : PendingOf(d)' = PendingOf(d)
      BY <1>2, <2>1, Facts, TablesUnchanged DEF PendingOf
    <2>3. id \in Identity /\ id \in DOMAIN occ' /\ id.s = s /\ id.gen = sc.gen
      BY <1>1, <1>6, <2>1
    <2>4. hand' \in [Procs -> [ScheduleIDs -> Handler]] /\ HandlerShape'
      <3>1. Copy(Snap(p), sched'[id.s], id.s) /\ sched' \in [ScheduleIDs -> Schedule]
        BY <1>1, <2>1, <2>3, Facts DEF TypeOK
      <3>2. Snap(p) \in Schedule /\ id.s \in Registered(p) /\ id.gen = Snap(p).gen
            /\ Dispatch(p, id) /\ TypeOK /\ HandlerShape
        BY <1>1, <1>6, <2>3 DEF IInv
      <3> HIDE DEF id
      <3> QED
        BY <2>2, <2>3, <3>1, <3>2, DispatchShape
    <2>5. TypeOK'
      <3>1. pc' \in [Procs -> Labels] /\ cur' \in [Procs -> Fire]
        BY <2>1, Facts DEF TypeOK, FireOver, GoTo, Labels, NoFire, NoGap, Gap, Fire
      <3> QED
        BY <1>2, <1>6, <2>1, <2>4, <3>1, Facts DEF TypeOK
    <2> QED
      BY <1>0, <1>2, <1>6, <2>1, <2>2, <2>4, <2>5, FireDoneShape
  <1>7. CASE /\ id \notin redel
             /\ pc' = [pc EXCEPT ![p] = "converge"]
             /\ cur' = [cur EXCEPT ![p].at = fired.at, ![p].gap = fired.gap]
             /\ UNCHANGED <<hand, scan, err>>
    <2>1. UNCHANGED <<sched, timer, occ, firstFire>>
      BY <1>2 DEF store
    <2>2. /\ \A q \in Procs : q # p => pc'[q] = pc[q] /\ cur'[q] = cur[q]
          /\ pc'[p] = "converge"
          /\ cur'[p].s = s /\ cur'[p].redel = redel /\ cur'[p].at = fired.at
          /\ cur' \in [Procs -> Fire]
      BY ZenonT(60), <1>3, <1>7, Facts DEF TypeOK, Fire
    <2>3. TypeOK'
      BY <1>2, <1>7, <2>1, <2>2, Facts DEF TypeOK, Labels
    <2>4. Tables' /\ Forward
      BY <1>2, Facts, TablesUnchanged
    <2>5. ScanShape' /\ HandlerShape'
      <3>1. ScansShrink /\ HandlersGoOn
        BY <1>7 DEF ScansShrink, HandlersGoOn
      <3> QED
        BY <2>3, <2>4, <3>1, ScanKept, HandlerKept DEF IInv
    <2>6. s \in Deadlines => redel = {} /\ fired.at = sc.fireAt
      <3> SUFFICES ASSUME s \in Deadlines
                   PROVE  redel = {} /\ fired.at = sc.fireAt
        OBVIOUS
      <3>1. fired.at = sc.fireAt
        BY DEF fired
      <3>2. \A i \in redel : i = id
        <4> SUFFICES ASSUME NEW i \in redel PROVE i = id
          OBVIOUS
        <4>1. i.at = sched[s].fireAt
          BY <1>1, Facts DEF Tables, OccurrenceShape
        <4>2. i.at = sc.fireAt /\ i \in Identity /\ i.s = s /\ i.gen = sc.gen
          BY <1>1, <4>1 DEF Copy
        <4> QED
          BY <3>1, <4>2 DEF Identity
      <3> QED
        BY <1>7, <3>1, <3>2
    <2>7. FireShape'
      <3> SUFFICES ASSUME NEW q \in Procs, Firing(q)'
                   PROVE /\ cur'[q].s \in Registered(q) /\ cur'[q].s \notin scan'[q].due
                         /\ Copy(scan'[q].snap[cur'[q].s], sched'[cur'[q].s], cur'[q].s)
                         /\ \A i \in cur'[q].redel :
                              i \in DOMAIN occ' /\ i.s = cur'[q].s
                              /\ i.gen = scan'[q].snap[cur'[q].s].gen
                         /\ (pc'[q] = "converge" /\ cur'[q].s \in Deadlines) =>
                              cur'[q].redel = {} /\ cur'[q].at = scan'[q].snap[cur'[q].s].fireAt
        BY DEF FireShape, Snap
      <3> SUFFICES /\ cur'[q].s \in Registered(q) /\ cur'[q].s \notin scan[q].due
                   /\ Copy(scan[q].snap[cur'[q].s], sched[cur'[q].s], cur'[q].s)
                   /\ \A i \in cur'[q].redel :
                        i \in DOMAIN occ /\ i.s = cur'[q].s
                        /\ i.gen = scan[q].snap[cur'[q].s].gen
                   /\ (pc'[q] = "converge" /\ cur'[q].s \in Deadlines) =>
                        cur'[q].redel = {} /\ cur'[q].at = scan[q].snap[cur'[q].s].fireAt
        BY <1>7, <2>1
      <3>1. CASE q = p
        BY <1>1, <2>2, <2>6, <3>1 DEF Snap
      <3>2. CASE q # p
        BY SMTT(30), <2>2, <3>2 DEF IInv, FireShape, Snap, Firing
      <3> QED
        BY <3>1, <3>2
    <2>8. DueDeadlineIsFresh'
      <3>1. \A d \in Deadlines : PendingOf(d)' = PendingOf(d)
        BY <2>1 DEF PendingOf
      <3>2. /\ cur'[Daemon].s = cur[Daemon].s /\ cur'[Daemon].redel = cur[Daemon].redel
            /\ Firing(Daemon)' => Firing(Daemon)
        <4>1. CASE p = Daemon
          BY <1>0, <2>2, <4>1
        <4>2. CASE p # Daemon
          BY <2>2, <4>2, Kinds DEF Firing
        <4> QED
          BY <4>1, <4>2
      <3> QED
        BY <1>7, <2>1, <3>1, <3>2 DEF IInv, DueDeadlineIsFresh
    <2>9. BootShape' /\ NeverRejected'
      BY <1>2, <1>7, <2>2, Facts, Kinds DEF BootShape, NeverRejected
    <2> QED
      BY <2>3, <2>4, <2>5, <2>7, <2>8, <2>9 DEF IInv, Tables
  <1> QED
    BY <1>4, <1>5, <1>6, <1>7

\* Superseding rows and inserting a pending one.
LEMMA SupersededRows ==
    ASSUME TypeOK, NEW redel \in SUBSET Identity, NEW id \in Identity, NEW gap \in Gap
    PROVE  LET ledger == Supersede(redel, id, gap)
               rows == DOMAIN occ \cup {id}
           IN  /\ ledger \in [rows -> Occurrence]
               /\ \A i \in rows : ledger[i].outcome = "pending" => Pending(i) \/ i = id
  <1> DEFINE before == Settle(occ, redel, "coalesced")
             rows == DOMAIN occ \cup {id}
             ledger == Supersede(redel, id, gap)
  <1>1. /\ before \in [DOMAIN occ -> Occurrence]
        /\ \A i \in DOMAIN occ : before[i].outcome = "pending" => occ[i].outcome = "pending"
    BY SettledRows DEF TypeOK, Outcomes
  <1>2. ledger = [i \in rows |-> IF i \in DOMAIN before THEN before[i]
                                 ELSE [outcome |-> "pending", gap |-> gap]]
    <2>1. DOMAIN before = DOMAIN occ
      BY <1>1
    <2> QED
      BY <2>1 DEF Supersede, CreatePending
  <1> HIDE DEF before, ledger
  <1>3. ledger \in [rows -> Occurrence]
    BY <1>1, <1>2 DEF Occurrence, Outcomes
  <1>4. \A i \in rows : ledger[i].outcome = "pending" => Pending(i) \/ i = id
    BY <1>1, <1>2 DEF Pending
  <1> QED
    BY <1>3, <1>4 DEF ledger

LEMMA ConvergeOccurrenceStep ==
    ASSUME IInv, NEW p \in Procs, ConvergeOccurrence(p)
    PROVE  IInv'
  <1> DEFINE s == cur[p].s
             sc == Snap(p)
             id == [s |-> s, gen |-> sc.gen, at |-> cur[p].at]
             ledger == Supersede(cur[p].redel, id, cur[p].gap)
             clock == [gen |-> sc.gen, next |-> id.at + sc.interval]
  <1>0. pc[p] = "converge" /\ Firing(p)
    BY DEF ConvergeOccurrence, Firing
  <1>1. /\ s \in Registered(p) /\ s \in ScheduleIDs /\ s \notin scan[p].due
        /\ Copy(sc, sched[s], s)
        /\ sc \in Schedule /\ sched[s] \in Schedule
        /\ cur[p].redel \in SUBSET Identity /\ cur[p].redel \subseteq DOMAIN occ
    BY <1>0, FiringFacts
  <1>2. UNCHANGED <<now, subject, sched, firstFire, boot, scan, err, faults, sessions>>
    BY DEF ConvergeOccurrence
  <1>3. id \in Identity /\ cur[p].gap \in Gap
    BY <1>1, Facts DEF TypeOK, Fire, Identity, Schedule
  <1>4. CASE s \in Recurring /\ ClockStale(s, sc, scan[p].now)
    <2>1. FireOver(p) /\ UNCHANGED <<store, hand>>
      BY <1>2, <1>4 DEF ConvergeOccurrence, store
    <2> QED
      BY <1>0, <1>2, <2>1, FireOverStep
  <1>5. CASE ~(s \in Recurring /\ ClockStale(s, sc, scan[p].now))
    \* The generation the fire validated is still the live, armed one.
    <2>1. sched[s].status = "armed" /\ sched[s].gen = sc.gen
      <3>1. CASE s \in Recurring
        <4>1. timer[s].gen = sc.gen
          BY <1>5, <3>1 DEF ClockStale
        <4>2. timer[s] # NoTimer
          BY <1>1, <4>1 DEF Copy, NoTimer, Schedule
        <4> QED
          BY <1>1, <3>1, <4>1, <4>2, Facts DEF Tables, ClockFollowsSchedule
      <3>2. CASE s \in Deadlines
        <4>1. p = Daemon
          BY <1>1, <3>2, Kinds
        <4>2. cur[p].redel = {}
          BY <1>0, <3>2 DEF IInv, FireShape
        <4> QED
          BY <1>0, <1>1, <3>2, <4>1, <4>2 DEF IInv, DueDeadlineIsFresh, Copy, Snap
      <3> QED
        BY <1>1, <3>1, <3>2, Kinds
    <2>2. /\ occ' = ledger
          /\ \/ FireOver(p) /\ UNCHANGED <<timer, hand>>
             \/ /\ timer' = IF s \in Deadlines THEN timer ELSE [timer EXCEPT ![s] = clock]
                /\ Dispatch(p, id)
      BY <1>5 DEF ConvergeOccurrence
    <2> DEFINE rows == DOMAIN occ \cup {id}
    <2>3. /\ occ' \in [rows -> Occurrence] /\ DOMAIN occ' = rows
          /\ \A i \in rows : occ'[i].outcome = "pending" => Pending(i) \/ i = id
      <3>1. /\ ledger \in [rows -> Occurrence]
            /\ \A i \in rows : ledger[i].outcome = "pending" => Pending(i) \/ i = id
        <4> HIDE DEF id
        <4> QED
          BY <1>1, <1>3, Facts, SupersededRows
      <3> HIDE DEF ledger
      <3> QED
        BY <2>2, <3>1
    <2>4. clock \in Timer /\ timer' \in [ScheduleIDs -> Timer]
      <3>1. clock.next \in Nat /\ clock \in Timer
        BY <1>1, <1>3 DEF Schedule, Identity, Timer
      <3> HIDE DEF clock
      <3> QED
        BY <1>1, <2>2, <3>1, Facts DEF TypeOK
    <2>5. FireOver(p)
      BY <2>2 DEF Dispatch
    <2>6. Forward
      BY <1>2, <2>3 DEF Forward, Evolves
    <2>7. Tables'
      <3>1. ScheduleShape'
        BY <1>2, Facts DEF Tables, ScheduleShape
      <3>2. OccurrenceShape'
        <4>1. /\ 0 < id.gen /\ id.gen <= sched[id.s].gen
              /\ id.s \in Deadlines => id.at = sched[id.s].fireAt
          BY <1>0, <1>1, Facts DEF Copy, IInv, FireShape, Schedule
        <4> HIDE DEF id
        <4> QED
          BY <1>2, <2>3, <4>1, Facts DEF Tables, OccurrenceShape
      <3>3. ClockFollowsSchedule'
        <4>1. clock.gen = sc.gen
          OBVIOUS
        <4> HIDE DEF clock
        <4> QED
          BY <1>1, <1>2, <2>1, <2>2, <4>1, Facts, Kinds DEF Tables, ClockFollowsSchedule, TypeOK
      <3>4. PendingIsCurrent'
        <4>1. id.s = s /\ id.gen = sc.gen
          OBVIOUS
        <4> HIDE DEF id
        <4> QED
          BY <1>2, <2>1, <2>3, <4>1, Facts DEF Tables, PendingIsCurrent, Pending
      <3> QED
        BY <3>1, <3>2, <3>3, <3>4 DEF Tables
    <2>8. hand' \in [Procs -> [ScheduleIDs -> Handler]] /\ (HandlersGoOn \/ HandlerShape')
      <3>1. CASE UNCHANGED hand
        BY <3>1, Facts DEF TypeOK, HandlersGoOn
      <3>2. CASE Dispatch(p, id)
        <4>1. Copy(Snap(p), sched'[id.s], id.s) /\ sched' \in [ScheduleIDs -> Schedule]
          BY <1>1, <1>2, Facts DEF TypeOK
        <4>2. /\ id \in DOMAIN occ' /\ id.s \in Registered(p) /\ id.gen = Snap(p).gen
              /\ Snap(p) \in Schedule /\ TypeOK /\ HandlerShape
          BY <1>1, <2>3 DEF IInv
        <4> HIDE DEF id
        <4> QED
          BY <1>3, <2>6, <3>2, <4>1, <4>2, DispatchShape
      <3> QED
        BY <2>2, <3>1, <3>2
    <2>9. TypeOK'
      <3>1. pc' \in [Procs -> Labels] /\ cur' \in [Procs -> Fire]
        BY <2>5, Facts DEF TypeOK, FireOver, GoTo, Labels, NoFire, NoGap, Gap, Fire
      <3>2. DOMAIN occ' \subseteq Identity /\ occ' \in [DOMAIN occ' -> Occurrence]
        BY <1>3, <2>3, Facts DEF TypeOK
      <3> QED
        BY <1>2, <2>4, <2>8, <3>1, <3>2, Facts DEF TypeOK
    <2>10. HandlerShape'
      BY <2>6, <2>8, <2>9, Facts, HandlerKept DEF IInv
    <2>11. \A d \in Deadlines : d # s => sched'[d] = sched[d] /\ PendingOf(d)' = PendingOf(d)
      <3>1. \A i \in DOMAIN occ : i.s \in Deadlines /\ i.s # s => (Pending(i)' <=> Pending(i))
        <4> SUFFICES ASSUME NEW i \in DOMAIN occ, i.s \in Deadlines, i.s # s
                     PROVE  occ'[i].outcome = "pending" <=> occ[i].outcome = "pending"
          BY <2>3 DEF Pending
        <4>1. i \notin cur[p].redel /\ i # id
          BY <1>0, FiringFacts
        <4> QED
          BY <2>2, <4>1 DEF Supersede, CreatePending, Settle
      <3>2. id.s = s
        OBVIOUS
      <3> HIDE DEF id
      <3> QED
        BY <1>2, <2>3, <3>1, <3>2 DEF PendingOf, Pending
    <2> QED
      BY <1>0, <1>2, <2>5, <2>6, <2>7, <2>9, <2>10, <2>11, FireDoneShape
  <1> QED
    BY <1>4, <1>5

-----------------------------------------------------------------------------
(* Handlers.                                                               *)

\* A step of handlers alone keeps everything if it keeps their shape.
LEMMA HandlersOnly ==
    ASSUME IInv, hand' \in [Procs -> [ScheduleIDs -> Handler]], HandlerShape',
           err' \in [Procs -> Errors], \A p \in Procs : err'[p] = "rejected" => err[p] = "rejected",
           faults' \in Nat,
           UNCHANGED <<now, subject, store, pc, boot, scan, cur, sessions>>
    PROVE  IInv'
  <1>1. TypeOK'
    BY Facts DEF TypeOK, store
  <1>2. Tables' /\ Forward /\ DeadlinesRest
    BY Facts, TablesUnchanged
  <1>3. ScansShrink /\ FiresGoOn
    BY DEF ScansShrink, FiresGoOn, Firing
  <1>4. BootShape' /\ NeverRejected'
    BY Facts DEF BootShape, NeverRejected
  <1> QED
    BY <1>1, <1>2, <1>3, <1>4, ScanKept, FireKept, FreshKept DEF IInv, Tables

\* Whatever a handler decides, it decides of the snapshot it was given.
LEMMA DecideStep ==
    ASSUME IInv, NEW p \in Procs, NEW s \in ScheduleIDs, hand[p][s].stage = "handle",
           NEW outcome \in Outcomes, NEW put \in Schedule, NEW recheck \in BOOLEAN,
           \/ put = NoSchedule
           \/ \E end \in {"fired", "resolved"} : put = Concluded(hand[p][s].sc, end)
           \/ s \in Deadlines /\ put = ReArmed(hand[p][s].sc, put.ver),
           Decide(p, s, outcome, put, recheck),
           UNCHANGED <<now, subject, store, pc, boot, scan, cur, err, faults, sessions>>
    PROVE  IInv'
  <1> DEFINE new == [hand[p][s] EXCEPT !.stage = "consume", !.outcome = outcome,
                                       !.put = put, !.recheck = recheck]
  <1>0. /\ new \in Handler /\ new.id = hand[p][s].id /\ new.sc = hand[p][s].sc /\ new.put = put
        /\ hand' = [hand EXCEPT ![p][s] = new]
    <2>1. hand[p][s] \in Handler
      BY Facts DEF TypeOK
    <2>2. new \in Handler
      BY <2>1 DEF Handler, Stages
    <2>3. new.id = hand[p][s].id /\ new.sc = hand[p][s].sc /\ new.put = put
      BY <2>1 DEF Handler
    <2>4. hand' = [hand EXCEPT ![p][s] = new]
      BY DEF Decide
    <2> QED
      BY <2>2, <2>3, <2>4
  <1> HIDE DEF new
  <1>1. hand' \in [Procs -> [ScheduleIDs -> Handler]]
    BY <1>0, Facts DEF TypeOK
  <1>2. /\ hand'[p][s].id = hand[p][s].id /\ hand'[p][s].sc = hand[p][s].sc
        /\ hand'[p][s].put = put
        /\ \A q \in Procs, r \in ScheduleIDs : ~(q = p /\ r = s) => hand'[q][r] = hand[q][r]
    BY <1>0, Facts DEF TypeOK
  <1>3. UNCHANGED <<sched, occ>>
    BY DEF store
  <1>4. HandlerShape'
    <2> SUFFICES ASSUME NEW q \in Procs, NEW r \in ScheduleIDs, hand'[q][r].stage # "idle"
                 PROVE /\ r \in Registered(q)
                       /\ Copy(hand'[q][r].sc, sched'[r], r)
                       /\ \E i \in DOMAIN occ' :
                            hand'[q][r].id = {i} /\ i.s = r /\ i.gen = hand'[q][r].sc.gen
                       /\ \/ hand'[q][r].put = NoSchedule
                          \/ \E end \in {"fired", "resolved"} :
                               hand'[q][r].put = Concluded(hand'[q][r].sc, end)
                          \/ r \in Deadlines
                             /\ hand'[q][r].put = ReArmed(hand'[q][r].sc, hand'[q][r].put.ver)
      BY ZenonT(60) DEF HandlerShape, Concluded, ReArmed
    <2>1. hand[q][r].stage # "idle"
      BY <1>2
    <2>2. /\ r \in Registered(q)
          /\ Copy(hand[q][r].sc, sched[r], r)
          /\ \E i \in DOMAIN occ : hand[q][r].id = {i} /\ i.s = r /\ i.gen = hand[q][r].sc.gen
          /\ \/ hand[q][r].put = NoSchedule
             \/ \E end \in {"fired", "resolved"} : hand[q][r].put = Concluded(hand[q][r].sc, end)
             \/ r \in Deadlines /\ hand[q][r].put = ReArmed(hand[q][r].sc, hand[q][r].put.ver)
      BY <2>1 DEF IInv, HandlerShape
    <2>3. CASE q = p /\ r = s
      BY <1>2, <1>3, <2>2, <2>3
    <2>4. CASE ~(q = p /\ r = s)
      BY <1>2, <1>3, <2>2, <2>4
    <2> QED
      BY <2>3, <2>4
  <1>5. err' \in [Procs -> Errors] /\ faults' \in Nat
    BY Facts DEF TypeOK
  <1> QED
    BY <1>1, <1>4, <1>5, HandlersOnly

LEMMA HandleStep ==
    ASSUME IInv, NEW p \in Procs, NEW s \in ScheduleIDs,
           HandleDeadline(p, s) \/ HandleJob(p, s) \/ HandlePoll(p, s)
    PROVE  IInv'
  <1> DEFINE sc == hand[p][s].sc
  <1>1. /\ hand[p][s].stage = "handle" /\ sc \in Schedule /\ NoSchedule \in Schedule
        /\ UNCHANGED <<now, subject, store, pc, boot, scan, cur, err, faults, sessions>>
    <2>1. sc \in Schedule /\ NoSchedule \in Schedule
      BY Facts DEF TypeOK, Handler, NoSchedule, Schedule, Statuses
    <2> QED
      BY <2>1 DEF HandleDeadline, HandleJob, HandlePoll, Decide
  <1>2. sc.status = "armed"
    BY <1>1 DEF IInv, HandlerShape, Copy
  <1>3. \A end \in {"fired", "resolved"} : Concluded(sc, end) \in Schedule
    BY <1>1, <1>2, ConcludedRow
  <1>4. CASE HandleDeadline(p, s)
    <2> DEFINE ver == subject[s].ver
    <2>1. ver \in Nat /\ ReArmed(sc, ver) \in Schedule
      BY <1>1, Facts, ReArmedRow DEF TypeOK, Subject
    <2>2. ReArmed(sc, ReArmed(sc, ver).ver) = ReArmed(sc, ver)
      BY <1>1, <2>1 DEF ReArmed, Schedule
    <2>3. /\ s \in Deadlines
          /\ \/ Decide(p, s, "re_armed", ReArmed(sc, ver), FALSE)
             \/ Decide(p, s, "condition_no_longer_applies", Concluded(sc, "resolved"), FALSE)
             \/ Decide(p, s, "handled", Concluded(sc, "fired"), TRUE)
      BY <1>4 DEF HandleDeadline
    <2> HIDE DEF ver
    <2>4. CASE Decide(p, s, "re_armed", ReArmed(sc, ver), FALSE)
      BY <1>1, <2>1, <2>2, <2>3, <2>4, DecideStep DEF Outcomes
    <2>5. CASE Decide(p, s, "condition_no_longer_applies", Concluded(sc, "resolved"), FALSE)
      BY <1>1, <1>3, <2>5, DecideStep DEF Outcomes
    <2>6. CASE Decide(p, s, "handled", Concluded(sc, "fired"), TRUE)
      BY <1>1, <1>3, <2>6, DecideStep DEF Outcomes
    <2> QED
      BY <2>3, <2>4, <2>5, <2>6
  <1>5. CASE HandleJob(p, s)
    <2>1. PICK outcome \in {"handled", "observe_failed"} : Decide(p, s, outcome, NoSchedule, FALSE)
      BY <1>5 DEF HandleJob
    <2> QED
      BY <1>1, <2>1, DecideStep DEF Outcomes
  <1>6. CASE HandlePoll(p, s)
    <2>1. \/ Decide(p, s, "condition_no_longer_applies", Concluded(sc, "resolved"), FALSE)
          \/ \E put \in {Concluded(sc, "resolved"), NoSchedule} : Decide(p, s, "handled", put, FALSE)
      BY <1>6 DEF HandlePoll
    <2>2. CASE Decide(p, s, "condition_no_longer_applies", Concluded(sc, "resolved"), FALSE)
      BY <1>1, <1>3, <2>2, DecideStep DEF Outcomes
    <2>3. ASSUME NEW put \in {Concluded(sc, "resolved"), NoSchedule},
                 Decide(p, s, "handled", put, FALSE)
          PROVE  IInv'
      BY <1>1, <1>3, <2>3, DecideStep DEF Outcomes
    <2> QED
      BY <2>1, <2>2, <2>3
  <1> QED
    BY <1>4, <1>5, <1>6

\* One handler replaced by another.
LEMMA HandlerReplaced ==
    ASSUME hand \in [Procs -> [ScheduleIDs -> Handler]],
           NEW p \in Procs, NEW s \in ScheduleIDs, NEW new \in Handler,
           hand' = [hand EXCEPT ![p][s] = new]
    PROVE  /\ hand' \in [Procs -> [ScheduleIDs -> Handler]]
           /\ hand'[p][s] = new
           /\ \A q \in Procs, r \in ScheduleIDs : ~(q = p /\ r = s) => hand'[q][r] = hand[q][r]
  OBVIOUS

\* A handler that has finished.
LEMMA DoneHandler ==
    ASSUME TypeOK, NEW p \in Procs, NEW s \in ScheduleIDs, hand[p][s].stage # "idle",
           hand' = [hand EXCEPT ![p][s].stage = "done"]
    PROVE  hand' \in [Procs -> [ScheduleIDs -> Handler]] /\ HandlersGoOn
  <1> DEFINE new == [hand[p][s] EXCEPT !.stage = "done"]
  <1>1. hand[p][s] \in Handler /\ hand' = [hand EXCEPT ![p][s] = new]
    BY DEF TypeOK
  <1>2. new \in Handler
    BY <1>1 DEF Handler, Stages
  <1>3. new.sc = hand[p][s].sc /\ new.id = hand[p][s].id /\ new.put = hand[p][s].put
    BY <1>1 DEF Handler
  <1> HIDE DEF new
  <1>4. hand \in [Procs -> [ScheduleIDs -> Handler]]
    BY DEF TypeOK
  <1>5. /\ hand' \in [Procs -> [ScheduleIDs -> Handler]] /\ hand'[p][s] = new
        /\ \A q \in Procs, r \in ScheduleIDs : ~(q = p /\ r = s) => hand'[q][r] = hand[q][r]
    <2>1. hand' = [hand EXCEPT ![p][s] = new] /\ p \in Procs /\ s \in ScheduleIDs
      BY <1>1
    <2> QED BY ONLY <1>2, <1>4, <2>1, HandlerReplaced
  <1>6. HandlersGoOn
    BY <1>3, <1>5 DEF HandlersGoOn
  <1> QED
    BY <1>5, <1>6

\* A handler that fails for good, and the release of the in-flight mark.
LEMMA HandlerEndStep ==
    ASSUME IInv, NEW p \in Procs, NEW s \in ScheduleIDs, FailJob(p, s) \/ ClearInFlight(p, s)
    PROVE  IInv'
  <1>1. hand' \in [Procs -> [ScheduleIDs -> Handler]] /\ HandlersGoOn
    <2>1. CASE FailJob(p, s)
      <3>1. hand' = [hand EXCEPT ![p][s].stage = "done"] /\ hand[p][s].stage = "handle"
        BY <2>1 DEF FailJob
      <3> QED
        BY <3>1, Facts, DoneHandler
    <2>2. CASE ClearInFlight(p, s)
      <3>1. NoHandler \in Handler /\ NoHandler.stage = "idle"
        BY DEF NoHandler, Handler, NoSchedule, Schedule, Statuses, Outcomes, Stages
      <3> QED
        BY <2>2, <3>1, Facts DEF ClearInFlight, TypeOK, HandlersGoOn
    <2> QED
      BY <2>1, <2>2
  <1>2. /\ UNCHANGED <<now, subject, store, pc, boot, scan, cur, sessions>>
        /\ err' \in [Procs -> Errors] /\ faults' \in Nat
        /\ \A q \in Procs : err'[q] = "rejected" => err[q] = "rejected"
    <2>1. CASE FailJob(p, s)
      <3>1. err' \in [Procs -> Errors] /\ \A q \in Procs : err'[q] = "rejected" => err[q] = "rejected"
        BY <2>1, Facts DEF FailJob, TypeOK, Errors
      <3> QED
        BY <2>1, <3>1, Facts DEF FailJob, TypeOK
    <2>2. CASE ClearInFlight(p, s)
      BY <2>2, Facts DEF ClearInFlight, TypeOK
    <2> QED
      BY <2>1, <2>2
  <1>3. TypeOK' /\ Forward
    BY <1>1, <1>2, Facts, TablesUnchanged DEF TypeOK, store
  <1>4. HandlerShape'
    BY <1>1, <1>3, Facts, HandlerKept DEF IInv
  <1> QED
    BY <1>1, <1>2, <1>4, HandlersOnly

\* Settling never makes a row pending, and leaves the other rows alone.
LEMMA SettledOnly ==
    ASSUME NEW rows, NEW ledger \in [rows -> Occurrence], NEW ids, NEW outcome \in Outcomes
    PROVE  /\ Settle(ledger, ids, outcome) \in [rows -> Occurrence]
           /\ \A i \in rows :
                /\ Settle(ledger, ids, outcome)[i].outcome = "pending" => ledger[i].outcome = "pending"
                /\ i \notin ids => Settle(ledger, ids, outcome)[i] = ledger[i]
  BY DEF Settle, Occurrence

\* A consumption that leaves the aggregate alone.
LEMMA ConsumeRowsOnly ==
    ASSUME IInv, TypeOK', UNCHANGED <<now, subject, sched, timer, firstFire, pc, boot, scan, cur>>,
           HandlersGoOn, NeverRejected', DOMAIN occ' = DOMAIN occ,
           \A i \in DOMAIN occ : Pending(i)' => Pending(i)
    PROVE  IInv'
  <1>1. Tables'
    BY Facts DEF Tables, ScheduleShape, OccurrenceShape, ClockFollowsSchedule, PendingIsCurrent, Pending
  <1>2. Forward /\ DeadlinesRest
    BY DEF Forward, Evolves, DeadlinesRest, PendingOf, Pending
  <1>3. ScansShrink /\ FiresGoOn /\ BootShape'
    BY Facts DEF ScansShrink, FiresGoOn, Firing, BootShape
  <1> QED
    BY <1>1, <1>2, <1>3, StepKeeps

LEMMA ConsumeStep ==
    ASSUME IInv, NEW p \in Procs, NEW s \in ScheduleIDs, Consume(p, s)
    PROVE  IInv'
  <1> DEFINE h == hand[p][s]
             id == CHOOSE i \in h.id : TRUE
             rest == IF h.put.status = "armed"
                     THEN "stale_generation" ELSE "condition_no_longer_applies"
  <1>1. /\ h.stage = "consume" /\ hand' = [hand EXCEPT ![p][s].stage = "done"]
        /\ UNCHANGED <<now, subject, firstFire, pc, boot, scan, cur, faults, sessions>>
    BY DEF Consume
  <1>2. hand' \in [Procs -> [ScheduleIDs -> Handler]] /\ HandlersGoOn
    BY <1>1, Facts, DoneHandler
  <1>3. /\ s \in Registered(p) /\ Copy(h.sc, sched[s], s)
        /\ \E i \in DOMAIN occ : h.id = {i} /\ i.s = s
        /\ \/ h.put = NoSchedule
           \/ \E end \in {"fired", "resolved"} : h.put = Concluded(h.sc, end)
           \/ s \in Deadlines /\ h.put = ReArmed(h.sc, h.put.ver)
        /\ h.sc \in Schedule /\ h.put \in Schedule /\ h.outcome \in Outcomes
    <2>1. h.sc \in Schedule /\ h.put \in Schedule /\ h.outcome \in Outcomes
      BY Facts DEF TypeOK, Handler
    <2> QED
      BY <1>1, <2>1 DEF IInv, HandlerShape
  <1>4. h.id = {id} /\ id \in DOMAIN occ /\ id.s = s
    BY <1>3
  <1>5. occ \in [DOMAIN occ -> Occurrence]
    BY Facts DEF TypeOK
  <1> HIDE DEF id
  <1>6. ASSUME NEW outcome \in Outcomes, occ' = Settle(occ, h.id, outcome), UNCHANGED <<sched, timer, err>>
        PROVE  IInv'
    <2>1. /\ occ' \in [DOMAIN occ -> Occurrence]
          /\ \A i \in DOMAIN occ : occ'[i].outcome = "pending" => occ[i].outcome = "pending"
      BY <1>5, <1>6, SettledOnly
    <2>2. DOMAIN occ' = DOMAIN occ
      BY <2>1
    <2>3. TypeOK' /\ NeverRejected'
      BY <1>1, <1>2, <1>6, <2>1, <2>2, Facts DEF TypeOK, NeverRejected
    <2> QED
      BY <1>1, <1>2, <1>6, <2>1, <2>2, <2>3, ConsumeRowsOnly DEF Pending
  <1>7. CASE UNCHANGED <<sched, timer, occ, err>>
    <2>1. TypeOK' /\ NeverRejected'
      BY <1>1, <1>2, <1>7, Facts DEF TypeOK, NeverRejected
    <2> QED
      BY <1>1, <1>2, <1>7, <2>1, ConsumeRowsOnly DEF Pending
  \* The transaction found the generation the handler was given.
  <1>8. ASSUME h.put # NoSchedule, ~Superseded(s, h.sc)
        PROVE  /\ sched[s] = h.sc /\ sched[s].status = "armed" /\ TransitionOk(sched[s], h.put)
               /\ h.put.fireAt = sched[s].fireAt /\ h.put.interval = sched[s].interval
               /\ \/ h.put.gen = sched[s].gen /\ h.put.status \notin {"armed", "absent"}
                  \/ h.put.gen = sched[s].gen + 1 /\ h.put.status = "armed" /\ s \in Deadlines
    <2>1. sched[s] = h.sc /\ h.sc.status = "armed"
      BY <1>3, <1>8 DEF Superseded, Copy
    <2>2. CASE \E end \in {"fired", "resolved"} : h.put = Concluded(h.sc, end)
      BY <1>3, <2>1, <2>2, ConcludedRow
    <2>3. CASE s \in Deadlines /\ h.put = ReArmed(h.sc, h.put.ver)
      <3>1. PICK ver \in Nat : h.put = ReArmed(h.sc, ver)
        BY <1>3, <2>3 DEF Schedule
      <3> QED
        BY <1>3, <2>1, <2>3, <3>1, ReArmedRow
    <2> QED
      BY <1>3, <1>8, <2>2, <2>3
  <1>9. CASE /\ h.put # NoSchedule /\ ~Superseded(s, h.sc) /\ Pending(id)
             /\ sched' = [sched EXCEPT ![s] = h.put]
             /\ occ' = SettlePending(Settle(occ, h.id, h.outcome), s, rest)
             /\ timer' = [timer EXCEPT ![s] = NoTimer]
             /\ UNCHANGED err
    <2> DEFINE mid == Settle(occ, h.id, h.outcome)
               ids == {i \in DOMAIN mid : i.s = s}
    <2>1. /\ mid \in [DOMAIN occ -> Occurrence] /\ DOMAIN mid = DOMAIN occ
          /\ \A i \in DOMAIN occ : i \notin h.id => mid[i] = occ[i]
      BY <1>3, <1>5, SettledOnly
    <2>2. rest \in Outcomes \ {"pending"}
      BY DEF Outcomes
    <2>3. occ' = Settle(mid, ids, rest)
      BY <1>9 DEF SettlePending
    <2>4. \A i \in DOMAIN occ : i \in ids <=> i.s = s
      BY <2>1
    <2> HIDE DEF mid, ids, rest
    <2>5. /\ occ' \in [DOMAIN occ -> Occurrence]
          /\ \A i \in DOMAIN occ :
               occ'[i].outcome = "pending" <=> mid[i].outcome = "pending" /\ i \notin ids
      BY <2>1, <2>2, <2>3, SettledRows
    <2>6. DOMAIN occ' = DOMAIN occ /\ \A i \in DOMAIN occ : Pending(i)' <=> Pending(i) /\ i.s # s
      <3>1. DOMAIN occ' = DOMAIN occ
        BY <2>5
      <3> QED
        BY <1>4, <2>1, <2>4, <2>5, <3>1 DEF Pending
    <2>7. TypeOK'
      <3>1. sched' \in [ScheduleIDs -> Schedule] /\ timer' \in [ScheduleIDs -> Timer]
        BY <1>3, <1>9, Facts DEF TypeOK, NoTimer, Timer
      <3> QED
        BY <1>1, <1>2, <1>9, <2>5, <2>6, <3>1, Facts DEF TypeOK
    <2>8. Tables' /\ Forward
      <3>1. sched[s].status = "armed" /\ h.put.fireAt = sched[s].fireAt /\ h.put.interval = sched[s].interval
            /\ \/ h.put.gen = sched[s].gen /\ h.put.status \notin {"armed", "absent"}
               \/ h.put.gen = sched[s].gen + 1 /\ h.put.status = "armed" /\ s \in Deadlines
        BY <1>8, <1>9
      <3> HIDE DEF h
      <3> QED
        BY <1>3, <1>9, <2>6, <2>7, <3>1, Facts, GenerationOver
    <2>9. ScansShrink /\ FiresGoOn /\ BootShape' /\ NeverRejected'
      BY <1>1, <1>9, Facts DEF ScansShrink, FiresGoOn, Firing, BootShape, NeverRejected
    \* A deadline with this occurrence to deliver was not due without one.
    <2>10. DeadlinesRest
      <3> SUFFICES ASSUME NEW d \in Deadlines, PendingOf(d) = {}
                   PROVE  sched'[d] = sched[d] /\ PendingOf(d)' = {}
        BY DEF DeadlinesRest
      <3>1. d # s
        BY <1>4, <1>9 DEF PendingOf, Pending
      <3> QED
        BY <1>9, <2>6, <3>1, Facts, Kinds DEF TypeOK, PendingOf, Pending
    <2> QED
      BY <1>2, <2>7, <2>8, <2>9, <2>10, StepKeeps
  <1>10. \/ \E outcome \in {h.outcome, "stale_generation"} :
              occ' = Settle(occ, h.id, outcome) /\ UNCHANGED <<sched, timer, err>>
         \/ UNCHANGED <<sched, timer, occ, err>>
         \/ /\ h.put # NoSchedule /\ ~Superseded(s, h.sc)
            /\ Pending(id) /\ ~TransitionOk(sched[s], h.put)
         \/ /\ h.put # NoSchedule /\ ~Superseded(s, h.sc) /\ Pending(id)
            /\ sched' = [sched EXCEPT ![s] = h.put]
            /\ occ' = SettlePending(Settle(occ, h.id, h.outcome), s, rest)
            /\ timer' = [timer EXCEPT ![s] = NoTimer]
            /\ UNCHANGED err
    BY DEF Consume, id
  <1>11. {h.outcome, "stale_generation"} \subseteq Outcomes
    BY <1>3 DEF Outcomes
  <1> QED
    BY <1>6, <1>7, <1>8, <1>9, <1>10, <1>11

-----------------------------------------------------------------------------
(* Arming.                                                                 *)

\* Converging a recurring schedule onto a shape leaves one live generation
\* with its own clock and no row of an older one to deliver.
LEMMA ConvergeKeeps ==
    ASSUME TypeOK, Tables, NEW s \in Recurring, NEW ver \in Nat, NEW interval \in Nat \ {0},
           NEW expires \in Nat, NEW first \in Nat, Converge(s, ver, interval, expires, first)
    PROVE  /\ sched' \in [ScheduleIDs -> Schedule] /\ timer' \in [ScheduleIDs -> Timer]
           /\ firstFire' \in [ScheduleIDs -> Nat]
           /\ DOMAIN occ' = DOMAIN occ /\ occ' \in [DOMAIN occ -> Occurrence]
           /\ Tables' /\ Forward
           /\ \A d \in Deadlines : sched'[d] = sched[d] /\ (PendingOf(d) = {} => PendingOf(d)' = {})
  <1> DEFINE old == sched[s]
             same == old.status = "armed" /\ old.ver = ver /\ old.interval = interval
                       /\ old.expires = expires
             new == [ReArmed(old, ver) EXCEPT !.interval = interval, !.expires = expires]
  <1>1. s \in ScheduleIDs /\ old \in Schedule /\ s \notin Deadlines
    BY Kinds DEF TypeOK
  <1>2. /\ new \in Schedule /\ new.status = "armed" /\ new.gen = old.gen + 1
        /\ new.fireAt = old.fireAt /\ new.interval = interval
    <2> DEFINE mid == ReArmed(old, ver)
    <2>1. mid \in Schedule /\ mid.status = "armed" /\ mid.gen = old.gen + 1 /\ mid.fireAt = old.fireAt
      BY <1>1, ReArmedRow
    <2> HIDE DEF mid
    <2>2. [mid EXCEPT !.interval = interval, !.expires = expires] \in Schedule
      BY <2>1 DEF Schedule
    <2>3. /\ [mid EXCEPT !.interval = interval, !.expires = expires].status = mid.status
          /\ [mid EXCEPT !.interval = interval, !.expires = expires].gen = mid.gen
          /\ [mid EXCEPT !.interval = interval, !.expires = expires].fireAt = mid.fireAt
          /\ [mid EXCEPT !.interval = interval, !.expires = expires].interval = interval
      BY <2>1 DEF Schedule
    <2> QED
      BY <2>1, <2>2, <2>3 DEF mid
  <1>3. CASE same
    <2>1. timer[s] # NoTimer
      BY <1>1, <1>3 DEF Tables, ClockFollowsSchedule, ScheduleShape, NoTimer, Schedule
    <2>2. UNCHANGED <<sched, occ, firstFire>> /\ timer' = [timer EXCEPT ![s] = timer[s]]
      BY <1>3, <2>1 DEF Converge
    <2>3. timer' = timer
      BY <2>2 DEF TypeOK
    <2>4. Tables' /\ Forward
      BY <2>2, <2>3, TablesUnchanged DEF store
    <2> QED
      BY <2>2, <2>3, <2>4 DEF TypeOK, PendingOf
  <1>4. CASE ~same
    <2> DEFINE clock == [gen |-> old.gen + 1, next |-> first]
    <2>1. /\ sched' = [sched EXCEPT ![s] = new]
          /\ occ' = SettlePending(occ, s, "stale_generation")
          /\ timer' = [timer EXCEPT ![s] = clock]
          /\ firstFire' = [firstFire EXCEPT ![s] = first]
      BY <1>2, <1>4 DEF Converge
    <2>2. clock \in Timer /\ clock.gen = new.gen
      BY <1>1, <1>2 DEF Schedule, Timer
    <2> HIDE DEF clock, new
    <2>3. /\ occ' \in [DOMAIN occ -> Occurrence] /\ DOMAIN occ' = DOMAIN occ
          /\ \A i \in DOMAIN occ : Pending(i)' <=> Pending(i) /\ i.s # s
      BY <2>1, SettledPending DEF Outcomes
    <2>4. /\ sched' \in [ScheduleIDs -> Schedule] /\ timer' \in [ScheduleIDs -> Timer]
          /\ firstFire' \in [ScheduleIDs -> Nat]
      BY <1>1, <1>2, <2>1, <2>2 DEF TypeOK
    <2>5. /\ sched'[s] = new /\ timer'[s] = clock
          /\ \A r \in ScheduleIDs : r # s => sched'[r] = sched[r] /\ timer'[r] = timer[r]
      BY <1>1, <2>1 DEF TypeOK
    <2>6. Forward
      BY <1>2, <2>3, <2>5 DEF Forward, Evolves
    <2>7. ScheduleShape'
      BY <1>1, <1>2, <2>5 DEF Tables, ScheduleShape, Schedule
    <2>8. OccurrenceShape'
      <3> SUFFICES ASSUME NEW i \in DOMAIN occ
                   PROVE  /\ 0 < i.gen /\ i.gen <= sched'[i.s].gen
                          /\ i.s \in Deadlines => i.at = sched'[i.s].fireAt
        BY <2>3 DEF OccurrenceShape
      <3>1. /\ 0 < i.gen /\ i.gen <= sched[i.s].gen
            /\ i.s \in Deadlines => i.at = sched[i.s].fireAt
        BY DEF Tables, OccurrenceShape
      <3>2. i.s \in ScheduleIDs /\ i.gen \in Nat
        BY DEF TypeOK, Identity
      <3> QED
        BY <1>1, <1>2, <2>5, <3>1, <3>2 DEF Schedule
    <2>9. ClockFollowsSchedule'
      BY <1>1, <1>2, <2>2, <2>5 DEF Tables, ClockFollowsSchedule
    <2>10. PendingIsCurrent'
      BY <2>3, <2>5 DEF TypeOK, Tables, PendingIsCurrent, Pending, Identity
    <2>11. \A d \in Deadlines : sched'[d] = sched[d] /\ (PendingOf(d) = {} => PendingOf(d)' = {})
      BY <1>1, <2>3, <2>5, Kinds DEF PendingOf, Pending
    <2> QED
      BY <2>3, <2>4, <2>6, <2>7, <2>8, <2>9, <2>10, <2>11 DEF Tables
  <1> QED
    BY <1>3, <1>4

LEMMA ArmJobStep ==
    ASSUME IInv, NEW s \in Jobs, ArmJob(s)
    PROVE  IInv'
  <1>1. PICK interval \in JobIntervals : Converge(s, 0, interval, 0, now + interval)
    BY DEF ArmJob
  <1>2. /\ s \in Recurring /\ interval \in Nat \ {0} /\ now + interval \in Nat
        /\ TypeOK /\ Tables
    BY Facts, Kinds, Durations DEF TypeOK
  <1>3. /\ sched' \in [ScheduleIDs -> Schedule] /\ timer' \in [ScheduleIDs -> Timer]
        /\ firstFire' \in [ScheduleIDs -> Nat]
        /\ DOMAIN occ' = DOMAIN occ /\ occ' \in [DOMAIN occ -> Occurrence]
        /\ Tables' /\ Forward
        /\ \A d \in Deadlines : sched'[d] = sched[d] /\ (PendingOf(d) = {} => PendingOf(d)' = {})
    BY <1>1, <1>2, ConvergeKeeps
  <1>4. UNCHANGED <<now, subject, pc, scan, cur, hand, err, faults, sessions>>
    BY DEF ArmJob
  <1>5. /\ boot' \in [Procs -> Boot]
        /\ boot'[Daemon].todo \subseteq boot[Daemon].todo
        /\ \A p \in Clis : boot'[p] = boot[p]
    <2> DEFINE rest == boot[Daemon].todo \ {s}
    <2>1. rest \in SUBSET ScheduleIDs
      BY Facts, Kinds DEF TypeOK, Boot
    <2>2. boot' = [boot EXCEPT ![Daemon].todo = rest]
      BY DEF ArmJob
    <2> HIDE DEF rest
    <2> DEFINE new == [boot[Daemon] EXCEPT !.todo = rest]
    <2>3. new \in Boot /\ new.todo = rest /\ boot' = [boot EXCEPT ![Daemon] = new]
      BY ZenonT(200), <2>1, <2>2, Facts, Kinds DEF TypeOK, Boot
    <2> HIDE DEF new
    <2>4. boot' \in [Procs -> Boot] /\ boot'[Daemon] = new /\ \A p \in Clis : boot'[p] = boot[p]
      BY <2>3, Facts, Kinds, DaemonIsNotCli DEF TypeOK
    <2> QED
      BY <2>3, <2>4 DEF rest
  <1>6. TypeOK'
    BY <1>3, <1>4, <1>5, Facts DEF TypeOK
  <1>7. ScansShrink /\ FiresGoOn /\ HandlersGoOn /\ DeadlinesRest
    BY <1>3, <1>4 DEF ScansShrink, FiresGoOn, Firing, HandlersGoOn, DeadlinesRest
  <1>8. BootShape' /\ NeverRejected'
    BY <1>4, <1>5, Facts DEF BootShape, NeverRejected
  <1> QED
    BY <1>3, <1>6, <1>7, <1>8, StepKeeps

LEMMA ArmPollStep ==
    ASSUME IInv, NEW p \in Clis, ArmPoll(p)
    PROVE  IInv'
  <1>1. /\ Converge(boot[p].s, boot[p].ver, PollInterval, boot[p].expires, now)
        /\ pc[p] = "arming"
        /\ pc' = [pc EXCEPT ![p] = boot[p].then]
        /\ boot' = [boot EXCEPT ![p] =
              IF boot[p].then = "down" THEN NoBoot ELSE [boot[p] EXCEPT !.todo = {}]]
        /\ UNCHANGED <<now, subject, scan, cur, hand, err, faults, sessions>>
    BY DEF ArmPoll, GoTo
  <1>2. p \in Procs /\ boot[p] \in Boot /\ boot[p].s \in Recurring
    BY <1>1, Facts, Kinds DEF TypeOK, BootShape
  <1>3. /\ boot[p].ver \in Nat /\ boot[p].expires \in Nat /\ now \in Nat
        /\ PollInterval \in Nat \ {0} /\ boot[p].then \in {"idle", "down"} /\ TypeOK /\ Tables
    BY <1>2, Facts, Durations DEF TypeOK, Boot
  <1>4. /\ sched' \in [ScheduleIDs -> Schedule] /\ timer' \in [ScheduleIDs -> Timer]
        /\ firstFire' \in [ScheduleIDs -> Nat]
        /\ DOMAIN occ' = DOMAIN occ /\ occ' \in [DOMAIN occ -> Occurrence]
        /\ Tables' /\ Forward
        /\ \A d \in Deadlines : sched'[d] = sched[d] /\ (PendingOf(d) = {} => PendingOf(d)' = {})
    BY <1>1, <1>2, <1>3, ConvergeKeeps
  <1>5. boot' \in [Procs -> Boot]
    <2>1. NoBoot \in Boot /\ [boot[p] EXCEPT !.todo = {}] \in Boot
      BY <1>2 DEF NoBoot, Boot
    <2> QED
      BY <1>1, <2>1, Facts DEF TypeOK
  <1>6. TypeOK'
    <2>1. pc' \in [Procs -> Labels]
      BY <1>1, <1>3 DEF TypeOK, Labels
    <2> QED
      BY <1>1, <1>4, <1>5, <2>1, Facts DEF TypeOK
  <1>7. FiresGoOn
    BY <1>1, <1>2, <1>3 DEF TypeOK, FiresGoOn, Firing
  <1>8. ScansShrink /\ HandlersGoOn /\ DeadlinesRest
    BY <1>1, <1>4 DEF ScansShrink, HandlersGoOn, DeadlinesRest
  <1>9. BootShape' /\ NeverRejected'
    BY <1>1, <1>2, <1>3, Facts, DaemonIsNotCli DEF TypeOK, BootShape, NeverRejected
  <1> QED
    BY <1>4, <1>6, <1>7, <1>8, <1>9, StepKeeps

LEMMA ArmPublicationWatchStep ==
    ASSUME IInv, NEW s \in Deadlines, ArmPublicationWatch(s)
    PROVE  IInv'
  <1> DEFINE mid == ReArmed(NoSchedule, subject[s].ver)
             at == now + DeadlineWait
             new == [mid EXCEPT !.fireAt = at]
  <1>1. /\ sched[s].status = "absent" /\ sched' = [sched EXCEPT ![s] = new]
        /\ UNCHANGED <<now, subject, timer, occ, firstFire, memory, faults, sessions>>
    BY DEF ArmPublicationWatch
  <1>2. UNCHANGED <<pc, boot, scan, cur, hand, err>>
    BY <1>1 DEF memory
  <1>3. new \in Schedule /\ new.status = "armed" /\ new.gen = 1
    <2>1. subject[s].ver \in Nat /\ at \in Nat
      BY Facts, Kinds, Durations DEF TypeOK, Subject
    <2>3. NoSchedule \in Schedule /\ NoSchedule.gen = 0
      BY DEF NoSchedule, Schedule, Statuses
    <2>2. mid \in Schedule /\ mid.status = "armed" /\ mid.gen = 1
      BY <2>1, <2>3, ReArmedRow
    <2> HIDE DEF mid, at
    <2>4. new \in Schedule
      BY <2>1, <2>2 DEF Schedule
    <2>5. new.status = mid.status /\ new.gen = mid.gen
      BY <2>2 DEF Schedule
    <2> QED
      BY <2>2, <2>4, <2>5
  <1> HIDE DEF new
  <1>4. /\ s \in ScheduleIDs /\ s \notin Recurring /\ sched[s].gen = 0
        /\ sched'[s] = new /\ \A r \in ScheduleIDs : r # s => sched'[r] = sched[r]
    BY <1>1, Facts, Kinds DEF TypeOK, Tables, ScheduleShape
  <1>5. TypeOK'
    <2>1. sched' \in [ScheduleIDs -> Schedule]
      BY <1>1, <1>3, Facts DEF TypeOK
    <2> QED
      BY <1>1, <1>2, <2>1, Facts DEF TypeOK
  <1>6. Forward
    BY <1>1, <1>3, <1>4 DEF Forward, Evolves
  \* A row that was never armed has no occurrence.
  <1>7. \A i \in DOMAIN occ : i.s # s /\ i.s \in ScheduleIDs
    BY <1>4, Facts DEF TypeOK, Identity, Tables, OccurrenceShape
  <1>8. Tables'
    <2>1. ScheduleShape'
      BY <1>3, <1>4, Facts, Kinds DEF Tables, ScheduleShape
    <2>2. OccurrenceShape'
      BY <1>1, <1>4, <1>7, Facts DEF Tables, OccurrenceShape
    <2>3. ClockFollowsSchedule'
      BY <1>1, <1>4, Facts DEF Tables, ClockFollowsSchedule
    <2>4. PendingIsCurrent'
      BY <1>1, <1>4, <1>7, Facts DEF Tables, PendingIsCurrent
    <2> QED
      BY <2>1, <2>2, <2>3, <2>4 DEF Tables
  <1>9. DeadlinesRest
    BY <1>1, <1>4, Kinds DEF DeadlinesRest, PendingOf
  <1>10. ScansShrink /\ FiresGoOn /\ HandlersGoOn /\ BootShape' /\ NeverRejected'
    BY <1>2, Facts DEF ScansShrink, FiresGoOn, Firing, HandlersGoOn, BootShape, NeverRejected
  <1> QED
    BY <1>5, <1>6, <1>8, <1>9, <1>10, StepKeeps

-----------------------------------------------------------------------------
(* The invariant and what it gives.                                        *)

LEMMA InitIInv ==
    ASSUME Init
    PROVE  IInv
  <1>0. /\ NoSchedule \in Schedule /\ NoSchedule.gen = 0 /\ NoSchedule.status = "absent"
        /\ NoTimer \in Timer /\ NoBoot \in Boot /\ NoBoot.todo = {}
        /\ NoScan \in Scan /\ NoScan.due = {} /\ NoScan.pend = {}
        /\ NoFire \in Fire /\ NoHandler \in Handler /\ NoHandler.stage = "idle"
    BY DEF NoSchedule, Schedule, Statuses, NoTimer, Timer, NoBoot, Boot, NoScan, Scan,
       NoFire, Fire, NoGap, Gap, NoHandler, Handler, Stages, Outcomes
  <1>1. TypeOK
    <2>1. subject \in [ScheduleIDs -> Subject]
      BY DEF Init, Subject
    <2>2. DOMAIN occ \subseteq Identity /\ occ \in [DOMAIN occ -> Occurrence]
      BY DEF Init
    <2> QED
      BY <1>0, <2>1, <2>2 DEF Init, TypeOK, Labels, Errors
  <1>2. ScheduleShape /\ ClockFollowsSchedule
    BY <1>0 DEF Init, ScheduleShape, ClockFollowsSchedule
  <1>3. OccurrenceShape /\ PendingIsCurrent
    BY DEF Init, OccurrenceShape, PendingIsCurrent
  <1>4. ScanShape /\ FireShape /\ HandlerShape /\ DueDeadlineIsFresh
    BY <1>0, Kinds DEF Init, ScanShape, FireShape, Firing, HandlerShape, DueDeadlineIsFresh
  <1>5. BootShape /\ NeverRejected
    BY <1>0, Kinds DEF Init, BootShape, NeverRejected
  <1> QED
    BY <1>1, <1>2, <1>3, <1>4, <1>5 DEF IInv

\* A step that changes nothing.
LEMMA StutterStep ==
    ASSUME IInv, UNCHANGED vars
    PROVE  IInv'
  <1>1. UNCHANGED store /\ UNCHANGED memory /\ UNCHANGED <<now, subject, faults, sessions>>
    BY DEF vars, store, memory
  <1>2. UNCHANGED <<sched, timer, occ, firstFire, pc, boot, scan, cur, hand, err>>
    BY DEF vars
  <1>3. TypeOK'
    BY <1>1, <1>2, Facts DEF TypeOK
  <1>4. Tables' /\ Forward /\ DeadlinesRest
    BY <1>1, Facts, TablesUnchanged
  <1>5. ScansShrink /\ FiresGoOn /\ HandlersGoOn /\ BootShape' /\ NeverRejected'
    BY <1>2, Facts DEF ScansShrink, FiresGoOn, Firing, HandlersGoOn, BootShape, NeverRejected
  <1> QED
    BY <1>3, <1>4, <1>5, StepKeeps

LEMMA NextIInv ==
    ASSUME IInv, [Next]_vars
    PROVE  IInv'
  <1>1. CASE DaemonBoot
    BY <1>1, StartStep, ArmJobStep DEF DaemonBoot
  <1>2. ASSUME NEW p \in Clis, CliStep(p)
        PROVE  IInv'
    BY <1>2, StartStep, ArmPollStep, AwaitPollStep DEF CliStep
  <1>3. ASSUME NEW p \in Procs, PassStep(p)
        PROVE  IInv'
    BY <1>3, StartPassStep, RedeliverStep, TakeDueStep, EndPassStep, ExpiredOrDeadStep,
       CheckSubjectStep, ReadClockStep, ConvergeOccurrenceStep DEF PassStep
  <1>4. ASSUME NEW p \in Procs, NEW s \in ScheduleIDs, HandlerStep(p, s) \/ FailJob(p, s)
        PROVE  IInv'
    BY <1>4, HandleStep, ConsumeStep, HandlerEndStep DEF HandlerStep
  <1>5. ASSUME NEW p \in Procs, Stopped(p) \/ Crash(p)
        PROVE  IInv'
    BY <1>5, StoppedStep
  <1>6. CASE StopOnError
    BY <1>6, StartStep
  <1>7. CASE World
    BY <1>7, WorldStep, ArmPublicationWatchStep DEF World
  <1>8. CASE UNCHANGED vars
    BY <1>8, StutterStep
  <1> QED
    BY <1>1, <1>2, <1>3, <1>4, <1>5, <1>6, <1>7, <1>8 DEF Next

\* The inductive invariant holds in every reachable state.
THEOREM Invariance == Spec => []IInv
  <1>1. Init => IInv
    BY InitIInv
  <1>2. IInv /\ [Next]_vars => IInv'
    BY NextIInv
  <1> QED
    BY <1>1, <1>2, PTL DEF Spec

\* Every table row and every process-local value keeps its declared shape.
THEOREM TypeCorrect == Spec => []TypeOK
  <1>1. IInv => TypeOK
    BY DEF IInv
  <1> QED
    BY <1>1, Invariance, PTL

\* Whoever concludes or re-arms a schedule, and whatever fires are in progress
\* in other processes, a pending occurrence belongs to the live generation.
THEOREM PendingCurrent == Spec => []PendingIsCurrent
  <1>1. IInv => PendingIsCurrent
    BY DEF IInv
  <1> QED
    BY <1>1, Invariance, PTL

\* A recurring schedule has the clock of its live generation, or none.
THEOREM ClockFollows == Spec => []ClockFollowsSchedule
  <1>1. IInv => ClockFollowsSchedule
    BY DEF IInv
  <1> QED
    BY <1>1, Invariance, PTL

\* No raced outcome or conclusion is ever refused by the transition rules.
THEOREM NoRejection == Spec => []NeverRejected
  <1>1. IInv => NeverRejected
    BY DEF IInv
  <1> QED
    BY <1>1, Invariance, PTL
=============================================================================
