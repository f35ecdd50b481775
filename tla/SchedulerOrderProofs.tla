------------------------ MODULE SchedulerOrderProofs ------------------------
(***************************************************************************)
(* When occurrences come into being and what becomes of deadlines, for any *)
(* number of schedules, processes and faults: OrderInv is inductive beside *)
(* IInv, and the two action properties of deadlines follow from them.      *)
(***************************************************************************)
EXTENDS SchedulerProofs

-----------------------------------------------------------------------------
(* Steps that start nothing.                                               *)

\* Every pass keeps its snapshot or drops it, and every fire goes on as it was.
PassesGoOn ==
    \A p \in Procs :
        /\ scan'[p] = scan[p] \/ scan'[p] = NoScan
        /\ Firing(p)' =>
              /\ Firing(p) /\ cur'[p] = cur[p] /\ scan'[p] = scan[p]
              /\ pc'[p] = "converge" => pc[p] = "converge"

\* No occurrence is created or made pending again, and none loses its gap.
RowsSettle ==
    /\ DOMAIN occ' = DOMAIN occ
    /\ \A i \in DOMAIN occ : (Pending(i)' => Pending(i)) /\ occ'[i].gap = occ[i].gap

LEMMA PassKept ==
    ASSUME TypeOK, PassInThePast, now' \in Nat, now <= now', PassesGoOn
    PROVE  PassInThePast'
  <1> SUFFICES ASSUME NEW p \in Procs
               PROVE  /\ scan'[p].now <= now'
                      /\ \A s \in scan'[p].due \cap Deadlines :
                            scan'[p].snap[s].fireAt <= scan'[p].now
                      /\ (Firing(p)' /\ cur'[p].s \in Deadlines /\ cur'[p].redel = {}) =>
                            Snap(p)'.fireAt <= scan'[p].now
                      /\ pc'[p] = "converge" => cur'[p].at <= scan'[p].now
    BY DEF PassInThePast
  <1>1. scan[p].now \in Nat /\ now \in Nat
    BY DEF TypeOK, Scan
  <1>2. scan'[p].now <= now'
    BY <1>1 DEF PassesGoOn, PassInThePast, NoScan
  <1>3. \A s \in scan'[p].due \cap Deadlines : scan'[p].snap[s].fireAt <= scan'[p].now
    BY DEF PassesGoOn, PassInThePast, NoScan
  <1>4. (Firing(p)' /\ cur'[p].s \in Deadlines /\ cur'[p].redel = {}) =>
            Snap(p)'.fireAt <= scan'[p].now
    BY DEF PassesGoOn, PassInThePast, Snap
  <1>5. pc'[p] = "converge" => cur'[p].at <= scan'[p].now
    BY DEF PassesGoOn, PassInThePast, Firing
  <1> QED
    BY <1>2, <1>3, <1>4, <1>5

LEMMA SeesKept ==
    ASSUME DaemonSeesPending, RowsSettle, PassesGoOn
    PROVE  DaemonSeesPending'
  <1> SUFFICES ASSUME NEW s \in ScheduleIDs \ Polls
               PROVE  /\ s \in scan'[Daemon].due => PendingOf(s)' = {}
                      /\ \A i \in scan'[Daemon].pend : i.s = s =>
                            /\ PendingOf(s)' \subseteq {i}
                            /\ \A j \in scan'[Daemon].pend : j.s = s => j = i
                      /\ (Firing(Daemon)' /\ cur'[Daemon].s = s) =>
                            /\ PendingOf(s)' \subseteq cur'[Daemon].redel
                            /\ \A i \in scan'[Daemon].pend : i.s # s
    BY DEF DaemonSeesPending
  <1>1. PendingOf(s)' \subseteq PendingOf(s)
    BY DEF RowsSettle, PendingOf, Pending
  <1>2. /\ scan'[Daemon] = scan[Daemon] \/ (scan'[Daemon].due = {} /\ scan'[Daemon].pend = {})
        /\ Firing(Daemon)' => Firing(Daemon) /\ cur'[Daemon] = cur[Daemon]
                                /\ scan'[Daemon] = scan[Daemon]
    BY Kinds DEF PassesGoOn, NoScan
  <1> QED
    BY <1>1, <1>2 DEF DaemonSeesPending

LEMMA RowsKept ==
    ASSUME TypeOK, NoEarlyOccurrence, OneToDeliver, RowsSettle, now' \in Nat, now <= now'
    PROVE  NoEarlyOccurrence' /\ OneToDeliver'
  <1>1. NoEarlyOccurrence'
    <2> SUFFICES ASSUME NEW i \in DOMAIN occ
                 PROVE  i.at <= now'
      BY DEF NoEarlyOccurrence, RowsSettle
    <2>1. i.at \in Nat /\ now \in Nat /\ i.at <= now
      BY DEF TypeOK, Identity, NoEarlyOccurrence
    <2> QED
      BY <2>1
  <1>2. OneToDeliver'
    BY DEF OneToDeliver, RowsSettle, Pending
  <1> QED
    BY <1>1, <1>2

\* What holds of the passes and the rows after a step that starts nothing.
Kept == PassInThePast /\ DaemonSeesPending /\ NoEarlyOccurrence /\ OneToDeliver

LEMMA QuietStep ==
    ASSUME TypeOK, Kept, RowsSettle, PassesGoOn, now' \in Nat, now <= now'
    PROVE  Kept'
  BY PassKept, SeesKept, RowsKept DEF Kept

-----------------------------------------------------------------------------
(* The actions that start nothing.                                         *)

LEMMA RowsUnchanged ==
    ASSUME UNCHANGED occ
    PROVE  RowsSettle
  BY DEF RowsSettle, Pending

\* Settling rows, those of one schedule among them.
LEMMA SettleQuiet ==
    ASSUME TypeOK, NEW ids, NEW outcome \in Outcomes, occ' = Settle(occ, ids, outcome)
    PROVE  RowsSettle
  <1>1. occ \in [DOMAIN occ -> Occurrence]
    BY DEF TypeOK
  <1>2. /\ occ' \in [DOMAIN occ -> Occurrence]
        /\ \A i \in DOMAIN occ : occ'[i].outcome = "pending" => occ[i].outcome = "pending"
    BY <1>1, SettledOnly
  <1>3. \A i \in DOMAIN occ : occ'[i].gap = occ[i].gap
    BY <1>1 DEF Settle, Occurrence
  <1> QED
    BY <1>2, <1>3 DEF RowsSettle, Pending

LEMMA SettlePendingQuiet ==
    ASSUME TypeOK, NEW s, NEW outcome \in Outcomes, occ' = SettlePending(occ, s, outcome)
    PROVE  RowsSettle
  BY SettleQuiet DEF SettlePending

\* Arming a recurring schedule settles the rows of the generation it ends.
LEMMA ConvergeSettles ==
    ASSUME TypeOK, NEW s, NEW ver, NEW interval, NEW expires, NEW first,
           Converge(s, ver, interval, expires, first)
    PROVE  RowsSettle
  <1>1. occ' = occ \/ occ' = SettlePending(occ, s, "stale_generation")
    BY DEF Converge
  <1> QED
    BY <1>1, RowsUnchanged, SettlePendingQuiet DEF Outcomes

\* A process that is, or comes to be, outside its pass.
LEMMA OutsidePass ==
    ASSUME TypeOK, NEW p \in Procs, NEW label,
           label \notin {"fire", "clock", "dead", "converge"},
           pc' = [pc EXCEPT ![p] = label],
           \A q \in Procs \ {p} : cur'[q] = cur[q] /\ scan'[q] = scan[q],
           scan'[p] = scan[p] \/ scan'[p] = NoScan
    PROVE  PassesGoOn
  BY DEF TypeOK, PassesGoOn, Firing

LEMMA ForgetQuiet ==
    ASSUME TypeOK, NEW p \in Procs, Forget(p)
    PROVE  PassesGoOn
  <1>1. /\ pc' = [pc EXCEPT ![p] = "down"]
        /\ scan' = [scan EXCEPT ![p] = NoScan]
        /\ cur' = [cur EXCEPT ![p] = NoFire]
    BY DEF Forget, GoTo
  <1>2. /\ \A q \in Procs \ {p} : cur'[q] = cur[q] /\ scan'[q] = scan[q]
        /\ scan'[p] = NoScan
    BY <1>1 DEF TypeOK
  <1> QED
    BY <1>1, <1>2, OutsidePass

LEMMA StartsQuiet ==
    ASSUME TypeOK, DaemonBoot \/ StopOnError \/ (\E p \in Clis : CliStep(p))
    PROVE  RowsSettle /\ PassesGoOn /\ now' = now
  <1>1. CASE BootDaemon \/ StartLoop \/ StopOnError
    <2>1. /\ \E label \in {"arming", "idle", "stopping"} : pc' = [pc EXCEPT ![Daemon] = label]
          /\ UNCHANGED <<now, occ, scan, cur>>
      BY <1>1 DEF BootDaemon, StartLoop, StopOnError, GoTo, store
    <2> QED
      BY <2>1, RowsUnchanged, OutsidePass, Kinds
  <1>2. CASE \E s \in Jobs : ArmJob(s)
    <2>1. RowsSettle /\ UNCHANGED <<now, pc, scan, cur>>
      BY <1>2, ConvergeSettles DEF ArmJob
    <2> QED
      BY <2>1 DEF PassesGoOn, Firing
  <1>3. ASSUME NEW p \in Clis, CliStep(p)
        PROVE  RowsSettle /\ PassesGoOn /\ now' = now
    <2>0. p \in Procs
      BY DEF Procs
    <2>1. CASE \E s \in Polls : BeginInstallation(p, s) \/ ResumeInstallation(p, s)
      <3>1. pc' = [pc EXCEPT ![p] = "arming"] /\ UNCHANGED <<now, occ, scan, cur>>
        BY <2>1 DEF BeginInstallation, ResumeInstallation, GoTo, store
      <3> QED
        BY <2>0, <3>1, RowsUnchanged, OutsidePass
    <2>2. CASE ArmPoll(p)
      <3>1. /\ RowsSettle /\ UNCHANGED <<now, scan, cur>>
            /\ pc' = [pc EXCEPT ![p] = boot[p].then]
        BY <2>2, ConvergeSettles DEF ArmPoll, GoTo
      <3>2. boot[p].then \in {"idle", "down"}
        BY <2>0 DEF TypeOK, Boot
      <3> QED
        BY <2>0, <3>1, <3>2, OutsidePass
    <2>3. CASE AwaitPoll(p)
      <3>1. UNCHANGED <<now, occ>>
        BY <2>3 DEF AwaitPoll, store
      <3>2. CASE Forget(p)
        BY <2>0, <3>1, <3>2, RowsUnchanged, ForgetQuiet
      <3>3. CASE GoTo(p, "idle") /\ UNCHANGED <<boot, scan, cur, hand, err>>
        BY <2>0, <3>1, <3>3, RowsUnchanged, OutsidePass DEF GoTo
      <3> QED
        BY <2>3, <3>2, <3>3 DEF AwaitPoll
    <2> QED
      BY <1>3, <2>1, <2>2, <2>3 DEF CliStep
  <1> QED
    BY <1>1, <1>2, <1>3 DEF DaemonBoot

LEMMA StopsQuiet ==
    ASSUME TypeOK, NEW p \in Procs, Stopped(p) \/ Crash(p)
    PROVE  RowsSettle /\ PassesGoOn /\ now' = now
  <1>1. Forget(p) /\ UNCHANGED <<now, occ>>
    BY DEF Stopped, Crash, store
  <1> QED
    BY <1>1, RowsUnchanged, ForgetQuiet

LEMMA WorldQuiet ==
    ASSUME TypeOK, World
    PROVE  RowsSettle /\ PassesGoOn /\ now' \in Nat /\ now <= now'
  <1>1. UNCHANGED <<occ, pc, scan, cur>> /\ (now' = now \/ now' = now + 1)
    BY DEF World, Tick, WriteItem, ArmPublicationWatch, PromoteInstallation, store, memory
  <1> QED
    BY <1>1, RowsUnchanged DEF PassesGoOn, Firing, TypeOK

\* The end of a pass, the validation of a fire, and a fire that concludes its
\* schedule or is refused.
LEMMA ConcludeQuiet ==
    ASSUME TypeOK, NEW p \in Procs, NEW status, ConcludeFire(p, status)
    PROVE  RowsSettle /\ PassesGoOn
  <1>1. RowsSettle
    <2>1. occ' = occ \/ occ' = SettlePending(occ, cur[p].s, "condition_no_longer_applies")
      BY DEF ConcludeFire, store
    <2> QED
      BY <2>1, RowsUnchanged, SettlePendingQuiet DEF Outcomes
  <1>2. /\ \E label \in {"pass", "stopping"} : pc' = [pc EXCEPT ![p] = label]
        /\ cur' = [cur EXCEPT ![p] = NoFire]
        /\ scan' = scan \/ scan' = [scan EXCEPT ![p] = NoScan]
    BY DEF ConcludeFire, FireOver, PassFails, GoTo
  <1>3. /\ \A q \in Procs \ {p} : cur'[q] = cur[q] /\ scan'[q] = scan[q]
        /\ scan'[p] = scan[p] \/ scan'[p] = NoScan
    BY <1>2 DEF TypeOK
  <1> QED
    BY <1>1, <1>2, <1>3, OutsidePass

LEMMA PassQuiet ==
    ASSUME TypeOK, NEW p \in Procs,
           EndPass(p) \/ CheckSubject(p) \/ FireExpired(p) \/ FireDead(p)
    PROVE  RowsSettle /\ PassesGoOn /\ now' = now
  <1>1. CASE EndPass(p)
    <2>1. /\ \E label \in {"idle", "await"} : pc' = [pc EXCEPT ![p] = label]
          /\ scan' = [scan EXCEPT ![p] = NoScan]
          /\ UNCHANGED <<now, occ, cur>>
      BY <1>1 DEF EndPass, GoTo, store
    <2>2. /\ \A q \in Procs \ {p} : cur'[q] = cur[q] /\ scan'[q] = scan[q]
          /\ scan'[p] = NoScan
      BY <2>1 DEF TypeOK
    <2> QED
      BY <2>1, <2>2, RowsUnchanged, OutsidePass
  <1>2. CASE CheckSubject(p)
    <2>1. /\ pc[p] = "fire"
          /\ \E label \in {"clock", "dead"} : pc' = [pc EXCEPT ![p] = label]
          /\ UNCHANGED <<now, occ, cur, scan>>
      BY <1>2 DEF CheckSubject, GoTo, store
    <2>2. PassesGoOn
      BY <2>1 DEF TypeOK, PassesGoOn, Firing
    <2> QED
      BY <2>1, <2>2, RowsUnchanged
  <1>3. CASE FireExpired(p) \/ FireDead(p)
    BY <1>3, ConcludeQuiet DEF FireExpired, FireDead
  <1> QED
    BY <1>1, <1>2, <1>3

\* The rows of a consumption that changes the aggregate.
LEMMA ConsumedRows ==
    ASSUME TypeOK, NEW ids, NEW s, NEW outcome \in Outcomes, NEW rest \in Outcomes \ {"pending"},
           occ' = SettlePending(Settle(occ, ids, outcome), s, rest)
    PROVE  /\ RowsSettle
           /\ \A i \in ids : (i \in DOMAIN occ /\ Pending(i) /\ outcome # "pending") =>
                occ'[i].outcome = outcome
  <1> DEFINE mid == Settle(occ, ids, outcome)
             others == {i \in DOMAIN mid : i.s = s}
  <1>1. occ \in [DOMAIN occ -> Occurrence]
    BY DEF TypeOK
  <1>2. /\ mid \in [DOMAIN occ -> Occurrence]
        /\ \A i \in DOMAIN occ : mid[i].outcome = "pending" => occ[i].outcome = "pending"
    BY <1>1, SettledOnly
  <1>3. \A i \in ids : (i \in DOMAIN occ /\ Pending(i)) => mid[i].outcome = outcome
    BY <1>1 DEF Settle, Pending, Occurrence
  <1>4. occ' = Settle(mid, others, rest)
    BY DEF SettlePending
  <1> HIDE DEF mid, others
  <1>5. /\ occ' \in [DOMAIN occ -> Occurrence]
        /\ \A i \in DOMAIN occ : occ'[i].outcome = "pending" => mid[i].outcome = "pending"
    BY <1>2, <1>4, SettledRows
  <1>6. RowsSettle
    <2>1. \A i \in DOMAIN occ : occ'[i].gap = mid[i].gap
      BY <1>2, <1>4 DEF Settle, Occurrence
    <2>2. \A i \in DOMAIN occ : mid[i].gap = occ[i].gap
      BY <1>1 DEF mid, Settle, Occurrence
    <2> QED
      BY <1>2, <1>5, <2>1, <2>2 DEF RowsSettle, Pending
  <1>7. \A i \in DOMAIN occ : mid[i].outcome # "pending" => occ'[i] = mid[i]
    BY <1>2, <1>4 DEF Settle
  <1> QED
    BY <1>3, <1>6, <1>7

LEMMA HandlerQuiet ==
    ASSUME TypeOK, NEW p \in Procs, NEW s \in ScheduleIDs, HandlerStep(p, s) \/ FailJob(p, s)
    PROVE  RowsSettle /\ PassesGoOn /\ now' = now
  <1>1. UNCHANGED <<now, pc, scan, cur>>
    BY DEF HandlerStep, HandleDeadline, HandleJob, HandlePoll, Consume, ClearInFlight, FailJob
  <1>2. PassesGoOn
    BY <1>1 DEF PassesGoOn, Firing
  <1>3. CASE Consume(p, s)
    <2> DEFINE h == hand[p][s]
               rest == IF h.put.status = "armed"
                       THEN "stale_generation" ELSE "condition_no_longer_applies"
    <2>1. h.outcome \in Outcomes /\ rest \in Outcomes \ {"pending"}
      BY DEF TypeOK, Handler, Outcomes
    <2>2. \/ occ' = occ
          \/ \E outcome \in Outcomes : occ' = Settle(occ, h.id, outcome)
          \/ occ' = SettlePending(Settle(occ, h.id, h.outcome), s, rest)
      BY <1>3, <2>1 DEF Consume, Outcomes
    <2> HIDE DEF h, rest
    <2> QED
      BY <1>1, <1>2, <2>1, <2>2, RowsUnchanged, SettleQuiet, ConsumedRows
  <1>4. CASE ~Consume(p, s)
    <2>1. UNCHANGED occ
      BY <1>4 DEF HandlerStep, HandleDeadline, HandleJob, HandlePoll, ClearInFlight, FailJob, store
    <2> QED
      BY <1>1, <1>2, <2>1, RowsUnchanged
  <1> QED
    BY <1>3, <1>4

-----------------------------------------------------------------------------
(* The actions of a pass.                                                  *)

LEMMA StartPassKept ==
    ASSUME IInv, Kept, NEW p \in Procs, StartPass(p)
    PROVE  Kept'
  <1> DEFINE pend == Redeliverable(p)
             handled == {i.s : i \in pend}
             due == (DueAt(now) \cap Registered(p)) \ handled
             snap == [s \in ScheduleIDs |-> IF s \in handled \cup due THEN sched[s] ELSE NoSchedule]
  <1>1. /\ scan' = [scan EXCEPT ![p] = [now |-> now, pend |-> pend, due |-> due, snap |-> snap]]
        /\ pc' = [pc EXCEPT ![p] = "pass"]
        /\ UNCHANGED <<now, occ, cur>>
    BY DEF StartPass, GoTo, store
  <1>2. /\ pend \subseteq DOMAIN occ /\ \A i \in pend : Pending(i)
        /\ p = Daemon => \A i \in DOMAIN occ : Pending(i) => i \in pend
    BY Facts, Kinds DEF Redeliverable, TypeOK, Identity, Pending
  <1>3. \A s \in due : s \in ScheduleIDs /\ s \notin handled /\ snap[s] = sched[s]
    BY DEF DueAt
  <1>4. \A s \in due \cap Deadlines : snap[s].fireAt <= now
    BY <1>3 DEF DueAt
  <1>5. \A i \in pend : i.s \in handled
    OBVIOUS
  <1> HIDE DEF pend, handled, due, snap
  <1>6. /\ scan'[p].now = now /\ scan'[p].pend = pend /\ scan'[p].due = due /\ scan'[p].snap = snap
        /\ ~Firing(p)' /\ pc'[p] # "converge"
        /\ \A q \in Procs : q # p => scan'[q] = scan[q] /\ pc'[q] = pc[q]
    BY <1>1, Facts DEF TypeOK, Firing
  <1>7. PassInThePast'
    <2> SUFFICES ASSUME NEW q \in Procs
                 PROVE  /\ scan'[q].now <= now
                        /\ \A s \in scan'[q].due \cap Deadlines :
                              scan'[q].snap[s].fireAt <= scan'[q].now
                        /\ (Firing(q)' /\ cur[q].s \in Deadlines /\ cur[q].redel = {}) =>
                              scan'[q].snap[cur[q].s].fireAt <= scan'[q].now
                        /\ pc'[q] = "converge" => cur[q].at <= scan'[q].now
      BY <1>1 DEF PassInThePast, Snap
    <2>1. CASE q = p
      BY <1>4, <1>6, <2>1, Facts DEF TypeOK
    <2>2. CASE q # p
      BY <1>6, <2>2 DEF Kept, PassInThePast, Snap, Firing
    <2> QED
      BY <2>1, <2>2
  <1>8. DaemonSeesPending'
    <2>1. CASE p = Daemon
      <3> SUFFICES ASSUME NEW s \in ScheduleIDs \ Polls
                   PROVE  /\ s \in due => PendingOf(s) = {}
                          /\ \A i \in pend : i.s = s =>
                                /\ PendingOf(s) \subseteq {i}
                                /\ \A j \in pend : j.s = s => j = i
        BY <1>1, <1>6, <2>1 DEF DaemonSeesPending, PendingOf
      <3>1. s \in due => PendingOf(s) = {}
        BY <1>2, <1>3, <1>5, <2>1 DEF PendingOf, Pending
      <3>2. \A i, j \in DOMAIN occ : (i.s = s /\ j.s = s /\ Pending(i) /\ Pending(j)) => i = j
        BY DEF Kept, OneToDeliver
      <3> QED
        BY <1>2, <3>1, <3>2 DEF PendingOf, Pending
    <2>2. CASE p # Daemon
      <3>1. scan'[Daemon] = scan[Daemon] /\ pc'[Daemon] = pc[Daemon] /\ UNCHANGED <<cur, occ>>
        BY <1>1, <1>6, <2>2, Kinds
      <3>2. \A s \in ScheduleIDs : PendingOf(s)' = PendingOf(s)
        BY <3>1 DEF PendingOf
      <3> QED
        BY <3>1, <3>2 DEF Kept, DaemonSeesPending, Firing
    <2> QED
      BY <2>1, <2>2
  <1> QED
    BY <1>1, <1>7, <1>8, Facts DEF Kept, NoEarlyOccurrence, OneToDeliver, Pending

\* A pass turns to one schedule of its snapshot, and a fire may start on it.
LEMMA TakeKept ==
    ASSUME IInv, Kept, NEW p \in Procs, pc[p] = "pass", UNCHANGED <<now, occ>>,
           \A q \in Procs : q # p => scan'[q] = scan[q],
           scan'[p].now = scan[p].now, scan'[p].snap = scan[p].snap,
           scan'[p].pend \subseteq scan[p].pend, scan'[p].due \subseteq scan[p].due,
           NEW fire,
           (fire.redel = {} /\ fire.s \in Deadlines) => fire.s \in scan[p].due,
           (p = Daemon /\ fire.s \notin Polls) =>
              /\ PendingOf(fire.s) \subseteq fire.redel
              /\ \A i \in scan'[p].pend : i.s # fire.s,
           \/ UNCHANGED <<pc, cur>>
           \/ /\ pc' = [pc EXCEPT ![p] = "fire"]
              /\ cur' = [cur EXCEPT ![p] = fire]
    PROVE  Kept'
  <1>1. /\ \A q \in Procs : q # p => pc'[q] = pc[q] /\ cur'[q] = cur[q]
        /\ Firing(p)' => cur'[p] = fire
        /\ pc'[p] # "converge"
    BY Facts DEF TypeOK, Firing
  <1>2. PassInThePast'
    <2> SUFFICES ASSUME NEW q \in Procs
                 PROVE  /\ scan'[q].now <= now
                        /\ \A s \in scan'[q].due \cap Deadlines :
                              scan'[q].snap[s].fireAt <= scan'[q].now
                        /\ (Firing(q)' /\ cur'[q].s \in Deadlines /\ cur'[q].redel = {}) =>
                              scan'[q].snap[cur'[q].s].fireAt <= scan'[q].now
                        /\ pc'[q] = "converge" => cur'[q].at <= scan'[q].now
      BY DEF PassInThePast, Snap
    <2>1. CASE q = p
      BY <1>1, <2>1 DEF Kept, PassInThePast
    <2>2. CASE q # p
      BY <1>1, <2>2 DEF Kept, PassInThePast, Snap, Firing
    <2> QED
      BY <2>1, <2>2
  <1>3. \A s \in ScheduleIDs : PendingOf(s)' = PendingOf(s)
    BY DEF PendingOf
  <1>4. DaemonSeesPending'
    <2>1. CASE p = Daemon
      BY <1>1, <1>3, <2>1 DEF Kept, DaemonSeesPending
    <2>2. CASE p # Daemon
      <3>1. scan'[Daemon] = scan[Daemon] /\ pc'[Daemon] = pc[Daemon] /\ cur'[Daemon] = cur[Daemon]
        BY <1>1, <2>2, Kinds
      <3> QED
        BY <1>3, <3>1 DEF Kept, DaemonSeesPending, Firing
    <2> QED
      BY <2>1, <2>2
  <1> QED
    BY <1>2, <1>4 DEF Kept, NoEarlyOccurrence, OneToDeliver, Pending

LEMMA RedeliverKept ==
    ASSUME IInv, Kept, NEW p \in Procs, Redeliver(p)
    PROVE  Kept'
  <1>1. PICK i \in scan[p].pend :
          /\ scan' = [scan EXCEPT ![p].pend = @ \ {i}]
          /\ IF InFlight(p, i.s)
             THEN UNCHANGED <<pc, cur, occ>>
             ELSE IF scan[p].snap[i.s].gen # i.gen \/ scan[p].snap[i.s].status # "armed"
             THEN /\ occ' = Settle(occ, {i}, "stale_generation")
                  /\ UNCHANGED <<pc, cur>>
             ELSE /\ cur' = [cur EXCEPT ![p] = [NoFire EXCEPT !.s = i.s, !.redel = {i}]]
                  /\ GoTo(p, "fire")
                  /\ UNCHANGED occ
    BY DEF Redeliver
  <1>2. UNCHANGED now /\ pc[p] = "pass"
    BY DEF Redeliver
  <1>3. /\ i.s \in Registered(p) /\ i.s \in ScheduleIDs
        /\ scan[p].snap[i.s].status = "armed" /\ scan[p].snap[i.s].gen = i.gen
    BY Kinds DEF IInv, ScanShape, Copy
  <1>4. UNCHANGED occ
    BY <1>1, <1>3
  <1>5. /\ \A q \in Procs : q # p => scan'[q] = scan[q]
        /\ scan'[p].pend = scan[p].pend \ {i} /\ scan'[p].due = scan[p].due
        /\ scan'[p].snap = scan[p].snap /\ scan'[p].now = scan[p].now
    <2> DEFINE rest == scan[p].pend \ {i}
    <2>1. scan' = [scan EXCEPT ![p].pend = rest]
      BY <1>1
    <2> HIDE DEF rest
    <2>2. /\ \A q \in Procs : q # p => scan'[q] = scan[q]
          /\ scan'[p].pend = rest /\ scan'[p].due = scan[p].due
          /\ scan'[p].snap = scan[p].snap /\ scan'[p].now = scan[p].now
      BY <2>1, Facts DEF TypeOK, Scan
    <2> QED
      BY <2>2 DEF rest
  <1> DEFINE fire == [NoFire EXCEPT !.s = i.s, !.redel = {i}]
  <1>6. \/ UNCHANGED <<pc, cur>>
        \/ pc' = [pc EXCEPT ![p] = "fire"] /\ cur' = [cur EXCEPT ![p] = fire]
    BY <1>1, <1>3 DEF GoTo
  <1>7. fire.s = i.s /\ fire.redel = {i}
    BY DEF NoFire
  <1>8. (p = Daemon /\ i.s \notin Polls) =>
            PendingOf(i.s) \subseteq {i} /\ \A j \in scan'[p].pend : j.s # i.s
    BY <1>3, <1>5 DEF Kept, DaemonSeesPending
  <1> HIDE DEF fire
  <1> QED
    BY <1>2, <1>4, <1>5, <1>6, <1>7, <1>8, TakeKept

LEMMA TakeDueKept ==
    ASSUME IInv, Kept, NEW p \in Procs, TakeDue(p)
    PROVE  Kept'
  <1>1. PICK s \in scan[p].due :
          /\ scan' = [scan EXCEPT ![p].due = @ \ {s}]
          /\ \/ UNCHANGED <<pc, cur>>
             \/ /\ cur' = [cur EXCEPT ![p] = [NoFire EXCEPT !.s = s]]
                /\ pc' = [pc EXCEPT ![p] = "fire"]
    BY DEF TakeDue, GoTo
  <1>2. UNCHANGED <<now, occ>> /\ pc[p] = "pass" /\ scan[p].pend = {}
    BY DEF TakeDue, store
  <1>3. s \in ScheduleIDs
    BY Facts DEF TypeOK, Scan
  <1>4. /\ \A q \in Procs : q # p => scan'[q] = scan[q]
        /\ scan'[p].pend = scan[p].pend /\ scan'[p].due \subseteq scan[p].due
        /\ scan'[p].snap = scan[p].snap /\ scan'[p].now = scan[p].now
    <2> DEFINE rest == scan[p].due \ {s}
    <2>1. scan' = [scan EXCEPT ![p].due = rest] /\ rest \subseteq scan[p].due
      BY <1>1
    <2> HIDE DEF rest
    <2> QED
      BY <2>1, Facts DEF TypeOK, Scan
  <1> DEFINE fire == [NoFire EXCEPT !.s = s]
  <1>5. fire.s = s /\ fire.redel = {}
    BY DEF NoFire
  <1>6. (p = Daemon /\ s \notin Polls) => PendingOf(s) = {}
    BY <1>3 DEF Kept, DaemonSeesPending
  <1>7. \/ UNCHANGED <<pc, cur>>
        \/ pc' = [pc EXCEPT ![p] = "fire"] /\ cur' = [cur EXCEPT ![p] = fire]
    BY <1>1
  <1> HIDE DEF fire
  <1> QED
    BY <1>2, <1>4, <1>5, <1>6, <1>7, TakeKept

-----------------------------------------------------------------------------
(* Fires: the clock and the occurrence.                                    *)

\* latestNominal either leaves its base alone or stops at or before the reading.
LEMMA LatestIsPast ==
    ASSUME NEW base \in Nat, NEW gap, NEW interval \in Nat \ {0}, NEW t \in Nat
    PROVE  LET at == Latest(base, gap, interval, t).at IN at = base \/ at <= t
  <1> DEFINE k == IF t - base >= interval THEN (t - base) \div interval ELSE 0
  <1>1. Latest(base, gap, interval, t).at = base + k * interval
    BY DEF Latest
  <1>2. CASE t - base >= interval
    <2> DEFINE a == t - base
    <2>1. a \in Nat /\ k = a \div interval
      BY <1>2
    <2> HIDE DEF a, k
    <2>2. k \in Nat /\ interval * k <= a
      BY <2>1
    <2>3. k * interval = interval * k /\ interval * k \in Nat
      BY <2>2
    <2>4. base + k * interval <= base + a
      BY <2>1, <2>2, <2>3
    <2>5. base + a = t
      BY DEF a
    <2> QED
      BY <1>1, <2>4, <2>5
  <1>3. CASE ~(t - base >= interval)
    BY <1>1, <1>3
  <1> QED
    BY <1>2, <1>3

\* The end of a fire, or of its pass, with the rows unchanged.
LEMMA FireOverKept ==
    ASSUME IInv, Kept, NEW p \in Procs, UNCHANGED <<now, occ>>,
           (FireOver(p) /\ UNCHANGED scan) \/ (\E cause : PassFails(p, cause))
    PROVE  Kept'
  <1>1. /\ \E label \in {"pass", "stopping"} : pc' = [pc EXCEPT ![p] = label]
        /\ cur' = [cur EXCEPT ![p] = NoFire]
        /\ scan' = scan \/ scan' = [scan EXCEPT ![p] = NoScan]
    BY DEF FireOver, PassFails, GoTo
  <1>2. /\ \A q \in Procs \ {p} : cur'[q] = cur[q] /\ scan'[q] = scan[q]
        /\ scan'[p] = scan[p] \/ scan'[p] = NoScan
    BY <1>1, Facts DEF TypeOK
  <1>3. PassesGoOn
    BY <1>1, <1>2, Facts, OutsidePass
  <1> QED
    BY <1>3, Facts, RowsUnchanged, QuietStep DEF TypeOK

LEMMA ReadClockKept ==
    ASSUME IInv, IInv', Kept, NEW p \in Procs, ReadClock(p)
    PROVE  Kept'
  <1> DEFINE s == cur[p].s
             sc == Snap(p)
             redel == cur[p].redel
             t == scan[p].now
             fired == IF s \in Deadlines
                      THEN [at |-> sc.fireAt, gap |-> NoGap]
                      ELSE IF redel # {}
                      THEN LET i == CHOOSE i \in redel : TRUE
                           IN  Latest(i.at, occ[i].gap, sc.interval, t)
                      ELSE Latest(timer[s].next, NoGap, sc.interval, t)
             id == [s |-> s, gen |-> sc.gen, at |-> fired.at]
  <1>0. pc[p] = "clock" /\ Firing(p) /\ UNCHANGED <<now, occ>>
    BY DEF ReadClock, Firing, store
  <1>1. CASE redel = {} /\ s \in Recurring /\ timer[s] = NoTimer
    <2>1. PassFails(p, "no_timer")
      BY <1>1 DEF ReadClock
    <2> QED
      BY <1>0, <2>1, FireOverKept
  <1>2. CASE /\ ~(redel = {} /\ s \in Recurring /\ timer[s] = NoTimer)
             /\ \/ redel = {} /\ s \in Recurring /\ ClockStale(s, sc, t)
                \/ id \in redel
    <2>1. FireOver(p) /\ UNCHANGED scan
      BY <1>2 DEF ReadClock, Dispatch
    <2> QED
      BY <1>0, <2>1, FireOverKept
  <1>3. CASE /\ ~(redel = {} /\ s \in Recurring /\ timer[s] = NoTimer)
             /\ ~(redel = {} /\ s \in Recurring /\ ClockStale(s, sc, t))
             /\ id \notin redel
    <2>1. /\ pc' = [pc EXCEPT ![p] = "converge"]
          /\ cur' = [cur EXCEPT ![p].at = fired.at, ![p].gap = fired.gap]
          /\ UNCHANGED scan
      BY <1>3 DEF ReadClock, GoTo
    <2>2. /\ s \in ScheduleIDs /\ Copy(sc, sched[s], s) /\ sc \in Schedule
          /\ redel \subseteq Identity
          /\ \A i \in redel : i.s = s /\ i.gen = sc.gen
      BY <1>0, FiringFacts
    \* The instant the fire is to create an occurrence for lies in the past.
    <2>3. s \notin Deadlines => fired.at <= t
      <3> SUFFICES ASSUME s \notin Deadlines
                   PROVE  fired.at <= t
        OBVIOUS
      <3>1. sc.interval \in Nat \ {0} /\ t \in Nat /\ s \in Recurring
        BY <2>2, Facts, Kinds DEF Copy, Schedule, TypeOK, Scan
      <3>2. CASE redel # {}
        <4> DEFINE i == CHOOSE i \in redel : TRUE
        <4>1. i \in redel
          BY <3>2
        <4>2. i \in Identity /\ i.at \in Nat /\ i.s = s /\ i.gen = sc.gen
          BY <2>2, <4>1 DEF Identity
        <4>3. fired = Latest(i.at, occ[i].gap, sc.interval, t)
          BY <3>2
        <4>4. fired.at # i.at
          <5> SUFFICES ASSUME fired.at = i.at
                       PROVE  FALSE
            OBVIOUS
          <5>1. id = i
            <6> HIDE DEF i, fired
            <6> QED
              BY <4>2 DEF Identity
          <5> QED
            BY <1>3, <4>1, <5>1
        <4> HIDE DEF i, sc, redel, s, fired, t
        <4> QED
          BY <3>1, <4>2, <4>3, <4>4, LatestIsPast
      <3>3. CASE redel = {}
        <4>1. timer[s].next \in Nat /\ timer[s].next <= t
          BY <1>3, <2>2, <3>1, <3>3, Facts DEF TypeOK, Timer, ClockStale, Scan
        <4>2. fired = Latest(timer[s].next, NoGap, sc.interval, t)
          BY <3>3
        <4> HIDE DEF sc, redel, s, fired, t
        <4> QED
          BY <3>1, <4>1, <4>2, LatestIsPast
      <3> QED
        BY <3>2, <3>3
    <2>4. s \in Deadlines => redel = {} /\ fired.at <= t
      <3> SUFFICES ASSUME s \in Deadlines
                   PROVE  redel = {} /\ fired.at <= t
        OBVIOUS
      <3>1. fired.at = sc.fireAt
        OBVIOUS
      <3> HIDE DEF fired
      <3>2. \A i \in redel : i = id
        <4> SUFFICES ASSUME NEW i \in redel PROVE i = id
          OBVIOUS
        <4>1. i.at = sched[s].fireAt
          BY <1>0, <2>2, Facts, FiringFacts DEF Tables, OccurrenceShape
        <4>2. i.at = sc.fireAt /\ i \in Identity /\ i.s = s /\ i.gen = sc.gen
          BY <2>2, <4>1 DEF Copy
        <4> QED
          BY <3>1, <4>2 DEF Identity
      <3>3. redel = {}
        BY <1>3, <3>2
      <3> QED
        BY <1>0, <3>1, <3>3 DEF Kept, PassInThePast
    <2> HIDE DEF fired
    <2>5. /\ \A q \in Procs : q # p => pc'[q] = pc[q] /\ cur'[q] = cur[q]
          /\ cur'[p].s = s /\ cur'[p].redel = redel /\ cur'[p].at = fired.at
          /\ Firing(p)'
      BY ZenonT(60), <2>1, Facts DEF TypeOK, Fire, Firing
    <2>6. PassInThePast'
      <3> SUFFICES ASSUME NEW q \in Procs
                   PROVE  /\ (Firing(q)' /\ cur'[q].s \in Deadlines /\ cur'[q].redel = {}) =>
                                scan[q].snap[cur'[q].s].fireAt <= scan[q].now
                          /\ pc'[q] = "converge" => cur'[q].at <= scan[q].now
        BY <1>0, <2>1 DEF Kept, PassInThePast, Snap
      <3>1. CASE q = p
        BY <1>0, <2>3, <2>4, <2>5, <3>1 DEF Kept, PassInThePast, Snap
      <3>2. CASE q # p
        BY <2>5, <3>2 DEF Kept, PassInThePast, Snap, Firing
      <3> QED
        BY <3>1, <3>2
    <2>7. DaemonSeesPending'
      <3>1. \A r \in ScheduleIDs : PendingOf(r)' = PendingOf(r)
        BY <1>0 DEF PendingOf
      <3>2. /\ cur'[Daemon].s = cur[Daemon].s /\ cur'[Daemon].redel = cur[Daemon].redel
            /\ Firing(Daemon)' => Firing(Daemon)
        BY <1>0, <2>5, Kinds DEF Firing
      <3> SUFFICES ASSUME NEW r \in ScheduleIDs \ Polls
                   PROVE  /\ r \in scan[Daemon].due => PendingOf(r)' = {}
                          /\ \A i \in scan[Daemon].pend : i.s = r =>
                                /\ PendingOf(r)' \subseteq {i}
                                /\ \A j \in scan[Daemon].pend : j.s = r => j = i
                          /\ (Firing(Daemon)' /\ cur'[Daemon].s = r) =>
                                /\ PendingOf(r)' \subseteq cur'[Daemon].redel
                                /\ \A i \in scan[Daemon].pend : i.s # r
        BY <2>1 DEF DaemonSeesPending
      <3>3. PendingOf(r)' = PendingOf(r)
        BY <3>1
      <3> QED
        BY <3>2, <3>3 DEF Kept, DaemonSeesPending
    <2> QED
      BY <1>0, <2>6, <2>7 DEF Kept, NoEarlyOccurrence, OneToDeliver, Pending
  <1> QED
    BY <1>1, <1>2, <1>3

\* The write half: the rows it folds away are the pending ones the fire was
\* given, so the one it inserts is alone.
LEMMA ConvergeOccurrenceKept ==
    ASSUME IInv, Kept, NEW p \in Procs, ConvergeOccurrence(p)
    PROVE  Kept'
  <1> DEFINE s == cur[p].s
             sc == Snap(p)
             id == [s |-> s, gen |-> sc.gen, at |-> cur[p].at]
             ledger == Supersede(cur[p].redel, id, cur[p].gap)
             rows == DOMAIN occ \cup {id}
  <1>0. pc[p] = "converge" /\ Firing(p) /\ UNCHANGED <<now, scan>> /\ FireOver(p)
    BY DEF ConvergeOccurrence, Firing, Dispatch
  <1>1. /\ s \in Registered(p) /\ s \in ScheduleIDs /\ s \notin scan[p].due
        /\ sc \in Schedule
        /\ cur[p].redel \in SUBSET Identity /\ cur[p].redel \subseteq DOMAIN occ
        /\ \A i \in cur[p].redel : i.s = s
    BY <1>0, FiringFacts
  <1>2. id \in Identity /\ cur[p].gap \in Gap /\ id.s = s /\ id.at = cur[p].at
    BY <1>1, Facts DEF TypeOK, Fire, Identity, Schedule
  <1>3. occ' = occ \/ occ' = ledger
    BY DEF ConvergeOccurrence
  <1>4. CASE occ' = occ
    BY <1>0, <1>4, FireOverKept
  <1>5. CASE occ' = ledger
    <2>1. /\ ledger \in [rows -> Occurrence]
          /\ \A i \in rows : ledger[i].outcome = "pending" => Pending(i) \/ i = id
      <3> HIDE DEF id
      <3> QED
        BY <1>1, <1>2, Facts, SupersededRows
    <2>2. \A i \in cur[p].redel : ledger[i].outcome # "pending"
      BY <1>1, Facts DEF Supersede, CreatePending, Settle, TypeOK, Occurrence
    <2> HIDE DEF ledger, id
    <2>3. /\ DOMAIN occ' = rows
          /\ \A i \in rows : occ'[i].outcome = "pending" =>
               i = id \/ (Pending(i) /\ i \notin cur[p].redel)
      BY <1>5, <2>1, <2>2
    <2>4. \A r \in ScheduleIDs : r # s => PendingOf(r)' \subseteq PendingOf(r)
      BY <1>2, <2>3 DEF PendingOf, Pending
    <2>5. s \notin Polls => p = Daemon
      BY <1>1, Kinds
    <2>6. ASSUME NEW i \in rows, i.s = s, s \notin Polls, occ'[i].outcome = "pending"
          PROVE  i = id
      <3>1. PendingOf(s) \subseteq cur[p].redel
        BY <1>0, <1>1, <2>5, <2>6 DEF Kept, DaemonSeesPending
      <3> QED
        BY <1>1, <2>3, <2>6, <3>1 DEF PendingOf, Pending
    <2>7. /\ \A q \in Procs : q # p => pc'[q] = pc[q] /\ cur'[q] = cur[q]
          /\ ~Firing(p)' /\ pc'[p] = "pass"
      BY <1>0, Facts DEF FireOver, GoTo, Firing, TypeOK
    <2>8. PassInThePast'
      BY <1>0, <2>7 DEF Kept, PassInThePast, Firing, Snap
    <2>9. NoEarlyOccurrence'
      <3>1. id.at <= now
        <4>1. cur[p].at \in Nat /\ scan[p].now \in Nat /\ now \in Nat
          BY Facts DEF TypeOK, Fire, Scan
        <4> QED
          BY <1>0, <1>2, <4>1 DEF Kept, PassInThePast
      <3> QED
        BY <1>0, <2>3, <3>1 DEF Kept, NoEarlyOccurrence
    <2>10. OneToDeliver'
      <3> SUFFICES ASSUME NEW i \in rows, NEW j \in rows, i.s = j.s, i.s \notin Polls,
                          occ'[i].outcome = "pending", occ'[j].outcome = "pending"
                   PROVE  i = j
        BY <2>3 DEF OneToDeliver, Pending
      <3>1. CASE i.s = s
        BY <2>6, <3>1
      <3>2. CASE i.s # s
        BY <1>2, <2>3, <3>2 DEF Kept, OneToDeliver, Pending
      <3> QED
        BY <3>1, <3>2
    <2>11. DaemonSeesPending'
      <3> SUFFICES ASSUME NEW r \in ScheduleIDs \ Polls
                   PROVE  /\ r \in scan[Daemon].due => PendingOf(r)' = {}
                          /\ \A i \in scan[Daemon].pend : i.s = r =>
                                /\ PendingOf(r)' \subseteq {i}
                                /\ \A j \in scan[Daemon].pend : j.s = r => j = i
                          /\ (Firing(Daemon)' /\ cur'[Daemon].s = r) =>
                                /\ PendingOf(r)' \subseteq cur'[Daemon].redel
                                /\ \A i \in scan[Daemon].pend : i.s # r
        BY <1>0 DEF DaemonSeesPending
      <3>1. CASE r = s
        <4>1. p = Daemon
          BY <2>5, <3>1
        <4>2. \A i \in scan[Daemon].pend : i.s # r
          BY <1>0, <3>1, <4>1 DEF Kept, DaemonSeesPending
        <4> QED
          BY <1>1, <2>7, <3>1, <4>1, <4>2
      <3>2. CASE r # s
        <4>1. PendingOf(r)' \subseteq PendingOf(r)
          BY <2>4, <3>2
        <4>2. Firing(Daemon)' => Firing(Daemon) /\ cur'[Daemon] = cur[Daemon]
          BY <2>7, Kinds DEF Firing
        <4> QED
          BY <4>1, <4>2 DEF Kept, DaemonSeesPending
      <3> QED
        BY <3>1, <3>2
    <2> QED
      BY <2>8, <2>9, <2>10, <2>11 DEF Kept
  <1> QED
    BY <1>3, <1>4, <1>5

-----------------------------------------------------------------------------
(* Handlers that would record a deadline as elapsed.                       *)

\* A step that starts no handler and decides nothing.
HandlersKeepDecisions ==
    \A p \in Procs, s \in ScheduleIDs :
        \/ hand'[p][s] = NoHandler
        \/ /\ hand'[p][s].put = hand[p][s].put
           /\ hand'[p][s].recheck = hand[p][s].recheck
           /\ hand'[p][s].outcome = hand[p][s].outcome

LEMMA RecheckKept ==
    ASSUME ElapsedIsRechecked, HandlersKeepDecisions
    PROVE  ElapsedIsRechecked'
  BY DEF ElapsedIsRechecked, HandlersKeepDecisions, NoHandler, NoSchedule

\* One handler is replaced by another that would not, or that rechecks.
LEMMA RecheckReplaced ==
    ASSUME TypeOK, ElapsedIsRechecked, NEW p \in Procs, NEW s \in ScheduleIDs, NEW h,
           hand' = [hand EXCEPT ![p][s] = h],
           h.put.status = "fired" => h.recheck /\ h.outcome = "handled"
    PROVE  ElapsedIsRechecked'
  BY DEF TypeOK, ElapsedIsRechecked

\* What a handler decides.
LEMMA DecidedHandler ==
    ASSUME TypeOK, NEW p \in Procs, NEW s \in ScheduleIDs,
           NEW outcome, NEW put, NEW recheck, Decide(p, s, outcome, put, recheck)
    PROVE  \E h : /\ hand' = [hand EXCEPT ![p][s] = h]
                  /\ h.put = put /\ h.recheck = recheck /\ h.outcome = outcome
  <1> DEFINE h == [hand[p][s] EXCEPT !.stage = "consume", !.outcome = outcome,
                                     !.put = put, !.recheck = recheck]
  <1>1. hand' = [hand EXCEPT ![p][s] = h]
    BY DEF Decide
  <1>2. h.put = put /\ h.recheck = recheck /\ h.outcome = outcome
    BY DEF TypeOK, Handler
  <1> QED
    BY <1>1, <1>2

LEMMA DecideRechecked ==
    ASSUME IInv, ElapsedIsRechecked, NEW p \in Procs, NEW s \in ScheduleIDs,
           HandleDeadline(p, s) \/ HandleJob(p, s) \/ HandlePoll(p, s)
    PROVE  ElapsedIsRechecked'
  <1> DEFINE sc == hand[p][s].sc
  <1>1. sc \in Schedule /\ sc.status = "armed"
    <2>1. hand[p][s].stage # "idle"
      BY DEF HandleDeadline, HandleJob, HandlePoll
    <2> QED
      BY <2>1, Facts DEF IInv, HandlerShape, Copy, TypeOK, Handler
  <1>2. /\ Concluded(sc, "resolved").status = "resolved" /\ NoSchedule.status = "absent"
        /\ ReArmed(sc, subject[s].ver).status = "armed"
    BY <1>1 DEF Concluded, ReArmed, Schedule, NoSchedule
  <1>3. \E outcome, put, recheck :
          /\ Decide(p, s, outcome, put, recheck)
          /\ put.status = "fired" => recheck /\ outcome = "handled"
    BY <1>2 DEF HandleDeadline, HandleJob, HandlePoll
  <1> QED
    BY <1>3, Facts, DecidedHandler, RecheckReplaced

\* A handler that ends keeps its decision.
LEMMA DoneRechecked ==
    ASSUME TypeOK, ElapsedIsRechecked, NEW p \in Procs, NEW s \in ScheduleIDs,
           hand' = [hand EXCEPT ![p][s].stage = "done"]
    PROVE  ElapsedIsRechecked'
  <1> DEFINE h == [hand[p][s] EXCEPT !.stage = "done"]
  <1>1. hand' = [hand EXCEPT ![p][s] = h]
    OBVIOUS
  <1>2. h.put = hand[p][s].put /\ h.recheck = hand[p][s].recheck /\ h.outcome = hand[p][s].outcome
    BY DEF TypeOK, Handler
  <1> HIDE DEF h
  <1> QED
    BY SMTT(30), <1>1, <1>2, RecheckReplaced DEF ElapsedIsRechecked

\* A new handler has decided nothing.
LEMMA DispatchRechecked ==
    ASSUME TypeOK, ElapsedIsRechecked, NEW p \in Procs, NEW id \in Identity, Dispatch(p, id)
    PROVE  ElapsedIsRechecked'
  <1> DEFINE h == [NoHandler EXCEPT !.stage = "handle", !.id = {id}, !.sc = Snap(p)]
  <1>1. hand' = [hand EXCEPT ![p][id.s] = h] /\ id.s \in ScheduleIDs
    BY DEF Dispatch, Identity
  <1>2. h.put.status = "absent"
    BY DEF NoHandler, NoSchedule
  <1> HIDE DEF h
  <1> QED
    BY <1>1, <1>2, RecheckReplaced

-----------------------------------------------------------------------------
(* What a step may do to a row of the schedules table.                     *)

\* A row stays, ends with its generation's interval, or gets the next generation.
RowMoves ==
    \A s \in ScheduleIDs :
        \/ sched'[s] = sched[s]
        \/ /\ sched'[s].gen = sched[s].gen /\ sched'[s].interval = sched[s].interval
           /\ sched'[s].status # "armed"
        \/ sched'[s].gen = sched[s].gen + 1

\* The bodies of DeadlineNeverPostponed and DeadlineElapsedOnOpenItem.
KeepsInstant(s) == sched[s] # NoSchedule => sched'[s].fireAt = sched[s].fireAt
ElapsesOpen(s) ==
    (sched[s].status # "fired" /\ sched'[s].status = "fired") =>
        /\ subject[s].live /\ subject[s].ver = sched[s].ver
        /\ sched[s].fireAt <= now
        /\ \E i \in DOMAIN occ :
             i.s = s /\ Pending(i) /\ occ'[i].outcome = "handled"
RowStep == RowMoves /\ \A s \in Deadlines : KeepsInstant(s) /\ ElapsesOpen(s)

LEMMA RowsAlone ==
    ASSUME UNCHANGED sched
    PROVE  RowStep
  BY DEF RowStep, RowMoves, KeepsInstant, ElapsesOpen

LEMMA ArmingRows ==
    ASSUME IInv, (\E s \in Jobs : ArmJob(s)) \/ (\E p \in Clis : ArmPoll(p))
    PROVE  RowStep
  <1>1. \E s \in Recurring, ver \in Nat : \E interval, expires, first :
          Converge(s, ver, interval, expires, first)
    <2>1. CASE \E s \in Jobs : ArmJob(s)
      BY <2>1, Kinds DEF ArmJob
    <2>2. CASE \E p \in Clis : ArmPoll(p)
      BY <2>2, Facts, Kinds DEF ArmPoll, BootShape, TypeOK, Boot
    <2> QED
      BY <2>1, <2>2
  <1>2. PICK s \in Recurring, ver \in Nat : \E interval, expires, first :
          Converge(s, ver, interval, expires, first)
    BY <1>1
  <1>9. PICK interval, expires, first : Converge(s, ver, interval, expires, first)
    BY <1>2
  <1> DEFINE mid == ReArmed(sched[s], ver)
             new == [mid EXCEPT !.interval = interval, !.expires = expires]
  <1>3. sched[s] \in Schedule /\ s \in ScheduleIDs
    BY Facts, Kinds DEF TypeOK
  <1>4. mid \in Schedule /\ mid.gen = sched[s].gen + 1
    BY <1>3, ReArmedRow
  <1> HIDE DEF mid
  <1>5. new.gen = sched[s].gen + 1
    BY <1>4 DEF Schedule
  <1>6. sched' = sched \/ sched' = [sched EXCEPT ![s] = new]
    BY <1>9 DEF Converge, mid
  <1> HIDE DEF new
  <1>7. \A r \in ScheduleIDs : sched'[r] = sched[r] \/ (r = s /\ sched'[r] = new)
    BY <1>6, Facts DEF TypeOK
  <1>8. \A d \in Deadlines : sched'[d] = sched[d]
    BY <1>7, Kinds
  <1> QED
    BY <1>5, <1>7, <1>8 DEF RowStep, RowMoves, KeepsInstant, ElapsesOpen

LEMMA WatchRows ==
    ASSUME IInv, NEW s \in Deadlines, ArmPublicationWatch(s)
    PROVE  RowStep
  <1>1. /\ sched[s].status = "absent"
        /\ sched' = [sched EXCEPT ![s] =
              [ReArmed(NoSchedule, subject[s].ver) EXCEPT !.fireAt = now + DeadlineWait]]
    BY DEF ArmPublicationWatch
  <1>2. sched[s] = NoSchedule
    BY <1>1, Facts, Kinds DEF Tables, ScheduleShape
  <1> DEFINE new == [ReArmed(NoSchedule, subject[s].ver) EXCEPT !.fireAt = now + DeadlineWait]
  <1>3. new.status = "armed" /\ new.gen = NoSchedule.gen + 1
    BY DEF ReArmed, NoSchedule
  <1> HIDE DEF new
  <1>4. sched'[s] = new /\ \A r \in ScheduleIDs : r # s => sched'[r] = sched[r]
    BY <1>1, Facts, Kinds DEF TypeOK, new
  <1> QED
    BY <1>2, <1>3, <1>4, Kinds DEF RowStep, RowMoves, KeepsInstant, ElapsesOpen

LEMMA ConcludeRows ==
    ASSUME IInv, NEW p \in Procs, Firing(p), NEW end \in {"resolved", "expired"},
           ConcludeFire(p, end)
    PROVE  RowStep
  <1> DEFINE s == cur[p].s
             new == Concluded(Snap(p), end)
  <1>1. s \in ScheduleIDs /\ Copy(Snap(p), sched[s], s) /\ Snap(p) \in Schedule
    BY FiringFacts
  <1>2. CASE UNCHANGED sched
    BY <1>2, RowsAlone
  <1>3. CASE ~Superseded(s, Snap(p)) /\ sched' = [sched EXCEPT ![s] = new]
    <2>1. Snap(p) = sched[s] /\ sched[s].status = "armed"
      BY <1>1, <1>3 DEF Superseded, Copy
    <2>2. /\ new.status = end /\ new.fireAt = sched[s].fireAt
          /\ new.gen = sched[s].gen /\ new.interval = sched[s].interval
      BY <1>1, <2>1, ConcludedRow
    <2> HIDE DEF s, new
    <2>3. \A r \in ScheduleIDs : sched'[r] = sched[r] \/ (r = s /\ sched'[r] = new)
      BY <1>3, Facts DEF TypeOK
    <2> QED
      BY <2>2, <2>3, Kinds DEF RowStep, RowMoves, KeepsInstant, ElapsesOpen
  <1> QED
    BY <1>2, <1>3 DEF ConcludeFire, store

\* The consumption re-reads the row and, for an elapsed deadline, the item.
LEMMA ConsumeRows ==
    ASSUME IInv, OrderInv, NEW p \in Procs, NEW s \in ScheduleIDs, Consume(p, s)
    PROVE  RowStep
  <1> DEFINE h == hand[p][s]
             id == CHOOSE i \in h.id : TRUE
             rest == IF h.put.status = "armed"
                     THEN "stale_generation" ELSE "condition_no_longer_applies"
  <1>1. /\ Copy(h.sc, sched[s], s)
        /\ \E i \in DOMAIN occ : h.id = {i} /\ i.s = s
        /\ \/ h.put = NoSchedule
           \/ \E end \in {"fired", "resolved"} : h.put = Concluded(h.sc, end)
           \/ s \in Deadlines /\ h.put = ReArmed(h.sc, h.put.ver)
        /\ h.sc \in Schedule /\ h.put \in Schedule /\ h.outcome \in Outcomes
    <2>1. h.stage # "idle" /\ h.sc \in Schedule /\ h.put \in Schedule /\ h.outcome \in Outcomes
      BY Facts DEF Consume, TypeOK, Handler
    <2> QED
      BY <2>1 DEF IInv, HandlerShape
  <1>2. h.id = {id} /\ id \in DOMAIN occ /\ id.s = s
    BY <1>1
  <1> HIDE DEF id
  <1>3. CASE sched' = sched
    BY <1>3, RowsAlone
  <1>4. CASE /\ h.put # NoSchedule /\ ~Superseded(s, h.sc) /\ Pending(id) /\ ~Moved(h, s)
             /\ sched' = [sched EXCEPT ![s] = h.put]
             /\ occ' = SettlePending(Settle(occ, h.id, h.outcome), s, rest)
    <2>1. sched[s] = h.sc /\ h.sc.status = "armed"
      BY <1>1, <1>4 DEF Superseded, Copy
    <2>2. /\ h.put.fireAt = sched[s].fireAt
          /\ \/ /\ h.put.gen = sched[s].gen /\ h.put.interval = sched[s].interval
                /\ h.put.status # "armed"
             \/ h.put.gen = sched[s].gen + 1
      <3>1. CASE \E end \in {"fired", "resolved"} : h.put = Concluded(h.sc, end)
        BY <1>1, <2>1, <3>1, ConcludedRow
      <3>2. CASE s \in Deadlines /\ h.put = ReArmed(h.sc, h.put.ver)
        <4>1. PICK ver \in Nat : h.put = ReArmed(h.sc, ver)
          BY <1>1, <3>2 DEF Schedule
        <4> QED
          BY <1>1, <2>1, <4>1, ReArmedRow
      <3> QED
        BY <1>1, <1>4, <3>1, <3>2
    <2>3. ASSUME s \in Deadlines, h.put.status = "fired"
          PROVE  /\ subject[s].live /\ subject[s].ver = sched[s].ver
                 /\ sched[s].fireAt <= now
                 /\ occ'[id].outcome = "handled"
      <3>1. h.recheck /\ h.outcome = "handled"
        BY <2>3 DEF OrderInv, ElapsedIsRechecked
      <3>2. subject[s].live /\ subject[s].ver = sched[s].ver
        BY <1>4, <2>1, <3>1 DEF Moved
      <3>3. id.at = sched[s].fireAt /\ id.at <= now
        BY <1>2, <2>3, Facts DEF Tables, OccurrenceShape, OrderInv, NoEarlyOccurrence
      <3>4. rest \in Outcomes \ {"pending"}
        BY DEF Outcomes
      <3> HIDE DEF h, rest
      <3>5. occ'[id].outcome = "handled"
        BY <1>1, <1>2, <1>4, <3>1, <3>4, Facts, ConsumedRows
      <3> QED
        BY <3>2, <3>3, <3>5
    <2> HIDE DEF h
    <2>4. sched'[s] = h.put /\ \A r \in ScheduleIDs : r # s => sched'[r] = sched[r]
      BY <1>4, Facts DEF TypeOK
    <2>5. RowMoves
      BY <2>2, <2>4 DEF RowMoves
    <2> QED
      BY <1>2, <1>4, <2>2, <2>3, <2>4, <2>5, Kinds DEF RowStep, KeepsInstant, ElapsesOpen
  <1> QED
    BY <1>3, <1>4 DEF Consume, id

LEMMA NextRows ==
    ASSUME IInv, OrderInv, [Next]_vars
    PROVE  RowStep
  <1>1. CASE DaemonBoot \/ StopOnError
    BY <1>1, ArmingRows, RowsAlone DEF DaemonBoot, BootDaemon, StartLoop, StopOnError, store
  <1>2. ASSUME NEW p \in Clis, CliStep(p)
        PROVE  RowStep
    BY <1>2, ArmingRows, RowsAlone
    DEF CliStep, BeginInstallation, ResumeInstallation, AwaitPoll, store
  <1>3. ASSUME NEW p \in Procs, PassStep(p)
        PROVE  RowStep
    <2>1. CASE FireExpired(p) \/ FireDead(p)
      BY <2>1, ConcludeRows DEF FireExpired, FireDead, Firing
    <2>2. CASE ~(FireExpired(p) \/ FireDead(p))
      BY <1>3, <2>2, RowsAlone
      DEF PassStep, StartPass, Redeliver, TakeDue, EndPass, CheckSubject, ReadClock,
          ConvergeOccurrence, store
    <2> QED
      BY <2>1, <2>2
  <1>4. ASSUME NEW p \in Procs, NEW s \in ScheduleIDs, HandlerStep(p, s) \/ FailJob(p, s)
        PROVE  RowStep
    BY <1>4, ConsumeRows, RowsAlone
    DEF HandlerStep, HandleDeadline, HandleJob, HandlePoll, ClearInFlight, FailJob, store
  <1>5. ASSUME NEW p \in Procs, Stopped(p) \/ Crash(p)
        PROVE  RowStep
    BY <1>5, RowsAlone DEF Stopped, Crash, store
  <1>6. CASE World
    BY <1>6, WatchRows, RowsAlone DEF World, Tick, WriteItem, PromoteInstallation, store
  <1>7. CASE UNCHANGED vars
    BY <1>7, RowsAlone DEF vars
  <1> QED
    BY <1>1, <1>2, <1>3, <1>4, <1>5, <1>6, <1>7 DEF Next

-----------------------------------------------------------------------------
(* Every step.                                                             *)

\* A fire gives a handler an occurrence of its schedule, if any.
LEMMA DispatchedIdentity ==
    ASSUME IInv, NEW p \in Procs, ReadClock(p) \/ ConvergeOccurrence(p)
    PROVE  UNCHANGED hand \/ \E id \in Identity : Dispatch(p, id)
  <1>1. Firing(p)
    BY DEF ReadClock, ConvergeOccurrence, Firing
  <1>2. cur[p].s \in ScheduleIDs /\ Snap(p) \in Schedule /\ cur[p].redel \subseteq Identity
    BY <1>1, FiringFacts
  <1>3. CASE ReadClock(p)
    BY <1>2, <1>3 DEF ReadClock
  <1>4. CASE ConvergeOccurrence(p)
    <2> DEFINE id == [s |-> cur[p].s, gen |-> Snap(p).gen, at |-> cur[p].at]
    <2>1. id \in Identity
      BY <1>2, Facts DEF TypeOK, Fire, Identity, Schedule
    <2>2. UNCHANGED hand \/ Dispatch(p, id)
      BY <1>4 DEF ConvergeOccurrence
    <2> QED
      BY <2>1, <2>2
  <1> QED
    BY <1>3, <1>4

\* Handlers come and go with their process, a fire, or a step of their own.
LEMMA HandSteps ==
    ASSUME [Next]_vars
    PROVE  \/ UNCHANGED hand
           \/ \E p \in Procs : Forget(p) \/ ReadClock(p) \/ ConvergeOccurrence(p)
           \/ \E p \in Procs, s \in ScheduleIDs : HandlerStep(p, s) \/ FailJob(p, s)
  <1>1. CASE DaemonBoot \/ StopOnError \/ World \/ UNCHANGED vars
    BY <1>1 DEF DaemonBoot, BootDaemon, ArmJob, StartLoop, StopOnError, World, Tick, WriteItem,
       ArmPublicationWatch, PromoteInstallation, memory, vars
  <1>2. ASSUME NEW p \in Clis, CliStep(p)
        PROVE  UNCHANGED hand \/ Forget(p)
    BY <1>2 DEF CliStep, BeginInstallation, ResumeInstallation, ArmPoll, AwaitPoll
  <1>3. ASSUME NEW p \in Procs, PassStep(p)
        PROVE  UNCHANGED hand \/ ReadClock(p) \/ ConvergeOccurrence(p)
    BY <1>3 DEF PassStep, StartPass, Redeliver, TakeDue, EndPass, FireExpired, CheckSubject, FireDead
  <1>4. ASSUME NEW p \in Procs, Stopped(p) \/ Crash(p)
        PROVE  Forget(p)
    BY <1>4 DEF Stopped, Crash
  <1> QED
    BY <1>1, <1>2, <1>3, <1>4, Kinds DEF Next

LEMMA NextRechecked ==
    ASSUME IInv, ElapsedIsRechecked, [Next]_vars
    PROVE  ElapsedIsRechecked'
  <1>1. CASE UNCHANGED hand
    BY <1>1 DEF ElapsedIsRechecked
  <1>2. ASSUME NEW p \in Procs, Forget(p)
        PROVE  ElapsedIsRechecked'
    <2>1. HandlersKeepDecisions
      BY <1>2, Facts DEF Forget, HandlersKeepDecisions, TypeOK
    <2> QED
      BY <2>1, RecheckKept
  <1>3. ASSUME NEW p \in Procs, ReadClock(p) \/ ConvergeOccurrence(p)
        PROVE  ElapsedIsRechecked'
    BY <1>1, <1>3, Facts, DispatchedIdentity, DispatchRechecked
  <1>4. ASSUME NEW p \in Procs, NEW s \in ScheduleIDs, HandlerStep(p, s) \/ FailJob(p, s)
        PROVE  ElapsedIsRechecked'
    <2>1. CASE HandleDeadline(p, s) \/ HandleJob(p, s) \/ HandlePoll(p, s)
      BY <2>1, DecideRechecked
    <2>2. CASE Consume(p, s) \/ FailJob(p, s)
      <3>1. hand' = [hand EXCEPT ![p][s].stage = "done"]
        BY <2>2 DEF Consume, FailJob
      <3> QED
        BY <3>1, Facts, DoneRechecked
    <2>3. CASE ClearInFlight(p, s)
      <3>1. hand' = [hand EXCEPT ![p][s] = NoHandler]
        BY <2>3 DEF ClearInFlight
      <3> QED
        BY <3>1, Facts, RecheckReplaced DEF NoHandler, NoSchedule
    <2> QED
      BY <1>4, <2>1, <2>2, <2>3 DEF HandlerStep
  <1> QED
    BY <1>1, <1>2, <1>3, <1>4, HandSteps

\* A step goes on with a pass or a fire, or starts nothing.
Working == \E p \in Procs : \/ StartPass(p) \/ Redeliver(p) \/ TakeDue(p)
                            \/ ReadClock(p) \/ ConvergeOccurrence(p)

LEMMA NextQuiet ==
    ASSUME TypeOK, [Next]_vars, ~Working
    PROVE  RowsSettle /\ PassesGoOn /\ now' \in Nat /\ now <= now'
  <1>1. CASE UNCHANGED vars
    BY <1>1, RowsUnchanged DEF vars, PassesGoOn, Firing, TypeOK
  <1>2. CASE \/ DaemonBoot \/ StopOnError \/ \E p \in Clis : CliStep(p)
             \/ \E p \in Procs :
                  \/ EndPass(p) \/ CheckSubject(p) \/ FireExpired(p) \/ FireDead(p)
                  \/ \E s \in ScheduleIDs : HandlerStep(p, s) \/ FailJob(p, s)
                  \/ Stopped(p) \/ Crash(p)
    <2>1. RowsSettle /\ PassesGoOn /\ now' = now
      BY <1>2, StartsQuiet, PassQuiet, HandlerQuiet, StopsQuiet
    <2> QED
      BY <2>1 DEF TypeOK
  <1>3. CASE World
    BY <1>3, WorldQuiet
  <1> QED
    BY <1>1, <1>2, <1>3 DEF Next, PassStep, Working

LEMMA NextKept ==
    ASSUME IInv, Kept, [Next]_vars
    PROVE  Kept'
  <1>1. IInv'
    BY NextIInv
  <1>2. CASE Working
    BY <1>1, <1>2, StartPassKept, RedeliverKept, TakeDueKept, ReadClockKept, ConvergeOccurrenceKept
    DEF Working
  <1>3. CASE ~Working
    BY <1>3, Facts, NextQuiet, QuietStep
  <1> QED
    BY <1>2, <1>3

-----------------------------------------------------------------------------
(* Gaps.                                                                   *)

GapInv == FireGapIsExact /\ GapIsExact

\* A step that starts no fire's write half and keeps the gaps it finds: rows of
\* an ended generation are no longer counted, the others keep their interval.
LEMMA GapsKept ==
    ASSUME IInv, GapInv, RowMoves, DOMAIN occ' = DOMAIN occ,
           \A i \in DOMAIN occ : occ'[i].gap = occ[i].gap,
           \A p \in Procs : pc'[p] = "converge" =>
               pc[p] = "converge" /\ cur'[p] = cur[p] /\ scan'[p] = scan[p]
    PROVE  GapInv'
  <1>1. GapIsExact'
    <2> SUFFICES ASSUME NEW i \in DOMAIN occ, occ[i].gap # NoGap, sched'[i.s].gen = i.gen
                 PROVE  i.at - occ[i].gap.earliest = occ[i].gap.missed * sched'[i.s].interval
      BY DEF GapIsExact
    <2>1. i.s \in ScheduleIDs /\ i.gen \in Nat /\ i.gen <= sched[i.s].gen /\ sched[i.s].gen \in Nat
      BY Facts DEF Tables, OccurrenceShape, TypeOK, Identity, Schedule
    <2>2. sched[i.s].gen = i.gen /\ sched'[i.s].interval = sched[i.s].interval
      BY <2>1 DEF RowMoves
    <2> QED
      BY <2>2 DEF GapInv, GapIsExact
  <1>2. FireGapIsExact'
    <2> SUFFICES ASSUME NEW p \in Procs, pc[p] = "converge", cur[p].gap # NoGap,
                        cur'[p] = cur[p], scan'[p] = scan[p],
                        sched'[cur[p].s].gen = Snap(p).gen, sched'[cur[p].s].status = "armed"
                 PROVE  cur[p].at - cur[p].gap.earliest = cur[p].gap.missed * Snap(p).interval
      BY DEF FireGapIsExact, Snap
    <2>1. /\ cur[p].s \in ScheduleIDs /\ Copy(Snap(p), sched[cur[p].s], cur[p].s)
          /\ Snap(p).gen \in Nat /\ sched[cur[p].s].gen \in Nat
      BY FiringFacts DEF Firing, Schedule
    <2>2. sched'[cur[p].s] = sched[cur[p].s]
      BY <2>1 DEF RowMoves, Copy
    <2> QED
      BY <2>2 DEF GapInv, FireGapIsExact
  <1> QED
    BY <1>1, <1>2 DEF GapInv

LEMMA FurtherOn ==
    ASSUME NEW base \in Nat, NEW earliest \in Nat, NEW passed \in Nat, NEW before \in Nat,
           base - earliest = before
    PROVE  (base + passed) - earliest = passed + before
  OBVIOUS

\* latestNominal counts what it passes over, on top of the gap it is given.
LEMMA LatestIsExact ==
    ASSUME NEW base \in Nat, NEW gap \in Gap, NEW interval \in Nat \ {0}, NEW t \in Nat,
           gap # NoGap => base - gap.earliest = gap.missed * interval
    PROVE  LET l == Latest(base, gap, interval, t)
           IN  l.gap # NoGap => l.at - l.gap.earliest = l.gap.missed * interval
  <1> DEFINE k == IF t - base >= interval THEN (t - base) \div interval ELSE 0
             l == Latest(base, gap, interval, t)
  <1> SUFFICES l.gap # NoGap => l.at - l.gap.earliest = l.gap.missed * interval
    OBVIOUS
  <1>1. k \in Nat
    OBVIOUS
  <1>2. /\ l.at = base + k * interval
        /\ l.gap = IF k = 0 THEN gap
                   ELSE IF gap = NoGap THEN [missed |-> k, earliest |-> base]
                   ELSE [missed |-> k + gap.missed, earliest |-> gap.earliest]
    BY DEF Latest
  <1> HIDE DEF k, l
  <1> DEFINE passed == k * interval
  <1>6. passed \in Nat /\ l.at = base + passed
    BY <1>1, <1>2
  <1>3. CASE k = 0
    <2>1. passed = 0
      BY <1>3
    <2> HIDE DEF passed
    <2>2. l.at = base /\ l.gap = gap
      BY <1>2, <1>3, <1>6, <2>1
    <2> QED
      BY <2>2
  <1>4. CASE k # 0 /\ gap = NoGap
    <2>1. l.gap.missed = k /\ l.gap.earliest = base
      BY <1>2, <1>4
    <2>2. l.gap.missed * interval = passed
      BY <2>1
    <2> HIDE DEF passed
    <2> QED
      BY <1>6, <2>1, <2>2
  <1>5. CASE k # 0 /\ gap # NoGap
    <2>1. l.gap.missed = k + gap.missed /\ l.gap.earliest = gap.earliest
      BY <1>2, <1>5
    <2>2. gap.missed \in Nat /\ gap.earliest \in Nat
      BY DEF Gap
    <2> DEFINE before == gap.missed * interval
    <2>3. (k + gap.missed) * interval = passed + before /\ before \in Nat
      BY <1>1, <2>2
    <2>4. l.gap.missed * interval = passed + before
      BY <2>1, <2>3
    <2>5. base - gap.earliest = before
      BY <1>5
    <2> HIDE DEF passed, before
    <2>6. (base + passed) - gap.earliest = passed + before
      BY <1>6, <2>2, <2>3, <2>5, FurtherOn
    <2>7. l.at - l.gap.earliest = passed + before
      BY <1>6, <2>1, <2>6
    <2> QED
      BY <2>4, <2>7, Zenon
  <1> QED
    BY <1>3, <1>4, <1>5

\* A step of a pass or the end of a fire, with rows at most settled.
LEMMA PassGaps ==
    ASSUME IInv, GapInv, NEW p \in Procs, NEW label, label # "converge",
           pc' = pc \/ pc' = [pc EXCEPT ![p] = label], pc[p] # "converge" \/ pc' # pc,
           \A q \in Procs : q # p => cur'[q] = cur[q] /\ scan'[q] = scan[q],
           UNCHANGED sched, RowsSettle
    PROVE  GapInv'
  <1>1. RowMoves
    BY DEF RowMoves
  <1>2. \A q \in Procs : pc'[q] = "converge" =>
            pc[q] = "converge" /\ cur'[q] = cur[q] /\ scan'[q] = scan[q]
    BY Facts DEF TypeOK
  <1> QED
    BY <1>1, <1>2, GapsKept DEF RowsSettle

LEMMA TakeGaps ==
    ASSUME IInv, GapInv, NEW p \in Procs, StartPass(p) \/ Redeliver(p) \/ TakeDue(p)
    PROVE  GapInv'
  <1>1. /\ pc[p] \in {"idle", "pass"}
        /\ \E label \in {"pass", "fire"} : pc' = pc \/ pc' = [pc EXCEPT ![p] = label]
        /\ UNCHANGED sched
    BY DEF StartPass, Redeliver, TakeDue, GoTo, store
  <1>2. \A q \in Procs : q # p => cur'[q] = cur[q] /\ scan'[q] = scan[q]
    BY Facts DEF StartPass, Redeliver, TakeDue, TypeOK
  <1>3. occ' = occ \/ \E i : occ' = Settle(occ, {i}, "stale_generation")
    BY DEF StartPass, Redeliver, TakeDue, store
  <1>4. RowsSettle
    BY <1>3, Facts, RowsUnchanged, SettleQuiet DEF Outcomes
  <1> QED
    BY <1>1, <1>2, <1>4, PassGaps

LEMMA FireOverGaps ==
    ASSUME IInv, GapInv, NEW p \in Procs, Firing(p), UNCHANGED <<sched, occ>>,
           (FireOver(p) /\ UNCHANGED scan) \/ (\E cause : PassFails(p, cause))
    PROVE  GapInv'
  <1>1. /\ \E label \in {"pass", "stopping"} : pc' = [pc EXCEPT ![p] = label] /\ pc' # pc
        /\ \A q \in Procs : q # p => cur'[q] = cur[q] /\ scan'[q] = scan[q]
    BY Facts DEF FireOver, PassFails, GoTo, Firing, TypeOK
  <1> QED
    BY <1>1, RowsUnchanged, PassGaps

LEMMA ReadClockGaps ==
    ASSUME IInv, GapInv, NEW p \in Procs, ReadClock(p)
    PROVE  GapInv'
  <1> DEFINE s == cur[p].s
             sc == Snap(p)
             redel == cur[p].redel
             t == scan[p].now
             fired == IF s \in Deadlines
                      THEN [at |-> sc.fireAt, gap |-> NoGap]
                      ELSE IF redel # {}
                      THEN LET i == CHOOSE i \in redel : TRUE
                           IN  Latest(i.at, occ[i].gap, sc.interval, t)
                      ELSE Latest(timer[s].next, NoGap, sc.interval, t)
             id == [s |-> s, gen |-> sc.gen, at |-> fired.at]
  <1>0. pc[p] = "clock" /\ Firing(p) /\ UNCHANGED <<sched, occ>>
    BY DEF ReadClock, Firing, store
  <1>1. CASE redel = {} /\ s \in Recurring /\ timer[s] = NoTimer
    <2>1. PassFails(p, "no_timer")
      BY <1>1 DEF ReadClock
    <2> QED
      BY <1>0, <2>1, FireOverGaps
  <1>2. CASE /\ ~(redel = {} /\ s \in Recurring /\ timer[s] = NoTimer)
             /\ \/ redel = {} /\ s \in Recurring /\ ClockStale(s, sc, t)
                \/ id \in redel
    <2>1. FireOver(p) /\ UNCHANGED scan
      BY <1>2 DEF ReadClock, Dispatch
    <2> QED
      BY <1>0, <2>1, FireOverGaps
  <1>3. CASE /\ ~(redel = {} /\ s \in Recurring /\ timer[s] = NoTimer)
             /\ ~(redel = {} /\ s \in Recurring /\ ClockStale(s, sc, t))
             /\ id \notin redel
    <2>1. /\ pc' = [pc EXCEPT ![p] = "converge"]
          /\ cur' = [cur EXCEPT ![p].at = fired.at, ![p].gap = fired.gap]
          /\ UNCHANGED scan
      BY <1>3 DEF ReadClock, GoTo
    <2>2. /\ s \in ScheduleIDs /\ Copy(sc, sched[s], s) /\ sc \in Schedule
          /\ redel \subseteq Identity /\ redel \subseteq DOMAIN occ
          /\ \A i \in redel : i.s = s /\ i.gen = sc.gen
      BY <1>0, FiringFacts
    <2>3. (sched[s].gen = sc.gen /\ sched[s].status = "armed" /\ fired.gap # NoGap) =>
             fired.at - fired.gap.earliest = fired.gap.missed * sc.interval
      <3> SUFFICES ASSUME sched[s].gen = sc.gen, sched[s].status = "armed", fired.gap # NoGap
                   PROVE  fired.at - fired.gap.earliest = fired.gap.missed * sc.interval
        OBVIOUS
      <3>1. s \in Recurring
        BY <2>2, Kinds
      <3>2. sc.interval \in Nat \ {0} /\ t \in Nat /\ sched[s].interval = sc.interval
        BY SMTT(30), <2>2, <3>1, Facts DEF Copy, Schedule, TypeOK, Scan
      <3>3. CASE redel # {}
        <4> DEFINE i == CHOOSE i \in redel : TRUE
        <4>1. i \in redel
          BY <3>3
        <4>2. i \in DOMAIN occ /\ i.at \in Nat /\ i.s = s /\ i.gen = sc.gen /\ occ[i].gap \in Gap
          BY <2>2, <4>1, Facts DEF Identity, TypeOK, Occurrence
        <4>3. occ[i].gap # NoGap => i.at - occ[i].gap.earliest = occ[i].gap.missed * sc.interval
          BY <3>2, <4>2 DEF GapInv, GapIsExact
        <4>4. fired = Latest(i.at, occ[i].gap, sc.interval, t)
          BY <3>1, <3>3, Kinds
        <4> HIDE DEF i, sc, redel, s, fired, t
        <4> QED
          BY <3>2, <4>2, <4>3, <4>4, LatestIsExact
      <3>4. CASE redel = {}
        <4>1. timer[s].next \in Nat /\ NoGap \in Gap
          BY <2>2, Facts DEF TypeOK, Timer, NoGap, Gap
        <4>2. fired = Latest(timer[s].next, NoGap, sc.interval, t)
          BY <3>1, <3>4, Kinds
        <4> HIDE DEF sc, redel, s, fired, t
        <4> QED
          BY <3>2, <4>1, <4>2, LatestIsExact
      <3> QED
        BY <3>3, <3>4
    <2> HIDE DEF fired
    <2>4. /\ \A q \in Procs : q # p => pc'[q] = pc[q] /\ cur'[q] = cur[q]
          /\ cur'[p].s = s /\ cur'[p].at = fired.at /\ cur'[p].gap = fired.gap
      BY ZenonT(60), <2>1, Facts DEF TypeOK, Fire
    <2>5. FireGapIsExact'
      <3> SUFFICES ASSUME NEW q \in Procs, pc'[q] = "converge", cur'[q].gap # NoGap,
                          sched[cur'[q].s].gen = scan[q].snap[cur'[q].s].gen,
                          sched[cur'[q].s].status = "armed"
                   PROVE  cur'[q].at - cur'[q].gap.earliest =
                             cur'[q].gap.missed * scan[q].snap[cur'[q].s].interval
        BY <1>0, <2>1 DEF FireGapIsExact, Snap
      <3>1. CASE q = p
        BY <2>3, <2>4, <3>1 DEF Snap
      <3>2. CASE q # p
        BY <2>4, <3>2 DEF GapInv, FireGapIsExact, Snap
      <3> QED
        BY <3>1, <3>2
    <2> QED
      BY <1>0, <2>5 DEF GapInv, GapIsExact
  <1> QED
    BY <1>1, <1>2, <1>3

\* The write half finds the armed generation the fire validated, or nothing to do.
LEMMA ConvergeIsLive ==
    ASSUME IInv, NEW p \in Procs, pc[p] = "converge",
           ~(cur[p].s \in Recurring /\ ClockStale(cur[p].s, Snap(p), scan[p].now))
    PROVE  sched[cur[p].s] = Snap(p) /\ Snap(p).status = "armed"
  <1> DEFINE s == cur[p].s
  <1>1. /\ s \in Registered(p) /\ s \in ScheduleIDs /\ Copy(Snap(p), sched[s], s)
        /\ Snap(p) \in Schedule
    BY FiringFacts DEF Firing
  <1>2. CASE s \in Recurring
    <2>1. timer[s].gen = Snap(p).gen
      BY <1>2 DEF ClockStale
    <2>2. timer[s] # NoTimer
      BY <1>1, <2>1 DEF Copy, NoTimer, Schedule
    <2> QED
      BY <1>1, <1>2, <2>1, <2>2, Facts DEF Tables, ClockFollowsSchedule, Copy
  <1>3. CASE s \in Deadlines
    <2>1. p = Daemon /\ cur[p].redel = {}
      BY <1>1, <1>3, Kinds DEF IInv, FireShape, Firing
    <2> QED
      BY <1>1, <1>3, <2>1 DEF IInv, DueDeadlineIsFresh, Copy, Snap, Firing
  <1> QED
    BY <1>1, <1>2, <1>3, Kinds

LEMMA ConvergeGaps ==
    ASSUME IInv, GapInv, NEW p \in Procs, ConvergeOccurrence(p)
    PROVE  GapInv'
  <1> DEFINE s == cur[p].s
             sc == Snap(p)
             id == [s |-> s, gen |-> sc.gen, at |-> cur[p].at]
             ledger == Supersede(cur[p].redel, id, cur[p].gap)
  <1>0. pc[p] = "converge" /\ Firing(p) /\ UNCHANGED <<now, sched, scan>> /\ FireOver(p)
    BY DEF ConvergeOccurrence, Firing, Dispatch
  <1>1. CASE occ' = occ
    BY <1>0, <1>1, FireOverGaps
  <1>2. CASE ~(s \in Recurring /\ ClockStale(s, sc, scan[p].now)) /\ occ' = ledger
    <2>1. sched[s] = sc /\ sc.status = "armed"
      BY <1>0, <1>2, ConvergeIsLive
    <2>2. id.s = s /\ id.at = cur[p].at
      OBVIOUS
    <2>3. cur[p].gap # NoGap => id.at - cur[p].gap.earliest = cur[p].gap.missed * sched[s].interval
      BY <1>0, <2>1, <2>2 DEF GapInv, FireGapIsExact
    <2>4. DOMAIN occ' = DOMAIN occ \cup {id}
          /\ \A i \in DOMAIN occ' :
               \/ i \in DOMAIN occ /\ occ'[i].gap = occ[i].gap
               \/ i = id /\ occ'[i].gap = cur[p].gap
      <3> DEFINE before == Settle(occ, cur[p].redel, "coalesced")
      <3>1. occ \in [DOMAIN occ -> Occurrence]
        BY Facts DEF TypeOK
      <3>2. DOMAIN before = DOMAIN occ /\ \A i \in DOMAIN occ : before[i].gap = occ[i].gap
        BY <3>1 DEF Settle, Occurrence
      <3> HIDE DEF before, id
      <3>3. ledger = [i \in DOMAIN occ \cup {id} |->
                        IF i \in DOMAIN occ THEN before[i]
                        ELSE [outcome |-> "pending", gap |-> cur[p].gap]]
        BY <3>2 DEF Supersede, CreatePending, before
      <3> QED
        BY <1>2, <3>2, <3>3
    <2> HIDE DEF id
    <2>5. GapIsExact'
      BY <1>0, <2>2, <2>3, <2>4 DEF GapInv, GapIsExact
    <2>6. FireGapIsExact'
      <3>1. \A q \in Procs : pc'[q] = "converge" =>
              pc[q] = "converge" /\ cur'[q] = cur[q] /\ scan'[q] = scan[q]
        BY <1>0, Facts DEF FireOver, GoTo, TypeOK
      <3> QED
        BY <1>0, <3>1 DEF GapInv, FireGapIsExact, Snap
    <2> QED
      BY <2>5, <2>6 DEF GapInv
  <1> QED
    BY <1>1, <1>2 DEF ConvergeOccurrence

LEMMA NextGaps ==
    ASSUME IInv, OrderInv, [Next]_vars
    PROVE  GapInv'
  <1>0. GapInv
    BY DEF OrderInv, GapInv
  <1>1. CASE Working
    BY <1>0, <1>1, TakeGaps, ReadClockGaps, ConvergeGaps DEF Working
  <1>2. CASE ~Working
    <2>1. RowsSettle /\ PassesGoOn /\ RowMoves
      BY <1>2, Facts, NextQuiet, NextRows DEF RowStep
    <2> QED
      BY <1>0, <2>1, GapsKept DEF RowsSettle, PassesGoOn, Firing
  <1> QED
    BY <1>1, <1>2

-----------------------------------------------------------------------------
(* The invariant and what it gives.                                        *)

LEMMA InitOrder ==
    ASSUME Init
    PROVE  OrderInv
  <1>1. PassInThePast
    BY DEF Init, PassInThePast, NoScan, Firing
  <1>2. DaemonSeesPending
    BY Kinds DEF Init, DaemonSeesPending, NoScan, Firing
  <1>3. ElapsedIsRechecked
    BY DEF Init, ElapsedIsRechecked, NoHandler, NoSchedule
  <1>4. NoEarlyOccurrence /\ OneToDeliver
    BY DEF Init, NoEarlyOccurrence, OneToDeliver
  <1>5. FireGapIsExact /\ GapIsExact
    BY DEF Init, FireGapIsExact, GapIsExact
  <1> QED
    BY <1>1, <1>2, <1>3, <1>4, <1>5 DEF OrderInv

\* Both invariants hold in every reachable state.
THEOREM OrderInvariance == Spec => [](IInv /\ OrderInv)
  <1>1. Init => IInv /\ OrderInv
    BY InitIInv, InitOrder
  <1>2. IInv /\ OrderInv /\ [Next]_vars => (IInv /\ OrderInv)'
    BY NextIInv, NextKept, NextRechecked, NextGaps DEF OrderInv, Kept, GapInv
  <1> QED
    BY <1>1, <1>2, PTL DEF Spec

\* convergeOccurrence never writes an occurrence ahead of its nominal instant,
\* whatever another process did to the shared clock since the pass read it.
THEOREM NothingEarly == Spec => []NoEarlyOccurrence
  <1>1. IInv /\ OrderInv => NoEarlyOccurrence
    BY DEF OrderInv
  <1> QED
    BY <1>1, OrderInvariance, PTL

\* A schedule only the daemon drives has at most one occurrence to deliver: the
\* redelivery half of a pass takes it before the due half can add another.
THEOREM OneOutstanding == Spec => []OneToDeliver
  <1>1. IInv /\ OrderInv => OneToDeliver
    BY DEF OrderInv
  <1> QED
    BY <1>1, OrderInvariance, PTL

\* latestNominal's count of missed fires is exact, however often an occurrence
\* is folded into a later one and whichever process folds it.
THEOREM GapsExact == Spec => []GapIsExact
  <1>1. IInv /\ OrderInv => GapIsExact
    BY DEF OrderInv
  <1> QED
    BY <1>1, OrderInvariance, PTL

\* No re-arm, conclusion or consumption moves the instant of a deadline.
THEOREM NeverPostponed == Spec => DeadlineNeverPostponed
  <1>1. (IInv /\ OrderInv) /\ [Next]_vars =>
          [\A s \in Deadlines :
             sched[s] # NoSchedule => sched'[s].fireAt = sched[s].fireAt]_vars
    BY NextRows DEF RowStep, KeepsInstant
  <1> QED
    BY <1>1, OrderInvariance, PTL DEF Spec, DeadlineNeverPostponed

\* A deadline is recorded as elapsed only while its item is open at the bound
\* version, past its instant, and together with its occurrence.
THEOREM ElapsedOnOpenItem == Spec => DeadlineElapsedOnOpenItem
  <1>1. (IInv /\ OrderInv) /\ [Next]_vars =>
          [\A s \in Deadlines :
             (sched[s].status # "fired" /\ sched'[s].status = "fired") =>
                /\ subject[s].live /\ subject[s].ver = sched[s].ver
                /\ sched[s].fireAt <= now
                /\ \E i \in DOMAIN occ :
                     i.s = s /\ Pending(i) /\ occ'[i].outcome = "handled"]_vars
    BY NextRows DEF RowStep, ElapsesOpen
  <1> QED
    BY <1>1, OrderInvariance, PTL DEF Spec, DeadlineElapsedOnOpenItem
=============================================================================
