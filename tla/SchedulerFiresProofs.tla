------------------------ MODULE SchedulerFiresProofs ------------------------
(***************************************************************************)
(* No nominal fire of a recurring schedule is lost, for any number of      *)
(* schedules, scheduler processes and faults: FireInv is inductive beside  *)
(* IInv and OrderInv.  The argument: the clock only moves to the instant   *)
(* after an occurrence just written, and that occurrence answers for every *)
(* instant the clock passes and for all that the fire folds away.          *)
(* From the same invariants: every transaction is a step of the contract   *)
(* of one schedule, or none; an outcome is final, a permanent job stays    *)
(* armed, and a missing clock is reported of a raced poll alone.           *)
(***************************************************************************)
EXTENDS SchedulerOrderProofs

-----------------------------------------------------------------------------
(* Nominal instants.                                                       *)

LEMMA Quotient ==
    ASSUME NEW m \in Nat \ {0}, NEW a \in Nat, a % m = 0
    PROVE  \E q \in Nat : a = q * m
  <1>1. (a \div m) \in Nat
    OBVIOUS
  <1>2. a = m * (a \div m)
    OBVIOUS
  <1>3. a = (a \div m) * m
    BY <1>1, <1>2
  <1> QED
    BY <1>1, <1>3

LEMMA Multiple ==
    ASSUME NEW m \in Nat \ {0}, NEW q \in Nat
    PROVE  (q * m) % m = 0
  OBVIOUS

\* Going on by whole intervals stays nominal.
LEMMA NominalOnward ==
    ASSUME NEW s, firstFire[s] \in Nat, sched[s].interval \in Nat \ {0},
           NEW a \in Nat, Nominal(s, a), NEW k \in Nat
    PROVE  a + k * sched[s].interval \in Nat /\ Nominal(s, a + k * sched[s].interval)
  <1> DEFINE m == sched[s].interval
             first == firstFire[s]
  <1>1. m \in Nat \ {0} /\ first \in Nat /\ first <= a /\ (a - first) % m = 0
    BY DEF Nominal
  <1>2. a - first \in Nat
    BY <1>1
  <1>3. PICK q \in Nat : a - first = q * m
    BY <1>1, <1>2, Quotient
  <1>4. (q + k) * m = q * m + k * m /\ q * m \in Nat /\ k * m \in Nat
    BY <1>1
  <1>5. a + k * m \in Nat /\ (a + k * m) - first = (q + k) * m /\ first <= a + k * m
    BY <1>1, <1>2, <1>3, <1>4
  <1>6. ((q + k) * m) % m = 0
    BY <1>1, Multiple
  <1> QED
    BY <1>5, <1>6 DEF Nominal

\* Two nominal instants are an interval apart.
LEMMA NominalApart ==
    ASSUME NEW s, firstFire[s] \in Nat, sched[s].interval \in Nat \ {0},
           NEW a \in Nat, NEW b \in Nat, Nominal(s, a), Nominal(s, b), a < b
    PROVE  a + sched[s].interval <= b
  <1> DEFINE m == sched[s].interval
             first == firstFire[s]
  <1>1. /\ m \in Nat \ {0} /\ first \in Nat /\ first <= a /\ first <= b
        /\ (a - first) % m = 0 /\ (b - first) % m = 0
    BY DEF Nominal
  <1>2. a - first \in Nat /\ b - first \in Nat
    BY <1>1
  <1>3. PICK q \in Nat : a - first = q * m
    BY <1>1, <1>2, Quotient
  <1>4. PICK r \in Nat : b - first = r * m
    BY <1>1, <1>2, Quotient
  <1>5. q * m < r * m /\ q * m \in Nat /\ r * m \in Nat
    BY <1>1, <1>3, <1>4
  <1>6. q < r
    BY <1>1, <1>5
  <1>7. (q + 1) * m <= r * m
    BY <1>1, <1>6
  <1>8. q * m + m <= r * m
    BY <1>1, <1>7
  <1> HIDE DEF m, first
  <1>9. a + m <= b
    BY <1>1, <1>3, <1>4, <1>5, <1>8
  <1> QED
    BY <1>9 DEF m

\* What latestNominal returns, seen from its base.
LEMMA LatestFrom ==
    ASSUME NEW base \in Nat, NEW gap \in Gap, NEW interval \in Nat \ {0}, NEW t \in Nat
    PROVE  LET l == Latest(base, gap, interval, t) IN
           \E k \in Nat :
             /\ l.at = base + k * interval
             /\ t < l.at + interval
             /\ k = 0 => l.gap = gap
             /\ k # 0 => /\ l.gap # NoGap
                         /\ l.gap.earliest = IF gap = NoGap THEN base ELSE gap.earliest
  <1> DEFINE k == IF t - base >= interval THEN (t - base) \div interval ELSE 0
             l == Latest(base, gap, interval, t)
  <1> SUFFICES /\ k \in Nat
               /\ l.at = base + k * interval
               /\ t < l.at + interval
               /\ k = 0 => l.gap = gap
               /\ k # 0 => /\ l.gap # NoGap
                           /\ l.gap.earliest = IF gap = NoGap THEN base ELSE gap.earliest
    OBVIOUS
  <1>1. k \in Nat
    OBVIOUS
  <1>2. /\ l.at = base + k * interval
        /\ l.gap = IF k = 0 THEN gap
                   ELSE IF gap = NoGap THEN [missed |-> k, earliest |-> base]
                   ELSE [missed |-> k + gap.missed, earliest |-> gap.earliest]
    BY DEF Latest
  <1>3. t < l.at + interval
    <2>1. CASE t - base >= interval
      <3> DEFINE a == t - base
      <3>1. a \in Nat /\ k = a \div interval
        BY <2>1
      <3> HIDE DEF a, k, l
      <3>2. a < interval * k + interval
        BY <3>1
      <3>3. k * interval = interval * k /\ interval * k \in Nat
        BY <1>1
      <3>4. t = base + a
        BY <3>1 DEF a
      <3> QED
        BY <1>2, <3>1, <3>2, <3>3, <3>4
    <2>2. CASE ~(t - base >= interval)
      <3>1. k = 0
        BY <2>2
      <3>2. k * interval = 0
        BY <3>1
      <3> HIDE DEF k, l
      <3> QED
        BY <1>2, <2>2, <3>2
    <2> QED
      BY <2>1, <2>2
  <1> HIDE DEF k, l
  <1>4. ASSUME k # 0
        PROVE  l.gap # NoGap /\ l.gap.earliest = IF gap = NoGap THEN base ELSE gap.earliest
    <2>1. l.gap.missed = k \/ (l.gap.missed = k + gap.missed /\ gap.missed \in Nat)
      BY <1>2, <1>4 DEF Gap
    <2>2. l.gap.missed # 0
      BY <1>1, <1>4, <2>1
    <2> QED
      BY <1>2, <1>4, <2>2 DEF NoGap
  <1> QED
    BY <1>1, <1>2, <1>3, <1>4

-----------------------------------------------------------------------------
(* Steps that write no occurrence.                                         *)

\* Rows are at most settled, and none is folded away.
RowsStay ==
    /\ DOMAIN occ' = DOMAIN occ
    /\ \A i \in DOMAIN occ :
          /\ occ'[i].gap = occ[i].gap
          /\ occ'[i].outcome = "coalesced" => occ[i].outcome = "coalesced"

\* A recurring schedule that is armed afterwards keeps its clock, or starts a
\* generation with it.
ClocksStay ==
    \A s \in Recurring : sched'[s].status = "armed" =>
        \/ sched'[s] = sched[s] /\ firstFire'[s] = firstFire[s] /\ timer'[s] = timer[s]
        \/ sched'[s].gen = sched[s].gen + 1 /\ firstFire'[s] = timer'[s].next

\* No fire comes to its write half.
FiresStay ==
    \A p \in Procs : pc'[p] = "converge" =>
        pc[p] = "converge" /\ cur'[p] = cur[p] /\ scan'[p] = scan[p]

\* The types and shapes the lemmas below start from.
LEMMA RecurringFacts ==
    ASSUME IInv, NEW s \in Recurring
    PROVE  /\ s \in ScheduleIDs /\ sched[s] \in Schedule /\ sched[s].gen \in Nat
           /\ firstFire[s] \in Nat /\ timer[s].next \in Nat
           /\ sched[s].status = "armed" =>
                 sched[s].interval \in Nat \ {0} /\ timer[s].gen = sched[s].gen
           /\ \A i \in DOMAIN occ : i.s = s => i.at \in Nat /\ i.gen \in Nat /\ i.gen <= sched[s].gen
  <1>1. /\ s \in ScheduleIDs /\ sched[s] \in Schedule /\ sched[s].gen \in Nat
        /\ firstFire[s] \in Nat /\ timer[s].next \in Nat
    BY Facts, Kinds DEF TypeOK, Schedule, Timer
  <1>2. sched[s].status = "armed" => sched[s].interval \in Nat \ {0} /\ timer[s].gen = sched[s].gen
    <2>1. sched[s].status = "armed" => sched[s].gen > 0
      BY <1>1, Facts DEF Tables, ScheduleShape
    <2> QED
      BY <1>1, <2>1, Facts DEF Tables, ScheduleShape, ClockFollowsSchedule, Schedule
  <1>3. \A i \in DOMAIN occ : i.s = s => i.at \in Nat /\ i.gen \in Nat /\ i.gen <= sched[s].gen
    BY Facts DEF TypeOK, Identity, Tables, OccurrenceShape
  <1> QED
    BY <1>1, <1>2, <1>3

LEMMA LeadsKept ==
    ASSUME IInv, IInv', ClockLeads, RowsStay, ClocksStay
    PROVE  ClockLeads'
  <1> SUFFICES ASSUME NEW s \in Recurring, sched'[s].status = "armed"
               PROVE  /\ Nominal(s, timer[s].next)'
                      /\ \A i \in DOMAIN occ : (i.s = s /\ i.gen = sched'[s].gen) =>
                            Nominal(s, i.at)' /\ i.at < timer'[s].next
    BY DEF ClockLeads, RowsStay
  <1>1. CASE sched'[s] = sched[s] /\ firstFire'[s] = firstFire[s] /\ timer'[s] = timer[s]
    BY <1>1 DEF ClockLeads, Nominal
  <1>2. CASE sched'[s].gen = sched[s].gen + 1 /\ firstFire'[s] = timer'[s].next
    <2>1. \A i \in DOMAIN occ : i.s = s => i.gen # sched'[s].gen
      BY <1>2, RecurringFacts
    <2>2. s \in ScheduleIDs /\ timer'[s].next \in Nat /\ sched'[s] \in Schedule
      BY Kinds DEF IInv, TypeOK, Timer
    <2>3. sched'[s].interval \in Nat \ {0}
      <3>1. sched'[s].gen > 0 /\ sched'[s].interval \in Nat
        BY <1>2, <2>2, RecurringFacts DEF Schedule
      <3> QED
        BY <2>2, <3>1 DEF IInv, ScheduleShape
    <2>4. (timer'[s].next - firstFire'[s]) % sched'[s].interval = 0
      BY <1>2, <2>2, <2>3
    <2> QED
      BY <1>2, <2>1, <2>2, <2>4 DEF Nominal
  <1> QED
    BY <1>1, <1>2 DEF ClocksStay

LEMMA LostKept ==
    ASSUME IInv, IInv', NoFireLost, RowsStay, ClocksStay
    PROVE  NoFireLost'
  <1> SUFFICES ASSUME NEW s \in Recurring, sched'[s].status = "armed",
                      NEW n \in firstFire'[s] .. (timer'[s].next - 1),
                      (n - firstFire'[s]) % sched'[s].interval = 0
               PROVE  \E i \in DOMAIN occ :
                        /\ i.s = s /\ i.gen = sched'[s].gen
                        /\ occ'[i].outcome # "coalesced"
                        /\ \/ i.at = n
                           \/ occ'[i].gap # NoGap /\ occ'[i].gap.earliest <= n /\ n < i.at
    BY DEF NoFireLost, RowsStay
  <1>1. CASE sched'[s] = sched[s] /\ firstFire'[s] = firstFire[s] /\ timer'[s] = timer[s]
    BY <1>1 DEF NoFireLost, RowsStay
  <1>2. CASE firstFire'[s] = timer'[s].next
    <2>1. timer'[s].next \in Nat
      BY Kinds DEF IInv, TypeOK, Timer
    <2> QED
      BY <1>2, <2>1
  <1> QED
    BY <1>1, <1>2 DEF ClocksStay

LEMMA FoldsKept ==
    ASSUME IInv, FireFolds, RowsStay, ClocksStay, FiresStay
    PROVE  FireFolds'
  <1> SUFFICES ASSUME NEW p \in Procs, pc'[p] = "converge", cur'[p].s \in Recurring,
                      sched'[cur'[p].s].status = "armed",
                      sched'[cur'[p].s].gen = scan'[p].snap[cur'[p].s].gen
               PROVE  /\ firstFire'[cur'[p].s] <= cur'[p].at
                      /\ (cur'[p].at - firstFire'[cur'[p].s]) % sched'[cur'[p].s].interval = 0
                      /\ scan'[p].now < cur'[p].at + scan'[p].snap[cur'[p].s].interval
                      /\ IF cur'[p].gap = NoGap
                         THEN cur'[p].redel = {} /\ cur'[p].at <= timer'[cur'[p].s].next
                         ELSE /\ cur'[p].gap.earliest <= timer'[cur'[p].s].next
                              /\ \A i \in cur'[p].redel :
                                    /\ cur'[p].gap.earliest <= i.at
                                    /\ occ'[i].gap # NoGap => cur'[p].gap.earliest <= occ'[i].gap.earliest
    BY DEF FireFolds, Snap, Live, Nominal
  <1> SUFFICES ASSUME pc[p] = "converge", cur'[p] = cur[p], scan'[p] = scan[p],
                      cur[p].s \in Recurring,
                      sched'[cur[p].s].status = "armed", sched'[cur[p].s].gen = Snap(p).gen
               PROVE  LET s == cur[p].s IN
                      /\ firstFire'[s] <= cur[p].at
                      /\ (cur[p].at - firstFire'[s]) % sched'[s].interval = 0
                      /\ scan[p].now < cur[p].at + Snap(p).interval
                      /\ IF cur[p].gap = NoGap
                         THEN cur[p].redel = {} /\ cur[p].at <= timer'[s].next
                         ELSE /\ cur[p].gap.earliest <= timer'[s].next
                              /\ \A i \in cur[p].redel :
                                    /\ cur[p].gap.earliest <= i.at
                                    /\ occ'[i].gap # NoGap => cur[p].gap.earliest <= occ'[i].gap.earliest
    BY DEF FiresStay, Snap
  <1> DEFINE s == cur[p].s
  <1>1. /\ Copy(Snap(p), sched[s], s) /\ Snap(p) \in Schedule
        /\ cur[p].redel \subseteq DOMAIN occ
    BY FiringFacts DEF Firing
  <1>2. sched[s].gen \in Nat /\ Snap(p).gen \in Nat
    BY <1>1, RecurringFacts DEF Schedule
  <1>3. sched'[s] = sched[s] /\ firstFire'[s] = firstFire[s] /\ timer'[s] = timer[s]
    BY <1>1, <1>2 DEF ClocksStay, Copy
  <1>4. Live(s, Snap(p).gen)
    BY <1>3 DEF Live
  <1>5. /\ Nominal(s, cur[p].at)
        /\ scan[p].now < cur[p].at + Snap(p).interval
        /\ IF cur[p].gap = NoGap
           THEN cur[p].redel = {} /\ cur[p].at <= timer[s].next
           ELSE /\ cur[p].gap.earliest <= timer[s].next
                /\ \A i \in cur[p].redel :
                      /\ cur[p].gap.earliest <= i.at
                      /\ occ[i].gap # NoGap => cur[p].gap.earliest <= occ[i].gap.earliest
    BY <1>4 DEF FireFolds
  <1>6. \A i \in cur[p].redel : occ'[i].gap = occ[i].gap
    BY <1>1 DEF RowsStay
  <1> HIDE DEF s
  <1>7. firstFire'[s] <= cur[p].at /\ (cur[p].at - firstFire'[s]) % sched'[s].interval = 0
    BY <1>3, <1>5 DEF Nominal
  <1> QED
    BY <1>3, <1>5, <1>6, <1>7 DEF s

LEMMA TablesStay ==
    ASSUME UNCHANGED <<sched, timer, occ, firstFire>>
    PROVE  RowsStay /\ ClocksStay
  BY DEF RowsStay, ClocksStay

LEMMA SettleStays ==
    ASSUME TypeOK, NEW ids, NEW outcome \in Outcomes \ {"coalesced"}, occ' = Settle(occ, ids, outcome)
    PROVE  RowsStay
  <1>1. occ \in [DOMAIN occ -> Occurrence]
    BY DEF TypeOK
  <1> QED
    BY <1>1 DEF Settle, Occurrence, RowsStay

LEMMA SettlePendingStays ==
    ASSUME TypeOK, NEW s, NEW outcome \in Outcomes \ {"coalesced"},
           occ' = SettlePending(occ, s, outcome)
    PROVE  RowsStay
  BY SettleStays DEF SettlePending

LEMMA ArmingStays ==
    ASSUME IInv, (\E s \in Jobs : ArmJob(s)) \/ (\E p \in Clis : ArmPoll(p))
    PROVE  RowsStay /\ ClocksStay
  <1>1. \E s \in Recurring, ver \in Nat : \E interval, expires, first :
          Converge(s, ver, interval, expires, first)
    <2>1. CASE \E s \in Jobs : ArmJob(s)
      BY <2>1, Kinds DEF ArmJob
    <2>2. CASE \E p \in Clis : ArmPoll(p)
      BY <2>2, Facts, Kinds DEF ArmPoll, BootShape, TypeOK, Boot
    <2> QED
      BY <2>1, <2>2
  <1>2. PICK s \in Recurring, ver \in Nat : \E interval, expires, first :
          Converge(s, ver, interval, expires, first)
    BY <1>1
  <1>3. PICK interval, expires, first : Converge(s, ver, interval, expires, first)
    BY <1>2
  <1> DEFINE old == sched[s]
             mid == ReArmed(old, ver)
             new == [mid EXCEPT !.interval = interval, !.expires = expires]
             clock == [gen |-> new.gen, next |-> first]
             same == old.status = "armed" /\ old.ver = ver /\ old.interval = interval
                       /\ old.expires = expires
  <1>4. s \in ScheduleIDs /\ old \in Schedule
    BY RecurringFacts
  <1>5. CASE same
    <2>1. timer[s] # NoTimer
      BY <1>4, <1>5, RecurringFacts, Facts DEF Tables, ScheduleShape, NoTimer
    <2>2. UNCHANGED <<sched, occ, firstFire>> /\ timer' = [timer EXCEPT ![s] = timer[s]]
      BY <1>3, <1>5, <2>1 DEF Converge
    <2>3. timer' = timer
      BY <2>2, Facts DEF TypeOK
    <2> QED
      BY <2>2, <2>3, TablesStay
  <1>6. CASE ~same
    <2>1. mid \in Schedule /\ mid.gen = old.gen + 1
      BY <1>4, ReArmedRow
    <2>2. /\ sched' = [sched EXCEPT ![s] = new]
          /\ occ' = SettlePending(occ, s, "stale_generation")
          /\ timer' = [timer EXCEPT ![s] = clock]
          /\ firstFire' = [firstFire EXCEPT ![s] = first]
      BY <1>3, <1>6 DEF Converge
    <2>3. clock.next = first
      OBVIOUS
    <2> HIDE DEF mid, clock
    <2>4. new.gen = old.gen + 1
      BY <2>1 DEF Schedule
    <2> HIDE DEF new
    <2>5. RowsStay
      BY <2>2, Facts, SettlePendingStays DEF Outcomes
    <2>6. sched'[s] = new /\ timer'[s] = clock /\ firstFire'[s] = first
      BY <1>4, <2>2, Facts DEF TypeOK
    <2>7. \A r \in ScheduleIDs : r # s =>
            sched'[r] = sched[r] /\ timer'[r] = timer[r] /\ firstFire'[r] = firstFire[r]
      BY <2>2, Facts DEF TypeOK
    <2> QED
      BY <2>3, <2>4, <2>5, <2>6, <2>7, Kinds DEF ClocksStay
  <1> QED
    BY <1>5, <1>6

\* A row that is written without its clock is not a recurring armed one.
LEMMA EndedStays ==
    ASSUME IInv, NEW s \in ScheduleIDs, NEW new,
           new.status # "armed" \/ s \in Deadlines,
           sched' = [sched EXCEPT ![s] = new], UNCHANGED firstFire,
           timer' = timer \/ timer' = [timer EXCEPT ![s] = NoTimer]
    PROVE  ClocksStay
  <1>1. sched'[s] = new /\ \A r \in ScheduleIDs : r # s => sched'[r] = sched[r] /\ timer'[r] = timer[r]
    BY Facts DEF TypeOK
  <1> QED
    BY <1>1, Kinds DEF ClocksStay

LEMMA ConcludeStays ==
    ASSUME IInv, NEW p \in Procs, FireExpired(p) \/ FireDead(p)
    PROVE  RowsStay /\ ClocksStay
  <1>1. Firing(p) /\ \E end \in {"resolved", "expired"} : ConcludeFire(p, end)
    BY DEF FireExpired, FireDead, Firing
  <1>2. PICK end \in {"resolved", "expired"} : ConcludeFire(p, end)
    BY <1>1
  <1> DEFINE s == cur[p].s
             new == Concluded(Snap(p), end)
  <1>3. s \in ScheduleIDs /\ Snap(p) \in Schedule
    BY <1>1, FiringFacts
  <1>4. CASE UNCHANGED store
    BY <1>4, TablesStay DEF store
  <1>5. CASE /\ sched' = [sched EXCEPT ![s] = new]
             /\ timer' = [timer EXCEPT ![s] = NoTimer]
             /\ occ' = SettlePending(occ, s, "condition_no_longer_applies")
             /\ UNCHANGED firstFire
    <2>1. new.status # "armed"
      BY <1>3 DEF Concluded, Schedule
    <2>2. RowsStay
      BY <1>5, Facts, SettlePendingStays DEF Outcomes
    <2> HIDE DEF new, s
    <2> QED
      BY <1>3, <1>5, <2>1, <2>2, EndedStays
  <1> QED
    BY <1>2, <1>4, <1>5 DEF ConcludeFire

LEMMA ConsumeStays ==
    ASSUME IInv, HandlersNeverFold, NEW p \in Procs, NEW s \in ScheduleIDs, Consume(p, s)
    PROVE  RowsStay /\ ClocksStay
  <1> DEFINE h == hand[p][s]
             rest == IF h.put.status = "armed"
                     THEN "stale_generation" ELSE "condition_no_longer_applies"
             mid == Settle(occ, h.id, h.outcome)
  <1>1. /\ h.stage # "idle" /\ h.sc \in Schedule /\ h.put \in Schedule
        /\ h.outcome \in Outcomes \ {"coalesced"} /\ rest \in Outcomes \ {"coalesced"}
    BY Facts DEF Consume, TypeOK, Handler, HandlersNeverFold, Outcomes
  <1>2. \/ h.put = NoSchedule
        \/ \E end \in {"fired", "resolved"} : h.put = Concluded(h.sc, end)
        \/ s \in Deadlines
    BY <1>1 DEF IInv, HandlerShape
  <1>3. CASE UNCHANGED <<sched, timer, firstFire>> /\
             (occ' = occ \/ \E outcome \in {h.outcome, "stale_generation"} :
                               occ' = Settle(occ, h.id, outcome))
    <2>1. RowsStay
      BY <1>1, <1>3, Facts, SettleStays, TablesStay DEF Outcomes, RowsStay
    <2> QED
      BY <1>3, <2>1 DEF ClocksStay
  <1>4. CASE /\ h.put # NoSchedule
             /\ sched' = [sched EXCEPT ![s] = h.put]
             /\ timer' = [timer EXCEPT ![s] = NoTimer]
             /\ occ' = SettlePending(mid, s, rest)
             /\ UNCHANGED firstFire
    <2>1. h.put.status # "armed" \/ s \in Deadlines
      BY <1>1, <1>2, <1>4 DEF Concluded, Schedule
    <2>2. RowsStay
      <3>1. occ \in [DOMAIN occ -> Occurrence]
        BY Facts DEF TypeOK
      <3>2. /\ mid \in [DOMAIN occ -> Occurrence]
            /\ \A i \in DOMAIN occ : mid[i].gap = occ[i].gap
                 /\ (mid[i].outcome = "coalesced" => occ[i].outcome = "coalesced")
        BY <1>1, <3>1 DEF Settle, Occurrence
      <3> HIDE DEF mid, h, rest
      <3> QED
        BY <1>1, <1>4, <3>2 DEF SettlePending, Settle, Occurrence, RowsStay
    <2> HIDE DEF h
    <2> QED
      BY <1>4, <2>1, <2>2, EndedStays
  <1> QED
    BY <1>3, <1>4 DEF Consume

\* Redelivering settles at most the row of a stale generation.
LEMMA RedeliverStays ==
    ASSUME IInv, NEW p \in Procs, Redeliver(p)
    PROVE  RowsStay /\ ClocksStay
  <1>1. UNCHANGED <<sched, timer, firstFire>>
        /\ (occ' = occ \/ \E i : occ' = Settle(occ, {i}, "stale_generation"))
    BY DEF Redeliver
  <1>2. RowsStay
    BY <1>1, Facts, SettleStays, TablesStay DEF Outcomes, RowsStay
  <1> QED
    BY <1>1, <1>2 DEF ClocksStay

LEMMA NextStays ==
    ASSUME IInv, HandlersNeverFold, [Next]_vars, ~(\E p \in Procs : ConvergeOccurrence(p))
    PROVE  RowsStay /\ ClocksStay
  <1>1. CASE DaemonBoot \/ StopOnError
    BY <1>1, ArmingStays, TablesStay DEF DaemonBoot, BootDaemon, StartLoop, StopOnError, store
  <1>2. ASSUME NEW p \in Clis, CliStep(p)
        PROVE  RowsStay /\ ClocksStay
    BY <1>2, ArmingStays, TablesStay
    DEF CliStep, BeginInstallation, ResumeInstallation, AwaitPoll, store
  <1>3. ASSUME NEW p \in Procs, PassStep(p)
        PROVE  RowsStay /\ ClocksStay
    BY <1>3, ConcludeStays, RedeliverStays, TablesStay
    DEF PassStep, StartPass, TakeDue, EndPass, CheckSubject, ReadClock, store
  <1>4. ASSUME NEW p \in Procs, NEW s \in ScheduleIDs, HandlerStep(p, s) \/ FailJob(p, s)
        PROVE  RowsStay /\ ClocksStay
    BY <1>4, ConsumeStays, TablesStay
    DEF HandlerStep, HandleDeadline, HandleJob, HandlePoll, ClearInFlight, FailJob, store
  <1>5. ASSUME NEW p \in Procs, Stopped(p) \/ Crash(p)
        PROVE  RowsStay /\ ClocksStay
    BY <1>5, TablesStay DEF Stopped, Crash, store
  <1>6. CASE World
    <2>1. ASSUME NEW s \in Deadlines, ArmPublicationWatch(s)
          PROVE  RowsStay /\ ClocksStay
      <3>1. /\ sched' = [sched EXCEPT ![s] =
                  [ReArmed(NoSchedule, subject[s].ver) EXCEPT !.fireAt = now + DeadlineWait]]
            /\ UNCHANGED <<timer, occ, firstFire>>
        BY <2>1 DEF ArmPublicationWatch
      <3>2. RowsStay
        BY <3>1 DEF RowsStay
      <3> QED
        BY <3>1, <3>2, EndedStays, Kinds
    <2> QED
      BY <1>6, <2>1, TablesStay DEF World, Tick, WriteItem, PromoteInstallation, store
  <1>7. CASE UNCHANGED vars
    BY <1>7, TablesStay DEF vars
  <1> QED
    BY <1>1, <1>2, <1>3, <1>4, <1>5, <1>6, <1>7 DEF Next

-----------------------------------------------------------------------------
(* Handlers fold nothing away, and a fire redelivers one occurrence.       *)

LEMMA FoldReplaced ==
    ASSUME TypeOK, HandlersNeverFold, NEW p \in Procs, NEW s \in ScheduleIDs, NEW h,
           hand' = [hand EXCEPT ![p][s] = h], h.outcome # "coalesced"
    PROVE  HandlersNeverFold'
  BY DEF TypeOK, HandlersNeverFold

LEMMA DispatchNeverFolds ==
    ASSUME TypeOK, HandlersNeverFold, NEW p \in Procs, NEW id \in Identity, Dispatch(p, id)
    PROVE  HandlersNeverFold'
  <1> DEFINE h == [NoHandler EXCEPT !.stage = "handle", !.id = {id}, !.sc = Snap(p)]
  <1>1. hand' = [hand EXCEPT ![p][id.s] = h] /\ id.s \in ScheduleIDs
    BY DEF Dispatch, Identity
  <1>2. h.outcome = "pending"
    BY DEF NoHandler
  <1> HIDE DEF h
  <1> QED
    BY <1>1, <1>2, FoldReplaced

LEMMA HandlerNeverFolds ==
    ASSUME TypeOK, HandlersNeverFold, NEW p \in Procs, NEW s \in ScheduleIDs,
           HandlerStep(p, s) \/ FailJob(p, s)
    PROVE  HandlersNeverFold'
  <1>1. CASE HandleDeadline(p, s) \/ HandleJob(p, s) \/ HandlePoll(p, s)
    <2>1. \E outcome, put, recheck :
            Decide(p, s, outcome, put, recheck) /\ outcome # "coalesced"
      <3>1. CASE HandleDeadline(p, s)
        <4>1. \E outcome \in {"re_armed", "condition_no_longer_applies", "handled"} : \E put, recheck :
                Decide(p, s, outcome, put, recheck)
          BY <3>1 DEF HandleDeadline
        <4> QED
          BY <4>1
      <3>2. CASE HandleJob(p, s)
        <4>1. \E outcome \in {"handled", "observe_failed"} : Decide(p, s, outcome, NoSchedule, FALSE)
          BY <3>2 DEF HandleJob
        <4> QED
          BY <4>1
      <3>3. CASE HandlePoll(p, s)
        <4>1. \E outcome \in {"condition_no_longer_applies", "handled"} : \E put :
                Decide(p, s, outcome, put, FALSE)
          BY <3>3 DEF HandlePoll
        <4> QED
          BY <4>1
      <3> QED
        BY <1>1, <3>1, <3>2, <3>3
    <2> QED
      BY <2>1, DecidedHandler, FoldReplaced
  <1>2. CASE Consume(p, s) \/ FailJob(p, s)
    <2> DEFINE h == [hand[p][s] EXCEPT !.stage = "done"]
    <2>1. hand' = [hand EXCEPT ![p][s] = h]
      BY <1>2 DEF Consume, FailJob
    <2>2. h.outcome # "coalesced"
      BY DEF TypeOK, Handler, HandlersNeverFold
    <2> HIDE DEF h
    <2> QED
      BY <2>1, <2>2, FoldReplaced
  <1>3. CASE ClearInFlight(p, s)
    <2>1. hand' = [hand EXCEPT ![p][s] = NoHandler]
      BY <1>3 DEF ClearInFlight
    <2>2. NoHandler.outcome # "coalesced"
      BY DEF NoHandler
    <2> QED
      BY <2>1, <2>2, FoldReplaced
  <1> QED
    BY <1>1, <1>2, <1>3 DEF HandlerStep

LEMMA NextNeverFolds ==
    ASSUME IInv, HandlersNeverFold, [Next]_vars
    PROVE  HandlersNeverFold'
  <1>1. CASE UNCHANGED hand
    BY <1>1 DEF HandlersNeverFold
  <1>2. ASSUME NEW p \in Procs, Forget(p)
        PROVE  HandlersNeverFold'
    BY <1>2, Facts DEF Forget, HandlersNeverFold, TypeOK, NoHandler
  <1>3. ASSUME NEW p \in Procs, ReadClock(p) \/ ConvergeOccurrence(p)
        PROVE  HandlersNeverFold'
    BY <1>1, <1>3, Facts, DispatchedIdentity, DispatchNeverFolds
  <1>4. ASSUME NEW p \in Procs, NEW s \in ScheduleIDs, HandlerStep(p, s) \/ FailJob(p, s)
        PROVE  HandlersNeverFold'
    BY <1>4, Facts, HandlerNeverFolds
  <1> QED
    BY <1>1, <1>2, <1>3, <1>4, HandSteps

LEMMA OneKept ==
    ASSUME IInv, OneRedelivered, [Next]_vars
    PROVE  OneRedelivered'
  <1>1. \A q \in Procs : Firing(q)' =>
          \/ Firing(q) /\ cur'[q].redel = cur[q].redel
          \/ \E i : cur'[q].redel \subseteq {i}
    <2>1. CASE ~Working
      BY <2>1, Facts, NextQuiet DEF PassesGoOn
    <2>2. ASSUME NEW p \in Procs, StartPass(p) \/ Redeliver(p) \/ TakeDue(p)
          PROVE  \A q \in Procs : Firing(q)' =>
                   \/ Firing(q) /\ cur'[q].redel = cur[q].redel
                   \/ \E i : cur'[q].redel \subseteq {i}
      <3>1. CASE UNCHANGED cur /\ (pc' = pc \/ pc' = [pc EXCEPT ![p] = "pass"])
        BY <3>1, Facts DEF TypeOK, Firing
      <3>2. ASSUME NEW fire, NEW i, fire.redel \subseteq {i},
                   cur' = [cur EXCEPT ![p] = fire],
                   pc' = [pc EXCEPT ![p] = "fire"]
            PROVE  \A q \in Procs : Firing(q)' =>
                     \/ Firing(q) /\ cur'[q].redel = cur[q].redel
                     \/ \E j : cur'[q].redel \subseteq {j}
        <4>1. cur'[p] = fire
          BY <3>2, Facts DEF TypeOK
        <4>2. \A q \in Procs : q # p => pc'[q] = pc[q] /\ cur'[q] = cur[q]
          BY <3>2, Facts DEF TypeOK
        <4> QED
          BY <3>2, <4>1, <4>2 DEF Firing
      <3>3. CASE StartPass(p)
        BY <3>1, <3>3 DEF StartPass, GoTo
      <3>4. CASE Redeliver(p)
        <4>1. \/ UNCHANGED <<pc, cur>>
              \/ \E i : /\ cur' = [cur EXCEPT ![p] = [NoFire EXCEPT !.s = i.s, !.redel = {i}]]
                        /\ pc' = [pc EXCEPT ![p] = "fire"]
          BY <3>4 DEF Redeliver, GoTo
        <4>2. \A i : [NoFire EXCEPT !.s = i.s, !.redel = {i}].redel \subseteq {i}
          BY DEF NoFire
        <4>3. ASSUME NEW i, cur' = [cur EXCEPT ![p] = [NoFire EXCEPT !.s = i.s, !.redel = {i}]],
                     pc' = [pc EXCEPT ![p] = "fire"]
              PROVE  \E fire : cur' = [cur EXCEPT ![p] = fire] /\ fire.redel \subseteq {i}
          BY <4>2, <4>3
        <4> QED
          BY <3>1, <3>2, <4>1, <4>3
      <3>5. CASE TakeDue(p)
        <4>1. \/ UNCHANGED <<pc, cur>>
              \/ \E s : /\ cur' = [cur EXCEPT ![p] = [NoFire EXCEPT !.s = s]]
                        /\ pc' = [pc EXCEPT ![p] = "fire"]
          BY <3>5 DEF TakeDue, GoTo
        <4>2. \A s : [NoFire EXCEPT !.s = s].redel \subseteq {0}
          BY DEF NoFire
        <4>3. ASSUME NEW s, cur' = [cur EXCEPT ![p] = [NoFire EXCEPT !.s = s]],
                     pc' = [pc EXCEPT ![p] = "fire"]
              PROVE  \E fire : cur' = [cur EXCEPT ![p] = fire] /\ fire.redel \subseteq {0}
          BY <4>2, <4>3
        <4> QED
          BY <3>1, <3>2, <4>1, <4>3
      <3> QED
        BY <2>2, <3>3, <3>4, <3>5
    <2>3. ASSUME NEW p \in Procs, ReadClock(p) \/ ConvergeOccurrence(p)
          PROVE  \A q \in Procs : Firing(q)' => Firing(q) /\ cur'[q].redel = cur[q].redel
      <3>1. Firing(p)
        BY <2>3 DEF ReadClock, ConvergeOccurrence, Firing
      <3>2. CASE \E label \in {"pass", "stopping"} :
                   pc' = [pc EXCEPT ![p] = label] /\ cur' = [cur EXCEPT ![p] = NoFire]
        BY <3>2, Facts DEF TypeOK, Firing
      <3>3. ASSUME NEW fired, pc' = [pc EXCEPT ![p] = "converge"],
                   cur' = [cur EXCEPT ![p].at = fired.at, ![p].gap = fired.gap]
            PROVE  \A q \in Procs : Firing(q)' => Firing(q) /\ cur'[q].redel = cur[q].redel
        <4>1. \A q \in Procs : q # p => pc'[q] = pc[q] /\ cur'[q] = cur[q]
          BY <3>3, Facts DEF TypeOK
        <4>2. cur'[p].redel = cur[p].redel
          BY <3>3, Facts DEF TypeOK, Fire
        <4> QED
          BY <3>1, <4>1, <4>2 DEF Firing
      <3>4. CASE ReadClock(p)
        <4>1. \/ \E label \in {"pass", "stopping"} :
                   pc' = [pc EXCEPT ![p] = label] /\ cur' = [cur EXCEPT ![p] = NoFire]
              \/ \E fired : /\ pc' = [pc EXCEPT ![p] = "converge"]
                            /\ cur' = [cur EXCEPT ![p].at = fired.at, ![p].gap = fired.gap]
          BY <3>4 DEF ReadClock, FireOver, PassFails, Dispatch, GoTo
        <4> QED
          BY <3>2, <3>3, <4>1
      <3>5. CASE ConvergeOccurrence(p)
        BY <3>2, <3>5 DEF ConvergeOccurrence, FireOver, Dispatch, GoTo
      <3> QED
        BY <2>3, <3>4, <3>5
    <2> QED
      BY <2>1, <2>2, <2>3 DEF Working
  <1> QED
    BY <1>1 DEF OneRedelivered

-----------------------------------------------------------------------------
(* The read half of a fire.                                                *)

LEMMA NextFires ==
    ASSUME IInv, [Next]_vars, ~(\E p \in Procs : ReadClock(p))
    PROVE  FiresStay
  <1>1. CASE ~Working
    BY <1>1, Facts, NextQuiet DEF PassesGoOn, FiresStay, Firing
  <1>2. ASSUME NEW p \in Procs, StartPass(p) \/ Redeliver(p) \/ TakeDue(p) \/ ConvergeOccurrence(p)
        PROVE  FiresStay
    <2>1. \/ pc' = pc /\ pc[p] = "pass"
          \/ \E label \in {"pass", "fire"} : pc' = [pc EXCEPT ![p] = label]
      BY <1>2 DEF StartPass, Redeliver, TakeDue, ConvergeOccurrence, Dispatch, FireOver, GoTo
    <2>2. \A q \in Procs : q # p => cur'[q] = cur[q] /\ scan'[q] = scan[q]
      BY <1>2, Facts DEF StartPass, Redeliver, TakeDue, ConvergeOccurrence, Dispatch, FireOver, TypeOK
    <2> QED
      BY <2>1, <2>2, Facts DEF TypeOK, FiresStay
  <1> QED
    BY <1>1, <1>2 DEF Working

\* What latestNominal folds, for a schedule with its clock at next: the row it
\* redelivers, and every nominal instant from next on.
LEMMA ReadFolds ==
    ASSUME NEW s \in Recurring, firstFire[s] \in Nat, NEW m \in Nat \ {0}, m = sched[s].interval,
           NEW base \in Nat, Nominal(s, base), NEW gap \in Gap, NEW t \in Nat,
           NEW next \in Nat, base <= next, gap = NoGap \/ gap.earliest <= base
    PROVE  LET l == Latest(base, gap, m, t) IN
           /\ l.at \in Nat /\ Nominal(s, l.at)
           /\ t < l.at + m
           /\ l.gap = NoGap => l.at = base
           /\ l.gap # NoGap => /\ l.gap.earliest \in Nat /\ l.gap.earliest <= next
                               /\ l.gap.earliest <= base
                               /\ gap # NoGap => l.gap.earliest <= gap.earliest
           /\ gap # NoGap => l.gap # NoGap
  <1> DEFINE l == Latest(base, gap, m, t)
  <1>1. PICK k \in Nat :
          /\ l.at = base + k * m
          /\ t < l.at + m
          /\ k = 0 => l.gap = gap
          /\ k # 0 => l.gap # NoGap /\ l.gap.earliest = IF gap = NoGap THEN base ELSE gap.earliest
    BY ONLY m \in Nat \ {0}, base \in Nat, gap \in Gap, t \in Nat, LatestFrom
  <1>2. base + k * m \in Nat /\ Nominal(s, base + k * m)
    BY NominalOnward
  <1>3. k = 0 => base + k * m = base
    OBVIOUS
  <1>4. gap.earliest \in Nat
    BY DEF Gap
  <1>5. l.gap = NoGap => k = 0 /\ gap = NoGap
    BY <1>1
  <1>6. l.gap # NoGap => l.gap.earliest = base \/ (gap # NoGap /\ l.gap.earliest = gap.earliest)
    BY <1>1
  <1>7. gap # NoGap => l.gap # NoGap /\ l.gap.earliest = gap.earliest
    BY <1>1
  <1> HIDE DEF l
  <1> QED
    BY <1>1, <1>2, <1>3, <1>4, <1>5, <1>6, <1>7 DEF l

\* An exact gap reaches back.
LEMMA GapReachesBack ==
    ASSUME IInv, GapIsExact, NEW i \in DOMAIN occ, i.s \in Recurring,
           sched[i.s].gen = i.gen, occ[i].gap # NoGap
    PROVE  occ[i].gap.earliest <= i.at
  <1>1. i.at \in Nat /\ occ[i].gap \in Gap /\ sched[i.s].interval \in Nat
    BY Facts, Kinds DEF TypeOK, Identity, Occurrence, Schedule
  <1>2. PICK missed \in Nat, interval \in Nat :
          missed = occ[i].gap.missed /\ interval = sched[i.s].interval
    BY <1>1 DEF Gap
  <1>3. missed * interval \in Nat
    OBVIOUS
  <1>4. i.at - occ[i].gap.earliest = missed * interval
    BY <1>2 DEF GapIsExact
  <1>5. occ[i].gap.earliest \in Nat
    BY <1>1 DEF Gap
  <1> QED
    BY <1>1, <1>3, <1>4, <1>5

\* A fire that stays in its pass without an occurrence to write.
LEMMA FireOverFires ==
    ASSUME IInv, NEW p \in Procs,
           (FireOver(p) /\ UNCHANGED scan) \/ (\E cause : PassFails(p, cause))
    PROVE  FiresStay
  <1>1. /\ \E label \in {"pass", "stopping"} : pc' = [pc EXCEPT ![p] = label]
        /\ \A q \in Procs : q # p => cur'[q] = cur[q] /\ scan'[q] = scan[q]
    BY Facts DEF FireOver, PassFails, GoTo, TypeOK
  <1> QED
    BY <1>1, Facts DEF TypeOK, FiresStay

\* What one fire has read, for the FireFolds of its process.
Folded(s, redel, fired, t) ==
    /\ Nominal(s, fired.at)
    /\ t < fired.at + sched[s].interval
    /\ IF fired.gap = NoGap
       THEN redel = {} /\ fired.at <= timer[s].next
       ELSE /\ fired.gap.earliest <= timer[s].next
            /\ \A i \in redel : /\ fired.gap.earliest <= i.at
                                /\ occ[i].gap # NoGap => fired.gap.earliest <= occ[i].gap.earliest

LEMMA RedeliveryFolds ==
    ASSUME IInv, ClockLeads, GapIsExact, NEW s \in Recurring, sched[s].status = "armed",
           NEW i \in DOMAIN occ, i.s = s, i.gen = sched[s].gen, NEW t \in Nat,
           NEW fired, fired = Latest(i.at, occ[i].gap, sched[s].interval, t), fired.at # i.at
    PROVE  Folded(s, {i}, fired, t)
  <1>1. /\ firstFire[s] \in Nat /\ timer[s].next \in Nat /\ i.at \in Nat
        /\ sched[s].interval \in Nat \ {0} /\ occ[i].gap \in Gap
    BY RecurringFacts, Facts DEF TypeOK, Occurrence
  <1>2. Nominal(s, i.at) /\ i.at < timer[s].next
    BY DEF ClockLeads
  <1>3. occ[i].gap = NoGap \/ occ[i].gap.earliest <= i.at
    BY GapReachesBack
  <1>4. PICK base \in Nat, gap \in Gap, next \in Nat, m \in Nat \ {0} :
          m = sched[s].interval /\ base = i.at /\ gap = occ[i].gap /\ next = timer[s].next
    BY <1>1
  <1>5. base <= next /\ Nominal(s, base) /\ (gap = NoGap \/ gap.earliest <= base)
    BY <1>1, <1>2, <1>3, <1>4
  <1>6. fired = Latest(base, gap, m, t)
    BY <1>4
  <1>7. /\ Nominal(s, fired.at)
        /\ t < fired.at + m
        /\ fired.gap = NoGap => fired.at = base
        /\ fired.gap # NoGap => /\ fired.gap.earliest \in Nat /\ fired.gap.earliest <= next
                                /\ fired.gap.earliest <= base
                                /\ gap # NoGap => fired.gap.earliest <= gap.earliest
    <2> DEFINE l == Latest(base, gap, m, t)
    <2>1. /\ l.at \in Nat /\ Nominal(s, l.at)
          /\ t < l.at + m
          /\ l.gap = NoGap => l.at = base
          /\ l.gap # NoGap => /\ l.gap.earliest \in Nat /\ l.gap.earliest <= next
                              /\ l.gap.earliest <= base
                              /\ gap # NoGap => l.gap.earliest <= gap.earliest
      BY <1>1, <1>4, <1>5, ReadFolds
    <2>2. fired = l
      BY <1>6
    <2> HIDE DEF l
    <2> QED
      BY ONLY <2>1, <2>2
  <1>8. fired.gap # NoGap
    BY <1>4, <1>7
  <1>9. /\ fired.gap.earliest <= timer[s].next
        /\ fired.gap.earliest <= i.at
        /\ occ[i].gap # NoGap => fired.gap.earliest <= occ[i].gap.earliest
    <2>1. fired.gap.earliest <= next /\ fired.gap.earliest <= base
          /\ (gap # NoGap => fired.gap.earliest <= gap.earliest)
      BY <1>7, <1>8
    <2> QED
      BY <1>4, <2>1, Zenon
  <1> QED
    BY <1>4, <1>7, <1>8, <1>9 DEF Folded

LEMMA DueFolds ==
    ASSUME IInv, ClockLeads, NEW s \in Recurring, sched[s].status = "armed", NEW t \in Nat,
           NEW fired, fired = Latest(timer[s].next, NoGap, sched[s].interval, t)
    PROVE  Folded(s, {}, fired, t)
  <1>1. /\ firstFire[s] \in Nat /\ timer[s].next \in Nat /\ sched[s].interval \in Nat \ {0}
    BY RecurringFacts
  <1>2. Nominal(s, timer[s].next) /\ NoGap \in Gap
    BY DEF ClockLeads, NoGap, Gap
  <1>3. PICK base \in Nat, next \in Nat, gap \in Gap, m \in Nat \ {0} :
          m = sched[s].interval /\ base = timer[s].next /\ next = timer[s].next /\ gap = NoGap
    BY <1>1, <1>2
  <1>4. /\ base <= next /\ Nominal(s, base) /\ (gap = NoGap \/ gap.earliest <= base)
        /\ fired = Latest(base, gap, m, t) /\ m = sched[s].interval
    BY <1>2, <1>3
  <1>5. /\ Nominal(s, fired.at)
        /\ t < fired.at + m
        /\ fired.gap = NoGap => fired.at = base
        /\ fired.gap # NoGap => fired.gap.earliest <= base
    <2> DEFINE l == Latest(base, gap, m, t)
    <2>1. /\ l.at \in Nat /\ Nominal(s, l.at)
          /\ t < l.at + m
          /\ l.gap = NoGap => l.at = base
          /\ l.gap # NoGap => l.gap.earliest <= base
      BY <1>1, <1>4, ReadFolds
    <2>2. fired = l
      BY <1>4
    <2> HIDE DEF l
    <2> QED
      BY ONLY <2>1, <2>2
  <1> QED
    BY <1>3, <1>5 DEF Folded

LEMMA ReadClockFires ==
    ASSUME IInv, ClockLeads, FireFolds, OneRedelivered, GapIsExact, NEW p \in Procs, ReadClock(p)
    PROVE  FireFolds'
  <1> DEFINE s == cur[p].s
             sc == Snap(p)
             redel == cur[p].redel
             t == scan[p].now
             fired == IF s \in Deadlines
                      THEN [at |-> sc.fireAt, gap |-> NoGap]
                      ELSE IF redel # {}
                      THEN LET i == CHOOSE i \in redel : TRUE
                           IN  Latest(i.at, occ[i].gap, sc.interval, t)
                      ELSE Latest(timer[s].next, NoGap, sc.interval, t)
             id == [s |-> s, gen |-> sc.gen, at |-> fired.at]
  <1>0. pc[p] = "clock" /\ Firing(p) /\ UNCHANGED <<sched, timer, occ, firstFire>>
    BY DEF ReadClock, Firing, store
  <1>1. RowsStay /\ ClocksStay
    BY <1>0, TablesStay
  <1>2. CASE redel = {} /\ s \in Recurring /\ timer[s] = NoTimer
    <2>1. PassFails(p, "no_timer")
      BY <1>2 DEF ReadClock
    <2> QED
      BY <1>1, <2>1, FireOverFires, FoldsKept
  <1>3. CASE /\ ~(redel = {} /\ s \in Recurring /\ timer[s] = NoTimer)
             /\ \/ redel = {} /\ s \in Recurring /\ ClockStale(s, sc, t)
                \/ id \in redel
    <2>1. FireOver(p) /\ UNCHANGED scan
      BY <1>3 DEF ReadClock, Dispatch
    <2> QED
      BY <1>1, <2>1, FireOverFires, FoldsKept
  <1>4. CASE /\ ~(redel = {} /\ s \in Recurring /\ timer[s] = NoTimer)
             /\ ~(redel = {} /\ s \in Recurring /\ ClockStale(s, sc, t))
             /\ id \notin redel
    <2>1. /\ pc' = [pc EXCEPT ![p] = "converge"]
          /\ cur' = [cur EXCEPT ![p].at = fired.at, ![p].gap = fired.gap]
          /\ UNCHANGED scan
      BY <1>4 DEF ReadClock, GoTo
    <2>2. /\ s \in ScheduleIDs /\ Copy(sc, sched[s], s) /\ sc \in Schedule
          /\ redel \subseteq Identity /\ redel \subseteq DOMAIN occ /\ t \in Nat
          /\ \A i \in redel : i.s = s /\ i.gen = sc.gen
      BY <1>0, FiringFacts, Facts DEF TypeOK, Scan
    <2>3. (s \in Recurring /\ Live(s, sc.gen)) =>
             Folded(s, redel, fired, t) /\ sched[s].interval = sc.interval
      <3> SUFFICES ASSUME s \in Recurring, sched[s].status = "armed", sched[s].gen = sc.gen
                   PROVE  Folded(s, redel, fired, t) /\ sched[s].interval = sc.interval
        BY DEF Live
      <3>1. sched[s].interval = sc.interval
        BY <2>2 DEF Copy
      <3>2. CASE redel # {}
        <4> DEFINE i == CHOOSE i \in redel : TRUE
        <4>1. i \in redel
          BY <3>2
        <4>2. i \in DOMAIN occ /\ i \in Identity /\ i.s = s /\ i.gen = sc.gen
          BY <2>2, <4>1
        <4>3. fired = Latest(i.at, occ[i].gap, sc.interval, t)
          BY <3>2, Kinds
        <4>4. fired.at # i.at
          <5>1. i = [s |-> s, gen |-> sc.gen, at |-> i.at]
            BY <4>2 DEF Identity
          <5> HIDE DEF i, fired
          <5> QED
            BY <1>4, <4>1, <5>1
        <4>5. redel = {i}
          <5>1. \A j \in redel : j = i
            BY <1>0, <4>1 DEF OneRedelivered
          <5> HIDE DEF i, redel
          <5> QED
            BY <4>1, <5>1
        <4> HIDE DEF i, sc, redel, s, fired, t
        <4>6. Folded(s, {i}, fired, t)
          BY <2>2, <3>1, <4>2, <4>3, <4>4, RedeliveryFolds
        <4> QED
          BY <3>1, <4>5, <4>6
      <3>3. CASE redel = {}
        <4>1. fired = Latest(timer[s].next, NoGap, sc.interval, t)
          BY <3>3, Kinds
        <4> HIDE DEF sc, redel, s, fired, t
        <4>2. Folded(s, {}, fired, t)
          BY <2>2, <3>1, <4>1, DueFolds
        <4> QED
          BY <3>1, <3>3, <4>2
      <3> QED
        BY <3>2, <3>3
    <2> HIDE DEF fired
    <2>4. /\ \A q \in Procs : q # p => pc'[q] = pc[q] /\ cur'[q] = cur[q]
          /\ cur'[p].s = s /\ cur'[p].at = fired.at /\ cur'[p].gap = fired.gap
          /\ cur'[p].redel = redel
      BY ZenonT(60), <2>1, Facts DEF TypeOK, Fire
    <2>5. FireFolds'
      <3> SUFFICES ASSUME NEW q \in Procs, pc'[q] = "converge", cur'[q].s \in Recurring,
                          sched'[cur'[q].s].status = "armed",
                          sched'[cur'[q].s].gen = scan'[q].snap[cur'[q].s].gen
                   PROVE  /\ firstFire'[cur'[q].s] <= cur'[q].at
                          /\ (cur'[q].at - firstFire'[cur'[q].s]) % sched'[cur'[q].s].interval = 0
                          /\ scan'[q].now < cur'[q].at + scan'[q].snap[cur'[q].s].interval
                          /\ IF cur'[q].gap = NoGap
                             THEN cur'[q].redel = {} /\ cur'[q].at <= timer'[cur'[q].s].next
                             ELSE /\ cur'[q].gap.earliest <= timer'[cur'[q].s].next
                                  /\ \A i \in cur'[q].redel :
                                        /\ cur'[q].gap.earliest <= i.at
                                        /\ occ'[i].gap # NoGap => cur'[q].gap.earliest <= occ'[i].gap.earliest
        BY DEF FireFolds, Snap, Live, Nominal
      <3> SUFFICES ASSUME pc'[q] = "converge", cur'[q].s \in Recurring,
                          sched[cur'[q].s].status = "armed",
                          sched[cur'[q].s].gen = scan[q].snap[cur'[q].s].gen
                   PROVE  /\ Folded(cur'[q].s, cur'[q].redel,
                                    [at |-> cur'[q].at, gap |-> cur'[q].gap], scan[q].now)
                          /\ scan[q].snap[cur'[q].s].interval = sched[cur'[q].s].interval
        BY <1>0, <2>1 DEF Folded, Nominal
      <3>1. CASE q = p
        <4>1. Folded(s, redel, fired, t) /\ sched[s].interval = sc.interval
          BY <2>3, <2>4, <3>1 DEF Live, Snap
        <4>2. Folded(s, redel, [at |-> fired.at, gap |-> fired.gap], t)
          BY <4>1 DEF Folded
        <4> QED
          BY <2>4, <3>1, <4>1, <4>2 DEF Snap
      <3>2. CASE q # p
        <4>1. cur'[q] = cur[q] /\ pc[q] = "converge" /\ Live(cur[q].s, Snap(q).gen)
          BY <2>4, <3>2 DEF Live, Snap
        <4>2. Copy(Snap(q), sched[cur[q].s], cur[q].s)
          BY <4>1, FiringFacts DEF Firing
        <4>3. Snap(q).interval = sched[cur[q].s].interval
          BY <4>1, <4>2 DEF Copy, Live
        <4> QED
          BY <4>1, <4>3 DEF FireFolds, Folded, Snap
      <3> QED
        BY <3>1, <3>2
    <2> QED
      BY <2>5
  <1> QED
    BY <1>2, <1>3, <1>4

-----------------------------------------------------------------------------
(* The write half of a fire.                                               *)

\* The ledger a fire writes: its rows are folded, and id is new or untouched.
Written(redel, id, gap) ==
    /\ DOMAIN occ' = DOMAIN occ \cup {id}
    /\ \A i \in DOMAIN occ :
          /\ occ'[i].gap = occ[i].gap
          /\ i \notin redel => occ'[i] = occ[i]
    /\ id \notin DOMAIN occ => occ'[id] = [outcome |-> "pending", gap |-> gap]

LEMMA SupersedeWrites ==
    ASSUME TypeOK, NEW redel, NEW id, NEW gap, occ' = Supersede(redel, id, gap)
    PROVE  Written(redel, id, gap)
  <1> DEFINE before == Settle(occ, redel, "coalesced")
  <1>1. occ \in [DOMAIN occ -> Occurrence]
    BY DEF TypeOK
  <1>2. /\ DOMAIN before = DOMAIN occ
        /\ \A i \in DOMAIN occ : before[i].gap = occ[i].gap
        /\ \A i \in DOMAIN occ : i \notin redel => before[i] = occ[i]
    BY <1>1 DEF Settle, Occurrence
  <1> HIDE DEF before
  <1>3. occ' = [i \in DOMAIN occ \cup {id} |->
                  IF i \in DOMAIN occ THEN before[i] ELSE [outcome |-> "pending", gap |-> gap]]
    BY <1>2 DEF Supersede, CreatePending, before
  <1> QED
    BY <1>2, <1>3 DEF Written

\* A clock that is due stands at or before the latest nominal instant, so the
\* occurrence is new.
LEMMA ClockReached ==
    ASSUME IInv, ClockLeads, NEW s \in Recurring, sched[s].status = "armed",
           NEW redel, NEW gap, NEW at \in Nat, NEW t \in Nat,
           Folded(s, redel, [at |-> at, gap |-> gap], t), timer[s].next <= t
    PROVE  /\ timer[s].next <= at
           /\ [s |-> s, gen |-> sched[s].gen, at |-> at] \notin DOMAIN occ
  <1>1. /\ firstFire[s] \in Nat /\ timer[s].next \in Nat /\ sched[s].interval \in Nat \ {0}
    BY RecurringFacts
  <1>2. Nominal(s, timer[s].next) /\ Nominal(s, at) /\ t < at + sched[s].interval
    BY DEF ClockLeads, Folded
  <1>3. timer[s].next <= at
    <2> SUFFICES ASSUME at < timer[s].next
                 PROVE  FALSE
      BY <1>1
    <2>1. at + sched[s].interval <= timer[s].next
      BY <1>1, <1>2, NominalApart
    <2> QED
      BY <1>1, <1>2, <2>1
  <1>4. [s |-> s, gen |-> sched[s].gen, at |-> at] \notin DOMAIN occ
    BY <1>1, <1>3 DEF ClockLeads
  <1> QED
    BY <1>3, <1>4

\* The clock of s moves on to the instant after the occurrence just written.
Advanced(s, at) ==
    /\ UNCHANGED <<sched, firstFire>>
    /\ timer'[s].next = at + sched[s].interval
    /\ \A r \in ScheduleIDs : r # s => timer'[r] = timer[r]

LEMMA AdvancedLeads ==
    ASSUME IInv, ClockLeads, NEW s \in Recurring, sched[s].status = "armed",
           NEW at \in Nat, Nominal(s, at), timer[s].next <= at,
           NEW redel, NEW gap, NEW id, id.s = s, id.at = at,
           Written(redel, id, gap), Advanced(s, at)
    PROVE  ClockLeads'
  <1>1. \A r, n : Nominal(r, n)' <=> Nominal(r, n)
    BY DEF Nominal, Advanced
  <1> SUFFICES ASSUME NEW r \in Recurring, sched[r].status = "armed"
               PROVE  /\ Nominal(r, timer'[r].next)
                      /\ \A i \in DOMAIN occ' : (i.s = r /\ i.gen = sched[r].gen) =>
                            Nominal(r, i.at) /\ i.at < timer'[r].next
    BY DEF ClockLeads, Nominal, Advanced
  <1>2. CASE r # s
    BY <1>2, Kinds DEF ClockLeads, Advanced, Written
  <1>3. CASE r = s
    <2>1. /\ firstFire[s] \in Nat /\ timer[s].next \in Nat
          /\ \A i \in DOMAIN occ : i.s = s => i.at \in Nat
      BY RecurringFacts
    <2>2. PICK m \in Nat \ {0} : m = sched[s].interval
      BY RecurringFacts
    <2>3. at + m \in Nat /\ at < at + m /\ timer'[s].next = at + m
      BY <2>2 DEF Advanced
    <2>4. Nominal(s, at + m)
      <3>1. Nominal(s, at + 1 * sched[s].interval)
        BY <2>1, <2>2, NominalOnward
      <3> QED
        BY <2>2, <3>1
    <2>5. \A i \in DOMAIN occ : (i.s = s /\ i.gen = sched[s].gen) => Nominal(s, i.at) /\ i.at < at + m
      BY <2>1, <2>3 DEF ClockLeads
    <2>6. DOMAIN occ' = DOMAIN occ \cup {id}
      BY DEF Written
    <2> QED
      BY <1>3, <2>3, <2>4, <2>5, <2>6
  <1> QED
    BY <1>2, <1>3

LEMMA AdvancedLosesNone ==
    ASSUME IInv, ClockLeads, NoFireLost, NEW s \in Recurring, sched[s].status = "armed",
           NEW at \in Nat, NEW gap \in Gap, NEW redel, NEW t,
           Folded(s, redel, [at |-> at, gap |-> gap], t), timer[s].next <= at,
           \A i \in redel : i \in DOMAIN occ /\ i.s = s,
           NEW id, id = [s |-> s, gen |-> sched[s].gen, at |-> at], id \notin DOMAIN occ,
           Written(redel, id, gap), Advanced(s, at)
    PROVE  NoFireLost'
  <1> SUFFICES ASSUME NEW r \in Recurring, sched[r].status = "armed",
                      NEW n \in firstFire[r] .. (timer'[r].next - 1),
                      (n - firstFire[r]) % sched[r].interval = 0
               PROVE  \E i \in DOMAIN occ' :
                        /\ i.s = r /\ i.gen = sched[r].gen
                        /\ occ'[i].outcome # "coalesced"
                        /\ \/ i.at = n
                           \/ occ'[i].gap # NoGap /\ occ'[i].gap.earliest <= n /\ n < i.at
    BY DEF NoFireLost, Advanced
  <1>1. CASE r # s
    <2>1. timer'[r] = timer[r]
      BY <1>1, Kinds DEF Advanced
    <2>2. PICK i \in DOMAIN occ :
            /\ i.s = r /\ i.gen = sched[r].gen
            /\ occ[i].outcome # "coalesced"
            /\ \/ i.at = n
               \/ occ[i].gap # NoGap /\ occ[i].gap.earliest <= n /\ n < i.at
      BY <2>1 DEF NoFireLost
    <2>3. i \in DOMAIN occ' /\ occ'[i] = occ[i]
      BY <1>1, <2>2 DEF Written
    <2> QED
      BY <2>2, <2>3
  <1>2. CASE r = s
    <2>1. PICK m \in Nat \ {0}, next \in Nat, first \in Nat :
            m = sched[s].interval /\ next = timer[s].next /\ first = firstFire[s]
      BY RecurringFacts
    <2>2. timer'[s].next = at + m
      BY <2>1 DEF Advanced
    <2>3. n \in Nat /\ first <= n /\ n < at + m /\ Nominal(s, n)
      BY <1>2, <2>1, <2>2 DEF Nominal
    <2>4. /\ id \in DOMAIN occ' /\ id.s = r /\ id.gen = sched[r].gen /\ id.at = at
          /\ occ'[id].outcome = "pending" /\ occ'[id].gap = gap
      BY <1>2 DEF Written
    <2>5. /\ Nominal(s, at)
          /\ IF gap = NoGap
             THEN redel = {} /\ at <= next
             ELSE /\ gap.earliest <= next
                  /\ \A i \in redel : /\ gap.earliest <= i.at
                                      /\ occ[i].gap # NoGap => gap.earliest <= occ[i].gap.earliest
      BY <2>1 DEF Folded
    <2>6. gap.earliest \in Nat
      BY DEF Gap
    <2>7. n <= at
      <3>1. ASSUME at < n
            PROVE  at + m <= n
        BY <2>1, <2>3, <2>5, <3>1, NominalApart
      <3> QED
        BY <2>3, <3>1
    <2>8. CASE n = at
      BY <2>4, <2>8
    <2>9. CASE next <= n /\ n < at
      <3>1. gap # NoGap /\ gap.earliest <= next
        BY <2>3, <2>5, <2>9
      <3>2. gap.earliest <= n
        BY <2>3, <2>6, <2>9, <3>1
      <3> QED
        BY <2>4, <2>9, <3>1, <3>2
    <2>10. CASE n < next
      <3>1. n \in firstFire[s] .. (timer[s].next - 1)
        BY <2>1, <2>3, <2>10
      <3>2. PICK i \in DOMAIN occ :
              /\ i.s = s /\ i.gen = sched[s].gen
              /\ occ[i].outcome # "coalesced"
              /\ \/ i.at = n
                 \/ occ[i].gap # NoGap /\ occ[i].gap.earliest <= n /\ n < i.at
        BY <1>2, <3>1 DEF NoFireLost
      <3>3. CASE i \notin redel
        <4>1. i \in DOMAIN occ' /\ occ'[i] = occ[i]
          BY <3>3 DEF Written
        <4> QED
          BY <1>2, <3>2, <4>1
      <3>4. CASE i \in redel
        <4>1. gap # NoGap
          BY <2>5, <3>4
        <4>2. occ[i].gap.earliest \in Nat /\ i.at \in Nat
          BY Facts DEF TypeOK, Occurrence, Gap, Identity
        <4>3. gap.earliest <= n
          <5>1. /\ gap.earliest <= i.at
                /\ occ[i].gap # NoGap => gap.earliest <= occ[i].gap.earliest
            BY <2>5, <3>4, <4>1
          <5> QED
            BY <2>3, <2>6, <3>2, <4>2, <5>1
        <4>4. n < at
          BY <2>1, <2>3, <2>10
        <4> QED
          BY <2>4, <4>1, <4>3, <4>4
      <3> QED
        BY <3>3, <3>4
    <2> QED
      BY <2>1, <2>3, <2>7, <2>8, <2>9, <2>10
  <1> QED
    BY <1>1, <1>2

\* The fires of the other processes reach as far back as before: the clock only
\* moves on, and rows keep their gaps.
LEMMA WrittenFolds ==
    ASSUME IInv, FireFolds, FiresStay, UNCHANGED <<sched, firstFire>>,
           \A s \in Recurring : timer'[s].next \in Nat /\ timer[s].next <= timer'[s].next,
           \A i \in DOMAIN occ : occ'[i].gap = occ[i].gap
    PROVE  FireFolds'
  <1> SUFFICES ASSUME NEW p \in Procs, pc'[p] = "converge", cur'[p].s \in Recurring,
                      sched'[cur'[p].s].status = "armed",
                      sched'[cur'[p].s].gen = scan'[p].snap[cur'[p].s].gen
               PROVE  /\ firstFire'[cur'[p].s] <= cur'[p].at
                      /\ (cur'[p].at - firstFire'[cur'[p].s]) % sched'[cur'[p].s].interval = 0
                      /\ scan'[p].now < cur'[p].at + scan'[p].snap[cur'[p].s].interval
                      /\ IF cur'[p].gap = NoGap
                         THEN cur'[p].redel = {} /\ cur'[p].at <= timer'[cur'[p].s].next
                         ELSE /\ cur'[p].gap.earliest <= timer'[cur'[p].s].next
                              /\ \A i \in cur'[p].redel :
                                    /\ cur'[p].gap.earliest <= i.at
                                    /\ occ'[i].gap # NoGap => cur'[p].gap.earliest <= occ'[i].gap.earliest
    BY DEF FireFolds, Snap, Live, Nominal
  <1> SUFFICES ASSUME pc[p] = "converge", cur'[p] = cur[p], scan'[p] = scan[p],
                      cur[p].s \in Recurring, Live(cur[p].s, Snap(p).gen)
               PROVE  /\ Nominal(cur[p].s, cur[p].at)
                      /\ scan[p].now < cur[p].at + Snap(p).interval
                      /\ IF cur[p].gap = NoGap
                         THEN cur[p].redel = {} /\ cur[p].at <= timer'[cur[p].s].next
                         ELSE /\ cur[p].gap.earliest <= timer'[cur[p].s].next
                              /\ \A i \in cur[p].redel :
                                    /\ cur[p].gap.earliest <= i.at
                                    /\ occ'[i].gap # NoGap => cur[p].gap.earliest <= occ'[i].gap.earliest
    BY DEF FiresStay, Snap, Live, Nominal
  <1> DEFINE s == cur[p].s
  <1>1. /\ cur[p].at \in Nat /\ cur[p].gap.earliest \in Nat /\ timer[s].next \in Nat
        /\ timer'[s].next \in Nat /\ timer[s].next <= timer'[s].next
    BY RecurringFacts, Facts DEF TypeOK, Fire, Gap
  <1>2. \A i \in cur[p].redel : occ'[i].gap = occ[i].gap
    BY FiringFacts DEF Firing
  <1>3. /\ Nominal(s, cur[p].at)
        /\ scan[p].now < cur[p].at + Snap(p).interval
        /\ IF cur[p].gap = NoGap
           THEN cur[p].redel = {} /\ cur[p].at <= timer[s].next
           ELSE /\ cur[p].gap.earliest <= timer[s].next
                /\ \A i \in cur[p].redel :
                      /\ cur[p].gap.earliest <= i.at
                      /\ occ[i].gap # NoGap => cur[p].gap.earliest <= occ[i].gap.earliest
    BY DEF FireFolds
  <1>4. /\ cur[p].at <= timer[s].next => cur[p].at <= timer'[s].next
        /\ cur[p].gap.earliest <= timer[s].next => cur[p].gap.earliest <= timer'[s].next
    BY <1>1
  <1> HIDE DEF s
  <1> QED
    BY <1>2, <1>3, <1>4 DEF s

\* The step as a whole.
LEMMA ConvergeFires ==
    ASSUME IInv, IInv', ClockLeads, FireFolds, NoFireLost, NEW p \in Procs, ConvergeOccurrence(p)
    PROVE  ClockLeads' /\ FireFolds' /\ NoFireLost'
  <1> DEFINE s == cur[p].s
             sc == Snap(p)
             at == cur[p].at
             gap == cur[p].gap
             redel == cur[p].redel
             t == scan[p].now
             id == [s |-> s, gen |-> sc.gen, at |-> at]
             ledger == Supersede(redel, id, gap)
  <1>1. /\ pc[p] = "converge" /\ Firing(p) /\ UNCHANGED <<now, sched, firstFire, scan>>
        /\ FireOver(p)
    BY DEF ConvergeOccurrence, Firing, Dispatch
  <1>2. FiresStay
    BY <1>1, FireOverFires
  <1>3. CASE UNCHANGED <<occ, timer>>
    BY <1>1, <1>2, <1>3, TablesStay, LeadsKept, FoldsKept, LostKept
  <1>4. CASE ~(s \in Recurring /\ ClockStale(s, sc, t)) /\ occ' = ledger
    <2>1. sched[s] = sc /\ sched[s].status = "armed" /\ sched[s].gen = sc.gen
      BY <1>1, <1>4, ConvergeIsLive
    <2>2. Written(redel, id, gap)
      BY <1>4, Facts, SupersedeWrites
    <2>3. /\ s \in ScheduleIDs /\ at \in Nat /\ gap \in Gap /\ t \in Nat
          /\ \A i \in redel : i \in DOMAIN occ /\ i.s = s
      BY <1>1, FiringFacts, Facts DEF TypeOK, Fire, Scan
    <2>4. id.s = s /\ id.gen = sc.gen /\ id.at = at
      OBVIOUS
    <2>5. CASE s \in Deadlines
      <3>1. timer' = timer
        BY <1>4, <2>5, Kinds DEF ConvergeOccurrence
      <3>2. redel = {}
        BY <1>1, <2>5 DEF IInv, FireShape
      <3>3. \A i \in DOMAIN occ' : i.s \in Recurring => i \in DOMAIN occ /\ occ'[i] = occ[i]
        BY <2>2, <2>4, <2>5, <3>2, Kinds DEF Written
      <3>4. \A i \in DOMAIN occ : i \in DOMAIN occ' /\ occ'[i] = occ[i]
        BY <2>2, <3>2 DEF Written
      <3> HIDE DEF s, sc, at, gap, redel, t, id, ledger
      <3>5. ClockLeads'
        BY <1>1, <3>1, <3>3 DEF ClockLeads, Nominal
      <3>6. NoFireLost'
        <4> SUFFICES ASSUME NEW r \in Recurring, sched[r].status = "armed",
                            NEW n \in firstFire[r] .. (timer[r].next - 1),
                            (n - firstFire[r]) % sched[r].interval = 0
                     PROVE  \E i \in DOMAIN occ' :
                              /\ i.s = r /\ i.gen = sched[r].gen
                              /\ occ'[i].outcome # "coalesced"
                              /\ \/ i.at = n
                                 \/ occ'[i].gap # NoGap /\ occ'[i].gap.earliest <= n /\ n < i.at
          BY <1>1, <3>1 DEF NoFireLost
        <4>1. PICK i \in DOMAIN occ :
                /\ i.s = r /\ i.gen = sched[r].gen
                /\ occ[i].outcome # "coalesced"
                /\ \/ i.at = n
                   \/ occ[i].gap # NoGap /\ occ[i].gap.earliest <= n /\ n < i.at
          BY DEF NoFireLost
        <4> QED
          BY <3>4, <4>1
      <3>7. \A r \in Recurring : timer'[r].next \in Nat /\ timer[r].next <= timer'[r].next
        BY <3>1, RecurringFacts
      <3>8. FireFolds'
        BY <1>1, <1>2, <3>4, <3>7, WrittenFolds
      <3> QED
        BY <3>5, <3>6, <3>8
    <2>6. CASE s \in Recurring
      <3>1. Folded(s, redel, [at |-> at, gap |-> gap], t)
        <4>1. Live(s, sc.gen) /\ sc.interval = sched[s].interval
          BY <2>1 DEF Live
        <4> QED
          BY <1>1, <2>6, <4>1 DEF FireFolds, Folded
      <3>2. timer[s].next <= t
        <4>1. ~(timer[s].next > t)
          BY <1>4, <2>6 DEF ClockStale
        <4>2. timer[s].next \in Nat
          BY <2>6, RecurringFacts
        <4> QED
          BY <2>3, <4>1, <4>2
      <3>3. timer[s].next <= at /\ id \notin DOMAIN occ
        BY <2>1, <2>3, <2>6, <3>1, <3>2, ClockReached
      <3>4. Advanced(s, at)
        <4>1. ledger[id].outcome = "pending"
          BY <1>4, <2>2, <3>3 DEF Written
        <4>2. timer' = [timer EXCEPT ![s] = [gen |-> sc.gen, next |-> id.at + sc.interval]]
          BY <1>4, <2>6, <4>1, Kinds DEF ConvergeOccurrence
        <4> HIDE DEF s, sc, at, id
        <4>3. /\ timer'[s].next = id.at + sc.interval
              /\ \A r \in ScheduleIDs : r # s => timer'[r] = timer[r]
          BY <2>3, <4>2, Facts DEF TypeOK
        <4> QED
          BY <1>1, <2>1, <2>4, <4>3 DEF Advanced
      <3>5. Nominal(s, at)
        BY <3>1 DEF Folded
      <3>6. id = [s |-> s, gen |-> sched[s].gen, at |-> at]
        BY <2>1
      <3> HIDE DEF s, sc, at, gap, redel, t, id, ledger
      <3>7. ClockLeads'
        BY <2>1, <2>2, <2>3, <2>4, <2>6, <3>3, <3>4, <3>5, AdvancedLeads
      <3>8. NoFireLost'
        BY <2>1, <2>2, <2>3, <2>6, <3>1, <3>3, <3>4, <3>6, AdvancedLosesNone
      <3>9. \A r \in Recurring : timer'[r].next \in Nat /\ timer[r].next <= timer'[r].next
        <4> SUFFICES ASSUME NEW r \in Recurring
                     PROVE  timer'[r].next \in Nat /\ timer[r].next <= timer'[r].next
          OBVIOUS
        <4>1. r \in ScheduleIDs /\ timer[r].next \in Nat
          BY RecurringFacts
        <4>2. PICK m \in Nat \ {0} : m = sched[s].interval
          BY <2>1, <2>6, RecurringFacts
        <4>3. timer'[s].next = at + m
          BY <3>4, <4>2 DEF Advanced
        <4> QED
          BY <2>3, <3>3, <3>4, <4>1, <4>2, <4>3 DEF Advanced
      <3>10. FireFolds'
        BY <1>1, <1>2, <2>2, <3>9, WrittenFolds DEF Written
      <3> QED
        BY <3>7, <3>8, <3>10
    <2> QED
      BY <2>3, <2>5, <2>6, Kinds
  <1> QED
    BY <1>1, <1>3, <1>4 DEF ConvergeOccurrence

-----------------------------------------------------------------------------
(* The invariant and what it gives.                                        *)

LEMMA InitFires ==
    ASSUME Init
    PROVE  FireInv
  <1>1. ClockLeads /\ NoFireLost
    BY Kinds DEF Init, ClockLeads, NoFireLost, NoSchedule
  <1>2. FireFolds /\ OneRedelivered
    BY DEF Init, FireFolds, OneRedelivered, Firing
  <1>3. HandlersNeverFold
    BY DEF Init, HandlersNeverFold, NoHandler
  <1> QED
    BY <1>1, <1>2, <1>3 DEF FireInv

LEMMA NextFireInv ==
    ASSUME IInv, IInv', OrderInv, FireInv, [Next]_vars
    PROVE  FireInv'
  <1>0. ClockLeads /\ FireFolds /\ OneRedelivered /\ HandlersNeverFold /\ NoFireLost /\ GapIsExact
    BY DEF FireInv, OrderInv
  <1>1. OneRedelivered' /\ HandlersNeverFold'
    BY <1>0, OneKept, NextNeverFolds
  <1>2. CASE \E p \in Procs : ConvergeOccurrence(p)
    BY <1>0, <1>1, <1>2, ConvergeFires DEF FireInv
  <1>3. CASE ~(\E p \in Procs : ConvergeOccurrence(p))
    <2>1. RowsStay /\ ClocksStay
      BY <1>0, <1>3, NextStays
    <2>2. ClockLeads' /\ NoFireLost'
      BY <1>0, <2>1, LeadsKept, LostKept
    <2>3. CASE \E p \in Procs : ReadClock(p)
      BY <1>0, <1>1, <2>2, <2>3, ReadClockFires DEF FireInv
    <2>4. CASE ~(\E p \in Procs : ReadClock(p))
      BY <1>0, <1>1, <2>1, <2>2, <2>4, NextFires, FoldsKept DEF FireInv
    <2> QED
      BY <2>3, <2>4
  <1> QED
    BY <1>2, <1>3

\* The three invariants hold in every reachable state.
THEOREM FireInvariance == Spec => [](IInv /\ OrderInv /\ FireInv)
  <1>1. Init => FireInv
    BY InitFires
  <1>2. (IInv /\ OrderInv) /\ (IInv /\ OrderInv)' /\ FireInv /\ [Next]_vars => FireInv'
    BY NextFireInv
  <1> QED
    BY <1>1, <1>2, OrderInvariance, PTL DEF Spec

\* However often convergeOccurrence folds a late or redelivered fire into the
\* next one, and whichever process does it, every nominal instant the clock has
\* passed has an occurrence or lies in the recorded gap of one.
THEOREM NothingLost == Spec => []NoFireLost
  <1>1. IInv /\ OrderInv /\ FireInv => NoFireLost
    BY DEF FireInv
  <1> QED
    BY <1>1, FireInvariance, PTL

-----------------------------------------------------------------------------
(* The contract: what one transaction does to the debt of a schedule.      *)

\* What Contract sees of the rows of s.
OwedOf(s) == {[gen |-> i.gen, at |-> i.at] : i \in PendingOf(s)}
DoneOf(s) == {[gen |-> i.gen, at |-> i.at] : i \in {j \in DOMAIN occ : j.s = s} \ PendingOf(s)}

Gens == [s \in ScheduleIDs |-> sched[s].gen]
Stats == [s \in ScheduleIDs |-> sched[s].status]
Owes == [s \in ScheduleIDs |-> OwedOf(s)]
Dones == [s \in ScheduleIDs |-> DoneOf(s)]

\* A step is about schedule s alone.
Elsewhere(s) ==
    \A r \in ScheduleIDs : r # s =>
        /\ sched'[r].gen = sched[r].gen /\ sched'[r].status = sched[r].status
        /\ OwedOf(r)' = OwedOf(r) /\ DoneOf(r)' = DoneOf(r)

LEMMA Pointwise ==
    ASSUME NEW s \in ScheduleIDs, Elsewhere(s)
    PROVE  /\ Gens' = [Gens EXCEPT ![s] = sched'[s].gen]
           /\ Stats' = [Stats EXCEPT ![s] = sched'[s].status]
           /\ Owes' = [Owes EXCEPT ![s] = OwedOf(s)']
           /\ Dones' = [Dones EXCEPT ![s] = DoneOf(s)']
           /\ Gens[s] = sched[s].gen /\ Stats[s] = sched[s].status
           /\ Owes[s] = OwedOf(s) /\ Dones[s] = DoneOf(s)
           /\ sched'[s].gen = sched[s].gen => Gens' = Gens
           /\ sched'[s].status = sched[s].status => Stats' = Stats
  BY DEF Gens, Stats, Owes, Dones, Elsewhere

LEMMA ArmsIt ==
    ASSUME NEW s \in ScheduleIDs, Elsewhere(s),
           sched'[s].gen = sched[s].gen + 1, sched'[s].status = "armed",
           OwedOf(s)' = {}, DoneOf(s)' = DoneOf(s) \cup OwedOf(s)
    PROVE  Contract!Next
  <1>1. /\ Gens' = [Gens EXCEPT ![s] = Gens[s] + 1]
        /\ Stats' = [Stats EXCEPT ![s] = "armed"]
        /\ Owes' = [Owes EXCEPT ![s] = {}]
        /\ Dones' = [Dones EXCEPT ![s] = Dones[s] \cup Owes[s]]
    BY Pointwise
  <1>2. Contract!Arm(s)
    BY <1>1 DEF Contract!Arm, Gens, Stats, Owes, Dones, OwedOf, DoneOf
  <1> QED
    BY <1>2 DEF Contract!Next

LEMMA EndsIt ==
    ASSUME NEW s \in ScheduleIDs, Elsewhere(s),
           sched[s].status = "armed", sched'[s].gen = sched[s].gen,
           sched'[s].status \in {"fired", "resolved", "expired"},
           OwedOf(s)' = {}, DoneOf(s)' = DoneOf(s) \cup OwedOf(s)
    PROVE  Contract!Next
  <1>1. /\ Stats[s] = "armed" /\ Gens' = Gens
        /\ \E end \in {"fired", "resolved", "expired"} : Stats' = [Stats EXCEPT ![s] = end]
        /\ Owes' = [Owes EXCEPT ![s] = {}]
        /\ Dones' = [Dones EXCEPT ![s] = Dones[s] \cup Owes[s]]
    BY Pointwise
  <1>2. Contract!End(s)
    BY <1>1 DEF Contract!End, Gens, Stats, Owes, Dones, OwedOf, DoneOf
  <1> QED
    BY <1>2 DEF Contract!Next

LEMMA SettlesIt ==
    ASSUME NEW s \in ScheduleIDs, Elsewhere(s), UNCHANGED sched,
           NEW o \in OwedOf(s),
           OwedOf(s)' = OwedOf(s) \ {o}, DoneOf(s)' = DoneOf(s) \cup {o}
    PROVE  Contract!Next
  <1>1. /\ o \in Owes[s] /\ Gens' = Gens /\ Stats' = Stats
        /\ Owes' = [Owes EXCEPT ![s] = Owes[s] \ {o}]
        /\ Dones' = [Dones EXCEPT ![s] = Dones[s] \cup {o}]
    BY Pointwise
  <1>2. Contract!Settle(s)
    BY <1>1 DEF Contract!Settle, Gens, Stats, Owes, Dones, OwedOf, DoneOf
  <1> QED
    BY <1>2 DEF Contract!Next

LEMMA OwesIt ==
    ASSUME NEW s \in ScheduleIDs, Elsewhere(s), UNCHANGED sched, sched[s].status = "armed",
           NEW o, o.gen = sched[s].gen, o \notin OwedOf(s) \cup DoneOf(s),
           NEW superseded \in SUBSET OwedOf(s),
           OwedOf(s)' = (OwedOf(s) \ superseded) \cup {o}, DoneOf(s)' = DoneOf(s) \cup superseded
    PROVE  Contract!Next
  <1>1. /\ Stats[s] = "armed" /\ o.gen = Gens[s] /\ o \notin Owes[s] \cup Dones[s]
        /\ superseded \in SUBSET Owes[s] /\ Gens' = Gens /\ Stats' = Stats
        /\ Owes' = [Owes EXCEPT ![s] = (Owes[s] \ superseded) \cup {o}]
        /\ Dones' = [Dones EXCEPT ![s] = Dones[s] \cup superseded]
    BY Pointwise
  <1>2. Contract!Owe(s, o)
    BY <1>1 DEF Contract!Owe, Gens, Stats, Owes, Dones, OwedOf, DoneOf
  <1>3. o \in Owes'[s]
    BY DEF Owes
  <1> QED
    BY <1>2, <1>3 DEF Contract!Next, Owes, OwedOf

LEMMA LeavesIt ==
    ASSUME \A s \in ScheduleIDs :
             /\ sched'[s].gen = sched[s].gen /\ sched'[s].status = sched[s].status
             /\ OwedOf(s)' = OwedOf(s) /\ DoneOf(s)' = DoneOf(s)
    PROVE  UNCHANGED Contract!vars
  BY DEF Contract!vars, OwedOf, DoneOf

\* No transaction but one that writes to the tables shows.
LEMMA NothingShows ==
    ASSUME UNCHANGED <<sched, occ>>
    PROVE  UNCHANGED Contract!vars
  <1>1. \A s \in ScheduleIDs : OwedOf(s)' = OwedOf(s) /\ DoneOf(s)' = DoneOf(s)
    BY DEF OwedOf, DoneOf, PendingOf
  <1> QED
    BY <1>1, LeavesIt

-----------------------------------------------------------------------------
(* The same of rows.                                                       *)

\* The rows of s are settled, all of them or one.
SettlesAll(s) ==
    /\ DOMAIN occ' = DOMAIN occ
    /\ \A i \in DOMAIN occ : Pending(i)' <=> Pending(i) /\ i.s # s
SettlesOne(i) ==
    /\ DOMAIN occ' = DOMAIN occ
    /\ \A j \in DOMAIN occ : Pending(j)' <=> Pending(j) /\ j # i

LEMMA AllSettled ==
    ASSUME NEW s \in ScheduleIDs, SettlesAll(s)
    PROVE  /\ OwedOf(s)' = {} /\ DoneOf(s)' = DoneOf(s) \cup OwedOf(s)
           /\ \A r \in ScheduleIDs : r # s => OwedOf(r)' = OwedOf(r) /\ DoneOf(r)' = DoneOf(r)
  <1>1. PendingOf(s)' = {} /\ \A r \in ScheduleIDs : r # s => PendingOf(r)' = PendingOf(r)
    BY DEF SettlesAll, PendingOf, Pending
  <1>2. PendingOf(s) \subseteq {j \in DOMAIN occ : j.s = s}
    BY DEF PendingOf
  <1>3. DOMAIN occ' = DOMAIN occ
    BY DEF SettlesAll
  <1>4. OwedOf(s)' = {}
    BY <1>1 DEF OwedOf
  <1>5. DoneOf(s)' = DoneOf(s) \cup OwedOf(s)
    BY <1>1, <1>2, <1>3 DEF OwedOf, DoneOf
  <1>6. \A r \in ScheduleIDs : r # s => OwedOf(r)' = OwedOf(r) /\ DoneOf(r)' = DoneOf(r)
    BY <1>1, <1>3 DEF OwedOf, DoneOf
  <1> QED
    BY <1>4, <1>5, <1>6

LEMMA SameRow ==
    ASSUME NEW i \in Identity, NEW j \in Identity, i.s = j.s,
           [gen |-> i.gen, at |-> i.at] = [gen |-> j.gen, at |-> j.at]
    PROVE  i = j
  <1>1. i.gen = j.gen /\ i.at = j.at
    OBVIOUS
  <1> QED
    BY <1>1 DEF Identity

LEMMA OneSettled ==
    ASSUME TypeOK, NEW i \in DOMAIN occ, SettlesOne(i), UNCHANGED sched
    PROVE  [Contract!Next]_(Contract!vars)
  <1>1. CASE ~Pending(i)
    <2>1. \A s \in ScheduleIDs : PendingOf(s)' = PendingOf(s)
      BY <1>1 DEF SettlesOne, PendingOf, Pending
    <2>2. \A s \in ScheduleIDs : OwedOf(s)' = OwedOf(s) /\ DoneOf(s)' = DoneOf(s)
      BY <2>1 DEF SettlesOne, OwedOf, DoneOf
    <2> QED
      BY <2>2, LeavesIt
  <1>2. CASE Pending(i)
    <2> DEFINE o == [gen |-> i.gen, at |-> i.at]
    <2>1. i.s \in ScheduleIDs
      BY DEF TypeOK, Identity
    <2>2. /\ PendingOf(i.s)' = PendingOf(i.s) \ {i} /\ i \in PendingOf(i.s)
          /\ \A r \in ScheduleIDs : r # i.s => PendingOf(r)' = PendingOf(r)
      BY <1>2 DEF SettlesOne, PendingOf, Pending
    <2>3. \A j \in PendingOf(i.s) : [gen |-> j.gen, at |-> j.at] = o => j = i
      BY SameRow DEF PendingOf, TypeOK
    <2>4. OwedOf(i.s)' = OwedOf(i.s) \ {o}
      BY <2>2, <2>3 DEF OwedOf
    <2>5. DoneOf(i.s)' = DoneOf(i.s) \cup {o}
      BY <2>2 DEF DoneOf, SettlesOne
    <2>6. Elsewhere(i.s)
      BY <2>2 DEF Elsewhere, OwedOf, DoneOf, SettlesOne
    <2>7. o \in OwedOf(i.s)
      BY <2>2 DEF OwedOf
    <2> HIDE DEF o
    <2> QED
      BY <2>1, <2>4, <2>5, <2>6, <2>7, SettlesIt
  <1> QED
    BY <1>1, <1>2

LEMMA OneOwed ==
    ASSUME TypeOK, NEW s \in ScheduleIDs, UNCHANGED sched, sched[s].status = "armed",
           NEW id \in Identity, id.s = s, id.gen = sched[s].gen, id \notin DOMAIN occ,
           NEW redel, \A i \in redel : i.s = s,
           DOMAIN occ' = DOMAIN occ \cup {id}, Pending(id)',
           \A i \in DOMAIN occ : Pending(i)' <=> Pending(i) /\ i \notin redel
    PROVE  Contract!Next
  <1> DEFINE o == [gen |-> id.gen, at |-> id.at]
             superseded == {[gen |-> i.gen, at |-> i.at] : i \in PendingOf(s) \cap redel}
  <1>1. \A i \in DOMAIN occ : i.s = s => [gen |-> i.gen, at |-> i.at] # o
    BY SameRow DEF TypeOK
  <1>2. \A i, j \in PendingOf(s) :
          [gen |-> i.gen, at |-> i.at] = [gen |-> j.gen, at |-> j.at] => i = j
    BY SameRow DEF TypeOK, PendingOf
  <1>3. /\ PendingOf(s)' = (PendingOf(s) \ redel) \cup {id}
        /\ \A r \in ScheduleIDs : r # s => PendingOf(r)' = PendingOf(r)
    BY DEF PendingOf, Pending
  <1>4. o \notin OwedOf(s) \cup DoneOf(s)
    BY <1>1 DEF OwedOf, DoneOf, PendingOf
  <1>5. superseded \in SUBSET OwedOf(s)
    BY DEF OwedOf
  <1>6. OwedOf(s)' = (OwedOf(s) \ superseded) \cup {o}
    BY <1>2, <1>3 DEF OwedOf
  <1>7. DoneOf(s)' = DoneOf(s) \cup superseded
    <2>1. {j \in DOMAIN occ' : j.s = s} \ PendingOf(s)' =
             ({j \in DOMAIN occ : j.s = s} \ PendingOf(s)) \cup (PendingOf(s) \cap redel)
      BY <1>3 DEF PendingOf
    <2> QED
      BY <2>1 DEF DoneOf
  <1>8. Elsewhere(s)
    <2> SUFFICES ASSUME NEW r \in ScheduleIDs, r # s
                 PROVE  OwedOf(r)' = OwedOf(r) /\ DoneOf(r)' = DoneOf(r)
      BY DEF Elsewhere
    <2>1. PendingOf(r)' = PendingOf(r)
      BY <1>3
    <2>2. {j \in DOMAIN occ' : j.s = r} = {j \in DOMAIN occ : j.s = r}
      OBVIOUS
    <2> QED
      BY <2>1, <2>2 DEF OwedOf, DoneOf
  <1>9. o.gen = sched[s].gen
    OBVIOUS
  <1> HIDE DEF o, superseded
  <1> QED
    BY <1>4, <1>5, <1>6, <1>7, <1>8, <1>9, OwesIt

LEMMA SettlePendingAll ==
    ASSUME TypeOK, NEW s, NEW outcome \in Outcomes \ {"pending"},
           occ' = SettlePending(occ, s, outcome)
    PROVE  SettlesAll(s)
  <1> DEFINE rows == {i \in DOMAIN occ : i.s = s}
  <1>1. occ \in [DOMAIN occ -> Occurrence] /\ occ' = Settle(occ, rows, outcome)
    BY DEF TypeOK, SettlePending
  <1>2. /\ occ' \in [DOMAIN occ -> Occurrence]
        /\ \A i \in DOMAIN occ : occ'[i].outcome = "pending" <=> occ[i].outcome = "pending" /\ i \notin rows
    BY <1>1, SettledRows
  <1> QED
    BY <1>2 DEF SettlesAll, Pending

LEMMA SettleOne ==
    ASSUME TypeOK, NEW i, NEW outcome \in Outcomes, occ' = Settle(occ, {i}, outcome)
    PROVE  occ' = occ \/ (i \in DOMAIN occ /\ SettlesOne(i))
  <1>1. occ \in [DOMAIN occ -> Occurrence]
    BY DEF TypeOK
  <1>2. CASE outcome = "pending"
    BY <1>1, <1>2 DEF Settle, Occurrence
  <1>3. CASE i \notin DOMAIN occ
    BY <1>1, <1>3 DEF Settle
  <1>4. CASE outcome # "pending" /\ i \in DOMAIN occ
    <2>1. /\ occ' \in [DOMAIN occ -> Occurrence]
          /\ \A j \in DOMAIN occ : occ'[j].outcome = "pending" <=> occ[j].outcome = "pending" /\ j \notin {i}
      BY <1>1, <1>4, SettledRows
    <2> QED
      BY <1>4, <2>1 DEF SettlesOne, Pending
  <1> QED
    BY <1>2, <1>3, <1>4

\* One schedule's generation is replaced, or ends, with its rows.
LEMMA Replaced ==
    ASSUME TypeOK, NEW s \in ScheduleIDs, NEW new, sched' = [sched EXCEPT ![s] = new], SettlesAll(s),
           \/ new.gen = sched[s].gen + 1 /\ new.status = "armed"
           \/ /\ new.gen = sched[s].gen /\ sched[s].status = "armed"
              /\ new.status \in {"fired", "resolved", "expired"}
    PROVE  Contract!Next
  <1>1. sched'[s] = new /\ \A r \in ScheduleIDs : r # s => sched'[r] = sched[r]
    BY DEF TypeOK
  <1>2. /\ OwedOf(s)' = {} /\ DoneOf(s)' = DoneOf(s) \cup OwedOf(s)
        /\ Elsewhere(s)
    BY <1>1, AllSettled DEF Elsewhere
  <1> QED
    BY <1>1, <1>2, ArmsIt, EndsIt

-----------------------------------------------------------------------------
(* Every transaction.                                                      *)

LEMMA ArmingRefines ==
    ASSUME IInv, (\E s \in Jobs : ArmJob(s)) \/ (\E p \in Clis : ArmPoll(p))
    PROVE  [Contract!Next]_(Contract!vars)
  <1>1. \E s \in Recurring, ver \in Nat : \E interval, expires, first :
          Converge(s, ver, interval, expires, first)
    <2>1. CASE \E s \in Jobs : ArmJob(s)
      BY <2>1, Kinds DEF ArmJob
    <2>2. CASE \E p \in Clis : ArmPoll(p)
      BY <2>2, Facts, Kinds DEF ArmPoll, BootShape, TypeOK, Boot
    <2> QED
      BY <2>1, <2>2
  <1>2. PICK s \in Recurring, ver \in Nat : \E interval, expires, first :
          Converge(s, ver, interval, expires, first)
    BY <1>1
  <1>3. PICK interval, expires, first : Converge(s, ver, interval, expires, first)
    BY <1>2
  <1> DEFINE old == sched[s]
             mid == ReArmed(old, ver)
             new == [mid EXCEPT !.interval = interval, !.expires = expires]
  <1>4. s \in ScheduleIDs /\ old \in Schedule
    BY RecurringFacts
  <1>5. mid \in Schedule /\ mid.gen = old.gen + 1 /\ mid.status = "armed"
    BY <1>4, ReArmedRow
  <1>6. \/ UNCHANGED <<sched, occ>>
        \/ sched' = [sched EXCEPT ![s] = new] /\ occ' = SettlePending(occ, s, "stale_generation")
    BY <1>3 DEF Converge
  <1> HIDE DEF mid
  <1>7. new.gen = old.gen + 1 /\ new.status = "armed"
    BY <1>5 DEF Schedule
  <1> HIDE DEF new
  <1>8. CASE sched' = [sched EXCEPT ![s] = new] /\ occ' = SettlePending(occ, s, "stale_generation")
    <2>1. SettlesAll(s)
      BY <1>8, Facts, SettlePendingAll DEF Outcomes
    <2> QED
      BY <1>4, <1>7, <1>8, <2>1, Facts, Replaced
  <1> QED
    BY <1>6, <1>8, NothingShows

\* A watch that is created has no rows yet that could be pending.
LEMMA WatchRefines ==
    ASSUME IInv, NEW s \in Deadlines, ArmPublicationWatch(s)
    PROVE  Contract!Next
  <1> DEFINE new == [ReArmed(NoSchedule, subject[s].ver) EXCEPT !.fireAt = now + DeadlineWait]
  <1>1. sched[s].status = "absent" /\ sched' = [sched EXCEPT ![s] = new] /\ UNCHANGED occ
    BY DEF ArmPublicationWatch
  <1>2. s \in ScheduleIDs /\ sched[s] = NoSchedule
    BY <1>1, Facts, Kinds DEF Tables, ScheduleShape
  <1>3. new.status = "armed" /\ new.gen = sched[s].gen + 1
    BY <1>2 DEF ReArmed, NoSchedule
  <1>4. \A i \in DOMAIN occ : Pending(i) => i.s # s
    BY <1>1, Facts DEF Tables, PendingIsCurrent, Pending
  <1>5. SettlesAll(s)
    BY <1>1, <1>4 DEF SettlesAll, Pending
  <1> HIDE DEF new
  <1> QED
    BY <1>1, <1>2, <1>3, <1>5, Facts, Replaced

LEMMA ConcludeRefines ==
    ASSUME IInv, NEW p \in Procs, FireExpired(p) \/ FireDead(p)
    PROVE  [Contract!Next]_(Contract!vars)
  <1>1. Firing(p) /\ \E end \in {"resolved", "expired"} : ConcludeFire(p, end)
    BY DEF FireExpired, FireDead, Firing
  <1>2. PICK end \in {"resolved", "expired"} : ConcludeFire(p, end)
    BY <1>1
  <1> DEFINE s == cur[p].s
             new == Concluded(Snap(p), end)
  <1>3. s \in ScheduleIDs /\ Copy(Snap(p), sched[s], s) /\ Snap(p) \in Schedule
    BY <1>1, FiringFacts
  <1>4. CASE UNCHANGED store
    BY <1>4, NothingShows DEF store
  <1>5. CASE /\ ~Superseded(s, Snap(p))
             /\ sched' = [sched EXCEPT ![s] = new]
             /\ occ' = SettlePending(occ, s, "condition_no_longer_applies")
    <2>1. Snap(p) = sched[s] /\ sched[s].status = "armed"
      BY <1>3, <1>5 DEF Superseded, Copy
    <2>2. new.status = end /\ new.gen = sched[s].gen
      BY <1>3, <2>1, ConcludedRow
    <2>3. SettlesAll(s)
      BY <1>5, Facts, SettlePendingAll DEF Outcomes
    <2> HIDE DEF s, new
    <2> QED
      BY <1>3, <1>5, <2>1, <2>2, <2>3, Facts, Replaced
  <1> QED
    BY <1>2, <1>4, <1>5 DEF ConcludeFire

\* At most one row gets an outcome.
LEMMA RowRefines ==
    ASSUME IInv, UNCHANGED sched, NEW i, NEW outcome \in Outcomes,
           occ' = occ \/ occ' = Settle(occ, {i}, outcome)
    PROVE  [Contract!Next]_(Contract!vars)
  <1>1. occ' = occ \/ (i \in DOMAIN occ /\ SettlesOne(i))
    BY Facts, SettleOne
  <1> QED
    BY <1>1, Facts, NothingShows, OneSettled

LEMMA RedeliverRefines ==
    ASSUME IInv, NEW p \in Procs, Redeliver(p)
    PROVE  [Contract!Next]_(Contract!vars)
  <1>1. PICK i : UNCHANGED sched /\ (occ' = occ \/ occ' = Settle(occ, {i}, "stale_generation"))
    BY DEF Redeliver
  <1>2. "stale_generation" \in Outcomes
    BY DEF Outcomes
  <1> QED
    BY <1>1, <1>2, RowRefines

LEMMA ConsumeRefines ==
    ASSUME IInv, NEW p \in Procs, NEW s \in ScheduleIDs, Consume(p, s)
    PROVE  [Contract!Next]_(Contract!vars)
  <1> DEFINE h == hand[p][s]
             rest == IF h.put.status = "armed"
                     THEN "stale_generation" ELSE "condition_no_longer_applies"
             mid == Settle(occ, h.id, h.outcome)
  <1>1. /\ Copy(h.sc, sched[s], s)
        /\ \E i \in DOMAIN occ : h.id = {i} /\ i.s = s
        /\ \/ h.put = NoSchedule
           \/ \E end \in {"fired", "resolved"} : h.put = Concluded(h.sc, end)
           \/ s \in Deadlines /\ h.put = ReArmed(h.sc, h.put.ver)
        /\ h.sc \in Schedule /\ h.put \in Schedule /\ h.outcome \in Outcomes
    <2>1. h.stage # "idle" /\ h.sc \in Schedule /\ h.put \in Schedule /\ h.outcome \in Outcomes
      BY Facts DEF Consume, TypeOK, Handler
    <2> QED
      BY <2>1 DEF IInv, HandlerShape
  <1>2. PICK i \in DOMAIN occ : h.id = {i} /\ i.s = s
    BY <1>1
  <1>3. CASE /\ UNCHANGED sched
             /\ occ' = occ \/ \E outcome \in {h.outcome, "stale_generation"} :
                                occ' = Settle(occ, h.id, outcome)
    <2>1. \E outcome \in Outcomes : occ' = occ \/ occ' = Settle(occ, {i}, outcome)
      BY <1>1, <1>2, <1>3 DEF Outcomes
    <2> QED
      BY <1>3, <2>1, RowRefines
  <1>4. CASE /\ h.put # NoSchedule /\ ~Superseded(s, h.sc)
             /\ sched' = [sched EXCEPT ![s] = h.put]
             /\ occ' = SettlePending(mid, s, rest)
    <2>1. sched[s] = h.sc /\ h.sc.status = "armed"
      BY <1>1, <1>4 DEF Superseded, Copy
    <2>2. \/ h.put.gen = sched[s].gen /\ h.put.status \in {"fired", "resolved"}
          \/ h.put.gen = sched[s].gen + 1 /\ h.put.status = "armed"
      <3>1. CASE \E end \in {"fired", "resolved"} : h.put = Concluded(h.sc, end)
        BY <1>1, <2>1, <3>1, ConcludedRow
      <3>2. CASE s \in Deadlines /\ h.put = ReArmed(h.sc, h.put.ver)
        <4>1. PICK ver \in Nat : h.put = ReArmed(h.sc, ver)
          BY <1>1, <3>2 DEF Schedule
        <4> QED
          BY <1>1, <2>1, <4>1, ReArmedRow
      <3> QED
        BY <1>1, <1>4, <3>1, <3>2
    <2>3. SettlesAll(s)
      <3>1. occ \in [DOMAIN occ -> Occurrence] /\ rest \in Outcomes \ {"pending"}
        BY Facts DEF TypeOK, Outcomes
      <3>2. /\ mid \in [DOMAIN occ -> Occurrence]
            /\ \A j \in DOMAIN occ :
                 /\ mid[j].outcome = "pending" => occ[j].outcome = "pending"
                 /\ j \notin h.id => mid[j] = occ[j]
        BY SMTT(30), <1>1, <3>1, SettledOnly
      <3> DEFINE rows == {j \in DOMAIN mid : j.s = s}
      <3>3. occ' = Settle(mid, rows, rest) /\ rows = {j \in DOMAIN occ : j.s = s}
        BY <1>4, <3>2 DEF SettlePending
      <3> HIDE DEF mid, rest, h, rows
      <3>4. /\ occ' \in [DOMAIN occ -> Occurrence]
            /\ \A j \in DOMAIN occ : occ'[j].outcome = "pending" <=> mid[j].outcome = "pending" /\ j \notin rows
        BY <3>1, <3>2, <3>3, SettledRows
      <3> QED
        BY <1>2, <3>2, <3>3, <3>4 DEF SettlesAll, Pending
    <2> HIDE DEF h
    <2> QED
      BY <1>4, <2>1, <2>2, <2>3, Facts, Replaced
  <1> QED
    BY <1>3, <1>4 DEF Consume

LEMMA WriteRefines ==
    ASSUME TypeOK, NEW s \in ScheduleIDs, UNCHANGED sched, sched[s].status = "armed",
           NEW id \in Identity, id.s = s, id.gen = sched[s].gen, id \notin DOMAIN occ,
           NEW redel, \A i \in redel : i \in DOMAIN occ /\ i.s = s, NEW gap,
           occ' = Supersede(redel, id, gap)
    PROVE  Contract!Next
  <1> DEFINE before == Settle(occ, redel, "coalesced")
  <1>1. occ \in [DOMAIN occ -> Occurrence] /\ "coalesced" \in Outcomes \ {"pending"}
    BY DEF TypeOK, Outcomes
  <1>2. /\ before \in [DOMAIN occ -> Occurrence]
        /\ \A i \in DOMAIN occ :
             before[i].outcome = "pending" <=> occ[i].outcome = "pending" /\ i \notin redel
    BY <1>1, SettledRows
  <1>3. DOMAIN before = DOMAIN occ
    BY <1>2
  <1> HIDE DEF before
  <1>4. occ' = [i \in DOMAIN occ \cup {id} |->
                  IF i \in DOMAIN occ THEN before[i] ELSE [outcome |-> "pending", gap |-> gap]]
    BY <1>3 DEF Supersede, CreatePending, before
  <1>5. DOMAIN occ' = DOMAIN occ \cup {id} /\ Pending(id)'
    BY <1>4 DEF Pending
  <1>6. \A i \in DOMAIN occ : Pending(i)' <=> Pending(i) /\ i \notin redel
    BY <1>2, <1>4, <1>5 DEF Pending
  <1> QED
    BY <1>5, <1>6, OneOwed

\* A fire that reaches its write half owes a new row, or writes nothing.
LEMMA ConvergeRefines ==
    ASSUME IInv, ClockLeads, FireFolds, NEW p \in Procs, ConvergeOccurrence(p)
    PROVE  [Contract!Next]_(Contract!vars)
  <1> DEFINE s == cur[p].s
             sc == Snap(p)
             at == cur[p].at
             gap == cur[p].gap
             redel == cur[p].redel
             t == scan[p].now
             id == [s |-> s, gen |-> sc.gen, at |-> at]
             before == Settle(occ, redel, "coalesced")
  <1>1. pc[p] = "converge" /\ Firing(p) /\ UNCHANGED sched
    BY DEF ConvergeOccurrence, Firing
  <1>2. CASE UNCHANGED occ
    BY <1>1, <1>2, NothingShows
  <1>3. CASE ~(s \in Recurring /\ ClockStale(s, sc, t)) /\ occ' = Supersede(redel, id, gap)
    <2>1. sched[s] = sc /\ sched[s].status = "armed" /\ sched[s].gen = sc.gen
      BY <1>1, <1>3, ConvergeIsLive
    <2>2. /\ s \in ScheduleIDs /\ at \in Nat /\ gap \in Gap /\ t \in Nat /\ id \in Identity
          /\ \A i \in redel : i \in DOMAIN occ /\ i.s = s
      BY <1>1, FiringFacts, Facts DEF TypeOK, Fire, Scan, Schedule, Identity
    <2>3. Written(redel, id, gap)
      BY <1>3, Facts, SupersedeWrites
    <2>4. id.s = s /\ id.gen = sched[s].gen
      BY <2>1
    <2>5. CASE id \notin DOMAIN occ
      <3> HIDE DEF s, sc, at, gap, redel, t, id
      <3>1. TypeOK /\ UNCHANGED sched
        BY <1>1, Facts
      <3> QED
        BY <1>3, <2>1, <2>2, <2>4, <2>5, <3>1, WriteRefines
    <2>6. CASE id \in DOMAIN occ /\ s \in Deadlines
      <3>1. redel = {}
        BY <1>1, <2>6 DEF IInv, FireShape
      <3>2. occ' = occ
        <4>1. occ \in [DOMAIN occ -> Occurrence]
          BY Facts DEF TypeOK
        <4>2. before = occ
          BY <3>1, <4>1 DEF Settle
        <4> HIDE DEF before, id, gap
        <4> QED
          BY <1>3, <2>6, <4>1, <4>2 DEF Supersede, CreatePending, before
      <3> QED
        BY <1>2, <3>2
    <2>7. CASE s \in Recurring
      <3>1. Folded(s, redel, [at |-> at, gap |-> gap], t)
        <4>1. Live(s, sc.gen) /\ sc.interval = sched[s].interval
          BY <2>1 DEF Live
        <4> QED
          BY <1>1, <2>7, <4>1 DEF FireFolds, Folded
      <3>2. timer[s].next <= t
        <4>1. ~(timer[s].next > t)
          BY <1>3, <2>7 DEF ClockStale
        <4>2. timer[s].next \in Nat
          BY <2>7, RecurringFacts
        <4> QED
          BY <2>2, <4>1, <4>2
      <3>3. id \notin DOMAIN occ
        BY <2>1, <2>2, <2>7, <3>1, <3>2, ClockReached
      <3> QED
        BY <2>5, <3>3
    <2> QED
      BY <2>2, <2>5, <2>6, <2>7, Kinds
  <1> QED
    BY <1>2, <1>3 DEF ConvergeOccurrence

LEMMA NextRefines ==
    ASSUME IInv, FireInv, [Next]_vars
    PROVE  [Contract!Next]_(Contract!vars)
  <1>1. CASE DaemonBoot \/ StopOnError
    BY <1>1, ArmingRefines, NothingShows DEF DaemonBoot, BootDaemon, StartLoop, StopOnError, store
  <1>2. ASSUME NEW p \in Clis, CliStep(p)
        PROVE  [Contract!Next]_(Contract!vars)
    BY <1>2, ArmingRefines, NothingShows
    DEF CliStep, BeginInstallation, ResumeInstallation, AwaitPoll, store
  <1>3. ASSUME NEW p \in Procs, PassStep(p)
        PROVE  [Contract!Next]_(Contract!vars)
    BY <1>3, ConcludeRefines, RedeliverRefines, ConvergeRefines, NothingShows
    DEF PassStep, StartPass, TakeDue, EndPass, CheckSubject, ReadClock, store, FireInv
  <1>4. ASSUME NEW p \in Procs, NEW s \in ScheduleIDs, HandlerStep(p, s) \/ FailJob(p, s)
        PROVE  [Contract!Next]_(Contract!vars)
    BY <1>4, ConsumeRefines, NothingShows
    DEF HandlerStep, HandleDeadline, HandleJob, HandlePoll, ClearInFlight, FailJob, store
  <1>5. ASSUME NEW p \in Procs, Stopped(p) \/ Crash(p)
        PROVE  [Contract!Next]_(Contract!vars)
    BY <1>5, NothingShows DEF Stopped, Crash, store
  <1>6. CASE World
    BY <1>6, WatchRefines, NothingShows DEF World, Tick, WriteItem, PromoteInstallation, store
  <1>7. CASE UNCHANGED vars
    BY <1>7, NothingShows DEF vars
  <1> QED
    BY <1>1, <1>2, <1>3, <1>4, <1>5, <1>6, <1>7 DEF Next

LEMMA InitRefines == Init => Contract!Init
  <1> SUFFICES ASSUME Init
               PROVE  Contract!Init
    OBVIOUS
  <1>1. DOMAIN occ = {} /\ sched = [s \in ScheduleIDs |-> NoSchedule]
    BY DEF Init
  <1>2. \A s \in ScheduleIDs : sched[s].gen = 0 /\ sched[s].status = "absent" /\ PendingOf(s) = {}
    BY <1>1 DEF NoSchedule, PendingOf
  <1> QED
    BY <1>1, <1>2 DEF Contract!Init

\* Whatever the processes, their races, crashes and failed handlers, every
\* transaction on the schedule tables is one step of the contract of one
\* schedule, or none: convergeOccurrence, consume and conclude never settle a
\* row twice and never leave one owed by a generation that is over.
THEOREM SchedulerImplements == Spec => ImplementsContract
  <1>1. IInv /\ OrderInv /\ FireInv /\ [Next]_vars => [Contract!Next]_(Contract!vars)
    BY NextRefines
  <1> QED
    BY <1>1, InitRefines, FireInvariance, PTL DEF Spec, ImplementsContract, Contract!Spec

-----------------------------------------------------------------------------
(* Recorded outcomes.                                                      *)

\* What OutcomesAreFinal says of one step.
RowsAreFinal ==
    \A i \in DOMAIN occ :
        i \in DOMAIN occ' /\ (occ[i].outcome # "pending" => occ'[i] = occ[i])

\* Every write of the ledger settles rows, or adds one after folding others away.
LEMMA WritesAreFinal ==
    ASSUME \/ UNCHANGED occ
           \/ \E ids, outcome : occ' = Settle(occ, ids, outcome)
           \/ \E ids, outcome, s, rest :
                 occ' = SettlePending(Settle(occ, ids, outcome), s, rest)
           \/ \E redel, id, gap : occ' = Supersede(redel, id, gap)
    PROVE  RowsAreFinal
  <1>1. ASSUME NEW ids, NEW outcome
        PROVE  /\ DOMAIN Settle(occ, ids, outcome) = DOMAIN occ
               /\ \A i \in DOMAIN occ :
                     occ[i].outcome # "pending" => Settle(occ, ids, outcome)[i] = occ[i]
    BY DEF Settle
  <1>2. ASSUME NEW ids, NEW outcome, NEW s, NEW rest,
               occ' = SettlePending(Settle(occ, ids, outcome), s, rest)
        PROVE  RowsAreFinal
    <2> DEFINE mid == Settle(occ, ids, outcome)
    <2>1. /\ DOMAIN mid = DOMAIN occ
          /\ \A i \in DOMAIN occ : occ[i].outcome # "pending" => mid[i] = occ[i]
      BY <1>1
    <2> HIDE DEF mid
    <2> QED
      BY <1>2, <2>1 DEF mid, SettlePending, Settle, RowsAreFinal
  <1>3. ASSUME NEW redel, NEW id, NEW gap, occ' = Supersede(redel, id, gap)
        PROVE  RowsAreFinal
    <2> DEFINE mid == Settle(occ, redel, "coalesced")
    <2>1. /\ DOMAIN mid = DOMAIN occ
          /\ \A i \in DOMAIN occ : occ[i].outcome # "pending" => mid[i] = occ[i]
      BY <1>1
    <2> HIDE DEF mid
    <2> QED
      BY <1>3, <2>1 DEF mid, Supersede, CreatePending, RowsAreFinal
  <1> QED
    BY <1>1, <1>2, <1>3 DEF RowsAreFinal

LEMMA NextIsFinal ==
    ASSUME [Next]_vars
    PROVE  RowsAreFinal
  <1>1. CASE DaemonBoot \/ StopOnError
    BY <1>1, WritesAreFinal
    DEF DaemonBoot, BootDaemon, ArmJob, StartLoop, StopOnError, Converge, SettlePending, store
  <1>2. ASSUME NEW p \in Clis, CliStep(p)
        PROVE  RowsAreFinal
    BY <1>2, WritesAreFinal
    DEF CliStep, BeginInstallation, ResumeInstallation, ArmPoll, AwaitPoll, Converge,
        SettlePending, store
  <1>3. ASSUME NEW p \in Procs, PassStep(p)
        PROVE  RowsAreFinal
    <2>1. CASE FireExpired(p) \/ FireDead(p)
      BY <2>1, WritesAreFinal DEF FireExpired, FireDead, ConcludeFire, SettlePending, store
    <2>2. CASE Redeliver(p)
      BY <2>2, WritesAreFinal DEF Redeliver
    <2>3. CASE ConvergeOccurrence(p)
      BY <2>3, WritesAreFinal DEF ConvergeOccurrence
    <2> QED
      BY <1>3, <2>1, <2>2, <2>3, WritesAreFinal
      DEF PassStep, StartPass, TakeDue, EndPass, CheckSubject, ReadClock, store
  <1>4. ASSUME NEW p \in Procs, NEW s \in ScheduleIDs, HandlerStep(p, s) \/ FailJob(p, s)
        PROVE  RowsAreFinal
    <2>1. CASE Consume(p, s)
      BY <2>1, WritesAreFinal DEF Consume
    <2> QED
      BY <1>4, <2>1, WritesAreFinal
      DEF HandlerStep, HandleDeadline, HandleJob, HandlePoll, ClearInFlight, FailJob, store
  <1>5. ASSUME NEW p \in Procs, Stopped(p) \/ Crash(p)
        PROVE  RowsAreFinal
    BY <1>5, WritesAreFinal DEF Stopped, Crash, store
  <1>6. CASE World
    BY <1>6, WritesAreFinal
    DEF World, Tick, WriteItem, ArmPublicationWatch, PromoteInstallation, store
  <1>7. CASE UNCHANGED vars
    BY <1>7, WritesAreFinal DEF vars
  <1> QED
    BY <1>1, <1>2, <1>3, <1>4, <1>5, <1>6, <1>7 DEF Next

\* Whoever consumes, concludes, re-arms, redelivers or folds an occurrence, in
\* whatever order: its first outcome and its gap are the ones it keeps.
THEOREM OutcomesFinal == Spec => OutcomesAreFinal
  <1>1. [Next]_vars =>
          [\A i \in DOMAIN occ :
             /\ i \in DOMAIN occ'
             /\ occ[i].outcome # "pending" => occ'[i] = occ[i]]_vars
    BY NextIsFinal DEF RowsAreFinal
  <1> QED
    BY <1>1, PTL DEF Spec, OutcomesAreFinal

-----------------------------------------------------------------------------
(* Permanent jobs.                                                         *)

\* The rows of the jobs as one transaction may leave them.
JobRowsStay ==
    \A s \in Jobs : sched'[s] = sched[s] \/ sched'[s].status = "armed"

LEMMA JobRowsKept ==
    ASSUME IInv, JobsNeverEnd, [Next]_vars
    PROVE  JobRowsStay
  <1>0. sched \in [ScheduleIDs -> Schedule]
    BY Facts DEF TypeOK
  <1>a. ASSUME NEW s \in ScheduleIDs, NEW row, sched' = [sched EXCEPT ![s] = row],
               s \in Jobs => row.status = "armed"
        PROVE  JobRowsStay
    BY <1>0, <1>a, Kinds DEF JobRowsStay
  <1>b. UNCHANGED sched => JobRowsStay
    BY DEF JobRowsStay
  <1>1. ASSUME NEW s \in Recurring, NEW ver, NEW interval, NEW expires, NEW first,
               Converge(s, ver, interval, expires, first)
        PROVE  JobRowsStay
    <2> DEFINE new == [ReArmed(sched[s], ver) EXCEPT !.interval = interval, !.expires = expires]
    <2>1. s \in ScheduleIDs /\ sched[s] \in Schedule
      BY <1>0, Kinds
    <2>2. new.status = "armed"
      BY <2>1 DEF ReArmed, Schedule
    <2>3. UNCHANGED sched \/ sched' = [sched EXCEPT ![s] = new]
      BY <1>1 DEF Converge
    <2> HIDE DEF new
    <2> QED
      BY <1>a, <1>b, <2>1, <2>2, <2>3
  <1>2. CASE DaemonBoot \/ StopOnError
    BY <1>1, <1>2, <1>b, Kinds DEF DaemonBoot, BootDaemon, ArmJob, StartLoop, StopOnError, store
  <1>3. ASSUME NEW p \in Clis, CliStep(p)
        PROVE  JobRowsStay
    <2>1. CASE ArmPoll(p)
      BY <1>1, <2>1, Facts, Kinds DEF ArmPoll, BootShape
    <2> QED
      BY <1>3, <1>b, <2>1 DEF CliStep, BeginInstallation, ResumeInstallation, AwaitPoll, store
  <1>4. ASSUME NEW p \in Procs, PassStep(p)
        PROVE  JobRowsStay
    <2>1. CASE FireExpired(p) \/ FireDead(p)
      <3>1. Firing(p) /\ cur[p].s \notin Jobs
        BY <2>1, KindsDisjoint DEF FireExpired, FireDead, Expired, Firing, JobsNeverEnd
      <3>2. cur[p].s \in ScheduleIDs
        BY <3>1, FiringFacts
      <3>3. UNCHANGED sched \/ \E row : sched' = [sched EXCEPT ![cur[p].s] = row]
        BY <2>1 DEF FireExpired, FireDead, ConcludeFire, store
      <3> QED
        BY <1>a, <1>b, <3>1, <3>2, <3>3
    <2> QED
      BY <1>4, <1>b, <2>1
      DEF PassStep, StartPass, Redeliver, TakeDue, EndPass, CheckSubject, ReadClock,
          ConvergeOccurrence, store
  <1>5. ASSUME NEW p \in Procs, NEW s \in ScheduleIDs, HandlerStep(p, s) \/ FailJob(p, s)
        PROVE  JobRowsStay
    <2>1. CASE Consume(p, s)
      <3>1. s \in Jobs => hand[p][s].put = NoSchedule
        BY DEF JobsNeverEnd
      <3>2. \/ UNCHANGED sched
            \/ hand[p][s].put # NoSchedule /\ sched' = [sched EXCEPT ![s] = hand[p][s].put]
        BY <2>1 DEF Consume
      <3> QED
        BY <1>a, <1>b, <3>1, <3>2
    <2> QED
      BY <1>5, <1>b, <2>1
      DEF HandlerStep, HandleDeadline, HandleJob, HandlePoll, ClearInFlight, FailJob, store
  <1>6. ASSUME NEW p \in Procs, Stopped(p) \/ Crash(p)
        PROVE  JobRowsStay
    BY <1>6, <1>b DEF Stopped, Crash, store
  <1>7. CASE World
    <2>1. ASSUME NEW s \in Deadlines, ArmPublicationWatch(s)
          PROVE  JobRowsStay
      <3>1. \E row : sched' = [sched EXCEPT ![s] = row]
        BY <2>1 DEF ArmPublicationWatch
      <3> QED
        BY <1>a, <3>1, Kinds
    <2> QED
      BY <1>7, <1>b, <2>1 DEF World, Tick, WriteItem, PromoteInstallation, store
  <1>8. CASE UNCHANGED vars
    BY <1>8, <1>b DEF vars
  <1> QED
    BY <1>2, <1>3, <1>4, <1>5, <1>6, <1>7, <1>8 DEF Next

\* No fire on a job is found dead.
LEMMA JobsLive ==
    ASSUME IInv, JobsNeverEnd, [Next]_vars
    PROVE  \A p \in Procs : pc'[p] = "dead" => cur'[p].s \notin Jobs
  <1> DEFINE Goal == \A q \in Procs : pc'[q] = "dead" => cur'[q].s \notin Jobs
  <1>0. pc \in [Procs -> Labels] /\ cur \in [Procs -> Fire]
    BY Facts DEF TypeOK
  <1>a. ASSUME NEW p \in Procs, NEW label, NEW fire, pc' = [pc EXCEPT ![p] = label],
               label = "dead" => fire.s \notin Jobs,
               \/ cur' = [cur EXCEPT ![p] = fire]
               \/ cur' = cur /\ fire = cur[p]
        PROVE  Goal
    <2>1. pc'[p] = label /\ \A q \in Procs : q # p => pc'[q] = pc[q] /\ cur'[q] = cur[q]
      BY <1>0, <1>a
    <2>2. cur'[p] = fire
      BY <1>0, <1>a
    <2> QED
      BY <1>a, <2>1, <2>2 DEF JobsNeverEnd
  <1>b. UNCHANGED <<pc, cur>> => Goal
    BY DEF JobsNeverEnd
  <1>c. ASSUME NEW p \in Procs, Forget(p)
        PROVE  Goal
    BY <1>a, <1>c DEF Forget, GoTo
  <1>d. ASSUME NEW p \in Procs, NEW label, label # "dead", GoTo(p, label),
               UNCHANGED cur \/ \E fire : cur' = [cur EXCEPT ![p] = fire]
        PROVE  Goal
    BY <1>a, <1>d DEF GoTo
  <1> SUFFICES Goal
    OBVIOUS
  <1> HIDE DEF Goal
  <1>1. CASE DaemonBoot \/ StopOnError
    <2>1. UNCHANGED <<pc, cur>> \/ \E label \in {"arming", "idle", "stopping"} :
            GoTo(Daemon, label) /\ UNCHANGED cur
      BY <1>1 DEF DaemonBoot, BootDaemon, ArmJob, StartLoop, StopOnError
    <2> QED
      BY <2>1, <1>b, <1>d, Kinds
  <1>2. ASSUME NEW p \in Clis, CliStep(p)
        PROVE  Goal
    <2>1. p \in Procs
      BY Kinds
    <2>2. CASE ArmPoll(p)
      <3>1. boot[p].then # "dead"
        BY <2>1, Facts DEF TypeOK, Boot
      <3> QED
        BY <1>d, <2>1, <2>2, <3>1 DEF ArmPoll
    <2>3. CASE AwaitPoll(p)
      BY <1>c, <1>d, <2>1, <2>3 DEF AwaitPoll
    <2> QED
      BY <1>2, <1>d, <2>1, <2>2, <2>3 DEF CliStep, BeginInstallation, ResumeInstallation
  <1>3. ASSUME NEW p \in Procs, PassStep(p)
        PROVE  Goal
    <2>1. CASE CheckSubject(p)
      <3>1. /\ pc' = [pc EXCEPT ![p] = IF SubjectLive(Snap(p), cur[p].s) THEN "clock" ELSE "dead"]
            /\ UNCHANGED cur
        BY <2>1 DEF CheckSubject, GoTo
      <3>2. cur[p].s \in Jobs => SubjectLive(Snap(p), cur[p].s)
        BY DEF SubjectLive
      <3> QED
        BY <1>a, <3>1, <3>2
    <2>2. CASE StartPass(p) \/ Redeliver(p) \/ TakeDue(p)
      BY <2>2, <1>b, <1>d DEF StartPass, Redeliver, TakeDue
    <2>3. CASE EndPass(p)
      BY <2>3, <1>d DEF EndPass
    <2>4. CASE FireExpired(p) \/ FireDead(p)
      BY <2>4, <1>d DEF FireExpired, FireDead, ConcludeFire, FireOver, PassFails
    <2>5. CASE ReadClock(p) \/ ConvergeOccurrence(p)
      <3>1. \/ \E label \in {"pass", "stopping"} : GoTo(p, label) /\ cur' = [cur EXCEPT ![p] = NoFire]
            \/ /\ GoTo(p, "converge")
               /\ \E at, gap : cur' = [cur EXCEPT ![p].at = at, ![p].gap = gap]
        BY <2>5 DEF ReadClock, ConvergeOccurrence, Dispatch, FireOver, PassFails
      <3>2. ASSUME NEW at, NEW gap, cur' = [cur EXCEPT ![p].at = at, ![p].gap = gap]
            PROVE  cur' = [cur EXCEPT ![p] = [cur[p] EXCEPT !.at = at, !.gap = gap]]
        BY <1>0, <3>2 DEF Fire
      <3> QED
        BY <1>d, <3>1, <3>2
    <2> QED
      BY <1>3, <2>1, <2>2, <2>3, <2>4, <2>5 DEF PassStep
  <1>4. ASSUME NEW p \in Procs, NEW s \in ScheduleIDs, HandlerStep(p, s) \/ FailJob(p, s)
        PROVE  Goal
    <2>1. UNCHANGED <<pc, cur>>
      BY <1>4
      DEF HandlerStep, HandleDeadline, HandleJob, HandlePoll, Consume, ClearInFlight, FailJob
    <2> QED
      BY <2>1, <1>b
  <1>5. ASSUME NEW p \in Procs, Stopped(p) \/ Crash(p)
        PROVE  Goal
    BY <1>5, <1>c DEF Stopped, Crash
  <1>6. CASE World
    BY <1>6, <1>b DEF World, Tick, WriteItem, ArmPublicationWatch, PromoteInstallation, memory
  <1>7. CASE UNCHANGED vars
    BY <1>7, <1>b DEF vars
  <1> QED
    BY <1>1, <1>2, <1>3, <1>4, <1>5, <1>6, <1>7 DEF Next

\* No handler of a job puts a schedule.
LEMMA JobHandlersPutNothing ==
    ASSUME IInv, JobsNeverEnd, [Next]_vars
    PROVE  \A p \in Procs, s \in Jobs : hand'[p][s].put = NoSchedule
  <1> DEFINE Goal == \A q \in Procs, r \in Jobs : hand'[q][r].put = NoSchedule
  <1>0. hand \in [Procs -> [ScheduleIDs -> Handler]]
    BY Facts DEF TypeOK
  <1>a. ASSUME NEW p \in Procs, NEW s \in ScheduleIDs, NEW h, hand' = [hand EXCEPT ![p][s] = h],
               s \in Jobs => h.put = NoSchedule
        PROVE  Goal
    BY <1>0, <1>a, Kinds DEF JobsNeverEnd
  <1>1. CASE UNCHANGED hand
    BY <1>1 DEF JobsNeverEnd
  <1>2. ASSUME NEW p \in Procs, Forget(p)
        PROVE  Goal
    BY <1>0, <1>2, Kinds DEF Forget, JobsNeverEnd, NoHandler
  <1> HIDE DEF Goal
  <1>3. ASSUME NEW p \in Procs, ReadClock(p) \/ ConvergeOccurrence(p)
        PROVE  Goal
    <2>1. ASSUME NEW id \in Identity, Dispatch(p, id)
          PROVE  Goal
      <3> DEFINE h == [NoHandler EXCEPT !.stage = "handle", !.id = {id}, !.sc = Snap(p)]
      <3>1. hand' = [hand EXCEPT ![p][id.s] = h] /\ id.s \in ScheduleIDs
        BY <2>1 DEF Dispatch, Identity
      <3>2. h.put = NoSchedule
        BY DEF NoHandler
      <3> HIDE DEF h
      <3> QED
        BY <1>a, <3>1, <3>2
    <2>2. UNCHANGED hand => Goal
      BY <1>1 DEF Goal
    <2> QED
      BY <1>3, <2>1, <2>2, DispatchedIdentity
  <1>4. ASSUME NEW p \in Procs, NEW s \in ScheduleIDs, HandlerStep(p, s) \/ FailJob(p, s)
        PROVE  Goal
    <2>1. CASE HandleDeadline(p, s) \/ HandleJob(p, s) \/ HandlePoll(p, s)
      <3>1. \E outcome, put, recheck :
              Decide(p, s, outcome, put, recheck) /\ (s \in Jobs => put = NoSchedule)
        <4>1. CASE HandleJob(p, s)
          BY <4>1 DEF HandleJob
        <4>2. CASE HandleDeadline(p, s)
          BY <4>2, Kinds, KindsDisjoint DEF HandleDeadline, Recurring
        <4>3. CASE HandlePoll(p, s)
          BY <4>3, KindsDisjoint DEF HandlePoll
        <4> QED
          BY <2>1, <4>1, <4>2, <4>3
      <3> QED
        BY <1>a, <3>1, Facts, DecidedHandler
    <2>2. CASE Consume(p, s) \/ FailJob(p, s)
      <3> DEFINE h == [hand[p][s] EXCEPT !.stage = "done"]
      <3>1. hand' = [hand EXCEPT ![p][s] = h]
        BY <2>2 DEF Consume, FailJob
      <3>2. s \in Jobs => h.put = NoSchedule
        BY <1>0 DEF Handler, JobsNeverEnd
      <3> HIDE DEF h
      <3> QED
        BY <1>a, <3>1, <3>2
    <2>3. CASE ClearInFlight(p, s)
      <3>1. hand' = [hand EXCEPT ![p][s] = NoHandler] /\ NoHandler.put = NoSchedule
        BY <2>3 DEF ClearInFlight, NoHandler
      <3> QED
        BY <1>a, <3>1
    <2> QED
      BY <1>4, <2>1, <2>2, <2>3 DEF HandlerStep
  <1> QED
    BY <1>1, <1>2, <1>3, <1>4, HandSteps DEF Goal

LEMMA JobsKept ==
    ASSUME IInv, JobsNeverEnd, [Next]_vars
    PROVE  JobsNeverEnd'
  <1>1. \A s \in Jobs : sched'[s].status \in {"absent", "armed"}
    BY JobRowsKept DEF JobRowsStay, JobsNeverEnd
  <1> QED
    BY <1>1, JobsLive, JobHandlersPutNothing DEF JobsNeverEnd

LEMMA InitJobs == Init => JobsNeverEnd
  BY Kinds DEF Init, JobsNeverEnd, NoSchedule, NoHandler

\* Nothing on its way to the row of a permanent job would conclude it, in every
\* reachable state: no fire on it is found dead and no handler of it puts a row.
THEOREM JobsInvariance == Spec => [](IInv /\ JobsNeverEnd)
  <1>1. IInv /\ JobsNeverEnd /\ [Next]_vars => JobsNeverEnd'
    BY JobsKept
  <1> QED
    BY <1>1, InitJobs, Invariance, PTL DEF Spec

\* Doctor, janitor and image upkeep keep their schedules: whatever fails, expires
\* or races, an armed job is armed in every later state.
THEOREM JobsStayArmed == Spec => JobsArmedForGood
  <1>1. IInv /\ JobsNeverEnd /\ [Next]_vars =>
          [\A s \in Jobs : sched[s].status = "armed" => sched'[s].status = "armed"]_vars
    BY JobRowsKept DEF JobRowsStay
  <1> QED
    BY <1>1, JobsInvariance, PTL DEF Spec, JobsArmedForGood

-----------------------------------------------------------------------------
(* The error of a fire without a clock.                                    *)

\* Only the read half of a fire reports it.
LEMMA ClockErrorIsRead ==
    ASSUME IInv, [Next]_vars, NEW p \in Procs, err[p] # "no_timer", err'[p] = "no_timer"
    PROVE  /\ pc[p] = "clock" /\ cur[p].s \in Recurring
           /\ timer[cur[p].s] = NoTimer
  <1>0. err \in [Procs -> Errors]
    BY Facts DEF TypeOK
  <1>a. ASSUME NEW q \in Procs, NEW cause, cause # "no_timer", err' = [err EXCEPT ![q] = cause]
        PROVE  FALSE
    BY <1>0, <1>a
  <1>b. UNCHANGED err => FALSE
    OBVIOUS
  <1>c. ASSUME NEW q \in Procs, Forget(q)
        PROVE  FALSE
    BY <1>a, <1>c DEF Forget
  <1>1. ASSUME NEW q \in Procs, ReadClock(q)
        PROVE  q = p /\ pc[q] = "clock" /\ cur[q].s \in Recurring /\ timer[cur[q].s] = NoTimer
    <2>1. \/ UNCHANGED err
          \/ /\ cur[q].s \in Recurring /\ timer[cur[q].s] = NoTimer
             /\ err' = [err EXCEPT ![q] = "no_timer"]
      BY <1>1 DEF ReadClock, PassFails
    <2>2. pc[q] = "clock"
      BY <1>1 DEF ReadClock
    <2> QED
      BY <1>0, <1>b, <2>1, <2>2
  <1>2. CASE DaemonBoot \/ StopOnError
    BY <1>2, <1>b DEF DaemonBoot, BootDaemon, ArmJob, StartLoop, StopOnError
  <1>3. ASSUME NEW q \in Clis, CliStep(q)
        PROVE  FALSE
    BY <1>3, <1>b, <1>c, Kinds DEF CliStep, BeginInstallation, ResumeInstallation, ArmPoll, AwaitPoll
  <1>4. ASSUME NEW q \in Procs, PassStep(q), ~ReadClock(q)
        PROVE  FALSE
    <2>1. CASE FireExpired(q) \/ FireDead(q)
      BY <1>a, <1>b, <2>1 DEF FireExpired, FireDead, ConcludeFire, PassFails
    <2> QED
      BY <1>4, <1>b, <2>1
      DEF PassStep, StartPass, Redeliver, TakeDue, EndPass, CheckSubject, ConvergeOccurrence
  <1>5. ASSUME NEW q \in Procs, NEW s \in ScheduleIDs, HandlerStep(q, s) \/ FailJob(q, s)
        PROVE  FALSE
    <2>1. CASE Consume(q, s) \/ FailJob(q, s)
      <3>1. \/ UNCHANGED err
            \/ \E cause \in {"rejected", "handler"} :
                  err' = [err EXCEPT ![q] = IF err[q] = "none" THEN cause ELSE err[q]]
        BY <2>1 DEF Consume, FailJob
      <3>2. err'[q] # "no_timer" \/ err'[q] = err[q]
        BY <1>0, <3>1
      <3> QED
        BY <1>0, <3>1, <3>2
    <2> QED
      BY <1>5, <1>b, <2>1 DEF HandlerStep, HandleDeadline, HandleJob, HandlePoll, ClearInFlight
  <1>6. ASSUME NEW q \in Procs, Stopped(q) \/ Crash(q)
        PROVE  FALSE
    BY <1>6, <1>c DEF Stopped, Crash
  <1>7. CASE World
    BY <1>7, <1>b DEF World, Tick, WriteItem, ArmPublicationWatch, PromoteInstallation, memory
  <1>8. CASE UNCHANGED vars
    BY <1>8, <1>b DEF vars
  <1> QED
    BY <1>1, <1>2, <1>3, <1>4, <1>5, <1>6, <1>7, <1>8 DEF Next

\* latestNominal reports a missing clock only of an installation poll that some
\* process concluded or replaced after the pass had read it armed: never of the
\* daemon's own jobs, and never of a schedule that still is as it was read.
THEOREM ClockErrorsRace == Spec => ClockErrorsAreRaces
  <1>1. ASSUME IInv, JobsNeverEnd, [Next]_vars,
               NEW p \in Procs, err[p] # "no_timer", err'[p] = "no_timer"
        PROVE  cur[p].s \in Polls /\ Superseded(cur[p].s, Snap(p))
    <2>1. pc[p] = "clock" /\ cur[p].s \in Recurring /\ timer[cur[p].s] = NoTimer
      BY <1>1, ClockErrorIsRead
    <2>2. Copy(Snap(p), sched[cur[p].s], cur[p].s) /\ Snap(p) \in Schedule
      BY <1>1, <2>1, FiringFacts DEF Firing
    <2>3. sched[cur[p].s].status = "armed" => timer[cur[p].s].gen = sched[cur[p].s].gen
      BY <1>1, <2>1, RecurringFacts
    <2>4. sched[cur[p].s].gen > 0
      BY <1>1, <2>1, <2>2, RecurringFacts DEF Copy, Schedule
    <2>5. sched[cur[p].s].status # "armed"
      BY <2>1, <2>3, <2>4 DEF NoTimer
    <2>6. sched[cur[p].s].status # "absent"
      BY <1>1, <2>1, <2>4, RecurringFacts, Facts DEF Tables, ScheduleShape
    <2> QED
      BY <1>1, <2>1, <2>5, <2>6 DEF Superseded, JobsNeverEnd, Recurring
  <1>2. IInv /\ JobsNeverEnd /\ [Next]_vars =>
          [\A p \in Procs : (err[p] # "no_timer" /\ err'[p] = "no_timer") =>
             cur[p].s \in Polls /\ Superseded(cur[p].s, Snap(p))]_vars
    BY <1>1
  <1> QED
    BY <1>2, JobsInvariance, PTL DEF Spec, ClockErrorsAreRaces
=============================================================================
