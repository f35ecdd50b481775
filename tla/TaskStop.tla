------------------------------- MODULE TaskStop -------------------------------
(***************************************************************************)
(* Stopping a task: the client's Stop fences the task's starts in one      *)
(* transaction, and the engine's coordinator then proves, attempt by       *)
(* attempt, that nothing of the task still runs before it confirms.  The   *)
(* workers that launch work race both: each registers, claims its dispatch *)
(* and enters a provider, and every provider keeps an ownership record of  *)
(* its own, written before the work it stands for.  An abandoned episode   *)
(* is fenced too, by its workflow closure, without stopping anything.      *)
(* A crash loses the process's registrations and attempts, never a record, *)
(* and leaves the work it had started running.                             *)
(***************************************************************************)
EXTENDS Integers, Sequences

CONSTANTS
    Tasks,
    Runs, TaskOf,      \* runs, and the task each is of
    CampaignOf,        \* the campaign of each run
    Invs, RunOf,       \* invocations of owned work, and their runs
    KindOf,            \* "stage", "review", "judgment", "room" or "publish"
    Uncovered,         \* tasks older than the runtime's ownership journals
    MaxFacts, MaxRequests, MaxEpoch, MaxFaults  \* bounds on what is exercised

Kinds == {"stage", "review", "judgment", "room", "publish"}

ASSUME Ownership ==
    /\ TaskOf \in [Runs -> Tasks]
    /\ RunOf \in [Invs -> Runs]
    /\ KindOf \in [Invs -> Kinds]
    /\ Uncovered \subseteq Tasks
ASSUME StopBounds == {MaxFacts, MaxRequests, MaxEpoch, MaxFaults} \subseteq Nat

VARIABLES
    runs,      \* task_runs: the runs of each task, in recorded order
    facts,     \* task_lifecycle_facts; the ordinal of a fact is its place
    closures,  \* task_workflow_closures: a start and the runs captured with it
    req,       \* task_cancellations of each task with their acknowledgements
    epoch,     \* server_state.sync_epoch, counted
    rec,       \* stage attempts and review requests recorded in the store
    own,       \* the provider's ownership record of each invocation
    stopped,   \* runs whose verification rooms are fenced
    proc,      \* the work itself: not running, ours, or outlived its daemon
    pc,        \* the worker launching each invocation
    seen,      \* the request of each task the current pass has listed
    job,       \* the coordinator's retry state and attempt for each task
    faults

database == <<runs, facts, closures, req, epoch>>
work == <<rec, own, stopped, proc, pc>>
coordinator == <<seen, job>>
vars == <<runs, facts, closures, req, epoch, rec, own, stopped, proc, pc,
          seen, job, faults>>

-----------------------------------------------------------------------------
(* Episodes of a task: each recorded start opens one, and owns the runs     *)
(* from its own on, in task-run order.                                     *)

Fact == [kind : {"started", "completed", "abandoned"}, run : Runs]

Members(t) == {runs[t][n] : n \in DOMAIN runs[t]}
Before(rs, q, r) ==
    \E m, n \in DOMAIN rs : rs[m] = q /\ rs[n] = r /\ m <= n

Starts(fs) == {o \in DOMAIN fs : fs[o].kind = "started"}
Newest(S) == IF S = {} THEN 0 ELSE CHOOSE o \in S : \A p \in S : p <= o

\* Task.CurrentStart, as an ordinal.
CurrentStart(fs) == Newest(Starts(fs))

\* TaskWorkflowEpisode
Episode(rs, fs, r) == Newest({o \in Starts(fs) : Before(rs, fs[o].run, r)})
EpisodeRuns(rs, fs, o) ==
    {rs[n] : n \in {m \in DOMAIN rs : Episode(rs, fs, rs[m]) = o}}

\* AbandonTask binds an abandonment to the start that was current.
Abandoned(fs, o) ==
    \E n \in DOMAIN fs :
        fs[n].kind = "abandoned" /\ CurrentStart(SubSeq(fs, 1, n)) = o

-----------------------------------------------------------------------------
(* Requests.                                                               *)

Request == [episode : Nat, runs : SUBSET Runs, epoch : Nat,
            state : {"requested", "failed_to_stop", "confirmed"}]

Fenced(t) == req[t] # <<>>
Current(t) == req[t][Len(req[t])]

\* cancellationTarget and its digest.
Target(t) == <<CurrentStart(facts[t]), Members(t), epoch>>
TargetOf(c) == <<c.episode, c.runs, c.epoch>>

\* confirmedCancellationForCurrentEpisode
StoppedEpisode_Answered(fs, cs) == \* fault: a failed stop counts too
    /\ cs # <<>>
    /\ cs[Len(cs)].state # "requested"
    /\ cs[Len(cs)].episode = CurrentStart(fs)
StoppedEpisode(fs, cs) ==
    /\ cs # <<>>
    /\ cs[Len(cs)].state = "confirmed"
    /\ cs[Len(cs)].episode = CurrentStart(fs)

\* domain.TaskWIP; completions name the campaign and the episode of their run.
WIPIn(rs, fs, cs) ==
    LET o == CurrentStart(fs)
    IN  /\ o # 0
        /\ ~StoppedEpisode(fs, cs)
        /\ ~\E n \in DOMAIN fs :
              /\ n > o
              /\ \/ fs[n].kind = "abandoned"
                 \/ /\ fs[n].kind = "completed"
                    /\ CampaignOf[fs[n].run] = CampaignOf[fs[o].run]
                    /\ Episode(rs, fs, fs[n].run) = o
WIP(t) == WIPIn(runs[t], facts[t], req[t])

\* RequireRunWorkflowOpen
OpenIn(rs, fs, cls, r) ==
    ~\E c \in cls : c.start = Episode(rs, fs, r)
Open(r) == OpenIn(runs[TaskOf[r]], facts[TaskOf[r]], closures[TaskOf[r]], r)

\* requireTaskExecutionOpen
ExecutionOpen(r) == ~Fenced(TaskOf[r]) /\ Open(r)

-----------------------------------------------------------------------------
(* Runs, starts and endings of episodes.                                    *)

\* validateClosedWorkflowMembership, at the commit of a transaction that adds
\* a run or a start.
MembershipKept_Unchecked(t, rs, fs) == TRUE \* fault: nothing is checked
MembershipKept_Runs(t, rs, fs) == \* fault: only a new run is checked
    rs = runs[t] \/ \A c \in closures[t] : EpisodeRuns(rs, fs, c.start) = c.runs
MembershipKept(t, rs, fs) ==
    \A c \in closures[t] : EpisodeRuns(rs, fs, c.start) = c.runs

With(rs, r) == IF \E n \in DOMAIN rs : rs[n] = r THEN rs ELSE Append(rs, r)

\* PutRun of a new run: a reservation, or a continuation of its task.
PutRun(r) ==
    LET t == TaskOf[r]
        rs == Append(runs[t], r)
    IN  /\ r \notin Members(t)
        /\ MembershipKept(t, rs, facts[t])
        /\ runs' = [runs EXCEPT ![t] = rs]
        /\ UNCHANGED <<facts, closures, req, epoch, work, coordinator, faults>>

\* RecordTaskStart and AdmitTaskStart, of an existing run or in the
\* transaction that adds it.  The cap is one more refusal of an admission.
StartRun(r, admission) ==
    LET t == TaskOf[r]
        rs == With(runs[t], r)
        fs == facts[t]
        started == Append(fs, [kind |-> "started", run |-> r])
    IN  /\ ~Fenced(t)
        /\ admission \/ OpenIn(rs, fs, closures[t], r)
        /\ IF WIPIn(rs, fs, req[t])
           THEN /\ MembershipKept(t, rs, fs)
                /\ facts' = facts
           ELSE /\ Len(fs) < MaxFacts
                /\ admission \/ CurrentStart(fs) = 0
                /\ \A o \in Starts(fs) : fs[o].run # r
                /\ MembershipKept(t, rs, started)
                /\ facts' = [facts EXCEPT ![t] = started]
        /\ runs' = [runs EXCEPT ![t] = rs]
        /\ UNCHANGED <<closures, req, epoch, work, coordinator, faults>>

\* RecordTaskStartAfterRelease
Restart(r) ==
    LET t == TaskOf[r]
        o == CurrentStart(facts[t])
        started == Append(facts[t], [kind |-> "started", run |-> r])
    IN  /\ Len(facts[t]) < MaxFacts
        /\ r \in Members(t)
        /\ ExecutionOpen(r)
        /\ ~WIP(t)
        /\ o # 0 /\ facts[t][o].run = r /\ Abandoned(facts[t], o)
        /\ MembershipKept(t, runs[t], started)
        /\ facts' = [facts EXCEPT ![t] = started]
        /\ UNCHANGED <<runs, closures, req, epoch, work, coordinator, faults>>

\* RecordTaskCompletion, once for each run's unit.
Complete(r) ==
    LET t == TaskOf[r] IN
        /\ Len(facts[t]) < MaxFacts
        /\ r \in Members(t)
        /\ Open(r)
        /\ \A n \in DOMAIN facts[t] :
              ~(facts[t][n].kind = "completed" /\ facts[t][n].run = r)
        /\ facts' = [facts EXCEPT ![t] =
                        Append(@, [kind |-> "completed", run |-> r])]
        /\ UNCHANGED <<runs, closures, req, epoch, work, coordinator, faults>>

\* AbandonTask: once for each start.
AbandonedFacts(fs) ==
    LET o == CurrentStart(fs) IN
    IF o = 0 \/ Abandoned(fs, o) THEN fs
    ELSE Append(fs, [kind |-> "abandoned", run |-> fs[o].run])
Abandon(t) ==
    /\ Len(facts[t]) < MaxFacts
    /\ AbandonedFacts(facts[t]) # facts[t]
    /\ facts' = [facts EXCEPT ![t] = AbandonedFacts(@)]
    /\ UNCHANGED <<runs, closures, req, epoch, work, coordinator, faults>>

\* CloseTaskWorkflow, a transaction of its own after the abandonment; the
\* closure it wrote must read back, so its episode owns a run.
CloseTaskWorkflow(t, o) ==
    LET rs == EpisodeRuns(runs[t], facts[t], o) IN
        /\ o \in Starts(facts[t])
        /\ Abandoned(facts[t], o)
        /\ rs # {}
        /\ \A c \in closures[t] : c.start # o
        /\ closures' = [closures EXCEPT ![t] = @ \cup {[start |-> o, runs |-> rs]}]
        /\ UNCHANGED <<runs, facts, req, epoch, work, coordinator, faults>>

\* StopTask: a Stop of the current target converges on its request; only a
\* changed target makes another.
StopTask(t) ==
    /\ Len(req[t]) < MaxRequests
    /\ \A n \in DOMAIN req[t] : TargetOf(req[t][n]) # Target(t)
    /\ req' = [req EXCEPT ![t] = Append(@,
                 [episode |-> CurrentStart(facts[t]), runs |-> Members(t),
                  epoch |-> epoch, state |-> "requested"])]
    /\ UNCHANGED <<runs, facts, closures, epoch, work, coordinator, faults>>

-----------------------------------------------------------------------------
(* Workers.  An invocation's worker registers as the task's work, claims    *)
(* its dispatch and enters the provider.  A Stop cancels its context too,   *)
(* but that check races the entry, so here it refuses nobody.              *)

TaskIs(i) == TaskOf[RunOf[i]]
WorkOf(t) == {i \in Invs : TaskIs(i) = t}
Active(t) == {i \in WorkOf(t) : pc[i] # "idle"}

\* Kinds whose invocation the store records before any launch.
Recorded(i) == KindOf[i] \in {"stage", "review"}

\* "open" is work with a record and no more; a stage is "handoff" once ward's
\* journal holds it, an external effect "landed" once the forge shows it.
\* "joined" is proven over, "unproven" over without proof.
Records == {"none", "open", "handoff", "landed", "joined", "unproven"}
Running == {"none", "ours", "orphan"}

\* recordAttempt, recordReviewRequest
Record(i) ==
    /\ Recorded(i)
    /\ i \notin rec
    /\ RunOf[i] \in Members(TaskIs(i))
    /\ ExecutionOpen(RunOf[i])
    /\ rec' = rec \cup {i}
    /\ UNCHANGED <<database, own, stopped, proc, pc, coordinator, faults>>

\* A launch, or the resumption of a stage whose handoff never began.
Launchable(i) ==
    /\ Recorded(i) => i \in rec
    /\ RunOf[i] \in Members(TaskIs(i))
    /\ \/ own[i] = "none"
       \/ KindOf[i] = "stage" /\ own[i] = "open" /\ proc[i] # "ours"

\* registerTaskWork
MayRegister_Closure(i) == Open(RunOf[i]) \* fault: only the closure is read
MayRegister(i) == ExecutionOpen(RunOf[i])
Begin(i) ==
    /\ pc[i] = "idle"
    /\ Launchable(i)
    /\ MayRegister(i)
    /\ pc' = [pc EXCEPT ![i] = "registered"]
    /\ UNCHANGED <<database, rec, own, stopped, proc, coordinator, faults>>

\* claimRunDispatch
Claim(i) ==
    /\ pc[i] = "registered"
    /\ ExecutionOpen(RunOf[i])
    /\ pc' = [pc EXCEPT ![i] = "claimed"]
    /\ UNCHANGED <<database, rec, own, stopped, proc, coordinator, faults>>

\* Driver.Start, RequestReview, TaskJudgments.Complete, begin, the publisher's
\* dispatch: the record first, then the work.  A resumed stage's new seeder
\* takes over from one that outlived its daemon.
Enter(i) ==
    /\ pc[i] = "claimed"
    /\ KindOf[i] = "room" => RunOf[i] \notin stopped
    /\ own' = [own EXCEPT ![i] = "open"]
    /\ proc' = [proc EXCEPT ![i] = "ours"]
    /\ pc' = [pc EXCEPT ![i] = "entered"]
    /\ UNCHANGED <<database, rec, stopped, coordinator, faults>>

\* The worker returns: refused before it entered, or its call is over.  A
\* stage or review is only started, and a judgment's client may time out
\* while its driver's call goes on.
Waits(i) == KindOf[i] \in {"room", "publish"}
Return(i) ==
    /\ pc[i] # "idle"
    /\ ~(pc[i] = "entered" /\ Waits(i) /\ proc[i] = "ours")
    /\ pc' = [pc EXCEPT ![i] = "idle"]
    /\ UNCHANGED <<database, rec, own, stopped, proc, coordinator, faults>>

-----------------------------------------------------------------------------
(* The work in its providers.                                               *)

Becomes(i, o, p) ==
    /\ own' = [own EXCEPT ![i] = o]
    /\ proc' = [proc EXCEPT ![i] = p]
    /\ UNCHANGED <<database, rec, stopped, pc, coordinator, faults>>

\* Ward's journal takes a seeded stage over.
Handoff(i) ==
    KindOf[i] = "stage" /\ own[i] = "open" /\ proc[i] = "ours"
    /\ Becomes(i, "handoff", "ours")

\* Work of this process ends: a handed-off stage and a review are torn down,
\* a seed that never handed off proves nothing and may be left to be rerun, and
\* a room's command or a judgment's driver may end without the proof its record
\* needs.
End(i) ==
    /\ proc[i] = "ours"
    /\ KindOf[i] # "publish"
    /\ \/ (own[i] = "handoff" \/ KindOf[i] = "review") /\ Becomes(i, "joined", "none")
       \/ /\ KindOf[i] = "stage" /\ own[i] # "handoff"
          /\ \E o \in {"open", "unproven"} : Becomes(i, o, "none")
       \/ /\ KindOf[i] \in {"judgment", "room"}
          /\ \E o \in {"joined", "unproven"} : Becomes(i, o, "none")

\* The forge executes an effect, or never will; its caller records it, or
\* gives up on a request that may still be executed.
Land(i) ==
    KindOf[i] = "publish" /\ proc[i] # "none" /\ own[i] = "open"
    /\ Becomes(i, "landed", IF proc[i] = "ours" THEN "ours" ELSE "none")
EndEffect(i) ==
    /\ KindOf[i] = "publish"
    /\ \/ proc[i] # "none" /\ Becomes(i, own[i], "none")
       \/ proc[i] = "ours" /\ own[i] = "open" /\ Becomes(i, "open", "orphan")
       \/ proc[i] = "ours" /\ own[i] = "landed" /\ Becomes(i, "joined", "none")

\* Work that outlived its daemon ends by itself, unproven.
EndOrphan(i) ==
    proc[i] = "orphan" /\ KindOf[i] # "publish" /\ Becomes(i, own[i], "none")

\* Driver.Recover of a handoff after a restart: observed under registration,
\* or as the cancellation it is once fenced; either way ward reaps it.
Recover(i) ==
    KindOf[i] = "stage" /\ own[i] = "handoff" /\ proc[i] # "ours"
    /\ Becomes(i, "joined", "none")

\* A fenced stage that never handed off is not rerun: it is terminal, unproven.
RefuseResume(i) ==
    /\ KindOf[i] = "stage" /\ own[i] = "open" /\ proc[i] # "ours"
    /\ pc[i] = "idle"
    /\ Fenced(TaskIs(i))
    /\ Becomes(i, "unproven", proc[i])

-----------------------------------------------------------------------------
(* One stop attempt.  Its children run concurrently: the join of the task's *)
(* registered work, and each provider's proof for the inventory read after  *)
(* the fence.  phase 1 is the first round, 2 the one after the work joined, *)
(* 3 an attempt that is done.                                               *)

Job == [req : Nat, retry : {"ready", "waiting", "settled"}, phase : 0..3,
        inv : SUBSET Invs, todo : SUBSET Invs, joined : BOOLEAN,
        late : BOOLEAN, err : BOOLEAN]
NoJob == [req |-> 0, retry |-> "ready", phase |-> 0, inv |-> {}, todo |-> {},
          joined |-> FALSE, late |-> FALSE, err |-> FALSE]

\* What a run's stop asks of each provider; an unrecorded kind is read from
\* the provider's own journal.
Inventory(t, c) ==
    {i \in WorkOf(t) : RunOf[i] \in c.runs /\ (Recorded(i) => i \in rec)}

\* unprovableTaskStop: the checkpoint is of the first epoch.
Unprovable(t) == t \in Uncovered \/ epoch # 0

\* VerificationOwnership.StopRun fences the run's rooms before it waits.
FenceRooms(t, r) ==
    /\ job[t].phase \in {1, 2}
    /\ \E i \in job[t].todo : KindOf[i] = "room" /\ RunOf[i] = r
    /\ r \notin stopped
    /\ stopped' = stopped \cup {r}
    /\ UNCHANGED <<database, rec, own, proc, pc, coordinator, faults>>

\* A provider's answer: its record and the work afterwards, and whether it
\* proved the work over.
\* CancelAndConfirm: without a handoff no proof, whatever it could stop.
Seed(i) == own[i] = "open" /\ (proc[i] = "ours" \/ pc[i] = "idle")
StopStage(i, o, p, proved) ==
    \/ own[i] \in {"handoff", "joined"} /\ o = "joined" /\ p = "none" /\ proved
    \/ /\ Seed(i)
       /\ o = "unproven" /\ ~proved
       /\ p = IF proc[i] = "ours" THEN "none" ELSE proc[i]
    \/ /\ own[i] \notin {"handoff", "joined"} /\ ~Seed(i)
       /\ o = own[i] /\ p = proc[i] /\ ~proved
\* CancelReview: an absent row never entered; any other review is reaped.
StopReview(i, o, p, proved) ==
    /\ proved
    /\ \/ own[i] = "none" /\ o = "none" /\ p = proc[i]
       \/ own[i] # "none" /\ o = "joined" /\ p = "none"
\* A judgment (ConfirmRun) or a room (StopRun, which cancels and joins a live
\* call first) is over by its own record, and an effect that landed is adopted
\* (ReconcileCancelledRun).
StopOther(i, o, p, proved) ==
    /\ KindOf[i] = "room" => proc[i] # "ours"
    /\ o = IF own[i] = "landed" THEN "joined" ELSE own[i]
    /\ p = proc[i]
    /\ proved = (own[i] \in {"none", "landed", "joined"})

Stops(i, o, p, proved) ==
    \/ KindOf[i] = "stage" /\ StopStage(i, o, p, proved)
    \/ KindOf[i] = "review" /\ StopReview(i, o, p, proved)
    \/ KindOf[i] \in {"judgment", "room", "publish"} /\ StopOther(i, o, p, proved)

\* One child of StopRun returns.
StopOne(t, i) ==
    /\ job[t].phase \in {1, 2}
    /\ i \in job[t].todo
    /\ KindOf[i] = "room" => RunOf[i] \in stopped
    /\ \E o \in Records, p \in Running, proved \in BOOLEAN :
        /\ Stops(i, o, p, proved)
        /\ own' = [own EXCEPT ![i] = o]
        /\ proc' = [proc EXCEPT ![i] = p]
        /\ job' = [job EXCEPT ![t].todo = @ \ {i}, ![t].err = @ \/ ~proved]
    /\ UNCHANGED <<database, rec, stopped, pc, seen, faults>>

\* A child fails: a provider is unreachable, or the deadline passed.
StopFails(t, i) ==
    /\ job[t].phase \in {1, 2}
    /\ i \in job[t].todo
    /\ \/ job[t].late /\ faults' = faults
       \/ faults < MaxFaults /\ faults' = faults + 1
    /\ job' = [job EXCEPT ![t].todo = @ \ {i}, ![t].err = TRUE]
    /\ UNCHANGED <<database, work, seen>>

\* stopTaskWork returns when the registered work does, or at the deadline.
JoinWork(t) ==
    /\ job[t].phase = 1
    /\ ~job[t].joined
    /\ Active(t) = {} \/ job[t].late
    /\ job' = [job EXCEPT ![t].joined = TRUE, ![t].err = @ \/ Active(t) # {}]
    /\ UNCHANGED <<database, work, seen, faults>>

\* After the children joined without an error, every provider again.
Again_Never(j) == FALSE \* fault: the first round is taken as final
Again(j) == ~j.err
EndPhase(t) ==
    /\ job[t].phase \in {1, 2}
    /\ job[t].todo = {}
    /\ job[t].joined
    /\ job' = [job EXCEPT
            ![t].phase = IF @ = 1 /\ Again(job[t]) THEN 2 ELSE 3,
            ![t].todo = IF job[t].phase = 1 /\ Again(job[t])
                        THEN job[t].inv ELSE {}]
    /\ UNCHANGED <<database, work, seen, faults>>

DeadlinePasses(t) ==
    /\ job[t].phase \in {1, 2}
    /\ ~job[t].late
    /\ job' = [job EXCEPT ![t].late = TRUE]
    /\ UNCHANGED <<database, work, seen, faults>>

-----------------------------------------------------------------------------
(* ReconcileTaskCancellations, one task at a time: the pass lists the open   *)
(* requests first and then handles each as it was listed.                  *)

\* acknowledgeTaskStop and AcknowledgeTaskCancellation: the state is written
\* only while the request's target is still the task's; a confirmation
\* releases the slot the episode still holds.  s is the job afterwards.
Released_Kept(t) == facts[t] \* fault: confirmation alone releases the slot
Released(t) == IF WIP(t) THEN AbandonedFacts(facts[t]) ELSE facts[t]
Refused_Retried(s) == s \* fault: a refused acknowledgement is tried again
Refused(s) == [s EXCEPT !.retry = "settled"]
Ack(t, n, state, s) ==
    LET c == req[t][n] IN
    IF c.state \in {state, "confirmed"}
    THEN /\ job' = [job EXCEPT ![t] = s]
         /\ UNCHANGED <<req, facts>>
    ELSE IF TargetOf(c) = Target(t)
    THEN /\ req' = [req EXCEPT ![t][n].state = state]
         /\ facts' = IF state = "confirmed"
                     THEN [facts EXCEPT ![t] = Released(t)] ELSE facts
         /\ job' = [job EXCEPT ![t] = s]
    ELSE /\ job' = [job EXCEPT ![t] = Refused(s)]
         /\ UNCHANGED <<req, facts>>

Idle_Stale(t) == [job[t] EXCEPT !.phase = 0] \* fault: the deadline is kept
Idle(t) == [NoJob EXCEPT !.req = job[t].req, !.retry = job[t].retry]

\* A request not yet confirmed is listed; a new one has a retry state of its
\* own, and the attempt for the one before can no longer be acknowledged.
ListRequest(t) ==
    /\ seen[t] = 0
    /\ Fenced(t)
    /\ Current(t).state # "confirmed"
    /\ seen' = [seen EXCEPT ![t] = Len(req[t])]
    /\ job' = IF job[t].req = Len(req[t]) THEN job
              ELSE [job EXCEPT ![t] = [NoJob EXCEPT !.req = Len(req[t])]]
    /\ UNCHANGED <<database, work, faults>>

Handled(t) ==
    /\ seen[t] # 0
    /\ seen' = [seen EXCEPT ![t] = 0]
    /\ UNCHANGED <<runs, closures, epoch, work, faults>>

\* No attempt is running, and one may be due.
Waiting(t) ==
    /\ job[t].phase = 0 /\ job[t].retry # "ready"
    /\ Handled(t) /\ UNCHANGED <<req, facts, job>>
Due(t) == job[t].phase = 0 /\ job[t].retry = "ready"

\* A recorded failure no attempt can better is settled.
SettleUnprovable(t) ==
    /\ Due(t) /\ Handled(t)
    /\ req[t][seen[t]].state = "failed_to_stop" /\ Unprovable(t)
    /\ job' = [job EXCEPT ![t].retry = "settled"]
    /\ UNCHANGED <<req, facts>>

StartAttempt(t) ==
    LET c == req[t][seen[t]] IN
    /\ Due(t) /\ Handled(t)
    /\ ~(c.state = "failed_to_stop" /\ Unprovable(t))
    /\ IF c.runs = {} THEN Ack(t, seen[t], "confirmed", Idle(t))
       ELSE /\ job' = [job EXCEPT ![t] = [Idle(t) EXCEPT !.phase = 1,
                         !.inv = Inventory(t, c), !.todo = Inventory(t, c),
                         !.err = Unprovable(t)]]
            /\ UNCHANGED <<req, facts>>

\* deferTaskStop, unless the acknowledgement settled the request.
Deferred_Settled(t) == \* fault: every failure is taken as unprovable
    [Idle(t) EXCEPT !.retry = IF job[t].err THEN "settled" ELSE @]
Deferred(t) ==
    [Idle(t) EXCEPT !.retry =
        IF ~job[t].err \/ @ = "settled" THEN @
        ELSE IF Unprovable(t) THEN "settled" ELSE "waiting"]
FinishAttempt(t) ==
    /\ job[t].phase = 3 /\ Handled(t)
    /\ Ack(t, seen[t], IF job[t].err THEN "failed_to_stop" ELSE "confirmed",
           Deferred(t))

\* The acknowledgement's own write fails: the attempt's outcome is lost.
LoseAttempt(t) ==
    /\ job[t].phase = 3 /\ seen[t] # 0 /\ faults < MaxFaults
    /\ seen' = [seen EXCEPT ![t] = 0]
    /\ job' = [job EXCEPT ![t] = Idle(t)]
    /\ faults' = faults + 1
    /\ UNCHANGED <<database, work>>

\* An attempt still running: its failure is recorded at the deadline.
PollAttempt(t) ==
    /\ job[t].phase \in {1, 2} /\ Handled(t)
    /\ IF job[t].late /\ job[t].retry # "settled"
       THEN Ack(t, seen[t], "failed_to_stop", job[t])
       ELSE UNCHANGED <<req, facts, job>>

BackoffElapses(t) ==
    /\ job[t].retry = "waiting"
    /\ job' = [job EXCEPT ![t].retry = "ready"]
    /\ UNCHANGED <<database, work, seen, faults>>

-----------------------------------------------------------------------------
(* The daemon dies and restarts, perhaps on a restored database of a new    *)
(* epoch; what it had running may outlive it.                              *)
Over(i) == KindOf[i] = "publish" /\ own[i] # "open"  \* the effect has landed
Crash ==
    /\ faults < MaxFaults
    /\ faults' = faults + 1
    /\ \E e \in {epoch, epoch + 1} : e <= MaxEpoch /\ epoch' = e
    /\ pc' = [i \in Invs |-> "idle"]
    /\ proc' = [i \in Invs |->
          IF proc[i] # "ours" THEN proc[i] ELSE IF Over(i) THEN "none" ELSE "orphan"]
    /\ seen' = [t \in Tasks |-> 0]
    /\ job' = [t \in Tasks |-> NoJob]
    /\ UNCHANGED <<runs, facts, closures, req, rec, own, stopped>>

Init ==
    /\ runs = [t \in Tasks |-> <<>>] /\ facts = [t \in Tasks |-> <<>>]
    /\ closures = [t \in Tasks |-> {}] /\ req = [t \in Tasks |-> <<>>]
    /\ epoch = 0 /\ rec = {} /\ stopped = {} /\ faults = 0
    /\ own = [i \in Invs |-> "none"] /\ proc = [i \in Invs |-> "none"]
    /\ pc = [i \in Invs |-> "idle"]
    /\ seen = [t \in Tasks |-> 0] /\ job = [t \in Tasks |-> NoJob]

History ==
    \/ \E r \in Runs : PutRun(r) \/ Restart(r) \/ Complete(r)
    \/ \E r \in Runs, admission \in BOOLEAN : StartRun(r, admission)
    \/ \E t \in Tasks : Abandon(t) \/ StopTask(t)
    \/ \E t \in Tasks, o \in 1..MaxFacts : CloseTaskWorkflow(t, o)
Worker(i) == Record(i) \/ Begin(i) \/ Claim(i) \/ Enter(i) \/ Return(i)
Provider(i) ==
    \/ Handoff(i) \/ End(i) \/ Land(i) \/ EndEffect(i) \/ EndOrphan(i)
    \/ Recover(i) \/ RefuseResume(i)
Attempt(t) ==
    \/ \E r \in Runs : FenceRooms(t, r)
    \/ \E i \in Invs : StopOne(t, i) \/ StopFails(t, i)
    \/ JoinWork(t) \/ EndPhase(t) \/ DeadlinePasses(t)
Coordinator(t) ==
    \/ ListRequest(t) \/ Waiting(t) \/ SettleUnprovable(t) \/ StartAttempt(t)
    \/ FinishAttempt(t) \/ LoseAttempt(t) \/ PollAttempt(t) \/ BackoffElapses(t)
Next ==
    \/ History
    \/ \E i \in Invs : Worker(i) \/ Provider(i)
    \/ \E t \in Tasks : Attempt(t) \/ Coordinator(t)
    \/ Crash
Spec == Init /\ [][Next]_vars

\* The coordinator's loop keeps passing, backoffs and deadlines elapse, and
\* the children of an attempt return; work need never end.
Passes(t) ==
    \/ ListRequest(t) \/ Waiting(t) \/ SettleUnprovable(t) \/ StartAttempt(t)
    \/ FinishAttempt(t) \/ PollAttempt(t)
Fairness ==
    /\ \A t \in Tasks :
          /\ WF_vars(Passes(t)) /\ WF_vars(BackoffElapses(t))
          /\ WF_vars(DeadlinePasses(t)) /\ WF_vars(JoinWork(t) \/ EndPhase(t))
    /\ \A t \in Tasks, r \in Runs : WF_vars(FenceRooms(t, r))
    /\ \A t \in Tasks, i \in Invs : WF_vars(StopOne(t, i))
FairSpec == Spec /\ Fairness
=============================================================================
