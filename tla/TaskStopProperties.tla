-------------------------- MODULE TaskStopProperties --------------------------
(* What stopping and closing a task must guarantee.                          *)
EXTENDS TaskStop

\* Every variable has its type, no pass or attempt speaks of a request that was
\* never made, and a deadline belongs to a running attempt.
TypeOK ==
    /\ runs \in [Tasks -> Seq(Runs)]
    /\ facts \in [Tasks -> Seq(Fact)]
    /\ DOMAIN closures = Tasks
    /\ \A t \in Tasks : \A c \in closures[t] :
          c.start \in Starts(facts[t]) /\ c.runs \subseteq Runs
    /\ req \in [Tasks -> Seq(Request)]
    /\ epoch \in Nat /\ faults \in Nat
    /\ rec \subseteq Invs /\ stopped \subseteq Runs
    /\ own \in [Invs -> Records]
    /\ proc \in [Invs -> Running]
    /\ pc \in [Invs -> {"idle", "registered", "claimed", "entered"}]
    /\ seen \in [Tasks -> Nat] /\ \A t \in Tasks : seen[t] <= Len(req[t])
    /\ job \in [Tasks -> Job]
    /\ \A t \in Tasks : job[t].req <= Len(req[t]) /\ (job[t].phase = 0 => ~job[t].late)

ConfirmedOnce(t) == \E n \in DOMAIN req[t] : req[t][n].state = "confirmed"

\* Once a stop of a task was ever confirmed (acknowledgeTaskStop), no worker of
\* it is between registration and return and no work of it runs, in this
\* process or left behind by an earlier one: whatever raced the Stop, and
\* whatever happens to the task afterwards.
ConfirmedIsQuiescent ==
    \A t \in Tasks : ConfirmedOnce(t) =>
        \A i \in WorkOf(t) : pc[i] = "idle" /\ proc[i] = "none"

\* Once a stop of a task was ever confirmed, the task counts against the cap no
\* more: the slot AcknowledgeTaskCancellation released stays released when a
\* further Stop is asked for, which makes an unconfirmed request the latest one.
SlotStaysReleased == \A t \in Tasks : ConfirmedOnce(t) => ~WIP(t)

\* A task's slot is given up only by a fact its own lifecycle recorded, or with
\* all of the task's work over: no Stop, however often asked for or answered,
\* frees capacity that a running command still uses.
SlotHeldUntilProven ==
    [][\A t \in Tasks : WIP(t) /\ ~WIP(t)' =>
          \/ Len(facts'[t]) > Len(facts[t]) /\ req'[t] = req[t]
          \/ \A i \in WorkOf(t) : pc'[i] = "idle" /\ proc'[i] = "none"]_vars

\* A closure's captured runs are always the ones its start owns, so that every
\* read that validates a closure (readClosedTaskWorkflow) succeeds: no later
\* run, start or restart moves a run in or out of a closed episode.
ClosuresStayReadable ==
    \A t \in Tasks : \A c \in closures[t] :
        c.runs = EpisodeRuns(runs[t], facts[t], c.start)

\* No dispatch is claimed (claimRunDispatch) for a run whose workflow is closed,
\* not even by a worker that registered before the closure.
ClosedRunsStayFenced ==
    [][\A i \in Invs :
          (pc'[i] = "claimed" /\ pc[i] # "claimed") =>
              \A c \in closures[TaskIs(i)] : RunOf[i] \notin c.runs]_vars

\* What a client may rely on: work of a fenced task only ends, and a task is
\* confirmed only without any.  The steps of proving it are hidden.
Contract == INSTANCE StopContract WITH
    Work <- Invs, WorkTask <- [i \in Invs |-> TaskIs(i)],
    fenced <- {t \in Tasks : Fenced(t)},
    confirmed <- {t \in Tasks : ConfirmedOnce(t)},
    live <- {i \in Invs : pc[i] # "idle" \/ proc[i] # "none"}
\* Stopping implements that contract.
ImplementsStopContract == Contract!Spec

\* A Stop is not left as requested: it is confirmed, recorded as failed to stop,
\* replaced by another request, or settled because its target changed.
StopIsAnswered ==
    \A t \in Tasks, n \in 1..MaxRequests :
        (Len(req[t]) = n /\ req[t][n].state = "requested") ~>
            (\/ Len(req[t]) # n \/ req[t][n].state # "requested"
             \/ job[t].req = n /\ job[t].retry = "settled")

\* The provider of an invocation can prove it over.
Provable(i) ==
    CASE KindOf[i] = "stage" -> i \in rec => own[i] \in {"handoff", "joined"}
      [] KindOf[i] = "review" -> TRUE
      [] KindOf[i] = "publish" -> own[i] \in {"none", "landed", "joined"}
      [] OTHER -> own[i] \in {"none", "joined"}

\* A stop that failed is not given up: once its task has no workers left, every
\* record can prove its work over and attempts end in time, it is confirmed.
RetriedUntilProven ==
    \A t \in Tasks :
        <>[](/\ Fenced(t) /\ TargetOf(Current(t)) = Target(t) /\ ~Unprovable(t)
             /\ ~job[t].late /\ Active(t) = {} /\ \A i \in WorkOf(t) : Provable(i))
            => <>ConfirmedOnce(t)

\* What RecordTaskStart, PutRun, StopTask and the acknowledgements may do to a
\* log that exists: runs and facts are appended, one at a time, and a request
\* keeps what it asked for; its answer only improves.
AnswerRank(state) ==
    CASE state = "requested" -> 0 [] state = "failed_to_stop" -> 1 [] OTHER -> 2
LogsOnlyGrow ==
    [][\A t \in Tasks :
         /\ \A n \in DOMAIN runs[t] : n \in DOMAIN runs'[t] /\ runs'[t][n] = runs[t][n]
         /\ \A n \in DOMAIN facts[t] : n \in DOMAIN facts'[t] /\ facts'[t][n] = facts[t][n]
         /\ \A n \in DOMAIN req[t] :
               /\ n \in DOMAIN req'[t]
               /\ TargetOf(req'[t][n]) = TargetOf(req[t][n])
               /\ AnswerRank(req[t][n].state) <= AnswerRank(req'[t][n].state)]_vars

\* unprovableTaskStop: where the ownership journals do not reach, over the tasks
\* older than they are and after a restore, no stop of a task that has runs is
\* ever confirmed.
ConfirmedIsProvable ==
    \A t \in Tasks : \A n \in DOMAIN req[t] :
        (req[t][n].state = "confirmed" /\ req[t][n].runs # {}) =>
            t \notin Uncovered /\ req[t][n].epoch = 0
=============================================================================
