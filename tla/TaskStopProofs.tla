---------------------------- MODULE TaskStopProofs ----------------------------
(***************************************************************************)
(* Proofs about TaskStop for any tasks, runs and invocations and any bounds.*)
(* The inductive invariant has four parts beside the types: what an         *)
(* ownership record says of its work, what an attempt has established so    *)
(* far, the quiescence of confirmed tasks, and the slots and closures of    *)
(* the lifecycle log.  How a slot may be given up needs, beyond it, that    *)
(* completions are of the task's own runs.                                 *)
(***************************************************************************)
EXTENDS TaskStopProperties, WellFoundedInduction, TLAPS

-----------------------------------------------------------------------------
(* Sequences and ordinals.                                                  *)

\* Appending a record to a history keeps what was there and adds one place.
LEMMA Appending ==
    ASSUME NEW S, NEW s \in Seq(S), NEW e \in S
    PROVE  /\ Append(s, e) \in Seq(S)
           /\ Append(s, e) # <<>>
           /\ Len(Append(s, e)) = Len(s) + 1
           /\ DOMAIN Append(s, e) = DOMAIN s \cup {Len(s) + 1}
           /\ \A n \in DOMAIN s : Append(s, e)[n] = s[n] /\ n \in Nat /\ n <= Len(s)
           /\ Append(s, e)[Len(s) + 1] = e
OBVIOUS

\* The newest of a finite set of ordinals is its greatest element.
LEMMA NewestIs ==
    ASSUME NEW n \in Nat, NEW S \in SUBSET (1..n)
    PROVE  /\ Newest(S) \in Nat
           /\ S # {} => Newest(S) \in S /\ \A p \in S : p <= Newest(S)
           /\ (Newest(S) = 0) <=> (S = {})
<1>1. CASE S = {}
  <2>1. Newest(S) = 0
    BY <1>1 DEF Newest
  <2>2. Newest(S) \in Nat
    BY <2>1
  <2> QED BY <2>1, <2>2, <1>1
<1>2. CASE S # {}
  <2> DEFINE T == {n - p : p \in S}
  <2>0. \A p \in S : n - p \in Nat
    OBVIOUS
  <2>1. T \subseteq Nat /\ T # {}
    BY <2>0, <1>2
  <2>2. PICK x \in T : \A y \in T : ~(<<y, x>> \in OpToRel(<, Nat))
    <3> HIDE DEF T
    <3> QED BY <2>1, NatLessThanWellFounded, WFMin
  <2>3. PICK o \in S : x = n - o
    BY <2>2
  <2>4. ASSUME NEW p \in S PROVE p <= o
    <3>1. n - p \in T
      OBVIOUS
    <3>2. ~(<<n - p, x>> \in OpToRel(<, Nat))
      BY <3>1, <2>2
    <3>3. n - p \in Nat /\ x \in Nat
      BY <2>1, <2>2, <3>1
    <3>4. <<n - p, x>> \in Nat \X Nat
      BY <3>3
    <3>5. ~(n - p < x)
      BY <3>2, <3>4 DEF OpToRel
    <3> QED BY <3>5, <2>3
  <2>5. \E q \in S : \A p \in S : p <= q
    BY <2>4
  <2>6. Newest(S) = CHOOSE q \in S : \A p \in S : p <= q
    BY <1>2 DEF Newest
  <2>7. Newest(S) \in S /\ \A p \in S : p <= Newest(S)
    BY <2>5, <2>6
  <2>8. Newest(S) \in 1..n
    BY <2>7
  <2>9. Newest(S) \in Nat /\ Newest(S) # 0
    BY <2>8
  <2> QED BY <2>7, <2>9, <1>2
<1> QED BY <1>1, <1>2

\* The current start is the last start recorded, if there is one.
LEMMA CurrentStartIs ==
    ASSUME NEW fs \in Seq(Fact)
    PROVE  /\ CurrentStart(fs) \in Nat
           /\ CurrentStart(fs) # 0 =>
                /\ CurrentStart(fs) \in Starts(fs)
                /\ \A p \in Starts(fs) : p <= CurrentStart(fs)
           /\ (CurrentStart(fs) = 0) <=> (Starts(fs) = {})
<1>1. Starts(fs) \in SUBSET (1..Len(fs)) /\ Len(fs) \in Nat
  BY DEF Starts
<1> QED BY <1>1, NewestIs DEF CurrentStart

\* A fact that is not a start moves no episode.
LEMMA StartsKept ==
    ASSUME NEW fs \in Seq(Fact), NEW f \in Fact, f.kind # "started"
    PROVE  Starts(Append(fs, f)) = Starts(fs)
<1>1. /\ DOMAIN Append(fs, f) = DOMAIN fs \cup {Len(fs) + 1}
      /\ \A n \in DOMAIN fs : Append(fs, f)[n] = fs[n]
      /\ Append(fs, f)[Len(fs) + 1] = f
  BY Appending
<1> QED BY <1>1 DEF Starts

\* A fact that is no start moves no run to another episode.
LEMMA EpisodeKept ==
    ASSUME NEW fs \in Seq(Fact), NEW f \in Fact, f.kind # "started", NEW rs, NEW r
    PROVE  Episode(rs, Append(fs, f), r) = Episode(rs, fs, r)
<1>1. Starts(Append(fs, f)) = Starts(fs)
  BY StartsKept
<1>2. \A o \in Starts(fs) : Append(fs, f)[o] = fs[o]
  BY Appending DEF Starts
<1> QED BY <1>1, <1>2 DEF Episode

-----------------------------------------------------------------------------
(* The invariant.                                                           *)

\* An ownership record speaks for its work: none of it before the record, none
\* after "joined" but the caller of an effect, and a waiting call only under
\* its worker's registration.
WorkInv(i) ==
    /\ (i \in rec \/ pc[i] # "idle" \/ own[i] # "none") =>
          RunOf[i] \in Members(TaskIs(i))
    /\ Recorded(i) /\ (pc[i] # "idle" \/ own[i] # "none") => i \in rec
    /\ proc[i] # "none" => own[i] # "none"
    /\ own[i] \in {"joined", "landed"} /\ proc[i] # "none" =>
          KindOf[i] = "publish" /\ proc[i] = "ours"
    /\ own[i] = "landed" => KindOf[i] = "publish"
    /\ pc[i] \in {"registered", "claimed"} =>
          \/ own[i] = "none"
          \/ KindOf[i] = "stage" /\ own[i] = "open" /\ proc[i] # "ours"
    /\ Waits(i) /\ proc[i] = "ours" => pc[i] = "entered"

\* What an attempt has established so far, unless it has failed.
AttemptInv(t) ==
    /\ seen[t] # 0 => job[t].req = seen[t]
    /\ job[t].phase # 0 =>
        /\ job[t].req \in DOMAIN req[t]
        /\ \A i \in WorkOf(t) :
              RunOf[i] \in req[t][job[t].req].runs /\ (Recorded(i) => i \in rec)
                  => i \in job[t].inv
        /\ job[t].phase = 3 => job[t].todo = {}
        /\ ~job[t].err =>
            /\ job[t].phase # 1 => job[t].joined
            /\ job[t].joined => \A i \in WorkOf(t) : pc[i] = "idle"
            /\ job[t].phase # 1 => \A i \in WorkOf(t) \cap job[t].inv :
                                      i \notin job[t].todo => proc[i] = "none"

\* A confirmed task's log released its slot itself, so no later request can
\* take it back.
SlotInv(t) == ConfirmedOnce(t) => ~WIPIn(runs[t], facts[t], <<>>)

IInv ==
    /\ TypeOK
    /\ \A i \in Invs : WorkInv(i)
    /\ \A t \in Tasks : AttemptInv(t)
    /\ ConfirmedIsQuiescent
    /\ \A t \in Tasks : SlotInv(t)
    /\ ClosuresStayReadable

-----------------------------------------------------------------------------
(* The log.                                                                 *)

\* Recording a fact keeps the starts recorded before.
LEMMA StartsGrow ==
    ASSUME NEW fs \in Seq(Fact), NEW f \in Fact
    PROVE  Append(fs, f) \in Seq(Fact) /\ Starts(fs) \subseteq Starts(Append(fs, f))
<1>1. /\ Append(fs, f) \in Seq(Fact)
      /\ DOMAIN Append(fs, f) = DOMAIN fs \cup {Len(fs) + 1}
      /\ \A n \in DOMAIN fs : Append(fs, f)[n] = fs[n]
  BY Appending
<1> QED BY <1>1 DEF Starts

\* Abandoning adds at most one fact, which is no start.
LEMMA AbandonedFactsIs ==
    ASSUME NEW fs \in Seq(Fact)
    PROVE  \/ AbandonedFacts(fs) = fs
           \/ /\ CurrentStart(fs) # 0
              /\ \E f \in Fact : f.kind = "abandoned" /\ AbandonedFacts(fs) = Append(fs, f)
<1> DEFINE o == CurrentStart(fs)
           f == [kind |-> "abandoned", run |-> fs[o].run]
<1>1. CASE o = 0 \/ Abandoned(fs, o)
  BY <1>1 DEF AbandonedFacts
<1>2. CASE o # 0 /\ ~Abandoned(fs, o)
  <2>1. o \in DOMAIN fs
    BY <1>2, CurrentStartIs DEF Starts
  <2>4. fs[o] \in Fact
    BY <2>1
  <2>2. f \in Fact
    BY <2>4 DEF Fact
  <2>3. AbandonedFacts(fs) = Append(fs, f) /\ f.kind = "abandoned"
    BY <1>2 DEF AbandonedFacts
  <2> QED BY <2>2, <2>3, <1>2
<1> QED BY <1>1, <1>2

\* The lifecycle log of a task only grows.
LEMMA LogGrows ==
    ASSUME NEW fs \in Seq(Fact)
    PROVE  /\ AbandonedFacts(fs) \in Seq(Fact)
           /\ Starts(fs) \subseteq Starts(AbandonedFacts(fs))
BY AbandonedFactsIs, StartsGrow

\* What is left of a released slot: the log alone shows it.
LEMMA ReleasedIs ==
    ASSUME TypeOK, NEW t \in Tasks
    PROVE  /\ Released(t) \in Seq(Fact)
           /\ Starts(facts[t]) \subseteq Starts(Released(t))
BY LogGrows DEF Released, TypeOK

\* The runs of an episode are runs of the task.
LEMMA EpisodeRunsIs ==
    ASSUME NEW rs \in Seq(Runs), NEW fs, NEW o
    PROVE  EpisodeRuns(rs, fs, o) \subseteq Runs
<1>1. \A n \in DOMAIN rs : rs[n] \in Runs
  OBVIOUS
<1> QED BY <1>1 DEF EpisodeRuns

\* A request made of the current target is a request.
LEMMA TargetIs ==
    ASSUME TypeOK, NEW t \in Tasks, NEW state \in {"requested", "failed_to_stop", "confirmed"}
    PROVE  [episode |-> CurrentStart(facts[t]), runs |-> Members(t),
            epoch |-> epoch, state |-> state] \in Request
<1>1. CurrentStart(facts[t]) \in Nat
  BY CurrentStartIs DEF TypeOK
<1>2. Members(t) \subseteq Runs
  <2>1. runs[t] \in Seq(Runs)
    BY DEF TypeOK
  <2>2. \A n \in DOMAIN runs[t] : runs[t][n] \in Runs
    BY <2>1
  <2> QED BY <2>2 DEF Members
<1>3. epoch \in Nat
  BY DEF TypeOK
<1>4. Members(t) \in SUBSET Runs
  BY <1>2
<1> QED BY <1>1, <1>3, <1>4 DEF Request

-----------------------------------------------------------------------------
(* The acknowledgement, the only step that answers a request.               *)

\* What an acknowledgement may change: the state of the request, the slot, and the job.
LEMMA AckIs ==
    ASSUME TypeOK, NEW t \in Tasks, NEW n \in DOMAIN req[t],
           NEW state \in {"failed_to_stop", "confirmed"}, NEW s \in Job,
           Ack(t, n, state, s)
    PROVE  \/ /\ UNCHANGED <<req, facts>>
              /\ \/ job' = [job EXCEPT ![t] = s]
                 \/ job' = [job EXCEPT ![t] = Refused(s)]
           \/ /\ req[t][n].state # "confirmed"
              /\ TargetOf(req[t][n]) = Target(t)
              /\ req' = [req EXCEPT ![t][n].state = state]
              /\ facts' = IF state = "confirmed"
                          THEN [facts EXCEPT ![t] = Released(t)] ELSE facts
              /\ job' = [job EXCEPT ![t] = s]
BY DEF Ack

\* Writing a request's answer keeps its target and every other request.
LEMMA Answering ==
    ASSUME NEW cs \in Seq(Request), NEW n \in DOMAIN cs, NEW e \in Request,
           e.runs = cs[n].runs
    PROVE  /\ [cs EXCEPT ![n] = e] \in Seq(Request)
           /\ Len([cs EXCEPT ![n] = e]) = Len(cs)
           /\ DOMAIN [cs EXCEPT ![n] = e] = DOMAIN cs
           /\ \A m \in DOMAIN cs : /\ [cs EXCEPT ![n] = e][m].runs = cs[m].runs
                                   /\ m # n => [cs EXCEPT ![n] = e][m] = cs[m]
           /\ [cs EXCEPT ![n] = e][n] = e
OBVIOUS

\* An answered request is still a request, and the rest of the list is as it was.
LEMMA AnswerIs ==
    ASSUME TypeOK, NEW t \in Tasks, NEW n \in DOMAIN req[t],
           NEW state \in {"failed_to_stop", "confirmed"},
           req' = [req EXCEPT ![t][n].state = state]
    PROVE  /\ req' \in [Tasks -> Seq(Request)]
           /\ \A u \in Tasks : u # t => req'[u] = req[u]
           /\ Len(req'[t]) = Len(req[t]) /\ DOMAIN req'[t] = DOMAIN req[t]
           /\ \A m \in DOMAIN req[t] : /\ req'[t][m].runs = req[t][m].runs
                                       /\ m # n => req'[t][m] = req[t][m]
           /\ req'[t][n].state = state
<1>1. req \in [Tasks -> Seq(Request)] /\ req[t] \in Seq(Request)
  BY DEF TypeOK
<1>2. req[t][n] \in Request
  BY <1>1
<1> DEFINE c == req[t][n]
           e == [c EXCEPT !.state = state]
<1>3. e \in Request /\ e.runs = c.runs /\ e.state = state
  <2> HIDE DEF c
  <2>1. c \in Request
    BY <1>2 DEF c
  <2>2. state \in {"requested", "failed_to_stop", "confirmed"}
    OBVIOUS
  <2> QED BY <2>1, <2>2 DEF Request
<1>4. req' = [req EXCEPT ![t] = [req[t] EXCEPT ![n] = e]]
  OBVIOUS
<1> HIDE DEF e
<1> DEFINE ds == [req[t] EXCEPT ![n] = e]
<1>5. /\ ds \in Seq(Request) /\ Len(ds) = Len(req[t]) /\ DOMAIN ds = DOMAIN req[t]
      /\ \A m \in DOMAIN req[t] : /\ ds[m].runs = req[t][m].runs
                                  /\ m # n => ds[m] = req[t][m]
      /\ ds[n] = e
  BY <1>1, <1>3, Answering
<1> HIDE DEF ds
<1>6. req'[t] = ds /\ \A u \in Tasks : u # t => req'[u] = req[u]
  BY <1>1, <1>4 DEF ds
<1>7. req' \in [Tasks -> Seq(Request)]
  BY <1>1, <1>4, <1>5 DEF ds
<1> QED BY <1>3, <1>5, <1>6, <1>7
-----------------------------------------------------------------------------
(* Types.                                                                   *)

\* A lifecycle fact keeps the types.
LEMMA NewFact ==
    ASSUME TypeOK, NEW t \in Tasks, NEW f \in Fact,
           facts' = [facts EXCEPT ![t] = Append(@, f)],
           UNCHANGED <<runs, closures, req, epoch, work, coordinator, faults>>
    PROVE  TypeOK'
<1>1. Append(facts[t], f) \in Seq(Fact) /\ Starts(facts[t]) \subseteq Starts(Append(facts[t], f))
  BY StartsGrow DEF TypeOK
<1> QED BY <1>1 DEF TypeOK, work, coordinator

\* The task's own history keeps the types.
LEMMA HistoryTypes == TypeOK /\ History => TypeOK'
<1> SUFFICES ASSUME TypeOK, History PROVE TypeOK'
  OBVIOUS
<1> USE Ownership, StopBounds
<1>1. ASSUME NEW r \in Runs, PutRun(r) PROVE TypeOK'
  <2>1. Append(runs[TaskOf[r]], r) \in Seq(Runs)
    BY Appending DEF TypeOK
  <2> QED BY <1>1, <2>1 DEF PutRun, TypeOK, work, coordinator
<1>2. ASSUME NEW r \in Runs, NEW admission \in BOOLEAN, StartRun(r, admission) PROVE TypeOK'
  <2> DEFINE t == TaskOf[r]
             f == [kind |-> "started", run |-> r]
  <2>1. With(runs[t], r) \in Seq(Runs)
    BY Appending DEF TypeOK, With
  <2>2. /\ Append(facts[t], f) \in Seq(Fact)
        /\ Starts(facts[t]) \subseteq Starts(Append(facts[t], f))
    BY StartsGrow DEF TypeOK, Fact
  <2>3. \/ facts' = facts
        \/ facts' = [facts EXCEPT ![t] = Append(facts[t], f)]
    BY <1>2 DEF StartRun
  <2>4. runs' = [runs EXCEPT ![t] = With(runs[t], r)]
    BY <1>2 DEF StartRun
  <2>5. UNCHANGED <<closures, req, epoch, work, coordinator, faults>>
    BY <1>2 DEF StartRun
  <2>6. runs' \in [Tasks -> Seq(Runs)]
    BY <2>1, <2>4 DEF TypeOK
  <2> HIDE DEF f, t
  <2>7. t \in Tasks
    BY DEF t
  <2>8. facts' \in [Tasks -> Seq(Fact)] /\ \A u \in Tasks : Starts(facts[u]) \subseteq Starts(facts'[u])
    <3>1. CASE facts' = facts
      BY <3>1 DEF TypeOK
    <3>2. CASE facts' = [facts EXCEPT ![t] = Append(facts[t], f)]
      <4>1. facts' \in [Tasks -> Seq(Fact)]
        BY <2>2, <3>2 DEF TypeOK
      <4>2. \A u \in Tasks : facts'[u] = IF u = t THEN Append(facts[t], f) ELSE facts[u]
        BY <3>2 DEF TypeOK
      <4> QED BY <2>2, <4>1, <4>2
    <3> QED BY <2>3, <3>1, <3>2
  <2> QED BY <2>5, <2>6, <2>8 DEF TypeOK, work, coordinator
<1>3. ASSUME NEW r \in Runs, Restart(r) PROVE TypeOK'
  BY <1>3, NewFact DEF Restart, Fact
<1>4. ASSUME NEW r \in Runs, Complete(r) PROVE TypeOK'
  BY <1>4, NewFact DEF Complete, Fact
<1>5. ASSUME NEW t \in Tasks, Abandon(t) PROVE TypeOK'
  <2>1. /\ AbandonedFacts(facts[t]) \in Seq(Fact)
        /\ Starts(facts[t]) \subseteq Starts(AbandonedFacts(facts[t]))
    BY LogGrows DEF TypeOK
  <2> QED BY <1>5, <2>1 DEF Abandon, TypeOK, work, coordinator
<1>6. ASSUME NEW t \in Tasks, StopTask(t) PROVE TypeOK'
  <2> DEFINE e == [episode |-> CurrentStart(facts[t]), runs |-> Members(t),
                   epoch |-> epoch, state |-> "requested"]
  <2>1. e \in Request
    BY TargetIs
  <2>2. Append(req[t], e) \in Seq(Request) /\ Len(Append(req[t], e)) = Len(req[t]) + 1
    BY <2>1, Appending DEF TypeOK
  <2>3. req' = [req EXCEPT ![t] = Append(req[t], e)]
    BY <1>6 DEF StopTask
  <2>4. UNCHANGED <<runs, facts, closures, epoch, work, coordinator, faults>>
    BY <1>6 DEF StopTask
  <2>5. Len(req[t]) \in Nat
    BY DEF TypeOK
  <2>6. req' \in [Tasks -> Seq(Request)]
    BY <2>2, <2>3 DEF TypeOK
  <2>7. \A u \in Tasks : seen[u] <= Len(req'[u]) /\ job[u].req <= Len(req'[u])
    <3>1. /\ seen \in [Tasks -> Nat] /\ job \in [Tasks -> Job]
          /\ \A u \in Tasks : seen[u] <= Len(req[u]) /\ job[u].req <= Len(req[u])
      BY DEF TypeOK
    <3>2. \A u \in Tasks : seen[u] \in Nat /\ job[u].req \in Nat
      BY <3>1 DEF Job
    <3> QED BY <3>1, <3>2, <2>2, <2>3, <2>5 DEF TypeOK
  <2> QED BY <2>4, <2>6, <2>7 DEF TypeOK, work, coordinator
<1>7. ASSUME NEW t \in Tasks, NEW o \in 1..MaxFacts, CloseTaskWorkflow(t, o) PROVE TypeOK'
  <2>1. EpisodeRuns(runs[t], facts[t], o) \subseteq Runs
    BY EpisodeRunsIs DEF TypeOK
  <2>2. \A u \in Tasks : \A c \in closures'[u] :
           c \in closures[u] \/ (u = t /\ c = [start |-> o, runs |-> EpisodeRuns(runs[t], facts[t], o)])
    BY <1>7 DEF CloseTaskWorkflow, TypeOK
  <2>3. o \in Starts(facts[t]) /\ UNCHANGED <<runs, facts, req, epoch, work, coordinator, faults>>
    BY <1>7 DEF CloseTaskWorkflow
  <2> QED BY SMTT(30), <1>7, <2>1, <2>2, <2>3 DEF CloseTaskWorkflow, TypeOK, work, coordinator
<1> QED BY <1>1, <1>2, <1>3, <1>4, <1>5, <1>6, <1>7 DEF History

\* A change of one record and its work keeps the types.
LEMMA BecomingTypes ==
    ASSUME TypeOK, NEW i \in Invs, NEW o \in Records, NEW p \in Running,
           Becomes(i, o, p)
    PROVE  TypeOK' /\ UNCHANGED <<database, coordinator, stopped, faults>>
BY DEF Becomes, TypeOK, database, coordinator

\* Workers and providers keep the types.
LEMMA WorkTypes ==
    ASSUME TypeOK, NEW i \in Invs, Worker(i) \/ Provider(i)
    PROVE  TypeOK' /\ UNCHANGED <<database, coordinator, stopped, faults>>
<1>0. own[i] \in Records /\ proc[i] \in Running
  BY DEF TypeOK
<1>1. CASE Worker(i)
  BY <1>1 DEF Worker, Record, Begin, Claim, Enter, Return, TypeOK, database, coordinator, Records, Running
<1>2. CASE Provider(i)
  <2>1. ASSUME Handoff(i) PROVE \E o \in Records, p \in Running : Becomes(i, o, p)
    BY <2>1 DEF Handoff, Records, Running
  <2>2. ASSUME End(i) PROVE \E o \in Records, p \in Running : Becomes(i, o, p)
    BY <2>2 DEF End, Records, Running
  <2>3. ASSUME Land(i) PROVE \E o \in Records, p \in Running : Becomes(i, o, p)
    BY <2>3 DEF Land, Records, Running
  <2>4. ASSUME EndEffect(i) PROVE \E o \in Records, p \in Running : Becomes(i, o, p)
    BY <1>0, <2>4 DEF EndEffect, Records, Running
  <2>5. ASSUME EndOrphan(i) PROVE \E o \in Records, p \in Running : Becomes(i, o, p)
    BY <1>0, <2>5 DEF EndOrphan, Running
  <2>6. ASSUME Recover(i) PROVE \E o \in Records, p \in Running : Becomes(i, o, p)
    BY <2>6 DEF Recover, Records, Running
  <2>7. ASSUME RefuseResume(i) PROVE \E o \in Records, p \in Running : Becomes(i, o, p)
    BY <1>0, <2>7 DEF RefuseResume, Records
  <2>8. \E o \in Records, p \in Running : Becomes(i, o, p)
    BY <1>2, <2>1, <2>2, <2>3, <2>4, <2>5, <2>6, <2>7 DEF Provider
  <2> QED BY <2>8, BecomingTypes
<1> QED BY <1>1, <1>2

\* A step of one task's attempt or retry state.
LEMMA JobTypes ==
    ASSUME TypeOK, NEW t \in Tasks, NEW j \in Job,
           j.req <= Len(req[t]), j.phase = 0 => ~j.late,
           job' = [job EXCEPT ![t] = j],
           UNCHANGED <<database, rec, pc>>, stopped' \subseteq Runs,
           own' \in [Invs -> Records], proc' \in [Invs -> Running],
           seen' \in [Tasks -> Nat], \A u \in Tasks : seen'[u] <= seen[u],
           faults' \in Nat
    PROVE  TypeOK'
<1>1. UNCHANGED <<runs, facts, closures, req, epoch>>
  BY DEF database
<1>2. \A u \in Tasks : seen'[u] <= Len(req'[u])
  <2>1. \A u \in Tasks : Len(req[u]) \in Nat /\ seen[u] \in Nat /\ seen'[u] \in Nat /\ seen[u] <= Len(req[u])
    <3>1. req \in [Tasks -> Seq(Request)] /\ seen \in [Tasks -> Nat] /\ \A u \in Tasks : seen[u] <= Len(req[u])
      BY DEF TypeOK
    <3>2. \A u \in Tasks : req[u] \in Seq(Request)
      BY <3>1
    <3>3. \A u \in Tasks : Len(req[u]) \in Nat
      BY <3>2
    <3> QED BY <3>1, <3>3
  <2> QED BY <1>1, <2>1
<1>3. /\ job' \in [Tasks -> Job]
      /\ \A u \in Tasks : job'[u].req <= Len(req'[u]) /\ (job'[u].phase = 0 => ~job'[u].late)
  BY <1>1 DEF TypeOK
<1> QED BY <1>1, <1>2, <1>3 DEF TypeOK

\* What no step of an attempt changes.
AttemptKeeps(t) ==
    /\ UNCHANGED <<database, rec, pc, seen>>
    /\ job[t].phase # 0
    /\ \E j \in Job :
          /\ job' = [job EXCEPT ![t] = j]
          /\ j.req = job[t].req /\ j.inv = job[t].inv /\ j.phase # 0

\* The steps of an attempt keep the types.
LEMMA AttemptTypes ==
    ASSUME TypeOK, NEW t \in Tasks, Attempt(t)
    PROVE  TypeOK' /\ AttemptKeeps(t)
<1>0. /\ job \in [Tasks -> Job] /\ job[t] \in Job /\ job[t].req <= Len(req[t])
      /\ job = [job EXCEPT ![t] = job[t]]
      /\ seen \in [Tasks -> Nat] /\ faults \in Nat /\ stopped \subseteq Runs
      /\ own \in [Invs -> Records] /\ proc \in [Invs -> Running]
      /\ \A u \in Tasks : seen[u] <= seen[u]
  BY DEF TypeOK
<1>1. ASSUME NEW r \in Runs, FenceRooms(t, r) PROVE TypeOK' /\ AttemptKeeps(t)
  <2>1. /\ stopped' \subseteq Runs /\ UNCHANGED <<database, rec, own, proc, pc, seen, job, faults>>
        /\ job[t].phase # 0
    BY <1>0, <1>1 DEF FenceRooms, coordinator
  <2> QED BY <1>0, <2>1 DEF AttemptKeeps, TypeOK, database
<1>2. ASSUME NEW i \in Invs, StopOne(t, i) PROVE TypeOK' /\ AttemptKeeps(t)
  <2>1. PICK o \in Records, p \in Running, proved \in BOOLEAN :
          /\ own' = [own EXCEPT ![i] = o]
          /\ proc' = [proc EXCEPT ![i] = p]
          /\ job' = [job EXCEPT ![t].todo = @ \ {i}, ![t].err = @ \/ ~proved]
    BY <1>2 DEF StopOne
  <2> DEFINE j == [job[t] EXCEPT !.todo = @ \ {i}, !.err = @ \/ ~proved]
  <2>3. j \in Job /\ j.req = job[t].req /\ j.inv = job[t].inv /\ j.phase = job[t].phase
    BY <1>0 DEF Job
  <2>4. job' = [job EXCEPT ![t] = j]
    BY <1>0, <2>1 DEF Job
  <2>5. /\ UNCHANGED <<database, rec, stopped, pc, seen, faults>> /\ job[t].phase # 0
    BY <1>2 DEF StopOne
  <2>6. own' \in [Invs -> Records] /\ proc' \in [Invs -> Running]
    BY <1>0, <2>1
  <2> HIDE DEF j
  <2> QED BY <1>0, <2>3, <2>4, <2>5, <2>6, JobTypes DEF AttemptKeeps
<1>3. ASSUME NEW i \in Invs, StopFails(t, i) PROVE TypeOK' /\ AttemptKeeps(t)
  <2> DEFINE j == [job[t] EXCEPT !.todo = @ \ {i}, !.err = TRUE]
  <2>1. j \in Job /\ j.req = job[t].req /\ j.inv = job[t].inv /\ j.phase = job[t].phase
    BY <1>0 DEF Job
  <2>2. job' = [job EXCEPT ![t] = j]
    BY <1>0, <1>3 DEF StopFails, Job
  <2>3. /\ UNCHANGED <<database, rec, stopped, own, proc, pc, seen>> /\ job[t].phase # 0 /\ faults' \in Nat
    BY <1>0, <1>3 DEF StopFails, work
  <2> HIDE DEF j
  <2> QED BY <1>0, <2>1, <2>2, <2>3, JobTypes DEF AttemptKeeps
<1>4. ASSUME JoinWork(t) PROVE TypeOK' /\ AttemptKeeps(t)
  <2> DEFINE j == [job[t] EXCEPT !.joined = TRUE, !.err = @ \/ Active(t) # {}]
  <2>1. j \in Job /\ j.req = job[t].req /\ j.inv = job[t].inv /\ j.phase = job[t].phase
    BY <1>0 DEF Job
  <2>2. job' = [job EXCEPT ![t] = j]
    BY <1>0, <1>4 DEF JoinWork, Job
  <2>3. UNCHANGED <<database, rec, stopped, own, proc, pc, seen, faults>> /\ job[t].phase # 0
    BY <1>4 DEF JoinWork, work
  <2> HIDE DEF j
  <2> QED BY <1>0, <2>1, <2>2, <2>3, JobTypes DEF AttemptKeeps
<1>5. ASSUME EndPhase(t) PROVE TypeOK' /\ AttemptKeeps(t)
  <2> DEFINE again == job[t].phase = 1 /\ Again(job[t])
             n == IF again THEN 2 ELSE 3
             T == IF again THEN job[t].inv ELSE {}
             j == [job[t] EXCEPT !.phase = n, !.todo = T]
  <2>0. n \in 0..3 /\ n # 0 /\ T \in SUBSET Invs
    BY <1>0 DEF Job
  <2>1. j \in Job /\ j.req = job[t].req /\ j.inv = job[t].inv /\ j.phase # 0
    <3> HIDE DEF n, T
    <3> QED BY <1>0, <2>0 DEF Job
  <2>2. job' = [job EXCEPT ![t] = j]
    BY <1>0, <1>5 DEF EndPhase, Job
  <2>3. UNCHANGED <<database, rec, stopped, own, proc, pc, seen, faults>> /\ job[t].phase # 0
    BY <1>5 DEF EndPhase, work
  <2> HIDE DEF j
  <2> QED BY <1>0, <2>1, <2>2, <2>3, JobTypes DEF AttemptKeeps
<1>6. ASSUME DeadlinePasses(t) PROVE TypeOK' /\ AttemptKeeps(t)
  <2> DEFINE j == [job[t] EXCEPT !.late = TRUE]
  <2>1. j \in Job /\ j.req = job[t].req /\ j.inv = job[t].inv /\ j.phase = job[t].phase
    BY <1>0 DEF Job
  <2>2. job' = [job EXCEPT ![t] = j]
    BY <1>0, <1>6 DEF DeadlinePasses, Job
  <2>3. UNCHANGED <<database, rec, stopped, own, proc, pc, seen, faults>> /\ job[t].phase # 0
    BY <1>6 DEF DeadlinePasses, work
  <2> HIDE DEF j
  <2> QED BY <1>0, <2>1, <2>2, <2>3, JobTypes DEF AttemptKeeps
<1> QED BY <1>1, <1>2, <1>3, <1>4, <1>5, <1>6 DEF Attempt

-----------------------------------------------------------------------------
(* The coordinator.                                                         *)

Quiet(t) == \A i \in WorkOf(t) : pc[i] = "idle" /\ proc[i] = "none"

\* A step answers a request or leaves the database; it confirms only a task
\* whose work is over.
AnswerStep(t) ==
    \/ UNCHANGED <<req, facts>>
    \/ \E n \in DOMAIN req[t], state \in {"failed_to_stop", "confirmed"} :
          /\ req[t][n].state # "confirmed"
          /\ req' = [req EXCEPT ![t][n].state = state]
          /\ facts' = IF state = "confirmed"
                      THEN [facts EXCEPT ![t] = Released(t)] ELSE facts
          /\ state = "confirmed" => Quiet(t)

\* It drops the task's attempt, keeps it, or starts one.
JobStep(t) ==
    /\ \E j \in Job :
          /\ job' = [job EXCEPT ![t] = j]
          /\ j.req <= Len(req[t])
          /\ seen'[t] # 0 => j.req = seen'[t]
          /\ \/ j.phase = 0 /\ ~j.late
             \/ \E x \in {"ready", "waiting", "settled"} : j = [job[t] EXCEPT !.retry = x]
             \/ /\ j.phase = 1 /\ ~j.joined
                /\ j.req \in DOMAIN req[t]
                /\ j.inv = Inventory(t, req[t][j.req])
    /\ seen' \in [Tasks -> Nat]
    /\ \A u \in Tasks : u # t => seen'[u] = seen[u]
    /\ seen'[t] <= Len(req[t])
    /\ faults' \in Nat

CoordinatorStep(t) ==
    /\ UNCHANGED <<runs, closures, epoch, work>>
    /\ AnswerStep(t)
    /\ JobStep(t)

\* An attempt that ended without an error proved its task's work over, unless
\* the task has changed since it was requested.
LEMMA ConfirmationIsProven ==
    ASSUME TypeOK, NEW t \in Tasks, NEW n \in DOMAIN req[t],
           \A i \in Invs : WorkInv(i), AttemptInv(t),
           TargetOf(req[t][n]) = Target(t),
           \/ req[t][n].runs = {}
           \/ job[t].phase = 3 /\ ~job[t].err /\ job[t].req = n
    PROVE  Quiet(t)
<1> USE Ownership
<1>1. req[t][n].runs = Members(t)
  BY DEF TargetOf, Target
<1>2. ASSUME NEW i \in WorkOf(t), req[t][n].runs = {} PROVE pc[i] = "idle" /\ proc[i] = "none"
  <2>1. WorkInv(i) /\ TaskIs(i) = t
    BY DEF WorkOf
  <2> QED BY <1>1, <1>2, <2>1 DEF WorkInv
<1>3. ASSUME NEW i \in WorkOf(t), job[t].phase = 3, ~job[t].err, job[t].req = n
      PROVE  pc[i] = "idle" /\ proc[i] = "none"
  <2>1. WorkInv(i) /\ TaskIs(i) = t /\ i \in Invs
    BY DEF WorkOf
  <2>2. pc[i] = "idle"
    BY <1>3 DEF AttemptInv
  <2>3. ASSUME proc[i] # "none" PROVE FALSE
    <3>1. own[i] # "none" /\ RunOf[i] \in req[t][n].runs /\ (Recorded(i) => i \in rec)
      BY <1>1, <2>1, <2>3 DEF WorkInv
    <3>2. i \in job[t].inv /\ i \notin job[t].todo
      BY <1>3, <3>1 DEF AttemptInv
    <3> QED BY <1>3, <2>3, <3>2 DEF AttemptInv
  <2> QED BY <2>2, <2>3
<1> QED BY <1>2, <1>3 DEF Quiet

\* An acknowledgement confirms only what its attempt proved, and leaves a job of its request.
LEMMA Acknowledged ==
    ASSUME TypeOK, NEW t \in Tasks, NEW n \in DOMAIN req[t],
           \A i \in Invs : WorkInv(i), AttemptInv(t),
           NEW state \in {"failed_to_stop", "confirmed"}, NEW s \in Job,
           Ack(t, n, state, s),
           state = "confirmed" => \/ req[t][n].runs = {}
                                  \/ job[t].phase = 3 /\ ~job[t].err /\ job[t].req = n
    PROVE  /\ AnswerStep(t)
           /\ \E x \in {"ready", "waiting", "settled"} :
                 job' = [job EXCEPT ![t] = [s EXCEPT !.retry = x]]
<1>1. AnswerStep(t)
  BY AckIs, ConfirmationIsProven DEF AnswerStep
<1>2. s.retry \in {"ready", "waiting", "settled"} /\ s = [s EXCEPT !.retry = s.retry]
  BY DEF Job
<1>3. job' = [job EXCEPT ![t] = s] \/ job' = [job EXCEPT ![t] = Refused(s)]
  BY AckIs
<1> QED BY <1>1, <1>2, <1>3 DEF Refused

\* A started attempt is a job.
LEMMA StartedJob ==
    ASSUME NEW k \in Job, NEW I \in SUBSET Invs, NEW u \in BOOLEAN
    PROVE  [k EXCEPT !.phase = 1, !.inv = I, !.todo = I, !.err = u] \in Job
<1>1. [k EXCEPT !.phase = 1] \in Job
  BY DEF Job
<1>2. [k EXCEPT !.phase = 1, !.inv = I] \in Job
  BY <1>1 DEF Job
<1>3. [k EXCEPT !.phase = 1, !.inv = I, !.todo = I] \in Job
  BY <1>2 DEF Job
<1>4. [k EXCEPT !.phase = 1, !.inv = I, !.todo = I, !.err = u] \in Job
  BY <1>3 DEF Job
<1> QED BY <1>4

\* What each step of the coordinator changes.
LEMMA CoordinatorIs ==
    ASSUME TypeOK, NEW t \in Tasks, \A i \in Invs : WorkInv(i), AttemptInv(t), Coordinator(t)
    PROVE  CoordinatorStep(t)
<1> DEFINE Retries == {"ready", "waiting", "settled"}
<1>0. /\ job \in [Tasks -> Job] /\ job[t] \in Job /\ job[t].req <= Len(req[t])
      /\ job[t].retry \in Retries /\ job[t] = [job[t] EXCEPT !.retry = job[t].retry]
      /\ job = [job EXCEPT ![t] = job[t]] /\ job[t].phase = 0 => ~job[t].late
      /\ seen \in [Tasks -> Nat] /\ faults \in Nat /\ seen[t] <= Len(req[t])
      /\ Len(req[t]) \in Nat /\ DOMAIN req[t] = 1..Len(req[t])
  BY DEF TypeOK, Job
<1>1. NoJob \in Job /\ NoJob.phase = 0 /\ NoJob.late = FALSE /\ NoJob.joined = FALSE
  <2>1. 0 \in 0..3 /\ {} \in SUBSET Invs /\ 0 \in Nat
    OBVIOUS
  <2> QED BY <2>1 DEF NoJob, Job
<1>2. /\ Idle(t) \in Job /\ Idle(t).phase = 0 /\ ~Idle(t).late /\ Idle(t).req = job[t].req
      /\ ~Idle(t).joined
      /\ Idle(t).retry \in Retries /\ Idle(t) = [Idle(t) EXCEPT !.retry = Idle(t).retry]
  <2>1. job[t].req \in Nat
    BY <1>0 DEF Job
  <2> QED BY <1>0, <1>1, <2>1 DEF Idle, Job
<1>3. ASSUME seen' = [seen EXCEPT ![t] = 0]
      PROVE  /\ seen' \in [Tasks -> Nat] /\ seen'[t] = 0 /\ seen'[t] <= Len(req[t])
             /\ \A u \in Tasks : u # t => seen'[u] = seen[u]
  BY <1>0, <1>3
<1>4. ASSUME seen[t] # 0 PROVE seen[t] \in DOMAIN req[t]
  BY <1>0, <1>4
<1>5. ASSUME ListRequest(t) PROVE CoordinatorStep(t)
  <2>1. /\ UNCHANGED <<runs, facts, closures, req, epoch, work, faults>>
        /\ seen' = [seen EXCEPT ![t] = Len(req[t])]
    BY <1>5 DEF ListRequest, database
  <2>2. CASE job[t].req = Len(req[t]) /\ job' = job
    BY <1>0, <2>1, <2>2 DEF CoordinatorStep, AnswerStep, JobStep
  <2>3. CASE job' = [job EXCEPT ![t] = [NoJob EXCEPT !.req = Len(req[t])]]
    <3> DEFINE j == [NoJob EXCEPT !.req = Len(req[t])]
    <3>1. j \in Job /\ j.req = Len(req[t]) /\ j.phase = 0 /\ ~j.late
      BY <1>0, <1>1 DEF Job
    <3>2. seen'[t] = Len(req[t]) /\ seen' \in [Tasks -> Nat] /\ \A u \in Tasks : u # t => seen'[u] = seen[u]
      BY <1>0, <2>1
    <3>3. JobStep(t)
      <4>1. job' = [job EXCEPT ![t] = j]
        BY <2>3
      <4>2. j.req <= Len(req[t]) /\ (seen'[t] # 0 => j.req = seen'[t]) /\ seen'[t] <= Len(req[t])
        BY <1>0, <3>1, <3>2
      <4>3. faults' \in Nat
        BY <1>0, <2>1
      <4> HIDE DEF j
      <4> QED BY <3>1, <3>2, <4>1, <4>2, <4>3 DEF JobStep
    <3> QED BY <2>1, <3>3 DEF CoordinatorStep, AnswerStep
  <2> QED BY <1>5, <2>2, <2>3 DEF ListRequest
<1>6. ASSUME Waiting(t) PROVE CoordinatorStep(t)
  <2>1. UNCHANGED <<runs, facts, closures, req, epoch, work, faults, job>> /\ seen' = [seen EXCEPT ![t] = 0]
    BY <1>6 DEF Waiting, Handled
  <2> QED BY <1>0, <1>3, <2>1 DEF CoordinatorStep, AnswerStep, JobStep
<1>7. ASSUME SettleUnprovable(t) PROVE CoordinatorStep(t)
  <2> DEFINE j == [job[t] EXCEPT !.retry = "settled"]
  <2>1. UNCHANGED <<runs, facts, closures, req, epoch, work, faults>> /\ seen' = [seen EXCEPT ![t] = 0]
    BY <1>7 DEF SettleUnprovable, Handled
  <2>2. job' = [job EXCEPT ![t] = j]
    BY <1>0, <1>7 DEF SettleUnprovable, Job
  <2>3. j \in Job /\ j.req = job[t].req
    BY <1>0 DEF Job
  <2>4. \E x \in Retries : j = [job[t] EXCEPT !.retry = x]
    OBVIOUS
  <2> HIDE DEF j
  <2> QED BY <1>0, <1>3, <2>1, <2>2, <2>3, <2>4 DEF CoordinatorStep, AnswerStep, JobStep
<1>8. ASSUME StartAttempt(t) PROVE CoordinatorStep(t)
  <2>1. /\ UNCHANGED <<runs, closures, epoch, work, faults>> /\ seen' = [seen EXCEPT ![t] = 0]
        /\ seen[t] # 0 /\ seen[t] \in DOMAIN req[t]
    BY <1>4, <1>8 DEF StartAttempt, Handled
  <2> DEFINE c == req[t][seen[t]]
  <2>2. CASE c.runs = {}
    <3>1. Ack(t, seen[t], "confirmed", Idle(t))
      BY <1>8, <2>2 DEF StartAttempt
    <3>2. AnswerStep(t) /\ \E x \in Retries : job' = [job EXCEPT ![t] = [Idle(t) EXCEPT !.retry = x]]
      BY <1>2, <2>1, <2>2, <3>1, Acknowledged
    <3>3. PICK x \in Retries : job' = [job EXCEPT ![t] = [Idle(t) EXCEPT !.retry = x]]
      BY <3>2
    <3> DEFINE j == [Idle(t) EXCEPT !.retry = x]
    <3>4. j \in Job /\ j.phase = 0 /\ ~j.late /\ j.req = job[t].req
      BY <1>2 DEF Job
    <3> HIDE DEF j
    <3> QED BY <1>0, <1>3, <2>1, <3>2, <3>3, <3>4 DEF CoordinatorStep, JobStep, j
  <2>3. CASE c.runs # {}
    <3> DEFINE I == Inventory(t, c)
               j == [Idle(t) EXCEPT !.phase = 1, !.inv = I, !.todo = I, !.err = Unprovable(t)]
    <3>1. job' = [job EXCEPT ![t] = j] /\ UNCHANGED <<req, facts>>
      BY <1>8, <2>3 DEF StartAttempt
    <3>2. I \in SUBSET Invs /\ Unprovable(t) \in BOOLEAN
      BY DEF Inventory, WorkOf, Unprovable
    <3>3. j \in Job /\ j.phase = 1 /\ j.req = job[t].req /\ j.inv = I /\ ~j.joined
      <4> DEFINE k == Idle(t)  u == Unprovable(t)
      <4>1. k \in Job /\ k.req = job[t].req /\ ~k.joined /\ u \in BOOLEAN
        BY <1>2, <3>2
      <4> HIDE DEF I, k, u
      <4>2. [k EXCEPT !.phase = 1, !.inv = I, !.todo = I, !.err = u] \in Job
        BY <3>2, <4>1, StartedJob
      <4>3. j = [k EXCEPT !.phase = 1, !.inv = I, !.todo = I, !.err = u]
        BY DEF k, u
      <4> HIDE DEF j
      <4> QED BY <4>1, <4>2, <4>3 DEF Job
    <3>4. job[t].req = seen[t]
      BY <2>1 DEF AttemptInv
    <3>5. j.req \in DOMAIN req[t] /\ j.inv = Inventory(t, req[t][j.req])
      BY <2>1, <3>3, <3>4
    <3>6. JobStep(t)
      <4> HIDE DEF j, I
      <4> QED BY <1>0, <1>3, <2>1, <3>1, <3>3, <3>5 DEF JobStep
    <3> QED BY <2>1, <3>1, <3>6 DEF CoordinatorStep, AnswerStep
  <2> QED BY <2>2, <2>3
<1>9. ASSUME FinishAttempt(t) PROVE CoordinatorStep(t)
  <2> DEFINE state == IF job[t].err THEN "failed_to_stop" ELSE "confirmed"
  <2>1. /\ UNCHANGED <<runs, closures, epoch, work, faults>> /\ seen' = [seen EXCEPT ![t] = 0]
        /\ seen[t] # 0 /\ seen[t] \in DOMAIN req[t] /\ job[t].phase = 3
        /\ Ack(t, seen[t], state, Deferred(t))
    BY <1>4, <1>9 DEF FinishAttempt, Handled
  <2>2. PICK y \in Retries : Deferred(t) = [Idle(t) EXCEPT !.retry = y]
    <3>1. (IF ~job[t].err \/ Idle(t).retry = "settled" THEN Idle(t).retry
           ELSE IF Unprovable(t) THEN "settled" ELSE "waiting") \in Retries
      BY <1>2
    <3> QED BY <3>1, <1>2 DEF Deferred
  <2>3. Deferred(t) \in Job /\ Deferred(t).phase = 0 /\ ~Deferred(t).late /\ Deferred(t).req = job[t].req
    BY <1>2, <2>2 DEF Job
  <2>4. job[t].req = seen[t] /\ state \in {"failed_to_stop", "confirmed"}
    BY <2>1 DEF AttemptInv
  <2>5. AnswerStep(t) /\ \E x \in Retries : job' = [job EXCEPT ![t] = [Deferred(t) EXCEPT !.retry = x]]
    BY <2>1, <2>3, <2>4, Acknowledged
  <2>6. PICK x \in Retries : job' = [job EXCEPT ![t] = [Deferred(t) EXCEPT !.retry = x]]
    BY <2>5
  <2> DEFINE j == [Deferred(t) EXCEPT !.retry = x]
  <2>7. j \in Job /\ j.phase = 0 /\ ~j.late /\ j.req = job[t].req
    BY <2>3 DEF Job
  <2> HIDE DEF j
  <2> QED BY <1>0, <1>3, <2>1, <2>5, <2>6, <2>7 DEF CoordinatorStep, JobStep, j
<1>10. ASSUME LoseAttempt(t) PROVE CoordinatorStep(t)
  <2>1. /\ UNCHANGED <<runs, facts, closures, req, epoch, work>> /\ seen' = [seen EXCEPT ![t] = 0]
        /\ job' = [job EXCEPT ![t] = Idle(t)] /\ faults' \in Nat
    BY <1>0, <1>10 DEF LoseAttempt, database
  <2> QED BY <1>0, <1>2, <1>3, <2>1 DEF CoordinatorStep, AnswerStep, JobStep
<1>11. ASSUME PollAttempt(t) PROVE CoordinatorStep(t)
  <2>1. /\ UNCHANGED <<runs, closures, epoch, work, faults>> /\ seen' = [seen EXCEPT ![t] = 0]
        /\ seen[t] # 0 /\ seen[t] \in DOMAIN req[t] /\ job[t].phase \in {1, 2}
        /\ \/ Ack(t, seen[t], "failed_to_stop", job[t])
           \/ UNCHANGED <<req, facts, job>>
    BY <1>4, <1>11 DEF PollAttempt, Handled
  <2>2. AnswerStep(t) /\ \E x \in Retries : job' = [job EXCEPT ![t] = [job[t] EXCEPT !.retry = x]]
    <3>1. CASE Ack(t, seen[t], "failed_to_stop", job[t])
      <4>1. "failed_to_stop" \in {"failed_to_stop", "confirmed"} /\ "failed_to_stop" # "confirmed"
        OBVIOUS
      <4>2. ASSUME NEW s \in Job, Ack(t, seen[t], "failed_to_stop", s)
            PROVE  AnswerStep(t) /\ \E x \in Retries : job' = [job EXCEPT ![t] = [s EXCEPT !.retry = x]]
        BY <2>1, <4>1, <4>2, Acknowledged
      <4> QED BY <1>0, <3>1, <4>2
    <3>2. CASE UNCHANGED <<req, facts, job>>
      BY <1>0, <3>2 DEF AnswerStep
    <3> QED BY <2>1, <3>1, <3>2
  <2>3. PICK x \in Retries : job' = [job EXCEPT ![t] = [job[t] EXCEPT !.retry = x]]
    BY <2>2
  <2>4. [job[t] EXCEPT !.retry = x] \in Job /\ [job[t] EXCEPT !.retry = x].req = job[t].req
    BY <1>0 DEF Job
  <2> QED BY <1>0, <1>3, <2>1, <2>2, <2>3, <2>4 DEF CoordinatorStep, JobStep
<1>12. ASSUME BackoffElapses(t) PROVE CoordinatorStep(t)
  <2> DEFINE j == [job[t] EXCEPT !.retry = "ready"]
  <2>1. UNCHANGED <<runs, facts, closures, req, epoch, work, seen, faults>> /\ job' = [job EXCEPT ![t] = j]
    BY <1>0, <1>12 DEF BackoffElapses, database, Job
  <2>2. j \in Job /\ j.req = job[t].req
    BY <1>0 DEF Job
  <2>3. \E x \in Retries : j = [job[t] EXCEPT !.retry = x]
    OBVIOUS
  <2>4. seen[t] # 0 => job[t].req = seen[t]
    BY DEF AttemptInv
  <2> HIDE DEF j
  <2> QED BY <1>0, <2>1, <2>2, <2>3, <2>4 DEF CoordinatorStep, AnswerStep, JobStep
<1> QED BY <1>5, <1>6, <1>7, <1>8, <1>9, <1>10, <1>11, <1>12 DEF Coordinator

\* The coordinator keeps the types.
LEMMA CoordinatorTypes ==
    ASSUME TypeOK, NEW t \in Tasks, CoordinatorStep(t)
    PROVE  TypeOK'
<1>1. UNCHANGED <<runs, closures, epoch, rec, own, stopped, proc, pc>>
  BY DEF CoordinatorStep, work
<1>2. /\ req' \in [Tasks -> Seq(Request)]
      /\ \A u \in Tasks : Len(req'[u]) = Len(req[u])
      /\ facts' \in [Tasks -> Seq(Fact)]
      /\ \A u \in Tasks : Starts(facts[u]) \subseteq Starts(facts'[u])
  <2>1. CASE UNCHANGED <<req, facts>>
    BY <2>1 DEF TypeOK
  <2>2. ASSUME NEW n \in DOMAIN req[t], NEW state \in {"failed_to_stop", "confirmed"},
               req' = [req EXCEPT ![t][n].state = state],
               facts' = IF state = "confirmed"
                        THEN [facts EXCEPT ![t] = Released(t)] ELSE facts
        PROVE  <1>2!1 /\ <1>2!2 /\ <1>2!3 /\ <1>2!4
    <3>1. req \in [Tasks -> Seq(Request)] /\ req[t] \in Seq(Request) /\ facts \in [Tasks -> Seq(Fact)]
      BY DEF TypeOK
    <3>4. Released(t) \in Seq(Fact) /\ Starts(facts[t]) \subseteq Starts(Released(t))
      BY ReleasedIs
    <3>5. <1>2!1 /\ <1>2!2
      BY <2>2, AnswerIs
    <3>6. <1>2!3 /\ <1>2!4
      BY <2>2, <3>1, <3>4
    <3> QED BY <3>5, <3>6
  <2> QED BY <2>1, <2>2 DEF CoordinatorStep, AnswerStep
<1>3. /\ job' \in [Tasks -> Job]
      /\ \A u \in Tasks : job'[u].req <= Len(req[u]) /\ (job'[u].phase = 0 => ~job'[u].late)
  <2>1. PICK j \in Job : /\ job' = [job EXCEPT ![t] = j]
                         /\ j.req <= Len(req[t])
                         /\ \/ j.phase = 0 /\ ~j.late
                            \/ \E x \in {"ready", "waiting", "settled"} : j = [job[t] EXCEPT !.retry = x]
                            \/ j.phase = 1
    BY DEF CoordinatorStep, JobStep
  <2>2. job \in [Tasks -> Job] /\ \A u \in Tasks : job[u].req <= Len(req[u]) /\ (job[u].phase = 0 => ~job[u].late)
    BY DEF TypeOK
  <2>3. job[t] \in Job
    BY <2>2
  <2>4. j.phase = 0 => ~j.late
    BY <2>1, <2>2, <2>3 DEF Job
  <2> QED BY <2>1, <2>2, <2>4
<1>4. seen' \in [Tasks -> Nat] /\ \A u \in Tasks : seen'[u] <= Len(req[u])
  BY DEF CoordinatorStep, JobStep, TypeOK
<1>5. faults' \in Nat
  BY DEF CoordinatorStep, JobStep
<1>6. \A u \in Tasks : \A c \in closures'[u] : c.start \in Starts(facts'[u]) /\ c.runs \subseteq Runs
  BY <1>1, <1>2 DEF TypeOK
<1> QED BY <1>1, <1>2, <1>3, <1>4, <1>5, <1>6 DEF TypeOK

\* A crash keeps the types.
LEMMA CrashTypes == TypeOK /\ Crash => TypeOK'
<1> SUFFICES ASSUME TypeOK, Crash PROVE TypeOK'
  OBVIOUS
<1>1. UNCHANGED <<runs, facts, closures, req, rec, own, stopped>>
  BY DEF Crash
<1>2. epoch' \in Nat /\ faults' \in Nat
  <2>1. epoch \in Nat /\ faults \in Nat
    BY DEF TypeOK
  <2>2. faults' = faults + 1 /\ epoch' \in {epoch, epoch + 1}
    BY DEF Crash
  <2> QED BY <2>1, <2>2
<1>3. proc' \in [Invs -> Running]
  <2>1. proc \in [Invs -> Running]
    BY DEF TypeOK
  <2>2. proc' = [i \in Invs |-> IF proc[i] # "ours" THEN proc[i]
                                ELSE IF Over(i) THEN "none" ELSE "orphan"]
    BY DEF Crash
  <2> QED BY <2>1, <2>2 DEF Running
<1>4. pc' \in [Invs -> {"idle", "registered", "claimed", "entered"}]
  BY DEF Crash
<1>5. /\ seen' \in [Tasks -> Nat] /\ \A t \in Tasks : seen'[t] <= Len(req[t])
      /\ \A t \in Tasks : Len(req[t]) \in Nat
  <2>1. \A t \in Tasks : req[t] \in Seq(Request)
    BY DEF TypeOK
  <2>2. ASSUME NEW t \in Tasks PROVE Len(req[t]) \in Nat
    <3>1. req[t] \in Seq(Request)
      BY <2>1
    <3> QED BY <3>1
  <2> QED BY <2>2 DEF Crash
<1>6. NoJob \in Job /\ NoJob.req = 0 /\ ~NoJob.late
  <2>1. 0 \in 0..3 /\ {} \in SUBSET Invs /\ 0 \in Nat
    OBVIOUS
  <2> QED BY <2>1 DEF NoJob, Job
<1>7. job' \in [Tasks -> Job] /\ \A t \in Tasks : job'[t].req <= Len(req[t]) /\ (job'[t].phase = 0 => ~job'[t].late)
  <2>1. job' = [t \in Tasks |-> NoJob]
    BY DEF Crash
  <2> QED BY <1>5, <1>6, <2>1
<1> QED BY <1>1, <1>2, <1>3, <1>4, <1>5, <1>7 DEF TypeOK

\* The initial state has the types.
LEMMA InitTypes == Init => TypeOK
<1> SUFFICES ASSUME Init PROVE TypeOK
  OBVIOUS
<1>1. /\ \A S : <<>> \in Seq(S)
      /\ Len(<<>>) = 0
  OBVIOUS
<1>2. NoJob \in Job /\ NoJob.req = 0 /\ ~NoJob.late
  <2>1. 0 \in 0..3 /\ {} \in SUBSET Invs /\ 0 \in Nat
    OBVIOUS
  <2> QED BY <2>1 DEF NoJob, Job
<1>3. runs \in [Tasks -> Seq(Runs)] /\ facts \in [Tasks -> Seq(Fact)] /\ req \in [Tasks -> Seq(Request)]
  BY <1>1 DEF Init
<1>4. \A t \in Tasks : seen[t] = 0 /\ job[t] = NoJob /\ Len(req[t]) = 0 /\ closures[t] = {}
  BY <1>1 DEF Init
<1>5. job \in [Tasks -> Job] /\ seen \in [Tasks -> Nat] /\ DOMAIN closures = Tasks
  BY <1>2 DEF Init
<1>6. own \in [Invs -> Records] /\ proc \in [Invs -> Running]
      /\ pc \in [Invs -> {"idle", "registered", "claimed", "entered"}]
  BY DEF Init, Records, Running
<1>7. epoch \in Nat /\ faults \in Nat /\ rec \subseteq Invs /\ stopped \subseteq Runs
  BY DEF Init
<1>8. \A t \in Tasks : job[t].req <= Len(req[t]) /\ (job[t].phase = 0 => ~job[t].late) /\ seen[t] <= Len(req[t])
  <2>1. ASSUME NEW t \in Tasks PROVE job[t].req <= Len(req[t]) /\ seen[t] <= Len(req[t])
    BY <1>2, <1>4
  <2>2. \A t \in Tasks : job[t].phase = 0 => ~job[t].late
    BY <1>2, <1>4
  <2> QED BY <2>1, <2>2
<1> QED BY <1>3, <1>4, <1>5, <1>6, <1>7, <1>8 DEF TypeOK

-----------------------------------------------------------------------------
(* Work and its records.                                                    *)

\* A task never loses a run.
LEMMA MembersGrow ==
    ASSUME TypeOK, History
    PROVE  /\ \A t \in Tasks : Members(t) \subseteq Members(t)'
           /\ UNCHANGED <<epoch, work, coordinator, faults>>
<1> USE Ownership
<1>1. ASSUME NEW r \in Runs, runs' = [runs EXCEPT ![TaskOf[r]] = Append(runs[TaskOf[r]], r)]
      PROVE  \A t \in Tasks : Members(t) \subseteq Members(t)'
  <2>1. runs \in [Tasks -> Seq(Runs)] /\ TaskOf[r] \in Tasks /\ runs[TaskOf[r]] \in Seq(Runs)
    BY DEF TypeOK
  <2>2. /\ DOMAIN Append(runs[TaskOf[r]], r) = DOMAIN runs[TaskOf[r]] \cup {Len(runs[TaskOf[r]]) + 1}
        /\ \A n \in DOMAIN runs[TaskOf[r]] : Append(runs[TaskOf[r]], r)[n] = runs[TaskOf[r]][n]
    BY <2>1, Appending
  <2>3. ASSUME NEW t \in Tasks PROVE Members(t) \subseteq Members(t)'
    <3>1. runs'[t] = IF t = TaskOf[r] THEN Append(runs[TaskOf[r]], r) ELSE runs[t]
      BY <1>1, <2>1
    <3>2. \A n \in DOMAIN runs[t] : n \in DOMAIN runs'[t] /\ runs'[t][n] = runs[t][n]
      BY <2>2, <3>1
    <3> QED BY <3>2 DEF Members
  <2> QED BY <2>3
<1>2. \/ \E r \in Runs : runs' = [runs EXCEPT ![TaskOf[r]] = Append(runs[TaskOf[r]], r)]
      \/ runs' = runs
  <2>1. ASSUME NEW r \in Runs, NEW admission \in BOOLEAN, StartRun(r, admission)
        PROVE  runs' = runs \/ runs' = [runs EXCEPT ![TaskOf[r]] = Append(runs[TaskOf[r]], r)]
    BY <2>1 DEF StartRun, With, TypeOK
  <2> QED BY <2>1 DEF History, PutRun, Restart, Complete, Abandon, CloseTaskWorkflow, StopTask
<1>3. UNCHANGED <<epoch, work, coordinator, faults>>
  BY DEF History, PutRun, StartRun, Restart, Complete, Abandon, CloseTaskWorkflow, StopTask
<1>4. runs' = runs => \A t \in Tasks : Members(t) \subseteq Members(t)'
  BY DEF Members
<1> QED BY <1>1, <1>2, <1>3, <1>4

\* What is known of an invocation depends only on its worker, record, work and fences.
LEMMA WorkKept ==
    ASSUME NEW i \in Invs, WorkInv(i),
           own'[i] = own[i], proc'[i] = proc[i], pc'[i] = pc[i], (i \in rec') = (i \in rec),
           Members(TaskIs(i)) \subseteq Members(TaskIs(i))'
    PROVE  WorkInv(i)'
BY DEF WorkInv, Recorded, Waits, TaskIs

\* Workers and providers keep what is known of every invocation.
LEMMA WorkSteps ==
    ASSUME TypeOK, NEW i \in Invs, NEW k \in Invs, WorkInv(k), Worker(i) \/ Provider(i)
    PROVE  WorkInv(k)'
<1> USE Ownership
<1>0. /\ UNCHANGED <<runs, facts, closures, req, epoch>>
      /\ own[i] \in Records /\ proc[i] \in Running
      /\ own \in [Invs -> Records] /\ proc \in [Invs -> Running]
      /\ pc \in [Invs -> {"idle", "registered", "claimed", "entered"}]
      /\ pc[i] \in {"idle", "registered", "claimed", "entered"}
  BY WorkTypes DEF database, TypeOK
<1>1. Members(TaskIs(k))' = Members(TaskIs(k))
  BY <1>0 DEF Members, TaskIs
<1>2. CASE k # i
  <2>1. ASSUME NEW o, NEW p, Becomes(i, o, p)
        PROVE  own'[k] = own[k] /\ proc'[k] = proc[k] /\ pc' = pc /\ rec' = rec
    BY <1>0, <1>2, <2>1 DEF Becomes
  <2>2. own'[k] = own[k] /\ proc'[k] = proc[k] /\ pc'[k] = pc[k] /\ (k \in rec') = (k \in rec)
    <3>1. CASE Worker(i)
      BY <1>0, <1>2, <3>1 DEF Worker, Record, Begin, Claim, Enter, Return
    <3>2. CASE Provider(i)
      BY <3>2, <2>1 DEF Provider, Handoff, End, Land, EndEffect, EndOrphan, Recover, RefuseResume
    <3> QED BY <3>1, <3>2
  <2> QED BY <1>1, <2>2, WorkKept
<1>3. CASE k = i
  <2>0. KindOf[i] \in Kinds
    OBVIOUS
  <2>1. ASSUME Record(i) PROVE WorkInv(i)'
    BY <1>0, <1>1, <1>3, <2>1 DEF Record, WorkInv, Recorded, Waits
  <2>2. ASSUME Begin(i) PROVE WorkInv(i)'
    BY <1>0, <1>1, <1>3, <2>2 DEF Begin, Launchable, WorkInv, Recorded, Waits
  <2>3. ASSUME Claim(i) PROVE WorkInv(i)'
    BY <1>0, <1>1, <1>3, <2>3 DEF Claim, WorkInv, Recorded, Waits
  <2>4. ASSUME Enter(i) PROVE WorkInv(i)'
    BY <1>0, <1>1, <1>3, <2>4 DEF Enter, WorkInv, Recorded, Waits
  <2>5. ASSUME Return(i) PROVE WorkInv(i)'
    BY <1>0, <1>1, <1>3, <2>5 DEF Return, WorkInv, Recorded, Waits
  <2>6. ASSUME NEW o \in Records, NEW p \in Running, Becomes(i, o, p)
        PROVE  /\ own'[i] = o /\ proc'[i] = p /\ pc' = pc /\ rec' = rec
    BY <1>0, <2>6 DEF Becomes
  <2>7. ASSUME Provider(i) PROVE WorkInv(i)'
    <3>1. ASSUME Handoff(i) PROVE WorkInv(i)'
      BY <1>0, <1>1, <1>3, <2>6, <3>1 DEF Handoff, WorkInv, Recorded, Waits, Records, Running
    <3>2. ASSUME End(i) PROVE WorkInv(i)'
      <4>1. PICK o \in {"open", "joined", "unproven"} :
               Becomes(i, o, "none") /\ (o = "open" => KindOf[i] = "stage" /\ own[i] # "handoff")
        BY <3>2 DEF End
      <4>2. own'[i] = o /\ proc'[i] = "none" /\ pc' = pc /\ rec' = rec /\ proc[i] = "ours" /\ KindOf[i] # "publish"
        BY <2>6, <3>2, <4>1 DEF End, Records, Running
      <4> QED BY <1>0, <1>1, <1>3, <4>2 DEF WorkInv, Recorded, Waits
    <3>3. ASSUME Land(i) PROVE WorkInv(i)'
      BY <1>0, <1>1, <1>3, <2>6, <3>3 DEF Land, WorkInv, Recorded, Waits, Records, Running
    <3>4. ASSUME EndEffect(i) PROVE WorkInv(i)'
      BY <1>0, <1>1, <1>3, <2>6, <3>4 DEF EndEffect, WorkInv, Recorded, Waits, Records, Running
    <3>5. ASSUME EndOrphan(i) PROVE WorkInv(i)'
      BY <1>0, <1>1, <1>3, <2>6, <3>5 DEF EndOrphan, WorkInv, Recorded, Waits, Records, Running
    <3>6. ASSUME Recover(i) PROVE WorkInv(i)'
      BY <1>0, <1>1, <1>3, <2>6, <3>6 DEF Recover, WorkInv, Recorded, Waits, Records, Running
    <3>7. ASSUME RefuseResume(i) PROVE WorkInv(i)'
      BY <1>0, <1>1, <1>3, <2>6, <3>7 DEF RefuseResume, WorkInv, Recorded, Waits, Records, Running
    <3> QED BY <2>7, <3>1, <3>2, <3>3, <3>4, <3>5, <3>6, <3>7 DEF Provider
  <2> QED BY <1>3, <2>1, <2>2, <2>3, <2>4, <2>5, <2>7 DEF Worker
<1> QED BY <1>2, <1>3

\* What a child of an attempt does to the work it asks about.
LEMMA StopOneIs ==
    ASSUME TypeOK, NEW t \in Tasks, NEW i \in Invs, StopOne(t, i)
    PROVE  \E o \in Records, p \in Running, proved \in BOOLEAN :
              /\ Stops(i, o, p, proved)
              /\ own'[i] = o /\ proc'[i] = p
              /\ \A k \in Invs : k # i => own'[k] = own[k] /\ proc'[k] = proc[k]
              /\ i \in job[t].todo
              /\ job' = [job EXCEPT ![t].todo = @ \ {i}, ![t].err = @ \/ ~proved]
              /\ UNCHANGED <<database, rec, stopped, pc, seen, faults>>
<1>1. PICK o \in Records, p \in Running, proved \in BOOLEAN :
        /\ Stops(i, o, p, proved)
        /\ own' = [own EXCEPT ![i] = o]
        /\ proc' = [proc EXCEPT ![i] = p]
        /\ job' = [job EXCEPT ![t].todo = @ \ {i}, ![t].err = @ \/ ~proved]
  BY DEF StopOne
<1>2. i \in job[t].todo /\ UNCHANGED <<database, rec, stopped, pc, seen, faults>>
  BY DEF StopOne
<1>3. own \in [Invs -> Records] /\ proc \in [Invs -> Running]
  BY DEF TypeOK
<1>4. own'[i] = o /\ proc'[i] = p /\ \A k \in Invs : k # i => own'[k] = own[k] /\ proc'[k] = proc[k]
  BY <1>1, <1>3
<1> QED BY <1>1, <1>2, <1>4

\* A provider's answer is a record and a state of the work.
LEMMA StopsIs ==
    ASSUME TypeOK, NEW i \in Invs, WorkInv(i), NEW o, NEW p, NEW proved \in BOOLEAN,
           Stops(i, o, p, proved)
    PROVE  /\ p \in {"none", proc[i]}
           /\ own[i] = "none" => o = "none"
           /\ o = "none" => own[i] = "none"
           /\ o \in {"joined", "landed"} /\ p # "none" => KindOf[i] = "publish" /\ p = "ours"
           /\ o # "landed"
           /\ own[i] # "none" /\ ~(KindOf[i] = "stage" /\ own[i] = "open") =>
                 o \in {own[i], "joined"}
           /\ KindOf[i] = "stage" /\ own[i] = "open" /\ pc[i] # "idle" /\ proc[i] # "ours" => o = own[i] /\ p = proc[i]
           /\ proved /\ pc[i] = "idle" => p = "none"
<1> USE Ownership
<1>1. KindOf[i] \in Kinds
  OBVIOUS
<1>2. own[i] \in Records
  BY DEF TypeOK
<1>3. CASE KindOf[i] = "stage"
  BY <1>2, <1>3 DEF Stops, StopStage, Seed, WorkInv, Records
<1>4. CASE KindOf[i] = "review"
  BY <1>2, <1>4 DEF Stops, StopReview, WorkInv, Records
<1>5. CASE KindOf[i] \in {"judgment", "room", "publish"}
  BY <1>2, <1>5 DEF Stops, StopOther, WorkInv, Waits, Records
<1> QED BY <1>1, <1>3, <1>4, <1>5 DEF Kinds

\* An attempt keeps what is known of every invocation.
LEMMA WorkUnderAttempt ==
    ASSUME TypeOK, NEW t \in Tasks, Attempt(t), \A i \in Invs : WorkInv(i), NEW k \in Invs
    PROVE  WorkInv(k)'
<1>1. Members(TaskIs(k))' = Members(TaskIs(k)) /\ UNCHANGED <<rec, pc>>
  BY AttemptTypes DEF AttemptKeeps, database, Members, TaskIs
<1>2. ASSUME NEW i \in Invs, StopOne(t, i) PROVE WorkInv(k)'
  <2>1. PICK o \in Records, p \in Running, proved \in BOOLEAN :
              /\ Stops(i, o, p, proved)
              /\ own'[i] = o /\ proc'[i] = p
              /\ \A m \in Invs : m # i => own'[m] = own[m] /\ proc'[m] = proc[m]
              /\ i \in job[t].todo
              /\ job' = [job EXCEPT ![t].todo = @ \ {i}, ![t].err = @ \/ ~proved]
              /\ UNCHANGED <<database, rec, stopped, pc, seen, faults>>
    BY <1>2, StopOneIs
  <2>2. CASE k # i
    BY <1>1, <2>1, <2>2, WorkKept
  <2>3. CASE k = i
    <3>1. WorkInv(i)
      OBVIOUS
    <3>2. /\ p \in {"none", proc[i]}
          /\ own[i] = "none" => o = "none"
          /\ o = "none" => own[i] = "none"
          /\ o \in {"joined", "landed"} /\ p # "none" => KindOf[i] = "publish" /\ p = "ours"
          /\ o # "landed"
          /\ own[i] # "none" /\ ~(KindOf[i] = "stage" /\ own[i] = "open") =>
                 o \in {own[i], "joined"}
          /\ KindOf[i] = "stage" /\ own[i] = "open" /\ pc[i] # "idle" /\ proc[i] # "ours"
                => o = own[i] /\ p = proc[i]
      BY <2>1, <3>1, StopsIs
    <3> QED BY <1>1, <2>1, <2>3, <3>1, <3>2 DEF WorkInv, Recorded, Waits
  <2> QED BY <2>2, <2>3
<1>3. CASE UNCHANGED <<own, proc>>
  BY <1>1, <1>3, WorkKept
<1> QED BY <1>2, <1>3 DEF Attempt, FenceRooms, StopFails, JoinWork, EndPhase, DeadlinePasses, work

\* What a crash leaves of workers, work and attempts.
LEMMA CrashIs ==
    ASSUME TypeOK, Crash
    PROVE  /\ UNCHANGED <<runs, facts, closures, req, rec, own, stopped>>
           /\ \A i \in Invs : /\ pc'[i] = "idle"
                              /\ proc'[i] # "ours"
                              /\ proc[i] = "none" => proc'[i] = "none"
                              /\ proc[i] = "orphan" => proc'[i] = "orphan"
                              /\ Over(i) /\ proc[i] = "ours" => proc'[i] = "none"
           /\ \A t \in Tasks : seen'[t] = 0 /\ job'[t].phase = 0
<1>1. proc \in [Invs -> Running]
  BY DEF TypeOK
<1>2. \A i \in Invs : proc'[i] = IF proc[i] # "ours" THEN proc[i]
                                 ELSE IF Over(i) THEN "none" ELSE "orphan"
  BY DEF Crash
<1>3. \A t \in Tasks : seen'[t] = 0 /\ job'[t] = NoJob
  BY DEF Crash
<1>4. \A i \in Invs : proc[i] \in Running /\ pc'[i] = "idle"
  BY <1>1 DEF Crash
<1>5. UNCHANGED <<runs, facts, closures, req, rec, own, stopped>>
  BY DEF Crash
<1> QED BY <1>2, <1>3, <1>4, <1>5 DEF NoJob, Running

\* A crash keeps what is known of every invocation.
LEMMA WorkUnderCrash ==
    ASSUME TypeOK, Crash, NEW k \in Invs, WorkInv(k)
    PROVE  WorkInv(k)'
<1>1. Members(TaskIs(k))' = Members(TaskIs(k))
  BY CrashIs DEF Members, TaskIs
<1>2. KindOf[k] = "publish" /\ own[k] # "open" => Over(k)
  BY DEF Over
<1> QED BY <1>1, <1>2, CrashIs DEF WorkInv, Recorded, Waits

\* What is known of every invocation is inductive.
LEMMA WorkInvariant ==
    ASSUME TypeOK, \A i \in Invs : WorkInv(i), \A t \in Tasks : AttemptInv(t), Next
    PROVE  \A i \in Invs : WorkInv(i)'
<1> TAKE k \in Invs
<1> USE Ownership
<1>0. TaskIs(k) \in Tasks
  BY DEF TaskIs
<1>1. CASE History
  <2>1. Members(TaskIs(k)) \subseteq Members(TaskIs(k))' /\ UNCHANGED <<rec, own, proc, pc>>
    BY <1>0, <1>1, MembersGrow DEF work, TaskIs
  <2> QED BY <2>1, WorkKept
<1>2. ASSUME NEW i \in Invs, Worker(i) \/ Provider(i) PROVE WorkInv(k)'
  BY <1>2, WorkSteps
<1>3. ASSUME NEW t \in Tasks, Attempt(t) PROVE WorkInv(k)'
  BY <1>3, WorkUnderAttempt
<1>4. ASSUME NEW t \in Tasks, Coordinator(t) PROVE WorkInv(k)'
  <2>1. UNCHANGED <<runs, work>>
    BY <1>4, CoordinatorIs DEF CoordinatorStep
  <2>2. Members(TaskIs(k)) = Members(TaskIs(k))' /\ UNCHANGED <<rec, own, proc, pc>>
    BY <2>1 DEF work, Members, TaskIs
  <2> QED BY <2>2, WorkKept
<1>5. CASE Crash
  BY <1>5, WorkUnderCrash
<1> QED BY <1>1, <1>2, <1>3, <1>4, <1>5 DEF Next

\* The types too, now that the coordinator's steps are known.
LEMMA TypeInvariant ==
    ASSUME TypeOK, \A i \in Invs : WorkInv(i), \A t \in Tasks : AttemptInv(t), Next
    PROVE  TypeOK'
<1>1. ASSUME NEW t \in Tasks, Coordinator(t) PROVE TypeOK'
  BY <1>1, CoordinatorIs, CoordinatorTypes
<1> QED BY <1>1, HistoryTypes, WorkTypes, AttemptTypes, CrashTypes DEF Next

-----------------------------------------------------------------------------
(* What an attempt has established.                                         *)

\* A step starts no work of a fenced task, and no provider's step starts any.
LEMMA WorkOnlyEnds ==
    ASSUME TypeOK, NEW i \in Invs, Worker(i) \/ Provider(i), NEW k \in Invs
    PROVE  /\ Fenced(TaskIs(i)) => (k \in rec') = (k \in rec)
           /\ Fenced(TaskIs(i)) /\ pc[k] = "idle" => pc'[k] = "idle"
           /\ (k # i \/ (Fenced(TaskIs(i)) /\ pc[k] = "idle")) /\ proc[k] = "none" => proc'[k] = "none"
           /\ k # i => (proc[k] = "none" => proc'[k] = "none")
           /\ k # i => pc'[k] = pc[k] /\ (k \in rec') = (k \in rec)
<1>0. /\ pc \in [Invs -> {"idle", "registered", "claimed", "entered"}]
      /\ proc \in [Invs -> Running]
  BY DEF TypeOK
<1>1. CASE Worker(i)
  BY <1>0, <1>1 DEF Worker, Record, Begin, Claim, Enter, Return, MayRegister, ExecutionOpen, TaskIs
<1>2. CASE Provider(i)
  <2>1. ASSUME NEW o, NEW p, Becomes(i, o, p), proc[i] = "none" => p = "none"
        PROVE  /\ rec' = rec /\ pc' = pc
               /\ proc[k] = "none" => proc'[k] = "none"
    BY <1>0, <2>1 DEF Becomes
  <2>2. rec' = rec /\ pc' = pc /\ (proc[k] = "none" => proc'[k] = "none")
    BY <1>2, <2>1 DEF Provider, Handoff, End, Land, EndEffect, EndOrphan, Recover, RefuseResume
  <2> QED BY <2>2
<1> QED BY <1>1, <1>2

\* An attempt looks only at its own request, the records and the work.
LEMMA AttemptKept ==
    ASSUME NEW t \in Tasks, AttemptInv(t), seen'[t] = seen[t], job'[t] = job[t],
           \A m \in DOMAIN req[t] : m \in DOMAIN req'[t] /\ req'[t][m].runs = req[t][m].runs,
           job[t].phase # 0 =>
              \A i \in WorkOf(t) : /\ (i \in rec') = (i \in rec)
                                   /\ pc[i] = "idle" => pc'[i] = "idle"
                                   /\ pc[i] = "idle" /\ proc[i] = "none" => proc'[i] = "none"
    PROVE  AttemptInv(t)'
BY DEF AttemptInv, WorkOf, TaskIs, Recorded

\* The task's own history takes nothing from what an attempt has proved.
LEMMA AttemptUnderHistory ==
    ASSUME TypeOK, NEW t \in Tasks, AttemptInv(t), History
    PROVE  AttemptInv(t)'
<1>1. UNCHANGED <<rec, own, proc, pc, seen, job>>
  BY MembersGrow DEF work, coordinator
<1>2. \A m \in DOMAIN req[t] : m \in DOMAIN req'[t] /\ req'[t][m].runs = req[t][m].runs
  <2>1. ASSUME NEW u \in Tasks, StopTask(u)
        PROVE  \A m \in DOMAIN req[t] : m \in DOMAIN req'[t] /\ req'[t][m] = req[t][m]
    <3> DEFINE e == [episode |-> CurrentStart(facts[u]), runs |-> Members(u),
                     epoch |-> epoch, state |-> "requested"]
    <3>1. req' = [req EXCEPT ![u] = Append(req[u], e)] /\ e \in Request
      BY <2>1, TargetIs DEF StopTask
    <3>2. req \in [Tasks -> Seq(Request)] /\ req[u] \in Seq(Request)
      BY DEF TypeOK
    <3> HIDE DEF e
    <3>3. \A m \in DOMAIN req[u] : m \in DOMAIN Append(req[u], e) /\ Append(req[u], e)[m] = req[u][m]
      BY <3>1, <3>2, Appending
    <3> QED BY <3>1, <3>2, <3>3
  <2>2. req' = req \/ \E u \in Tasks : StopTask(u)
    BY DEF History, PutRun, StartRun, Restart, Complete, Abandon, CloseTaskWorkflow
  <2> QED BY <2>1, <2>2
<1> QED BY <1>1, <1>2, AttemptKept

\* Workers and providers undo nothing an attempt has proved.
LEMMA AttemptUnderWork ==
    ASSUME TypeOK, NEW t \in Tasks, AttemptInv(t), NEW i \in Invs, Worker(i) \/ Provider(i)
    PROVE  AttemptInv(t)'
<1>1. UNCHANGED <<req, seen, job>>
  BY WorkTypes DEF database, coordinator
<1>2. job[t].phase # 0 => Fenced(t)
  BY DEF AttemptInv, Fenced
<1>3. ASSUME job[t].phase # 0, NEW k \in WorkOf(t)
      PROVE  /\ (k \in rec') = (k \in rec)
             /\ pc[k] = "idle" => pc'[k] = "idle"
             /\ pc[k] = "idle" /\ proc[k] = "none" => proc'[k] = "none"
  <2>1. k \in Invs /\ TaskIs(k) = t
    BY DEF WorkOf
  <2>2. k = i => Fenced(TaskIs(i))
    BY <1>2, <1>3, <2>1
  <2> QED BY <2>1, <2>2, WorkOnlyEnds
<1> QED BY <1>1, <1>3, AttemptKept

\* An attempt's own steps keep what it has proved.
LEMMA AttemptUnderAttempt ==
    ASSUME TypeOK, \A i \in Invs : WorkInv(i), NEW t \in Tasks, AttemptInv(t), NEW u \in Tasks, Attempt(u)
    PROVE  AttemptInv(t)'
<1>0. /\ UNCHANGED <<req, rec, pc, seen>> /\ job[u].phase # 0
      /\ job \in [Tasks -> Job] /\ job[t] \in Job
      /\ \A x \in Tasks : x # u => job'[x] = job[x]
  BY AttemptTypes DEF AttemptKeeps, database, TypeOK
<1>1. ASSUME NEW i \in Invs, UNCHANGED <<own, proc>> \/ StopOne(u, i)
      PROVE  \A k \in Invs : pc[k] = "idle" /\ proc[k] = "none" => proc'[k] = "none"
  <2>1. ASSUME StopOne(u, i), NEW k \in Invs, proc[k] = "none" PROVE proc'[k] = "none"
    <3>1. PICK o \in Records, p \in Running, proved \in BOOLEAN :
              /\ Stops(i, o, p, proved)
              /\ own'[i] = o /\ proc'[i] = p
              /\ \A m \in Invs : m # i => own'[m] = own[m] /\ proc'[m] = proc[m]
              /\ i \in job[u].todo
              /\ job' = [job EXCEPT ![u].todo = @ \ {i}, ![u].err = @ \/ ~proved]
              /\ UNCHANGED <<database, rec, stopped, pc, seen, faults>>
      BY <2>1, StopOneIs
    <3>2. p \in {"none", proc[i]}
      BY <3>1, StopsIs
    <3> QED BY <2>1, <3>1, <3>2
  <2> QED BY <1>1, <2>1
<1>2. \A k \in Invs : pc[k] = "idle" /\ proc[k] = "none" => proc'[k] = "none"
  <2>1. UNCHANGED <<own, proc>> \/ \E i \in Invs : StopOne(u, i)
    BY DEF Attempt, FenceRooms, StopFails, JoinWork, EndPhase, DeadlinePasses, work
  <2>2. CASE UNCHANGED <<own, proc>>
    BY <2>2
  <2> QED BY <1>1, <2>1, <2>2
<1>3. CASE t # u
  BY <1>0, <1>2, <1>3, AttemptKept DEF WorkOf
<1>4. CASE t = u
  <2>1. ASSUME NEW r \in Runs, FenceRooms(t, r) PROVE AttemptInv(t)'
    <3>1. job' = job
      BY <2>1 DEF FenceRooms, coordinator
    <3> QED BY <1>0, <1>2, <3>1, AttemptKept DEF WorkOf
  <2>2. ASSUME NEW i \in Invs, StopOne(t, i) PROVE AttemptInv(t)'
    <3>1. PICK o \in Records, p \in Running, proved \in BOOLEAN :
              /\ Stops(i, o, p, proved)
              /\ own'[i] = o /\ proc'[i] = p
              /\ \A k \in Invs : k # i => own'[k] = own[k] /\ proc'[k] = proc[k]
              /\ i \in job[t].todo
              /\ job' = [job EXCEPT ![t].todo = @ \ {i}, ![t].err = @ \/ ~proved]
              /\ UNCHANGED <<database, rec, stopped, pc, seen, faults>>
      BY <2>2, StopOneIs
    <3>2. /\ job'[t].req = job[t].req /\ job'[t].phase = job[t].phase /\ job'[t].inv = job[t].inv
          /\ job'[t].joined = job[t].joined /\ job'[t].todo = job[t].todo \ {i}
          /\ job'[t].err = (job[t].err \/ ~proved)
      BY <1>0, <3>1 DEF Job
    <3>3. proved /\ pc[i] = "idle" => proc'[i] = "none"
      BY <3>1, StopsIs
    <3>4. ASSUME ~job'[t].err, job[t].phase # 1, NEW k \in WorkOf(t) \cap job[t].inv, k \notin job'[t].todo
          PROVE  proc'[k] = "none"
      <4>1. k \in Invs /\ proved /\ ~job[t].err
        BY <3>2, <3>4 DEF WorkOf
      <4>2. pc[k] = "idle"
        BY <1>0, <1>4, <3>4, <4>1 DEF AttemptInv
      <4>3. CASE k = i
        BY <3>3, <4>1, <4>2, <4>3
      <4>4. CASE k # i
        <5>1. k \notin job[t].todo
          BY <3>2, <3>4, <4>4
        <5>2. proc[k] = "none"
          BY <1>0, <1>4, <3>4, <4>1, <5>1 DEF AttemptInv
        <5> QED BY <3>1, <4>1, <4>4, <5>2
      <4> QED BY <4>3, <4>4
    <3>5. WorkOf(t)' = WorkOf(t) /\ \A k \in Invs : Recorded(k)' = Recorded(k)
      BY DEF WorkOf, TaskIs, Recorded
    <3>6. job[t].phase = 3 => job'[t].todo = {}
      BY <3>2 DEF AttemptInv
    <3>7. ~job'[t].err => ~job[t].err
      BY <3>2
    <3>8. seen'[t] # 0 => job'[t].req = seen'[t]
      BY <1>0, <3>2 DEF AttemptInv
    <3> QED BY <1>0, <1>4, <3>2, <3>4, <3>5, <3>6, <3>7, <3>8 DEF AttemptInv, WorkOf
  <2>3. ASSUME NEW i \in Invs, StopFails(t, i) PROVE AttemptInv(t)'
    <3>1. /\ job'[t].req = job[t].req /\ job'[t].phase = job[t].phase /\ job'[t].inv = job[t].inv
          /\ job'[t].todo = job[t].todo \ {i} /\ job'[t].err
      BY <1>0, <2>3 DEF StopFails, Job
    <3> QED BY <1>0, <3>1 DEF AttemptInv, WorkOf, TaskIs, Recorded
  <2>4. ASSUME JoinWork(t) PROVE AttemptInv(t)'
    <3>1. /\ job'[t].req = job[t].req /\ job'[t].phase = job[t].phase /\ job'[t].inv = job[t].inv
          /\ job'[t].todo = job[t].todo /\ job'[t].joined
          /\ job'[t].err = (job[t].err \/ Active(t) # {})
      BY <1>0, <2>4 DEF JoinWork, Job
    <3>2. job[t].phase = 1 /\ UNCHANGED <<own, proc>>
      BY <2>4 DEF JoinWork, work
    <3> QED BY <1>0, <3>1, <3>2 DEF AttemptInv, WorkOf, TaskIs, Recorded, Active
  <2>5. ASSUME EndPhase(t) PROVE AttemptInv(t)'
    <3>1. /\ job'[t].req = job[t].req /\ job'[t].inv = job[t].inv /\ job'[t].joined = job[t].joined
          /\ job'[t].err = job[t].err
          /\ job'[t].phase = IF job[t].phase = 1 /\ ~job[t].err THEN 2 ELSE 3
          /\ job'[t].todo = IF job[t].phase = 1 /\ ~job[t].err THEN job[t].inv ELSE {}
      BY <1>0, <2>5 DEF EndPhase, Again, Job
    <3>2. job[t].phase \in {1, 2} /\ job[t].todo = {} /\ job[t].joined /\ UNCHANGED <<own, proc>>
      BY <2>5 DEF EndPhase, work
    <3> QED BY <1>0, <3>1, <3>2 DEF AttemptInv, WorkOf, TaskIs, Recorded
  <2>6. ASSUME DeadlinePasses(t) PROVE AttemptInv(t)'
    <3>1. /\ job'[t].req = job[t].req /\ job'[t].inv = job[t].inv /\ job'[t].joined = job[t].joined
          /\ job'[t].err = job[t].err /\ job'[t].phase = job[t].phase /\ job'[t].todo = job[t].todo
      BY <1>0, <2>6 DEF DeadlinePasses, Job
    <3>2. UNCHANGED <<own, proc>>
      BY <2>6 DEF DeadlinePasses, work
    <3> QED BY <1>0, <3>1, <3>2 DEF AttemptInv, WorkOf, TaskIs, Recorded
  <2> QED BY <1>4, <2>1, <2>2, <2>3, <2>4, <2>5, <2>6 DEF Attempt
<1> QED BY <1>3, <1>4

\* Passes keep what an attempt has proved.
LEMMA AttemptUnderCoordinator ==
    ASSUME TypeOK, NEW t \in Tasks, AttemptInv(t), NEW u \in Tasks, CoordinatorStep(u)
    PROVE  AttemptInv(t)'
<1>0. UNCHANGED <<rec, own, proc, pc>> /\ job \in [Tasks -> Job] /\ job[t] \in Job
  BY DEF CoordinatorStep, work, TypeOK
<1>1. \A m \in DOMAIN req[t] : m \in DOMAIN req'[t] /\ req'[t][m].runs = req[t][m].runs
  <2>1. ASSUME NEW n \in DOMAIN req[u], NEW state \in {"failed_to_stop", "confirmed"},
               req' = [req EXCEPT ![u][n].state = state]
        PROVE  <1>1!:
    BY <2>1, AnswerIs
  <2> QED BY <2>1 DEF CoordinatorStep, AnswerStep
<1>2. PICK j \in Job :
        /\ job' = [job EXCEPT ![u] = j]
        /\ j.req <= Len(req[u])
        /\ seen'[u] # 0 => j.req = seen'[u]
        /\ \/ j.phase = 0 /\ ~j.late
           \/ \E x \in {"ready", "waiting", "settled"} : j = [job[u] EXCEPT !.retry = x]
           \/ /\ j.phase = 1 /\ ~j.joined
              /\ j.req \in DOMAIN req[u]
              /\ j.inv = Inventory(u, req[u][j.req])
  BY DEF CoordinatorStep, JobStep
<1>3. CASE t # u
  <2>1. seen'[t] = seen[t] /\ job'[t] = job[t]
    BY <1>0, <1>2, <1>3 DEF CoordinatorStep, JobStep
  <2> QED BY <1>0, <1>1, <2>1, AttemptKept
<1>4. CASE t = u
  <2>0. job'[t] = j /\ (seen'[t] # 0 => j.req = seen'[t])
    BY <1>0, <1>2, <1>4
  <2>1. CASE j.phase = 0
    BY <2>0, <2>1 DEF AttemptInv
  <2>2. ASSUME NEW x, j = [job[t] EXCEPT !.retry = x] PROVE AttemptInv(t)'
    <3>1. /\ j.req = job[t].req /\ j.inv = job[t].inv /\ j.joined = job[t].joined
          /\ j.err = job[t].err /\ j.phase = job[t].phase /\ j.todo = job[t].todo
      BY <1>0, <2>2 DEF Job
    <3> QED BY <1>0, <1>1, <2>0, <3>1 DEF AttemptInv, WorkOf, TaskIs, Recorded
  <2>3. ASSUME j.phase = 1, ~j.joined, j.req \in DOMAIN req[t], j.inv = Inventory(t, req[t][j.req])
        PROVE  AttemptInv(t)'
    <3>1. \A i \in WorkOf(t) : RunOf[i] \in req[t][j.req].runs /\ (Recorded(i) => i \in rec) => i \in j.inv
      BY <2>3 DEF Inventory
    <3> QED BY <1>0, <1>1, <2>0, <2>3, <3>1 DEF AttemptInv, WorkOf, TaskIs, Recorded
  <2> QED BY <1>2, <1>4, <2>1, <2>2, <2>3
<1> QED BY <1>3, <1>4

\* What an attempt has proved stays true until it ends.
LEMMA AttemptInvariant ==
    ASSUME TypeOK, \A i \in Invs : WorkInv(i), \A t \in Tasks : AttemptInv(t), Next
    PROVE  \A t \in Tasks : AttemptInv(t)'
<1> TAKE t \in Tasks
<1>1. CASE History
  BY <1>1, AttemptUnderHistory
<1>2. ASSUME NEW i \in Invs, Worker(i) \/ Provider(i) PROVE AttemptInv(t)'
  BY <1>2, AttemptUnderWork
<1>3. ASSUME NEW u \in Tasks, Attempt(u) PROVE AttemptInv(t)'
  BY <1>3, AttemptUnderAttempt
<1>4. ASSUME NEW u \in Tasks, Coordinator(u) PROVE AttemptInv(t)'
  BY <1>4, CoordinatorIs, AttemptUnderCoordinator
<1>5. CASE Crash
  BY <1>5, CrashIs DEF AttemptInv
<1> QED BY <1>1, <1>2, <1>3, <1>4, <1>5 DEF Next

-----------------------------------------------------------------------------
(* Quiescence.                                                              *)

\* A task that is confirmed after a step was confirmed before it, or the step
\* confirmed it and its work is over.
LEMMA ConfirmedWhen ==
    ASSUME TypeOK, \A i \in Invs : WorkInv(i), \A u \in Tasks : AttemptInv(u), Next,
           NEW t \in Tasks, ConfirmedOnce(t)'
    PROVE  \/ ConfirmedOnce(t)
           \/ Quiet(t) /\ \E u \in Tasks : Coordinator(u)
<1>0. req \in [Tasks -> Seq(Request)]
  BY DEF TypeOK
<1>1. ASSUME NEW u \in Tasks, StopTask(u) PROVE ConfirmedOnce(t)
  <2> DEFINE e == [episode |-> CurrentStart(facts[u]), runs |-> Members(u),
                   epoch |-> epoch, state |-> "requested"]
  <2>1. req' = [req EXCEPT ![u] = Append(req[u], e)] /\ e \in Request /\ e.state = "requested"
    BY <1>1, TargetIs DEF StopTask
  <2>2. CASE t # u
    <3>1. req'[t] = req[t]
      BY <1>0, <2>1, <2>2
    <3> QED BY <3>1 DEF ConfirmedOnce
  <2>3. CASE t = u
    <3> HIDE DEF e
    <3>1. req'[t] = Append(req[t], e) /\ req[t] \in Seq(Request)
      BY <1>0, <2>1, <2>3
    <3>2. /\ DOMAIN req'[t] = DOMAIN req[t] \cup {Len(req[t]) + 1}
          /\ \A n \in DOMAIN req[t] : req'[t][n] = req[t][n]
          /\ req'[t][Len(req[t]) + 1] = e
      BY <2>1, <3>1, Appending
    <3>3. PICK n \in DOMAIN req'[t] : req'[t][n].state = "confirmed"
      BY DEF ConfirmedOnce
    <3>4. n \in DOMAIN req[t]
      BY <2>1, <3>2, <3>3
    <3> QED BY <3>2, <3>3, <3>4 DEF ConfirmedOnce
  <2> QED BY <2>2, <2>3
<1>2. ASSUME NEW u \in Tasks, Coordinator(u) PROVE ConfirmedOnce(t) \/ Quiet(t)
  <2>1. AnswerStep(u)
    BY <1>2, CoordinatorIs DEF CoordinatorStep
  <2>2. CASE UNCHANGED <<req, facts>>
    BY <2>2 DEF ConfirmedOnce
  <2>3. ASSUME NEW n \in DOMAIN req[u], NEW state \in {"failed_to_stop", "confirmed"},
               req' = [req EXCEPT ![u][n].state = state], state = "confirmed" => Quiet(u)
        PROVE  ConfirmedOnce(t) \/ Quiet(t)
    <3>1. CASE t # u
      BY <2>3, <3>1, AnswerIs DEF ConfirmedOnce
    <3>2. CASE t = u /\ state = "confirmed"
      BY <2>3, <3>2
    <3>3. CASE t = u /\ state # "confirmed"
      <4>1. PICK m \in DOMAIN req'[t] : req'[t][m].state = "confirmed"
        BY DEF ConfirmedOnce
      <4>2. m \in DOMAIN req[t] /\ req'[t][m] = req[t][m]
        BY <2>3, <3>3, <4>1, AnswerIs
      <4> QED BY <4>1, <4>2 DEF ConfirmedOnce
    <3> QED BY <3>1, <3>2, <3>3
  <2> QED BY <2>1, <2>2, <2>3 DEF AnswerStep
<1>3. \/ req' = req
      \/ \E u \in Tasks : StopTask(u) \/ Coordinator(u)
  <2>1. CASE History
    BY <2>1 DEF History, PutRun, StartRun, Restart, Complete, Abandon, CloseTaskWorkflow
  <2>2. ASSUME NEW i \in Invs, Worker(i) \/ Provider(i) PROVE req' = req
    BY <2>2, WorkTypes DEF database
  <2>3. ASSUME NEW u \in Tasks, Attempt(u) PROVE req' = req
    BY <2>3, AttemptTypes DEF AttemptKeeps, database
  <2>4. CASE Crash
    BY <2>4 DEF Crash
  <2> QED BY <2>1, <2>2, <2>3, <2>4 DEF Next
<1>4. req' = req => ConfirmedOnce(t)
  BY DEF ConfirmedOnce
<1> QED BY <1>1, <1>2, <1>3, <1>4

\* A fenced task without workers or work stays so.
LEMMA QuietStays ==
    ASSUME TypeOK, \A i \in Invs : WorkInv(i), NEW t \in Tasks, Quiet(t), Fenced(t), Next
    PROVE  Quiet(t)'
<1>1. ASSUME NEW k \in WorkOf(t) PROVE pc'[k] = "idle" /\ proc'[k] = "none"
  <2>0. k \in Invs /\ TaskIs(k) = t /\ pc[k] = "idle" /\ proc[k] = "none"
    BY DEF WorkOf, Quiet
  <2>1. CASE History
    BY <2>0, <2>1, MembersGrow DEF work
  <2>2. ASSUME NEW i \in Invs, Worker(i) \/ Provider(i) PROVE pc'[k] = "idle" /\ proc'[k] = "none"
    <3>1. k = i => Fenced(TaskIs(i))
      BY <2>0
    <3> QED BY <2>0, <2>2, <3>1, WorkOnlyEnds
  <2>3. ASSUME NEW u \in Tasks, Attempt(u) PROVE pc'[k] = "idle" /\ proc'[k] = "none"
    <3>1. pc' = pc
      BY <2>3, AttemptTypes DEF AttemptKeeps
    <3>2. ASSUME NEW i \in Invs, StopOne(u, i) PROVE proc'[k] = "none"
      <4>1. PICK o \in Records, p \in Running, proved \in BOOLEAN :
              /\ Stops(i, o, p, proved)
              /\ own'[i] = o /\ proc'[i] = p
              /\ \A m \in Invs : m # i => own'[m] = own[m] /\ proc'[m] = proc[m]
              /\ i \in job[u].todo
              /\ job' = [job EXCEPT ![u].todo = @ \ {i}, ![u].err = @ \/ ~proved]
              /\ UNCHANGED <<database, rec, stopped, pc, seen, faults>>
        BY <3>2, StopOneIs
      <4>2. p \in {"none", proc[i]}
        BY <4>1, StopsIs
      <4> QED BY <2>0, <4>1, <4>2
    <3>3. (\E i \in Invs : StopOne(u, i)) \/ proc' = proc
      BY <2>3 DEF Attempt, FenceRooms, StopFails, JoinWork, EndPhase, DeadlinePasses, work
    <3> QED BY <2>0, <3>1, <3>2, <3>3
  <2>4. ASSUME NEW u \in Tasks, Coordinator(u) PROVE pc' = pc /\ proc' = proc
    BY <2>4 DEF Coordinator, ListRequest, Waiting, SettleUnprovable, StartAttempt, FinishAttempt,
                LoseAttempt, PollAttempt, BackoffElapses, Handled, work
  <2>5. CASE Crash
    BY <2>0, <2>5, CrashIs
  <2> QED BY <2>0, <2>1, <2>2, <2>3, <2>4, <2>5 DEF Next
<1> QED BY <1>1 DEF Quiet, WorkOf, TaskIs

\* Every step keeps confirmed tasks quiet.
LEMMA QuiescenceInvariant ==
    ASSUME TypeOK, \A i \in Invs : WorkInv(i), \A t \in Tasks : AttemptInv(t),
           ConfirmedIsQuiescent, Next
    PROVE  ConfirmedIsQuiescent'
<1>1. ASSUME NEW t \in Tasks, ConfirmedOnce(t)' PROVE Quiet(t)'
  <2>1. CASE ConfirmedOnce(t)
    <3>1. Quiet(t) /\ Fenced(t)
      BY <2>1 DEF ConfirmedIsQuiescent, Quiet, ConfirmedOnce, Fenced
    <3> QED BY <3>1, QuietStays
  <2>2. ASSUME Quiet(t), NEW u \in Tasks, Coordinator(u) PROVE Quiet(t)'
    <3>1. pc' = pc /\ proc' = proc
      BY <2>2 DEF Coordinator, ListRequest, Waiting, SettleUnprovable, StartAttempt, FinishAttempt,
                LoseAttempt, PollAttempt, BackoffElapses, Handled, work
    <3> QED BY <2>2, <3>1 DEF Quiet, WorkOf, TaskIs
  <2> QED BY <1>1, <2>1, <2>2, ConfirmedWhen
<1> QED BY <1>1 DEF ConfirmedIsQuiescent, Quiet, WorkOf, TaskIs

-----------------------------------------------------------------------------
(* Slots.                                                                   *)

\* A run appended to its task moves none of the task's other runs.
LEMMA EpisodeOfOthers ==
    ASSUME NEW rs \in Seq(Runs), NEW r \in Runs, NEW fs, NEW x, x # r
    PROVE  Episode(Append(rs, r), fs, x) = Episode(rs, fs, x)
<1>1. /\ DOMAIN Append(rs, r) = DOMAIN rs \cup {Len(rs) + 1}
      /\ \A n \in DOMAIN rs : Append(rs, r)[n] = rs[n] /\ n \in Nat /\ n <= Len(rs)
      /\ Append(rs, r)[Len(rs) + 1] = r /\ Len(rs) \in Nat
  BY Appending
<1>2. \A q : Before(Append(rs, r), q, x) <=> Before(rs, q, x)
  BY <1>1 DEF Before
<1> QED BY <1>2 DEF Episode

\* A run that is not of the task has no episode.
LEMMA EpisodeOfNone ==
    ASSUME NEW rs, NEW fs, NEW x, \A n \in DOMAIN rs : rs[n] # x
    PROVE  Episode(rs, fs, x) = 0
<1>1. {o \in Starts(fs) : Before(rs, fs[o].run, x)} = {}
  BY DEF Before
<1> QED BY <1>1 DEF Episode, Newest

\* A released slot stays released under a run added or a fact that starts
\* nothing.
LEMMA ReleasedUnderRun ==
    ASSUME NEW rs \in Seq(Runs), NEW r \in Runs, \A n \in DOMAIN rs : rs[n] # r,
           NEW fs \in Seq(Fact), ~WIPIn(rs, fs, <<>>)
    PROVE  ~WIPIn(Append(rs, r), fs, <<>>)
<1> DEFINE o == CurrentStart(fs)
<1>0. ~StoppedEpisode(fs, <<>>)
  BY DEF StoppedEpisode
<1>1. CASE o = 0
  BY <1>1 DEF WIPIn
<1>2. ASSUME o # 0, NEW n \in DOMAIN fs, n > o, fs[n].kind = "abandoned"
      PROVE  ~WIPIn(Append(rs, r), fs, <<>>)
  BY <1>2 DEF WIPIn
<1>3. ASSUME o # 0, NEW n \in DOMAIN fs, n > o, fs[n].kind = "completed",
             CampaignOf[fs[n].run] = CampaignOf[fs[o].run], Episode(rs, fs, fs[n].run) = o
      PROVE  ~WIPIn(Append(rs, r), fs, <<>>)
  <2>1. fs[n].run # r
    BY <1>3, EpisodeOfNone
  <2>2. Episode(Append(rs, r), fs, fs[n].run) = o
    BY <1>3, <2>1, EpisodeOfOthers
  <2> QED BY <1>3, <2>2 DEF WIPIn
<1> QED BY <1>0, <1>1, <1>2, <1>3 DEF WIPIn

\* A released slot stays released under a fact that is no start.
LEMMA ReleasedUnderFact ==
    ASSUME NEW rs, NEW fs \in Seq(Fact), NEW f \in Fact, f.kind # "started",
           ~WIPIn(rs, fs, <<>>)
    PROVE  ~WIPIn(rs, Append(fs, f), <<>>)
<1> DEFINE o == CurrentStart(fs)
           gs == Append(fs, f)
<1>0. ~StoppedEpisode(fs, <<>>)
  BY DEF StoppedEpisode
<1>1. CurrentStart(gs) = o
  BY StartsKept DEF CurrentStart
<1>2. /\ DOMAIN fs \subseteq DOMAIN gs
      /\ \A n \in DOMAIN fs : gs[n] = fs[n]
  BY Appending
<1>3. CASE o = 0
  BY <1>1, <1>3 DEF WIPIn
<1>4. ASSUME o # 0, NEW n \in DOMAIN fs, n > o, fs[n].kind = "abandoned"
      PROVE  ~WIPIn(rs, gs, <<>>)
  <2> HIDE DEF gs
  <2> QED BY <1>1, <1>2, <1>4 DEF WIPIn
<1>5. ASSUME o # 0, NEW n \in DOMAIN fs, n > o, fs[n].kind = "completed",
             CampaignOf[fs[n].run] = CampaignOf[fs[o].run], Episode(rs, fs, fs[n].run) = o
      PROVE  ~WIPIn(rs, gs, <<>>)
  <2>1. o \in DOMAIN fs
    BY <1>5, CurrentStartIs DEF Starts
  <2>2. Episode(rs, gs, fs[n].run) = o
    BY <1>5, EpisodeKept
  <2>3. n \in DOMAIN gs /\ gs[n] = fs[n] /\ gs[o] = fs[o]
    BY <1>2, <2>1
  <2> HIDE DEF gs
  <2> QED BY <1>1, <1>5, <2>2, <2>3 DEF WIPIn
<1> QED BY <1>0, <1>3, <1>4, <1>5 DEF WIPIn

\* An abandonment releases: there is no start, or it is after the last one.
LEMMA AbandonedReleases ==
    ASSUME NEW rs, NEW fs \in Seq(Fact)
    PROVE  ~WIPIn(rs, AbandonedFacts(fs), <<>>)
<1> DEFINE o == CurrentStart(fs)
<1>1. o \in Nat /\ (o # 0 => o \in Starts(fs) /\ o \in DOMAIN fs)
  BY CurrentStartIs DEF Starts
<1>2. CASE o = 0
  BY <1>2 DEF AbandonedFacts, WIPIn
<1>3. ASSUME o # 0, NEW n \in DOMAIN fs, fs[n].kind = "abandoned", CurrentStart(SubSeq(fs, 1, n)) = o
      PROVE  ~WIPIn(rs, fs, <<>>)
  <2> DEFINE gs == SubSeq(fs, 1, n)
  <2>1. n \in Nat /\ n <= Len(fs) /\ n >= 1
    BY <1>3
  <2>2. gs \in Seq(Fact) /\ DOMAIN gs = 1..n
    BY <2>1
  <2>3. o \in DOMAIN gs
    <3> HIDE DEF gs
    <3>1. CurrentStart(gs) = o
      BY <1>3 DEF gs
    <3> QED BY <1>3, <2>2, <3>1, CurrentStartIs DEF Starts
  <2>4. o <= n
    BY <2>2, <2>3
  <2>5. fs[o].kind = "started"
    BY <1>1, <1>3 DEF Starts
  <2>6. n > o
    BY <1>1, <1>3, <2>1, <2>4, <2>5
  <2> QED BY <1>3, <2>6 DEF WIPIn
<1>4. CASE o # 0 /\ ~Abandoned(fs, o)
  <2> DEFINE f == [kind |-> "abandoned", run |-> fs[o].run]
  <2>0. fs[o] \in Fact
    BY <1>1, <1>4
  <2>1. f \in Fact /\ f.kind = "abandoned"
    BY <2>0 DEF Fact
  <2>2. AbandonedFacts(fs) = Append(fs, f)
    BY <1>4 DEF AbandonedFacts
  <2> HIDE DEF f
  <2> DEFINE gs == Append(fs, f)
  <2>3. CurrentStart(gs) = o
    BY <2>1, StartsKept DEF CurrentStart
  <2>4. Len(fs) + 1 \in DOMAIN gs /\ gs[Len(fs) + 1] = f /\ Len(fs) + 1 > o
    BY <1>1, <1>4, <2>1, Appending
  <2> HIDE DEF gs
  <2>5. ~WIPIn(rs, gs, <<>>)
    BY <2>1, <2>3, <2>4 DEF WIPIn
  <2> QED BY <2>2, <2>5 DEF gs
<1>5. CASE o # 0 /\ Abandoned(fs, o)
  <2>1. AbandonedFacts(fs) = fs
    BY <1>5 DEF AbandonedFacts
  <2>2. \E n \in DOMAIN fs : fs[n].kind = "abandoned" /\ CurrentStart(SubSeq(fs, 1, n)) = o
    BY <1>5 DEF Abandoned
  <2> QED BY <1>3, <1>5, <2>1, <2>2
<1> QED BY <1>2, <1>4, <1>5

\* The log a confirmation leaves shows the slot released by itself.
LEMMA ConfirmationReleases ==
    ASSUME TypeOK, NEW t \in Tasks, SlotInv(t)
    PROVE  ~WIPIn(runs[t], Released(t), <<>>)
<1>1. facts[t] \in Seq(Fact) /\ req[t] \in Seq(Request)
  BY DEF TypeOK
<1>2. CASE WIP(t)
  BY <1>1, <1>2, AbandonedReleases DEF Released
<1>3. CASE ~WIP(t)
  <2>1. Released(t) = facts[t]
    BY <1>3 DEF Released
  <2>2. CASE StoppedEpisode(facts[t], req[t])
    <3>1. req[t] # <<>> /\ req[t][Len(req[t])].state = "confirmed"
      BY <2>2 DEF StoppedEpisode
    <3>2. Len(req[t]) \in DOMAIN req[t]
      BY <1>1, <3>1
    <3>3. ConfirmedOnce(t)
      BY <3>1, <3>2 DEF ConfirmedOnce
    <3> QED BY <2>1, <3>3 DEF SlotInv
  <2>3. CASE ~StoppedEpisode(facts[t], req[t])
    BY <1>3, <2>1, <2>3 DEF WIP, WIPIn
  <2> QED BY <2>2, <2>3
<1> QED BY <1>2, <1>3

\* The task's own history keeps a confirmed task without a slot.
LEMMA SlotUnderHistory ==
    ASSUME TypeOK, NEW t \in Tasks, SlotInv(t), ConfirmedOnce(t), History
    PROVE  ~WIPIn(runs'[t], facts'[t], <<>>)
<1> USE Ownership
<1>0. /\ ~WIPIn(runs[t], facts[t], <<>>) /\ Fenced(t)
      /\ runs \in [Tasks -> Seq(Runs)] /\ facts \in [Tasks -> Seq(Fact)]
      /\ runs[t] \in Seq(Runs) /\ facts[t] \in Seq(Fact)
  BY DEF SlotInv, ConfirmedOnce, Fenced, TypeOK
<1>1. ASSUME NEW r \in Runs, PutRun(r) PROVE ~WIPIn(runs'[t], facts'[t], <<>>)
  <2>1. runs' = [runs EXCEPT ![TaskOf[r]] = Append(runs[TaskOf[r]], r)] /\ facts' = facts
        /\ r \notin Members(TaskOf[r])
    BY <1>1 DEF PutRun
  <2>2. CASE t = TaskOf[r]
    <3>1. \A n \in DOMAIN runs[t] : runs[t][n] # r
      BY <2>1, <2>2 DEF Members
    <3>2. runs'[t] = Append(runs[t], r)
      BY <1>0, <2>1, <2>2
    <3> QED BY <1>0, <2>1, <3>1, <3>2, ReleasedUnderRun
  <2>3. CASE t # TaskOf[r]
    BY <1>0, <2>1, <2>3
  <2> QED BY <2>2, <2>3
<1>2. ASSUME NEW u \in Tasks, NEW f \in Fact, f.kind # "started",
             facts' = [facts EXCEPT ![u] = Append(facts[u], f)], runs' = runs
      PROVE  ~WIPIn(runs'[t], facts'[t], <<>>)
  <2>1. CASE t = u
    <3>1. facts'[t] = Append(facts[t], f)
      BY <1>0, <1>2, <2>1
    <3> QED BY <1>0, <1>2, <3>1, ReleasedUnderFact
  <2>2. CASE t # u
    BY <1>0, <1>2, <2>2
  <2> QED BY <2>1, <2>2
<1>3. ASSUME NEW r \in Runs, NEW admission \in BOOLEAN, StartRun(r, admission)
      PROVE  ~WIPIn(runs'[t], facts'[t], <<>>)
  <2>1. t # TaskOf[r]
    BY <1>0, <1>3 DEF StartRun
  <2>2. runs'[t] = runs[t] /\ facts'[t] = facts[t]
    BY <1>0, <1>3, <2>1 DEF StartRun
  <2> QED BY <1>0, <2>2
<1>4. ASSUME NEW r \in Runs, Restart(r) PROVE ~WIPIn(runs'[t], facts'[t], <<>>)
  <2>1. t # TaskOf[r]
    BY <1>0, <1>4 DEF Restart, ExecutionOpen
  <2>2. runs'[t] = runs[t] /\ facts'[t] = facts[t]
    BY <1>0, <1>4, <2>1 DEF Restart
  <2> QED BY <1>0, <2>2
<1>5. ASSUME NEW r \in Runs, Complete(r) PROVE ~WIPIn(runs'[t], facts'[t], <<>>)
  <2> DEFINE f == [kind |-> "completed", run |-> r]
  <2>1. f \in Fact /\ f.kind # "started"
    BY DEF Fact
  <2>2. facts' = [facts EXCEPT ![TaskOf[r]] = Append(facts[TaskOf[r]], f)] /\ runs' = runs
    BY <1>5 DEF Complete
  <2> HIDE DEF f
  <2> QED BY <1>2, <2>1, <2>2
<1>6. ASSUME NEW u \in Tasks, Abandon(u) PROVE ~WIPIn(runs'[t], facts'[t], <<>>)
  <2>1. facts' = [facts EXCEPT ![u] = AbandonedFacts(facts[u])] /\ runs' = runs
    BY <1>6 DEF Abandon
  <2>2. CASE t = u
    BY <1>0, <2>1, <2>2, AbandonedReleases
  <2>3. CASE t # u
    BY <1>0, <2>1, <2>3
  <2> QED BY <2>2, <2>3
<1>7. UNCHANGED <<runs, facts>> => ~WIPIn(runs'[t], facts'[t], <<>>)
  BY <1>0
<1> QED BY <1>1, <1>3, <1>4, <1>5, <1>6, <1>7 DEF History, StopTask, CloseTaskWorkflow

\* Every step keeps a confirmed task without a slot.
LEMMA SlotInvariant ==
    ASSUME TypeOK, \A i \in Invs : WorkInv(i), \A t \in Tasks : AttemptInv(t),
           \A t \in Tasks : SlotInv(t), Next
    PROVE  \A t \in Tasks : SlotInv(t)'
<1> SUFFICES ASSUME NEW t \in Tasks, ConfirmedOnce(t)'
             PROVE  ~WIPIn(runs'[t], facts'[t], <<>>)
  BY DEF SlotInv, WIPIn, CurrentStart, Starts, StoppedEpisode, Episode, Before, Newest
<1>0. /\ facts \in [Tasks -> Seq(Fact)]
      /\ ConfirmedOnce(t) => ~WIPIn(runs[t], facts[t], <<>>)
  BY DEF TypeOK, SlotInv
<1>1. ASSUME UNCHANGED <<runs, facts>>, ~(\E u \in Tasks : Coordinator(u)) PROVE ~WIPIn(runs'[t], facts'[t], <<>>)
  BY <1>0, <1>1, ConfirmedWhen
<1>2. ASSUME History, ~(\E u \in Tasks : Coordinator(u)) PROVE ~WIPIn(runs'[t], facts'[t], <<>>)
  <2>1. CASE ConfirmedOnce(t)
    BY <1>2, <2>1, SlotUnderHistory
  <2> QED BY <1>2, <2>1, ConfirmedWhen
<1>3. ASSUME NEW u \in Tasks, Coordinator(u) PROVE ~WIPIn(runs'[t], facts'[t], <<>>)
  <2>0. UNCHANGED runs /\ AnswerStep(u)
    BY <1>3, CoordinatorIs DEF CoordinatorStep
  <2>1. CASE UNCHANGED <<req, facts>>
    <3>1. ConfirmedOnce(t)
      BY <2>1 DEF ConfirmedOnce
    <3> QED BY <1>0, <2>0, <2>1, <3>1
  <2>2. ASSUME NEW n \in DOMAIN req[u], NEW state \in {"failed_to_stop", "confirmed"},
               req' = [req EXCEPT ![u][n].state = state],
               facts' = IF state = "confirmed"
                        THEN [facts EXCEPT ![u] = Released(u)] ELSE facts
        PROVE  ~WIPIn(runs'[t], facts'[t], <<>>)
    <3>1. CASE t = u /\ state = "confirmed"
      <4>1. facts'[t] = Released(t)
        BY <1>0, <2>2, <3>1
      <4> QED BY <2>0, <4>1, ConfirmationReleases
    <3>2. CASE ~(t = u /\ state = "confirmed")
      <4>1. ConfirmedOnce(t)
        <5>1. CASE t # u
          BY <2>2, <5>1, AnswerIs DEF ConfirmedOnce
        <5>2. CASE t = u
          <6>1. PICK m \in DOMAIN req'[t] : req'[t][m].state = "confirmed"
            BY DEF ConfirmedOnce
          <6>2. m \in DOMAIN req[t] /\ req'[t][m] = req[t][m]
            BY <2>2, <3>2, <5>2, <6>1, AnswerIs
          <6> QED BY <6>1, <6>2 DEF ConfirmedOnce
        <5> QED BY <5>1, <5>2
      <4>2. facts'[t] = facts[t]
        BY <1>0, <2>2, <3>2
      <4> QED BY <1>0, <2>0, <4>1, <4>2
    <3> QED BY <3>1, <3>2
  <2> QED BY <2>0, <2>1, <2>2 DEF AnswerStep
<1>4. History \/ (\E u \in Tasks : Coordinator(u)) \/ UNCHANGED <<runs, facts>>
  <2>1. ASSUME NEW i \in Invs, Worker(i) \/ Provider(i) PROVE UNCHANGED <<runs, facts>>
    BY <2>1, WorkTypes DEF database
  <2>2. ASSUME NEW u \in Tasks, Attempt(u) PROVE UNCHANGED <<runs, facts>>
    BY <2>2, AttemptTypes DEF AttemptKeeps, database
  <2>3. CASE Crash
    BY <2>3 DEF Crash
  <2> QED BY <2>1, <2>2, <2>3 DEF Next
<1> QED BY <1>1, <1>2, <1>3, <1>4

-----------------------------------------------------------------------------
(* Closures.                                                                *)

\* The runs of an episode depend only on the task-run order and its starts.
LEMMA EpisodeRunsKept ==
    ASSUME NEW rs, NEW fs \in Seq(Fact), NEW f \in Fact, f.kind # "started", NEW o
    PROVE  EpisodeRuns(rs, Append(fs, f), o) = EpisodeRuns(rs, fs, o)
BY EpisodeKept DEF EpisodeRuns

\* Abandoning moves no run to another episode.
LEMMA EpisodeRunsAbandoned ==
    ASSUME NEW rs, NEW fs \in Seq(Fact), NEW o
    PROVE  EpisodeRuns(rs, AbandonedFacts(fs), o) = EpisodeRuns(rs, fs, o)
<1>1. CASE AbandonedFacts(fs) = fs
  BY <1>1
<1>2. ASSUME NEW f \in Fact, f.kind = "abandoned", AbandonedFacts(fs) = Append(fs, f)
      PROVE  EpisodeRuns(rs, AbandonedFacts(fs), o) = EpisodeRuns(rs, fs, o)
  BY <1>2, EpisodeRunsKept
<1> QED BY <1>1, <1>2, AbandonedFactsIs

\* The closures of one task read back.
Readable(t) == \A c \in closures[t] : c.runs = EpisodeRuns(runs[t], facts[t], c.start)

\* A closure stays readable while runs, starts and closures are as they were.
LEMMA ReadableKept ==
    ASSUME NEW t \in Tasks, Readable(t), runs'[t] = runs[t], closures'[t] = closures[t],
           \A o : EpisodeRuns(runs[t], facts'[t], o) = EpisodeRuns(runs[t], facts[t], o)
    PROVE  \A c \in closures'[t] : c.runs = EpisodeRuns(runs'[t], facts'[t], c.start)
BY DEF Readable

\* The task's own history keeps every closure readable.
LEMMA ClosuresUnderHistory ==
    ASSUME TypeOK, NEW t \in Tasks, Readable(t), History
    PROVE  \A c \in closures'[t] : c.runs = EpisodeRuns(runs'[t], facts'[t], c.start)
<1> USE Ownership
<1> DEFINE Goal == \A c \in closures'[t] : c.runs = EpisodeRuns(runs'[t], facts'[t], c.start)
<1>0. /\ runs \in [Tasks -> Seq(Runs)] /\ facts \in [Tasks -> Seq(Fact)] /\ DOMAIN closures = Tasks
      /\ facts[t] \in Seq(Fact)
  BY DEF TypeOK
<1>1. ASSUME UNCHANGED <<runs, facts, closures>> PROVE Goal
  BY <1>1, ReadableKept
<1>2. ASSUME NEW u \in Tasks, NEW rs, NEW fs, MembershipKept(u, rs, fs), closures' = closures,
             runs'[u] = rs, facts'[u] = fs,
             u # t => runs'[t] = runs[t] /\ facts'[t] = facts[t]
      PROVE  Goal
  <2>1. CASE u = t
    BY <1>2, <2>1 DEF MembershipKept
  <2>2. CASE u # t
    BY <1>2, <2>2, ReadableKept
  <2> QED BY <2>1, <2>2
<1>3. ASSUME NEW r \in Runs, PutRun(r) PROVE Goal
  <2> DEFINE u == TaskOf[r]
             rs == Append(runs[u], r)
  <2>1. MembershipKept(u, rs, facts[u]) /\ runs' = [runs EXCEPT ![u] = rs]
        /\ facts' = facts /\ closures' = closures /\ u \in Tasks
    BY <1>3 DEF PutRun
  <2> HIDE DEF u, rs
  <2>2. runs'[u] = rs /\ (u # t => runs'[t] = runs[t])
    BY <1>0, <2>1
  <2> QED BY <1>2, <2>1, <2>2
<1>4. ASSUME NEW r \in Runs, NEW admission \in BOOLEAN, StartRun(r, admission) PROVE Goal
  <2> DEFINE u == TaskOf[r]
             rs == With(runs[u], r)
             started == Append(facts[u], [kind |-> "started", run |-> r])
  <2>1. /\ u \in Tasks /\ closures' = closures /\ runs' = [runs EXCEPT ![u] = rs]
        /\ \/ MembershipKept(u, rs, facts[u]) /\ facts' = facts
           \/ MembershipKept(u, rs, started) /\ facts' = [facts EXCEPT ![u] = started]
    BY <1>4 DEF StartRun
  <2> HIDE DEF u, rs, started
  <2>2. runs'[u] = rs /\ (u # t => runs'[t] = runs[t])
    BY <1>0, <2>1
  <2>3. CASE MembershipKept(u, rs, facts[u]) /\ facts' = facts
    BY <1>2, <2>1, <2>2, <2>3
  <2>4. CASE MembershipKept(u, rs, started) /\ facts' = [facts EXCEPT ![u] = started]
    <3>1. facts'[u] = started /\ (u # t => facts'[t] = facts[t])
      BY <1>0, <2>1, <2>4
    <3> QED BY <1>2, <2>1, <2>2, <2>4, <3>1
  <2> QED BY <2>1, <2>3, <2>4
<1>5. ASSUME NEW r \in Runs, Restart(r) PROVE Goal
  <2> DEFINE u == TaskOf[r]
             started == Append(facts[u], [kind |-> "started", run |-> r])
  <2>1. /\ u \in Tasks /\ closures' = closures /\ runs' = runs
        /\ MembershipKept(u, runs[u], started) /\ facts' = [facts EXCEPT ![u] = started]
    BY <1>5 DEF Restart
  <2> HIDE DEF u, started
  <2>2. facts'[u] = started /\ (u # t => facts'[t] = facts[t])
    BY <1>0, <2>1
  <2> QED BY <1>2, <2>1, <2>2
<1>6. ASSUME NEW r \in Runs, Complete(r) PROVE Goal
  <2> DEFINE f == [kind |-> "completed", run |-> r]
  <2>1. f \in Fact /\ f.kind # "started"
    BY DEF Fact
  <2>2. facts' = [facts EXCEPT ![TaskOf[r]] = Append(facts[TaskOf[r]], f)]
        /\ runs' = runs /\ closures' = closures /\ TaskOf[r] \in Tasks
    BY <1>6 DEF Complete
  <2> HIDE DEF f
  <2>3. facts'[t] = facts[t] \/ facts'[t] = Append(facts[t], f)
    BY <1>0, <2>2
  <2>4. \A o : EpisodeRuns(runs[t], Append(facts[t], f), o) = EpisodeRuns(runs[t], facts[t], o)
    <3>1. TAKE o
    <3> QED BY SMTT(30), <1>0, <2>1, EpisodeRunsKept
  <2>5. \A o : EpisodeRuns(runs[t], facts'[t], o) = EpisodeRuns(runs[t], facts[t], o)
    <3>1. CASE facts'[t] = facts[t]
      BY <3>1
    <3>2. CASE facts'[t] = Append(facts[t], f)
      BY <2>4, <3>2
    <3> QED BY <2>3, <3>1, <3>2
  <2> QED BY <2>2, <2>5, ReadableKept
<1>7. ASSUME NEW u \in Tasks, Abandon(u) PROVE Goal
  <2>1. facts' = [facts EXCEPT ![u] = AbandonedFacts(facts[u])] /\ runs' = runs /\ closures' = closures
    BY <1>7 DEF Abandon
  <2>2. facts'[t] = facts[t] \/ facts'[t] = AbandonedFacts(facts[t])
    BY <1>0, <2>1
  <2>3. \A o : EpisodeRuns(runs[t], facts'[t], o) = EpisodeRuns(runs[t], facts[t], o)
    BY <1>0, <2>2, EpisodeRunsAbandoned
  <2> QED BY <2>1, <2>3, ReadableKept
<1>8. ASSUME NEW u \in Tasks, NEW o \in 1..MaxFacts, CloseTaskWorkflow(u, o) PROVE Goal
  <2>1. /\ closures' = [closures EXCEPT ![u] = @ \cup {[start |-> o, runs |-> EpisodeRuns(runs[u], facts[u], o)]}]
        /\ runs' = runs /\ facts' = facts
    BY <1>8 DEF CloseTaskWorkflow
  <2>2. closures'[t] = IF t = u
            THEN closures[t] \cup {[start |-> o, runs |-> EpisodeRuns(runs[t], facts[t], o)]}
            ELSE closures[t]
    BY <1>0, <2>1
  <2> QED BY <2>1, <2>2 DEF Readable
<1>9. (\E u \in Tasks : StopTask(u)) => UNCHANGED <<runs, facts, closures>>
  BY DEF StopTask
<1> QED BY <1>1, <1>3, <1>4, <1>5, <1>6, <1>7, <1>8, <1>9 DEF History

\* Every step keeps every closure readable.
LEMMA ClosuresInvariant ==
    ASSUME TypeOK, \A i \in Invs : WorkInv(i), \A t \in Tasks : AttemptInv(t),
           ClosuresStayReadable, Next
    PROVE  ClosuresStayReadable'
<1> SUFFICES ASSUME NEW t \in Tasks
             PROVE  \A c \in closures'[t] : c.runs = EpisodeRuns(runs'[t], facts'[t], c.start)
  BY DEF ClosuresStayReadable, EpisodeRuns, Episode, Newest, Starts, Before
<1>0. Readable(t) /\ facts \in [Tasks -> Seq(Fact)] /\ facts[t] \in Seq(Fact)
  BY DEF ClosuresStayReadable, Readable, TypeOK
<1>1. CASE History
  BY <1>0, <1>1, ClosuresUnderHistory
<1>2. ASSUME NEW u \in Tasks, Coordinator(u)
      PROVE  \A c \in closures'[t] : c.runs = EpisodeRuns(runs'[t], facts'[t], c.start)
  <2>1. UNCHANGED <<runs, closures>> /\ AnswerStep(u)
    BY <1>2, CoordinatorIs DEF CoordinatorStep
  <2>2. facts' = facts \/ facts' = [facts EXCEPT ![u] = Released(u)]
    BY <2>1 DEF AnswerStep
  <2>3. facts'[t] = facts[t] \/ facts'[t] = AbandonedFacts(facts[t])
    BY <1>0, <2>2 DEF Released
  <2>4. \A o : EpisodeRuns(runs[t], facts'[t], o) = EpisodeRuns(runs[t], facts[t], o)
    BY <1>0, <2>3, EpisodeRunsAbandoned
  <2> QED BY <1>0, <2>1, <2>4, ReadableKept
<1>3. CASE UNCHANGED <<runs, facts, closures>>
  BY <1>0, <1>3, ReadableKept
<1>4. History \/ (\E u \in Tasks : Coordinator(u)) \/ UNCHANGED <<runs, facts, closures>>
  <2>1. ASSUME NEW i \in Invs, Worker(i) \/ Provider(i) PROVE UNCHANGED <<runs, facts, closures>>
    BY <2>1, WorkTypes DEF database
  <2>2. ASSUME NEW u \in Tasks, Attempt(u) PROVE UNCHANGED <<runs, facts, closures>>
    BY <2>2, AttemptTypes DEF AttemptKeeps, database
  <2>3. CASE Crash
    BY <2>3 DEF Crash
  <2> QED BY <2>1, <2>2, <2>3 DEF Next
<1> QED BY <1>1, <1>2, <1>3, <1>4

-----------------------------------------------------------------------------
(* The theorems.                                                            *)

\* The invariant holds initially.
LEMMA InitInv == Init => IInv
<1> SUFFICES ASSUME Init PROVE IInv
  OBVIOUS
<1> USE Ownership
<1>1. TypeOK
  BY InitTypes
<1>2. \A i \in Invs : own[i] = "none" /\ proc[i] = "none" /\ pc[i] = "idle" /\ i \notin rec
  BY DEF Init
<1>3. \A i \in Invs : WorkInv(i)
  BY <1>2 DEF WorkInv
<1>4. \A t \in Tasks : seen[t] = 0 /\ job[t].phase = 0 /\ req[t] = <<>> /\ closures[t] = {}
  BY DEF Init, NoJob
<1>5. \A t \in Tasks : AttemptInv(t)
  BY <1>4 DEF AttemptInv
<1>6. \A t \in Tasks : ~ConfirmedOnce(t)
  <2>1. \A n \in DOMAIN <<>> : FALSE
    OBVIOUS
  <2> QED BY <1>4, <2>1 DEF ConfirmedOnce
<1> QED BY <1>1, <1>3, <1>4, <1>5, <1>6 DEF IInv, ConfirmedIsQuiescent, SlotInv, ClosuresStayReadable

\* Every step keeps the invariant.
LEMMA NextInv == IInv /\ [Next]_vars => IInv'
<1> SUFFICES ASSUME IInv, [Next]_vars PROVE IInv'
  OBVIOUS
<1>1. CASE Next
  BY <1>1, TypeInvariant, WorkInvariant, AttemptInvariant, QuiescenceInvariant, SlotInvariant,
     ClosuresInvariant DEF IInv
<1>2. CASE UNCHANGED vars
  <2>1. UNCHANGED <<runs, facts, closures, req, epoch, rec, own, stopped, proc, pc, seen, job, faults>>
    BY <1>2 DEF vars
  <2>2. TypeOK'
    BY <2>1 DEF IInv, TypeOK, Starts
  <2>3. \A i \in Invs : WorkInv(i)'
    BY <2>1 DEF IInv, WorkInv, Recorded, Waits, TaskIs, Members
  <2>4. \A t \in Tasks : AttemptInv(t)'
    BY <2>1 DEF IInv, AttemptInv, WorkOf, TaskIs, Recorded
  <2>5. ConfirmedIsQuiescent'
    BY <2>1 DEF IInv, ConfirmedIsQuiescent, ConfirmedOnce, WorkOf, TaskIs
  <2>6. \A t \in Tasks : SlotInv(t)'
    <3> SUFFICES ASSUME NEW t \in Tasks, ConfirmedOnce(t)'
                 PROVE  ~WIPIn(runs'[t], facts'[t], <<>>)
      BY DEF SlotInv, WIPIn, CurrentStart, Starts, StoppedEpisode, Episode, Before, Newest
    <3>1. ConfirmedOnce(t)
      BY <2>1 DEF ConfirmedOnce
    <3> QED BY <2>1, <3>1 DEF IInv, SlotInv
  <2>7. ClosuresStayReadable'
    <3> SUFFICES ASSUME NEW t \in Tasks
                 PROVE  \A c \in closures'[t] : c.runs = EpisodeRuns(runs'[t], facts'[t], c.start)
      BY DEF ClosuresStayReadable, EpisodeRuns, Episode, Newest, Starts, Before
    <3> QED BY <2>1 DEF IInv, ClosuresStayReadable
  <2> QED BY <2>2, <2>3, <2>4, <2>5, <2>6, <2>7 DEF IInv
<1> QED BY <1>1, <1>2

\* The inductive invariant holds of every behaviour of stopping and closing.
THEOREM Invariance == Spec => []IInv
BY InitInv, NextInv, PTL DEF Spec

\* Every variable keeps its type: the states and retries of stopping are those
\* the code's enumerations have.
THEOREM TypeCorrect == Spec => []TypeOK
<1>1. IInv => TypeOK
  BY DEF IInv
<1> QED BY <1>1, Invariance, PTL

\* A task whose stop was ever confirmed has no worker and no work, ever again.
THEOREM Quiescence == Spec => []ConfirmedIsQuiescent
<1>1. IInv => ConfirmedIsQuiescent
  BY DEF IInv
<1> QED BY <1>1, Invariance, PTL

\* A task whose stop was ever confirmed never counts against the cap again,
\* whatever is recorded of it afterwards.
THEOREM SlotReleasedForGood == Spec => []SlotStaysReleased
<1>1. IInv => SlotStaysReleased
  <2> SUFFICES ASSUME IInv, NEW t \in Tasks, ConfirmedOnce(t), WIP(t) PROVE FALSE
    BY DEF SlotStaysReleased
  <2>1. ~WIPIn(runs[t], facts[t], <<>>)
    BY DEF IInv, SlotInv
  <2>2. ~StoppedEpisode(facts[t], <<>>)
    BY DEF StoppedEpisode
  <2> QED BY <2>1, <2>2 DEF WIP, WIPIn
<1> QED BY <1>1, Invariance, PTL

\* A closure's captured membership is always the membership its start owns, so
\* every read that validates it succeeds.
THEOREM ClosuresReadable == Spec => []ClosuresStayReadable
<1>1. IInv => ClosuresStayReadable
  BY DEF IInv
<1> QED BY <1>1, Invariance, PTL

\* A dispatch is claimed for no run of a closed workflow.
THEOREM ClosedRunsFenced == Spec => ClosedRunsStayFenced
<1> USE Ownership
<1>1. ASSUME IInv, [Next]_vars, NEW i \in Invs, pc'[i] = "claimed", pc[i] # "claimed",
             NEW c \in closures[TaskIs(i)], RunOf[i] \in c.runs
      PROVE  FALSE
  <2>0. /\ TypeOK /\ TaskIs(i) \in Tasks
        /\ pc \in [Invs -> {"idle", "registered", "claimed", "entered"}]
    BY <1>1 DEF IInv, TaskIs, TypeOK
  <2>1. CASE Claim(i)
    <3>1. \A d \in closures[TaskIs(i)] : d.start # Episode(runs[TaskIs(i)], facts[TaskIs(i)], RunOf[i])
      BY <2>1 DEF Claim, ExecutionOpen, Open, OpenIn, TaskIs
    <3>2. RunOf[i] \in EpisodeRuns(runs[TaskIs(i)], facts[TaskIs(i)], c.start)
      BY <1>1, <2>0 DEF IInv, ClosuresStayReadable
    <3>3. Episode(runs[TaskIs(i)], facts[TaskIs(i)], RunOf[i]) = c.start
      BY <3>2 DEF EpisodeRuns
    <3> QED BY <3>1, <3>3
  <2>2. ASSUME NEW k \in Invs, Worker(k) \/ Provider(k), ~Claim(i) PROVE FALSE
    <3>1. k # i => pc'[i] = pc[i]
      BY <2>0, <2>2, WorkOnlyEnds
    <3>2. ASSUME NEW o, NEW p, Becomes(i, o, p) PROVE FALSE
      BY <1>1, <3>2 DEF Becomes
    <3>3. k = i
      BY <1>1, <3>1
    <3>4. CASE Provider(i)
      BY <3>2, <3>4 DEF Provider, Handoff, End, Land, EndEffect, EndOrphan, Recover, RefuseResume
    <3>5. CASE Worker(i)
      BY <1>1, <2>0, <2>2, <3>5 DEF Worker, Record, Begin, Enter, Return
    <3> QED BY <2>2, <3>3, <3>4, <3>5
  <2>3. CASE History
    BY <1>1, <2>0, <2>3, MembersGrow DEF work
  <2>4. ASSUME NEW u \in Tasks, Attempt(u) PROVE FALSE
    BY <1>1, <2>0, <2>4, AttemptTypes DEF AttemptKeeps
  <2>5. ASSUME NEW u \in Tasks, Coordinator(u) PROVE FALSE
    BY <1>1, <2>5 DEF Coordinator, ListRequest, Waiting, SettleUnprovable, StartAttempt, FinishAttempt,
                LoseAttempt, PollAttempt, BackoffElapses, Handled, work
  <2>6. CASE Crash
    BY <1>1, <2>0, <2>6, CrashIs
  <2>7. CASE UNCHANGED vars
    BY <1>1, <2>7 DEF vars
  <2> QED BY <1>1, <2>1, <2>2, <2>3, <2>4, <2>5, <2>6, <2>7 DEF Next
<1>2. IInv /\ [Next]_vars =>
         [\A i \in Invs : (pc'[i] = "claimed" /\ pc[i] # "claimed") =>
              \A c \in closures[TaskIs(i)] : RunOf[i] \notin c.runs]_vars
  BY <1>1
<1> QED BY <1>2, Invariance, PTL DEF Spec, ClosedRunsStayFenced

\* Stopping implements its contract: no work of a fenced task begins, and a
\* confirmation finds none of it.
Live == {i \in Invs : pc[i] # "idle" \/ proc[i] # "none"}
FencedTasks == {t \in Tasks : Fenced(t)}
ConfirmedTasks == {t \in Tasks : ConfirmedOnce(t)}

\* The steps of the contract, in this module's words.
Begins == \E i \in Invs : /\ TaskIs(i) \notin FencedTasks /\ i \notin Live
                          /\ Live' = Live \cup {i}
                          /\ UNCHANGED <<FencedTasks, ConfirmedTasks>>
Ends == Live' \subseteq Live /\ UNCHANGED <<FencedTasks, ConfirmedTasks>>
Fences == \E t \in Tasks : FencedTasks' = FencedTasks \cup {t} /\ UNCHANGED <<ConfirmedTasks, Live>>
Confirms == \E t \in Tasks : /\ t \in FencedTasks /\ \A i \in Live : TaskIs(i) # t
                             /\ ConfirmedTasks' = ConfirmedTasks \cup {t}
                             /\ UNCHANGED <<FencedTasks, Live>>

\* Each kind of step in these words is a step of the contract.
LEMMA ContractStep == Begins \/ Ends \/ Fences \/ Confirms => [Contract!Next]_(Contract!vars)
<1>1. Begins => Contract!Next
  <2> SUFFICES ASSUME NEW i \in Invs, TaskIs(i) \notin FencedTasks, i \notin Live,
                      Live' = Live \cup {i}, UNCHANGED <<FencedTasks, ConfirmedTasks>>
               PROVE  Contract!Begin(i)
    BY DEF Begins, Contract!Next
  <2> QED BY DEF Contract!Begin, Live, FencedTasks, ConfirmedTasks, TaskIs
<1>2. Ends => Contract!End
  BY DEF Ends, Contract!End, Live, FencedTasks, ConfirmedTasks
<1>3. ASSUME NEW t \in Tasks, FencedTasks' = FencedTasks \cup {t}, UNCHANGED <<ConfirmedTasks, Live>>
      PROVE  Contract!Fence(t)
  BY <1>3 DEF Contract!Fence, Live, FencedTasks, ConfirmedTasks
<1>4. ASSUME NEW t \in Tasks, t \in FencedTasks, \A i \in Live : TaskIs(i) # t,
             ConfirmedTasks' = ConfirmedTasks \cup {t}, UNCHANGED <<FencedTasks, Live>>
      PROVE  Contract!Confirm(t)
  BY <1>4 DEF Contract!Confirm, Live, FencedTasks, ConfirmedTasks, TaskIs
<1> QED BY <1>1, <1>2, <1>3, <1>4 DEF Fences, Confirms, Contract!Next

\* The coordinator fences nothing and confirms only what is quiet.
LEMMA CoordinatorRefines ==
    ASSUME TypeOK, \A i \in Invs : WorkInv(i), \A t \in Tasks : AttemptInv(t),
           NEW u \in Tasks, Coordinator(u)
    PROVE  Ends \/ Confirms
<1>0. CoordinatorStep(u) /\ req \in [Tasks -> Seq(Request)] /\ req[u] \in Seq(Request)
  BY CoordinatorIs DEF TypeOK
<1>1. Live' = Live
  BY <1>0 DEF CoordinatorStep, work, Live
<1>2. CASE UNCHANGED <<req, facts>>
  BY <1>1, <1>2 DEF Ends, FencedTasks, ConfirmedTasks, Fenced, ConfirmedOnce
<1>3. ASSUME NEW n \in DOMAIN req[u], NEW state \in {"failed_to_stop", "confirmed"},
             req[u][n].state # "confirmed", req' = [req EXCEPT ![u][n].state = state],
             state = "confirmed" => Quiet(u)
      PROVE  Ends \/ Confirms
  <2>1. /\ \A t \in Tasks : t # u => req'[t] = req[t]
        /\ Len(req'[u]) = Len(req[u]) /\ DOMAIN req'[u] = DOMAIN req[u]
        /\ \A m \in DOMAIN req[u] : m # n => req'[u][m] = req[u][m]
        /\ req'[u][n].state = state
    BY <1>3, AnswerIs
  <2>2. req[u] # <<>> /\ req'[u] # <<>>
    <3>1. n \in DOMAIN req[u] /\ n \in DOMAIN req'[u]
      BY <1>3, <2>1
    <3> QED BY <3>1
  <2>3. FencedTasks' = FencedTasks /\ u \in FencedTasks
    BY <2>1, <2>2 DEF FencedTasks, Fenced
  <2>4. CASE state = "confirmed"
    <3>1. ConfirmedOnce(u)'
      BY <2>1, <2>4 DEF ConfirmedOnce
    <3>2. \A t \in Tasks : t # u => (ConfirmedOnce(t)' <=> ConfirmedOnce(t))
      BY <2>1 DEF ConfirmedOnce
    <3>3. ConfirmedTasks' = ConfirmedTasks \cup {u}
      BY <3>1, <3>2 DEF ConfirmedTasks
    <3>4. \A i \in Live : TaskIs(i) # u
      BY <1>3, <2>4 DEF Quiet, Live, WorkOf
    <3> QED BY <1>1, <2>3, <3>3, <3>4 DEF Confirms
  <2>5. CASE state # "confirmed"
    <3>1. \A t \in Tasks : ConfirmedOnce(t)' <=> ConfirmedOnce(t)
      BY <1>3, <2>1, <2>5 DEF ConfirmedOnce
    <3>2. ConfirmedTasks' = ConfirmedTasks
      BY <3>1 DEF ConfirmedTasks
    <3> QED BY <1>1, <2>3, <3>2 DEF Ends
  <2> QED BY <2>4, <2>5
<1> QED BY <1>0, <1>2, <1>3 DEF CoordinatorStep, AnswerStep

\* Workers begin work of unfenced tasks only, and providers only end it.
LEMMA WorkRefines ==
    ASSUME TypeOK, NEW i \in Invs, WorkInv(i), Worker(i) \/ Provider(i)
    PROVE  Begins \/ Ends
<1>0. /\ UNCHANGED <<req>>
      /\ pc \in [Invs -> {"idle", "registered", "claimed", "entered"}]
      /\ proc \in [Invs -> Running]
  BY WorkTypes DEF database, TypeOK
<1>1. UNCHANGED <<FencedTasks, ConfirmedTasks>>
  BY <1>0 DEF FencedTasks, ConfirmedTasks, Fenced, ConfirmedOnce
<1>2. \A k \in Invs : k # i => pc'[k] = pc[k] /\ (proc[k] = "none" => proc'[k] = "none")
  <2>1. ASSUME NEW k \in Invs, k # i PROVE pc'[k] = pc[k] /\ (proc[k] = "none" => proc'[k] = "none")
    <3>1. pc'[k] = pc[k]
      BY <2>1, WorkOnlyEnds
    <3>2. proc[k] = "none" => proc'[k] = "none"
      BY <2>1, WorkOnlyEnds
    <3> QED BY <3>1, <3>2
  <2> QED BY <2>1
<1>3. ASSUME i \in Live' => i \in Live PROVE Ends
  BY <1>1, <1>2, <1>3 DEF Ends, Live
<1>4. ASSUME i \notin Live, i \in Live' PROVE Begins
  <2>1. pc[i] = "idle" /\ proc[i] = "none"
    BY <1>4 DEF Live
  <2>2. Begin(i)
    <3>1. ASSUME NEW o, NEW p, Becomes(i, o, p), p = "none" PROVE FALSE
      <4>1. pc'[i] = "idle" /\ proc'[i] = "none"
        BY <1>0, <2>1, <3>1 DEF Becomes
      <4> QED BY <1>4, <4>1 DEF Live
    <3>2. CASE Provider(i)
      BY <2>1, <3>1, <3>2 DEF Provider, Handoff, End, Land, EndEffect, EndOrphan, Recover, RefuseResume
    <3>3. CASE Record(i)
      BY <1>4, <2>1, <3>3 DEF Record, Live
    <3> QED BY <2>1, <3>2, <3>3 DEF Worker, Claim, Enter, Return
  <2>3. TaskIs(i) \notin FencedTasks
    BY <2>2 DEF Begin, MayRegister, ExecutionOpen, FencedTasks, TaskIs
  <2>4. \A k \in Invs : k # i => proc'[k] = proc[k]
    BY <2>2 DEF Begin
  <2>5. Live' = Live \cup {i}
    BY <1>2, <1>4, <2>4 DEF Live
  <2> QED BY <1>1, <1>4, <2>3, <2>5 DEF Begins
<1> QED BY <1>3, <1>4

\* Every step is one of the contract or invisible in it.
LEMMA StepRefines == IInv /\ [Next]_vars => [Contract!Next]_(Contract!vars)
<1> SUFFICES ASSUME IInv, [Next]_vars PROVE Begins \/ Ends \/ Fences \/ Confirms
  BY ContractStep
<1>0. /\ TypeOK
      /\ \A i \in Invs : WorkInv(i)
      /\ \A t \in Tasks : AttemptInv(t)
  BY DEF IInv
<1>1. CASE History
  <2>1. Live' = Live
    BY <1>0, <1>1, MembersGrow DEF work, Live
  <2>2. ASSUME NEW u \in Tasks, StopTask(u) PROVE Fences
    <3> DEFINE e == [episode |-> CurrentStart(facts[u]), runs |-> Members(u),
                     epoch |-> epoch, state |-> "requested"]
    <3>0. req \in [Tasks -> Seq(Request)] /\ req[u] \in Seq(Request)
      BY <1>0 DEF TypeOK
    <3>1. req' = [req EXCEPT ![u] = Append(req[u], e)] /\ e \in Request /\ e.state # "confirmed"
      BY <1>0, <2>2, TargetIs DEF StopTask
    <3> HIDE DEF e
    <3>2. req'[u] = Append(req[u], e) /\ \A t \in Tasks : t # u => req'[t] = req[t]
      BY <3>0, <3>1
    <3>3. /\ Append(req[u], e) # <<>>
          /\ DOMAIN Append(req[u], e) = DOMAIN req[u] \cup {Len(req[u]) + 1}
          /\ \A n \in DOMAIN req[u] : Append(req[u], e)[n] = req[u][n]
          /\ Append(req[u], e)[Len(req[u]) + 1] = e
      BY <3>0, <3>1, Appending
    <3>4. \A t \in Tasks : ConfirmedOnce(t)' <=> ConfirmedOnce(t)
      BY <3>1, <3>2, <3>3 DEF ConfirmedOnce
    <3>5. FencedTasks' = FencedTasks \cup {u}
      BY <3>2, <3>3 DEF FencedTasks, Fenced
    <3>6. ConfirmedTasks' = ConfirmedTasks
      BY <3>4 DEF ConfirmedTasks
    <3> QED BY <2>1, <3>5, <3>6 DEF Fences
  <2>3. CASE req' = req
    BY <2>1, <2>3 DEF Ends, FencedTasks, ConfirmedTasks, Fenced, ConfirmedOnce
  <2>4. req' = req \/ \E u \in Tasks : StopTask(u)
    BY <1>1 DEF History, PutRun, StartRun, Restart, Complete, Abandon, CloseTaskWorkflow
  <2> QED BY <2>2, <2>3, <2>4
<1>2. ASSUME NEW i \in Invs, Worker(i) \/ Provider(i) PROVE Begins \/ Ends
  BY <1>0, <1>2, WorkRefines
<1>3. ASSUME NEW u \in Tasks, Attempt(u) PROVE Ends
  <2>1. UNCHANGED <<req, pc>>
    BY <1>0, <1>3, AttemptTypes DEF AttemptKeeps, database
  <2>2. \A k \in Invs : proc[k] = "none" => proc'[k] = "none"
    <3>1. ASSUME NEW i \in Invs, StopOne(u, i), NEW k \in Invs, proc[k] = "none" PROVE proc'[k] = "none"
      <4>1. PICK o \in Records, p \in Running, proved \in BOOLEAN :
              /\ Stops(i, o, p, proved)
              /\ own'[i] = o /\ proc'[i] = p
              /\ \A m \in Invs : m # i => own'[m] = own[m] /\ proc'[m] = proc[m]
              /\ i \in job[u].todo
              /\ job' = [job EXCEPT ![u].todo = @ \ {i}, ![u].err = @ \/ ~proved]
              /\ UNCHANGED <<database, rec, stopped, pc, seen, faults>>
        BY <1>0, <3>1, StopOneIs
      <4>2. p \in {"none", proc[i]}
        BY <1>0, <4>1, StopsIs
      <4> QED BY <3>1, <4>1, <4>2
    <3>2. (\E i \in Invs : StopOne(u, i)) \/ proc' = proc
      BY <1>3 DEF Attempt, FenceRooms, StopFails, JoinWork, EndPhase, DeadlinePasses, work
    <3> QED BY <3>1, <3>2
  <2> QED BY <2>1, <2>2 DEF Ends, Live, FencedTasks, ConfirmedTasks, Fenced, ConfirmedOnce
<1>4. ASSUME NEW u \in Tasks, Coordinator(u) PROVE Ends \/ Confirms
  BY <1>0, <1>4, CoordinatorRefines
<1>5. CASE Crash
  <2>1. req' = req /\ \A i \in Invs : pc'[i] = "idle" /\ (proc[i] = "none" => proc'[i] = "none")
    BY <1>0, <1>5, CrashIs
  <2> QED BY <2>1 DEF Ends, Live, FencedTasks, ConfirmedTasks, Fenced, ConfirmedOnce
<1>6. CASE UNCHANGED vars
  BY <1>6 DEF vars, Ends, Live, FencedTasks, ConfirmedTasks, Fenced, ConfirmedOnce
<1> QED BY <1>1, <1>2, <1>3, <1>4, <1>5, <1>6 DEF Next

\* The initial state maps to that of the contract.
LEMMA InitRefines == Init => Contract!Init
<1> SUFFICES ASSUME Init PROVE Contract!Init
  OBVIOUS
<1>1. \A t \in Tasks : ~Fenced(t) /\ ~ConfirmedOnce(t)
  <2>1. \A n \in DOMAIN <<>> : FALSE
    OBVIOUS
  <2> QED BY <2>1 DEF Init, Fenced, ConfirmedOnce
<1>2. \A i \in Invs : pc[i] = "idle" /\ proc[i] = "none"
  BY DEF Init
<1> QED BY <1>1, <1>2 DEF Contract!Init

\* Stopping, with its races, failures and crashes, implements the contract of a
\* Stop, for any tasks and work.
THEOREM Refinement == Spec => ImplementsStopContract
BY InitRefines, StepRefines, Invariance, PTL DEF Spec, ImplementsStopContract, Contract!Spec

-----------------------------------------------------------------------------
(* How a slot is given up.                                                  *)

\* A completion is of one of the task's runs.
CompletedInv ==
    \A t \in Tasks : \A n \in DOMAIN facts[t] :
        facts[t][n].kind = "completed" => facts[t][n].run \in Members(t)

\* What any step does to a task's history: at most one run is added, and at most
\* one fact, by the task's own lifecycle or by a confirmation.
RunsStep(t) ==
    \/ runs'[t] = runs[t]
    \/ \E r \in Runs : r \notin Members(t) /\ runs'[t] = Append(runs[t], r)
FactsStep(t) ==
    \/ facts'[t] = facts[t]
    \/ \E f \in Fact :
          /\ facts'[t] = Append(facts[t], f)
          /\ f.kind = "completed" => f.run \in Members(t)
          /\ req'[t] = req[t] \/ ConfirmedOnce(t)'

\* A transaction of one task that adds a fact is a step of this kind.
LEMMA FactsStepOf ==
    ASSUME TypeOK, NEW t \in Tasks, NEW u \in Tasks, NEW fs,
           facts' = [facts EXCEPT ![u] = fs],
           \/ fs = facts[u]
           \/ \E f \in Fact : /\ fs = Append(facts[u], f)
                              /\ f.kind = "completed" => f.run \in Members(u),
           u = t => req'[t] = req[t] \/ ConfirmedOnce(t)'
    PROVE  FactsStep(t)
<1>1. facts \in [Tasks -> Seq(Fact)]
  BY DEF TypeOK
<1>2. CASE t = u
  BY <1>1, <1>2 DEF FactsStep
<1>3. CASE t # u
  BY <1>1, <1>3 DEF FactsStep
<1> QED BY <1>2, <1>3

\* The facts an abandonment or a confirmation adds complete nothing.
LEMMA AbandonmentStep ==
    ASSUME TypeOK, NEW u \in Tasks, NEW fs \in {AbandonedFacts(facts[u]), Released(u)}
    PROVE  \/ fs = facts[u]
           \/ \E f \in Fact : /\ fs = Append(facts[u], f)
                              /\ f.kind = "completed" => f.run \in Members(u)
<1>1. facts[u] \in Seq(Fact)
  BY DEF TypeOK
<1>2. \/ AbandonedFacts(facts[u]) = facts[u]
      \/ \E f \in Fact : f.kind = "abandoned" /\ AbandonedFacts(facts[u]) = Append(facts[u], f)
  BY <1>1, AbandonedFactsIs
<1>3. fs = AbandonedFacts(facts[u]) \/ fs = facts[u]
  BY DEF Released
<1> QED BY <1>2, <1>3

LEMMA HistorySteps ==
    ASSUME TypeOK, History, NEW t \in Tasks
    PROVE  RunsStep(t) /\ FactsStep(t)
<1> USE Ownership
<1>0. runs \in [Tasks -> Seq(Runs)] /\ facts \in [Tasks -> Seq(Fact)]
  BY DEF TypeOK
<1>a. ASSUME NEW r \in Runs, r \notin Members(TaskOf[r]),
             runs' = [runs EXCEPT ![TaskOf[r]] = Append(runs[TaskOf[r]], r)]
      PROVE  RunsStep(t)
  <2>1. CASE t = TaskOf[r]
    BY <1>0, <1>a, <2>1 DEF RunsStep
  <2>2. CASE t # TaskOf[r]
    BY <1>0, <1>a, <2>2 DEF RunsStep
  <2> QED BY <2>1, <2>2
<1>s. ASSUME NEW u \in Tasks, NEW f \in Fact, f.kind = "completed" => f.run \in Members(u),
             facts' = [facts EXCEPT ![u] = Append(facts[u], f)], req' = req
      PROVE  FactsStep(t)
  BY <1>s, FactsStepOf
<1>u. /\ runs' = runs => RunsStep(t)
      /\ facts' = facts => FactsStep(t)
  BY DEF RunsStep, FactsStep
<1>1. ASSUME NEW r \in Runs, PutRun(r) PROVE RunsStep(t) /\ FactsStep(t)
  BY <1>1, <1>a, <1>u DEF PutRun
<1>2. ASSUME NEW r \in Runs, NEW admission \in BOOLEAN, StartRun(r, admission)
      PROVE  RunsStep(t) /\ FactsStep(t)
  <2> DEFINE f == [kind |-> "started", run |-> r]
  <2>1. f \in Fact /\ f.kind # "completed"
    BY DEF Fact
  <2>2. /\ facts' = facts \/ facts' = [facts EXCEPT ![TaskOf[r]] = Append(facts[TaskOf[r]], f)]
        /\ req' = req /\ runs' = [runs EXCEPT ![TaskOf[r]] = With(runs[TaskOf[r]], r)]
    BY <1>2 DEF StartRun
  <2> HIDE DEF f
  <2>3. FactsStep(t)
    BY <1>s, <1>u, <2>1, <2>2
  <2>4. CASE r \in Members(TaskOf[r])
    <3>1. With(runs[TaskOf[r]], r) = runs[TaskOf[r]]
      BY <2>4 DEF With, Members
    <3>2. runs' = runs
      BY <1>0, <2>2, <3>1
    <3> QED BY <1>u, <2>3, <3>2
  <2>5. CASE r \notin Members(TaskOf[r])
    <3>1. With(runs[TaskOf[r]], r) = Append(runs[TaskOf[r]], r)
      BY <2>5 DEF With, Members
    <3> QED BY <1>a, <2>2, <2>3, <2>5, <3>1
  <2> QED BY <2>4, <2>5
<1>3. ASSUME NEW r \in Runs, Restart(r) PROVE RunsStep(t) /\ FactsStep(t)
  <2> DEFINE f == [kind |-> "started", run |-> r]
  <2>1. f \in Fact /\ f.kind # "completed"
    BY DEF Fact
  <2>2. /\ facts' = [facts EXCEPT ![TaskOf[r]] = Append(facts[TaskOf[r]], f)]
        /\ req' = req /\ runs' = runs
    BY <1>3 DEF Restart
  <2> HIDE DEF f
  <2> QED BY <1>s, <1>u, <2>1, <2>2
<1>4. ASSUME NEW r \in Runs, Complete(r) PROVE RunsStep(t) /\ FactsStep(t)
  <2> DEFINE f == [kind |-> "completed", run |-> r]
  <2>1. f \in Fact /\ f.run = r
    BY DEF Fact
  <2>2. /\ facts' = [facts EXCEPT ![TaskOf[r]] = Append(facts[TaskOf[r]], f)]
        /\ req' = req /\ runs' = runs /\ r \in Members(TaskOf[r])
    BY <1>4 DEF Complete
  <2> HIDE DEF f
  <2> QED BY <1>s, <1>u, <2>1, <2>2
<1>5. ASSUME NEW u \in Tasks, Abandon(u) PROVE RunsStep(t) /\ FactsStep(t)
  <2>1. facts' = [facts EXCEPT ![u] = AbandonedFacts(facts[u])] /\ runs' = runs /\ req' = req
    BY <1>5 DEF Abandon
  <2> QED BY <1>u, <2>1, AbandonmentStep, FactsStepOf
<1>6. UNCHANGED <<runs, facts>> => RunsStep(t) /\ FactsStep(t)
  BY <1>u
<1> QED BY <1>1, <1>2, <1>3, <1>4, <1>5, <1>6 DEF History, StopTask, CloseTaskWorkflow

LEMMA LogSteps ==
    ASSUME TypeOK, \A i \in Invs : WorkInv(i), \A u \in Tasks : AttemptInv(u), [Next]_vars,
           NEW t \in Tasks
    PROVE  RunsStep(t) /\ FactsStep(t)
<1>1. ASSUME NEW u \in Tasks, Coordinator(u) PROVE RunsStep(t) /\ FactsStep(t)
  <2>1. UNCHANGED runs /\ AnswerStep(u)
    BY <1>1, CoordinatorIs DEF CoordinatorStep
  <2>2. ASSUME NEW n \in DOMAIN req[u], req' = [req EXCEPT ![u][n].state = "confirmed"],
               facts' = [facts EXCEPT ![u] = Released(u)]
        PROVE  FactsStep(t)
    <3>1. ConfirmedOnce(u)'
      BY <2>2, AnswerIs DEF ConfirmedOnce
    <3> QED BY <2>2, <3>1, AbandonmentStep, FactsStepOf
  <2>3. CASE UNCHANGED facts
    BY <2>1, <2>3 DEF RunsStep, FactsStep
  <2>4. RunsStep(t)
    BY <2>1 DEF RunsStep
  <2> QED BY <2>1, <2>2, <2>3, <2>4 DEF AnswerStep
<1>2. UNCHANGED <<runs, facts>> => RunsStep(t) /\ FactsStep(t)
  BY DEF RunsStep, FactsStep
<1>3. ASSUME NEW i \in Invs, Worker(i) \/ Provider(i) PROVE UNCHANGED <<runs, facts>>
  BY <1>3, WorkTypes DEF database
<1>4. ASSUME NEW u \in Tasks, Attempt(u) PROVE UNCHANGED <<runs, facts>>
  BY <1>4, AttemptTypes DEF AttemptKeeps, database
<1>5. Crash \/ UNCHANGED vars => UNCHANGED <<runs, facts>>
  BY DEF Crash, vars
<1> QED BY <1>1, <1>2, <1>3, <1>4, <1>5, HistorySteps DEF Next

\* No completion is recorded for a run of another task.
LEMMA CompletedKept ==
    ASSUME IInv, CompletedInv, [Next]_vars
    PROVE  CompletedInv'
<1> SUFFICES ASSUME NEW t \in Tasks, NEW n \in DOMAIN facts'[t], facts'[t][n].kind = "completed"
             PROVE  \E m \in DOMAIN runs'[t] : runs'[t][m] = facts'[t][n].run
  BY DEF CompletedInv, Members
<1>0. runs[t] \in Seq(Runs) /\ facts[t] \in Seq(Fact)
  BY DEF IInv, TypeOK
<1>1. RunsStep(t) /\ FactsStep(t)
  BY LogSteps DEF IInv
<1>2. facts'[t][n].run \in Members(t)
  <2>1. CASE facts'[t] = facts[t]
    BY <2>1 DEF CompletedInv
  <2>2. ASSUME NEW f \in Fact, facts'[t] = Append(facts[t], f),
               f.kind = "completed" => f.run \in Members(t)
        PROVE  facts'[t][n].run \in Members(t)
    <3>1. \/ n \in DOMAIN facts[t] /\ facts'[t][n] = facts[t][n]
          \/ facts'[t][n] = f
      BY <1>0, <2>2, Appending
    <3> QED BY <2>2, <3>1 DEF CompletedInv
  <2> QED BY <1>1, <2>1, <2>2 DEF FactsStep
<1>3. PICK m \in DOMAIN runs[t] : runs[t][m] = facts'[t][n].run
  BY <1>2 DEF Members
<1>4. m \in DOMAIN runs'[t] /\ runs'[t][m] = runs[t][m]
  <2>1. ASSUME NEW r \in Runs, runs'[t] = Append(runs[t], r)
        PROVE  m \in DOMAIN runs'[t] /\ runs'[t][m] = runs[t][m]
    BY <1>0, <2>1, Appending
  <2> QED BY <1>1, <2>1 DEF RunsStep
<1> QED BY <1>3, <1>4

\* A slot held by the log alone stays held when a run joins the task: the run can
\* complete nothing yet.
LEMMA HeldUnderRun ==
    ASSUME NEW rs \in Seq(Runs), NEW r \in Runs, \A n \in DOMAIN rs : rs[n] # r,
           NEW fs \in Seq(Fact), WIPIn(rs, fs, <<>>),
           \A n \in DOMAIN fs : fs[n].kind = "completed" => fs[n].run # r
    PROVE  WIPIn(Append(rs, r), fs, <<>>)
<1>1. \A n \in DOMAIN fs : fs[n].kind = "completed" =>
          Episode(Append(rs, r), fs, fs[n].run) = Episode(rs, fs, fs[n].run)
  BY EpisodeOfOthers
<1> QED BY <1>1 DEF WIPIn

\* A slot is given up by a fact of the task's own lifecycle, or by a confirmation,
\* which finds the task's work over: no Stop, asked or answered, frees capacity a
\* running command still uses.
THEOREM SlotHeld == Spec => SlotHeldUntilProven
<1>1. ASSUME IInv, IInv', CompletedInv, [Next]_vars, NEW t \in Tasks, WIP(t), ~WIP(t)',
             ~(Len(facts'[t]) > Len(facts[t]) /\ req'[t] = req[t])
      PROVE  \A i \in WorkOf(t) : pc'[i] = "idle" /\ proc'[i] = "none"
  <2>0. /\ runs[t] \in Seq(Runs) /\ facts[t] \in Seq(Fact) /\ req'[t] \in Seq(Request)
    BY <1>1 DEF IInv, TypeOK
  <2>1. CASE ConfirmedOnce(t)'
    BY <1>1, <2>1 DEF IInv, ConfirmedIsQuiescent, WorkOf, TaskIs
  <2>2. CASE ~ConfirmedOnce(t)'
    <3>1. ~StoppedEpisode(facts'[t], req'[t])
      <4> SUFFICES ASSUME StoppedEpisode(facts'[t], req'[t]) PROVE FALSE
        OBVIOUS
      <4>1. req'[t] # <<>> /\ req'[t][Len(req'[t])].state = "confirmed"
        BY DEF StoppedEpisode
      <4>2. Len(req'[t]) \in DOMAIN req'[t]
        BY <2>0, <4>1
      <4> QED BY <2>2, <4>1, <4>2 DEF ConfirmedOnce
    <3>2. RunsStep(t) /\ FactsStep(t)
      BY <1>1, LogSteps DEF IInv
    <3>3. facts'[t] = facts[t]
      <4>1. ASSUME NEW f \in Fact, facts'[t] = Append(facts[t], f) PROVE Len(facts'[t]) > Len(facts[t])
        BY <2>0, <4>1
      <4> QED BY <1>1, <2>2, <3>2, <4>1 DEF FactsStep
    <3>4. WIPIn(runs[t], facts[t], <<>>)
      BY <1>1 DEF WIP, WIPIn, StoppedEpisode
    <3>5. WIPIn(runs'[t], facts[t], <<>>)
      <4>1. ASSUME NEW r \in Runs, r \notin Members(t), runs'[t] = Append(runs[t], r)
            PROVE  WIPIn(runs'[t], facts[t], <<>>)
        <5>1. /\ \A n \in DOMAIN runs[t] : runs[t][n] # r
              /\ \A n \in DOMAIN facts[t] : facts[t][n].kind = "completed" => facts[t][n].run # r
          BY <1>1, <4>1 DEF CompletedInv, Members
        <5> QED BY <2>0, <3>4, <4>1, <5>1, HeldUnderRun
      <4> QED BY <3>2, <3>4, <4>1 DEF RunsStep
    <3>6. WIPIn(runs'[t], facts'[t], req'[t])
      BY <3>1, <3>3, <3>5 DEF WIPIn
    <3>7. WIP(t)'
      BY <3>6 DEF WIP, WIPIn, CurrentStart, Starts, StoppedEpisode, Episode, Before, Newest
    <3> QED BY <1>1, <3>7
  <2> QED BY <2>1, <2>2
<1>2. IInv /\ IInv' /\ CompletedInv /\ [Next]_vars =>
         [\A t \in Tasks : WIP(t) /\ ~WIP(t)' =>
             \/ Len(facts'[t]) > Len(facts[t]) /\ req'[t] = req[t]
             \/ \A i \in WorkOf(t) : pc'[i] = "idle" /\ proc'[i] = "none"]_vars
  BY <1>1
<1>3. Init => CompletedInv
  <2> SUFFICES ASSUME Init, NEW t \in Tasks, NEW n \in DOMAIN facts[t] PROVE FALSE
    BY DEF CompletedInv
  <2>1. facts[t] = <<>>
    BY DEF Init
  <2> QED BY <2>1
<1>4. IInv /\ CompletedInv /\ [Next]_vars => CompletedInv'
  BY CompletedKept
<1> QED BY <1>2, <1>3, <1>4, Invariance, PTL DEF Spec, SlotHeldUntilProven

-----------------------------------------------------------------------------
(* The logs only grow.                                                      *)

\* What any step does to the requests of a task.
Answered(c, state) == [c EXCEPT !.state = state]
RequestsStep(t) ==
    \/ req'[t] = req[t]
    \/ \E c \in Request : c.state = "requested" /\ req'[t] = Append(req[t], c)
    \/ \E n \in DOMAIN req[t], state \in {"failed_to_stop", "confirmed"} :
          /\ req[t][n].state # "confirmed"
          /\ req'[t] = [req[t] EXCEPT ![n] = Answered(req[t][n], state)]

LEMMA RequestSteps ==
    ASSUME IInv, [Next]_vars, NEW t \in Tasks
    PROVE  RequestsStep(t)
<1>0. TypeOK /\ req \in [Tasks -> Seq(Request)] /\ \A i \in Invs : WorkInv(i)
  BY DEF IInv, TypeOK
<1>1. CASE req' = req
  BY <1>1 DEF RequestsStep
<1>2. ASSUME NEW u \in Tasks, StopTask(u) PROVE RequestsStep(t)
  <2> DEFINE c == [episode |-> CurrentStart(facts[u]), runs |-> Members(u),
                   epoch |-> epoch, state |-> "requested"]
  <2>1. c \in Request
    BY <1>0, TargetIs
  <2>2. c.state = "requested" /\ req' = [req EXCEPT ![u] = Append(req[u], c)]
    BY <1>2 DEF StopTask
  <2> HIDE DEF c
  <2> QED BY <1>0, <2>1, <2>2 DEF RequestsStep
<1>3. ASSUME NEW u \in Tasks, Coordinator(u) PROVE RequestsStep(t)
  <2>1. AnswerStep(u)
    BY <1>0, <1>3, CoordinatorIs DEF CoordinatorStep, IInv
  <2>2. ASSUME NEW n \in DOMAIN req[u], NEW state \in {"failed_to_stop", "confirmed"},
               req[u][n].state # "confirmed", req' = [req EXCEPT ![u][n].state = state]
        PROVE  RequestsStep(t)
    <3>1. req' = [req EXCEPT ![u] = [req[u] EXCEPT ![n] = Answered(req[u][n], state)]]
      BY <2>2 DEF Answered
    <3> QED BY <1>0, <2>2, <3>1 DEF RequestsStep
  <2> QED BY <1>1, <2>1, <2>2 DEF AnswerStep
<1>4. ASSUME NEW i \in Invs, Worker(i) \/ Provider(i) PROVE req' = req
  BY <1>0, <1>4, WorkTypes DEF database
<1>5. ASSUME NEW u \in Tasks, Attempt(u) PROVE req' = req
  BY <1>0, <1>5, AttemptTypes DEF AttemptKeeps, database
<1>6. Crash \/ UNCHANGED vars => req' = req
  BY DEF Crash, vars
<1>7. CASE History
  <2>1. req' = req \/ \E u \in Tasks : StopTask(u)
    BY <1>7 DEF History, PutRun, StartRun, Restart, Complete, Abandon, CloseTaskWorkflow
  <2> QED BY <1>1, <1>2, <2>1
<1> QED BY <1>1, <1>3, <1>4, <1>5, <1>6, <1>7 DEF Next

\* An answer keeps what was asked for, and is no worse than the one before.
LEMMA AnswersImprove ==
    ASSUME TypeOK, NEW t \in Tasks, RequestsStep(t), NEW n \in DOMAIN req[t]
    PROVE  /\ n \in DOMAIN req'[t]
           /\ TargetOf(req'[t][n]) = TargetOf(req[t][n])
           /\ AnswerRank(req[t][n].state) <= AnswerRank(req'[t][n].state)
<1>0. req[t] \in Seq(Request) /\ req[t][n] \in Request
  BY DEF TypeOK
<1>1. AnswerRank(req[t][n].state) \in 0..2
  BY <1>0 DEF AnswerRank
<1>2. CASE n \in DOMAIN req'[t] /\ req'[t][n] = req[t][n]
  BY <1>1, <1>2
<1>3. ASSUME NEW c \in Request, req'[t] = Append(req[t], c)
      PROVE  n \in DOMAIN req'[t] /\ req'[t][n] = req[t][n]
  BY <1>0, <1>3, Appending
<1>4. ASSUME NEW m \in DOMAIN req[t], NEW state \in {"failed_to_stop", "confirmed"},
             req[t][m].state # "confirmed",
             req'[t] = [req[t] EXCEPT ![m] = Answered(req[t][m], state)]
      PROVE  /\ n \in DOMAIN req'[t]
             /\ TargetOf(req'[t][n]) = TargetOf(req[t][n])
             /\ AnswerRank(req[t][n].state) <= AnswerRank(req'[t][n].state)
  <2>1. CASE n # m
    BY <1>0, <1>2, <1>4, <2>1
  <2>2. CASE n = m
    <3> DEFINE c == req[t][n]
    <3>1. c \in Request /\ c.state # "confirmed"
      BY <1>0, <1>4, <2>2
    <3>2. n \in DOMAIN req'[t] /\ req'[t][n] = Answered(c, state)
      BY <1>0, <1>4, <2>2
    <3> HIDE DEF c
    <3>3. /\ Answered(c, state).state = state
          /\ TargetOf(Answered(c, state)) = TargetOf(c)
      BY <3>1 DEF Answered, TargetOf, Request
    <3>4. AnswerRank(c.state) \in {0, 1} /\ AnswerRank(state) \in {1, 2}
      BY <3>1 DEF AnswerRank, Request
    <3>5. AnswerRank(c.state) <= AnswerRank(state)
      BY <3>4
    <3> QED BY <3>2, <3>3, <3>5 DEF c
  <2> QED BY <2>1, <2>2
<1> QED BY <1>2, <1>3, <1>4 DEF RequestsStep

\* A task's runs, facts and requests are logs: starts, endings, Stops and their
\* answers are recorded beside what is there, a request keeps the target it was
\* made for, and its answer goes from requested over failed to confirmed, never
\* back, across restarts and however its acknowledgements race.
THEOREM LogsGrow == Spec => LogsOnlyGrow
<1>1. ASSUME IInv, [Next]_vars, NEW t \in Tasks
      PROVE  /\ \A n \in DOMAIN runs[t] : n \in DOMAIN runs'[t] /\ runs'[t][n] = runs[t][n]
             /\ \A n \in DOMAIN facts[t] : n \in DOMAIN facts'[t] /\ facts'[t][n] = facts[t][n]
             /\ \A n \in DOMAIN req[t] :
                   /\ n \in DOMAIN req'[t]
                   /\ TargetOf(req'[t][n]) = TargetOf(req[t][n])
                   /\ AnswerRank(req[t][n].state) <= AnswerRank(req'[t][n].state)
  <2>0. TypeOK /\ runs[t] \in Seq(Runs) /\ facts[t] \in Seq(Fact)
    BY <1>1 DEF IInv, TypeOK
  <2>1. RunsStep(t) /\ FactsStep(t) /\ RequestsStep(t)
    BY <1>1, LogSteps, RequestSteps DEF IInv
  <2>2. \A n \in DOMAIN runs[t] : n \in DOMAIN runs'[t] /\ runs'[t][n] = runs[t][n]
    BY <2>0, <2>1, Appending DEF RunsStep
  <2>3. \A n \in DOMAIN facts[t] : n \in DOMAIN facts'[t] /\ facts'[t][n] = facts[t][n]
    BY <2>0, <2>1, Appending DEF FactsStep
  <2> QED BY <2>0, <2>1, <2>2, <2>3, AnswersImprove
<1>2. IInv /\ [Next]_vars =>
        [\A t \in Tasks :
           /\ \A n \in DOMAIN runs[t] : n \in DOMAIN runs'[t] /\ runs'[t][n] = runs[t][n]
           /\ \A n \in DOMAIN facts[t] : n \in DOMAIN facts'[t] /\ facts'[t][n] = facts[t][n]
           /\ \A n \in DOMAIN req[t] :
                 /\ n \in DOMAIN req'[t]
                 /\ TargetOf(req'[t][n]) = TargetOf(req[t][n])
                 /\ AnswerRank(req[t][n].state) <= AnswerRank(req'[t][n].state)]_vars
  BY <1>1
<1> QED BY <1>2, Invariance, PTL DEF Spec, LogsOnlyGrow

-----------------------------------------------------------------------------
(* Where no stop can be proved.                                             *)

\* An attempt that has not failed is of a task its records can speak for.
AttemptsProvable ==
    \A t \in Tasks : job[t].phase # 0 /\ ~job[t].err => ~Unprovable(t)

LEMMA AttemptsStayProvable ==
    ASSUME IInv, AttemptsProvable, [Next]_vars
    PROVE  AttemptsProvable'
<1>0. TypeOK /\ job \in [Tasks -> Job]
  BY DEF IInv, TypeOK
<1> DEFINE Kept(u) == job'[u].phase # 0 /\ ~job'[u].err =>
                        ~Unprovable(u) /\ epoch' = epoch
<1>1. ASSUME \A u \in Tasks : Kept(u) PROVE AttemptsProvable'
  BY <1>1 DEF AttemptsProvable, Unprovable
<1>2. ASSUME UNCHANGED <<job, epoch>> PROVE \A u \in Tasks : Kept(u)
  BY <1>2 DEF AttemptsProvable
<1>3. ASSUME NEW t \in Tasks, NEW j, job' = [job EXCEPT ![t] = j], UNCHANGED epoch,
             j.phase # 0 /\ ~j.err => ~Unprovable(t)
      PROVE  \A u \in Tasks : Kept(u)
  <2>1. job'[t] = j /\ \A u \in Tasks : u # t => job'[u] = job[u]
    BY <1>0, <1>3
  <2> QED BY <1>3, <2>1 DEF AttemptsProvable
<1> HIDE DEF Kept
<1>4. ASSUME NEW t \in Tasks, Attempt(t) PROVE \A u \in Tasks : Kept(u)
  <2>0. job[t] \in Job /\ UNCHANGED epoch
    BY <1>0, <1>4, AttemptTypes DEF AttemptKeeps, database
  <2>1. CASE UNCHANGED job
    BY <1>2, <2>0, <2>1
  <2>2. ASSUME NEW todo, NEW err \in BOOLEAN, job[t].err => err,
               job[t].phase # 0,
               job' = [job EXCEPT ![t].todo = todo, ![t].err = err]
        PROVE  \A u \in Tasks : Kept(u)
    <3> DEFINE j == [job[t] EXCEPT !.todo = todo, !.err = err]
    <3>1. job' = [job EXCEPT ![t] = j]
      BY <1>0, <2>2
    <3>2. j.err = err
      BY <2>0 DEF Job
    <3> HIDE DEF j
    <3> QED BY <1>3, <2>0, <2>2, <3>1, <3>2 DEF AttemptsProvable
  <2>3. CASE \E r \in Runs : FenceRooms(t, r)
    BY <2>1, <2>3 DEF FenceRooms, coordinator
  <2>4. ASSUME NEW i \in Invs, StopOne(t, i) \/ StopFails(t, i) PROVE \A u \in Tasks : Kept(u)
    <3>1. job[t].phase # 0 /\ job[t].err \in BOOLEAN
      BY <2>0, <2>4 DEF StopOne, StopFails, Job
    <3>2. \E err \in BOOLEAN : /\ job[t].err => err
                               /\ job' = [job EXCEPT ![t].todo = job[t].todo \ {i}, ![t].err = err]
      <4>1. CASE StopFails(t, i)
        BY <1>0, <4>1 DEF StopFails
      <4>2. CASE StopOne(t, i)
        <5>1. PICK proved \in BOOLEAN :
                job' = [job EXCEPT ![t].todo = @ \ {i}, ![t].err = @ \/ ~proved]
          BY <4>2 DEF StopOne
        <5> QED BY <1>0, <3>1, <5>1
      <4> QED BY <2>4, <4>1, <4>2
    <3> QED BY <2>2, <3>1, <3>2
  <2>5. CASE JoinWork(t)
    <3> DEFINE j == [job[t] EXCEPT !.joined = TRUE, !.err = @ \/ Active(t) # {}]
    <3>1. job' = [job EXCEPT ![t] = j]
      BY <1>0, <2>5 DEF JoinWork, Job
    <3>2. job[t].phase # 0
      BY <2>5 DEF JoinWork
    <3>3. j.err = (job[t].err \/ Active(t) # {})
      BY <2>0 DEF Job
    <3> HIDE DEF j
    <3> QED BY <1>3, <2>0, <3>1, <3>2, <3>3 DEF AttemptsProvable
  <2>6. CASE EndPhase(t)
    <3> DEFINE again == job[t].phase = 1 /\ Again(job[t])
               n == IF again THEN 2 ELSE 3
               T == IF again THEN job[t].inv ELSE {}
               j == [job[t] EXCEPT !.phase = n, !.todo = T]
    <3>1. job' = [job EXCEPT ![t] = j]
      BY <1>0, <2>6 DEF EndPhase, Job
    <3>2. job[t].phase # 0
      BY <2>6 DEF EndPhase
    <3>3. j.err = job[t].err
      <4> HIDE DEF n, T
      <4> QED BY <2>0 DEF Job
    <3> HIDE DEF j
    <3> QED BY <1>3, <2>0, <3>1, <3>2, <3>3 DEF AttemptsProvable
  <2>7. CASE DeadlinePasses(t)
    <3> DEFINE j == [job[t] EXCEPT !.late = TRUE]
    <3>1. job' = [job EXCEPT ![t] = j] /\ job[t].phase # 0
      BY <1>0, <2>0, <2>7 DEF DeadlinePasses, Job
    <3>2. j.err = job[t].err
      BY <2>0 DEF Job
    <3> HIDE DEF j
    <3> QED BY <1>3, <2>0, <3>1, <3>2 DEF AttemptsProvable
  <2> QED BY <1>4, <2>3, <2>4, <2>5, <2>6, <2>7 DEF Attempt
<1>5. ASSUME NEW t \in Tasks, Coordinator(t) PROVE \A u \in Tasks : Kept(u)
  <2>0. job[t] \in Job /\ UNCHANGED epoch /\ NoJob.phase = 0
    BY <1>0, <1>5, CoordinatorIs DEF IInv, CoordinatorStep, NoJob
  <2>1. Idle(t).phase = 0 /\ \A retry : [Idle(t) EXCEPT !.retry = retry].phase = 0
    BY <2>0 DEF Idle, NoJob
  <2>2. ASSUME NEW retry, job' = [job EXCEPT ![t] = [job[t] EXCEPT !.retry = retry]]
        PROVE  \A u \in Tasks : Kept(u)
    <3> DEFINE j == [job[t] EXCEPT !.retry = retry]
    <3>1. j.phase = job[t].phase /\ j.err = job[t].err
      BY <2>0 DEF Job
    <3> HIDE DEF j
    <3> QED BY <1>3, <2>0, <2>2, <3>1 DEF AttemptsProvable, j
  <2>3. ASSUME NEW j, job' = [job EXCEPT ![t] = j], j.phase = 0
        PROVE  \A u \in Tasks : Kept(u)
    BY <1>3, <2>0, <2>3
  <2>4. CASE UNCHANGED job
    BY <1>2, <2>0, <2>4
  <2>5. ASSUME NEW n, NEW state, NEW retry, Ack(t, n, state, [Idle(t) EXCEPT !.retry = retry])
        PROVE  \A u \in Tasks : Kept(u)
    <3> DEFINE s == [Idle(t) EXCEPT !.retry = retry]
    <3>1. s.phase = 0 /\ Refused(s).phase = 0
      BY <2>1 DEF Refused, Idle, NoJob
    <3>2. job' = [job EXCEPT ![t] = s] \/ job' = [job EXCEPT ![t] = Refused(s)]
      BY <2>5 DEF Ack
    <3> HIDE DEF s
    <3> QED BY <2>3, <3>1, <3>2
  <2>6. ASSUME NEW n, NEW state, Ack(t, n, state, job[t])
        PROVE  \A u \in Tasks : Kept(u)
    <3>1. job' = job \/ job' = [job EXCEPT ![t] = [job[t] EXCEPT !.retry = "settled"]]
      BY <1>0, <2>6 DEF Ack, Refused
    <3> QED BY <2>2, <2>4, <3>1
  <2>7. CASE ListRequest(t)
    <3>1. [NoJob EXCEPT !.req = Len(req[t])].phase = 0
      BY <2>0 DEF NoJob
    <3> QED BY <2>3, <2>4, <2>7, <3>1 DEF ListRequest
  <2>8. CASE StartAttempt(t)
    <3> DEFINE c == req[t][seen[t]]
               j == [Idle(t) EXCEPT !.phase = 1, !.inv = Inventory(t, c), !.todo = Inventory(t, c),
                                    !.err = Unprovable(t)]
    <3>1. CASE Ack(t, seen[t], "confirmed", Idle(t))
      <4>1. Refused(Idle(t)).phase = 0
        BY <2>1 DEF Refused
      <4>2. job' = [job EXCEPT ![t] = Idle(t)] \/ job' = [job EXCEPT ![t] = Refused(Idle(t))]
        BY <3>1 DEF Ack
      <4> QED BY <2>1, <2>3, <4>1, <4>2
    <3>2. CASE job' = [job EXCEPT ![t] = j]
      <4>1. j.err = Unprovable(t)
        BY DEF Idle, NoJob
      <4> HIDE DEF j
      <4> QED BY <1>3, <2>0, <3>2, <4>1
    <3> QED BY <2>8, <3>1, <3>2 DEF StartAttempt
  <2>9. CASE FinishAttempt(t)
    <3>1. \E state, retry : Ack(t, seen[t], state, [Idle(t) EXCEPT !.retry = retry])
      BY <2>9 DEF FinishAttempt, Deferred
    <3> QED BY <2>5, <3>1
  <2>10. CASE LoseAttempt(t)
    BY <2>1, <2>3, <2>10 DEF LoseAttempt
  <2>11. CASE PollAttempt(t)
    BY <2>4, <2>6, <2>11 DEF PollAttempt
  <2>12. CASE Waiting(t)
    BY <2>4, <2>12 DEF Waiting
  <2>13. CASE SettleUnprovable(t) \/ BackoffElapses(t)
    <3>1. \E retry : job' = [job EXCEPT ![t] = [job[t] EXCEPT !.retry = retry]]
      BY <1>0, <2>0, <2>13 DEF SettleUnprovable, BackoffElapses, Job
    <3> QED BY <2>2, <3>1
  <2> QED BY <1>5, <2>7, <2>8, <2>9, <2>10, <2>11, <2>12, <2>13 DEF Coordinator
<1> SUFFICES \A u \in Tasks : Kept(u)
  BY <1>1
<1>6. CASE History
  BY <1>0, <1>2, <1>6, MembersGrow DEF coordinator
<1>7. ASSUME NEW i \in Invs, Worker(i) \/ Provider(i) PROVE \A u \in Tasks : Kept(u)
  BY <1>0, <1>2, <1>7, WorkTypes DEF database, coordinator
<1>8. CASE Crash
  BY <1>0, <1>8, CrashIs DEF Kept
<1>9. CASE UNCHANGED vars
  BY <1>2, <1>9 DEF vars
<1> QED
  BY <1>2, <1>4, <1>5, <1>6, <1>7, <1>8, <1>9, MembersGrow DEF Next

\* The coordinator confirms a task with runs only where its records can prove it.
LEMMA ConfirmsProvable ==
    ASSUME IInv, AttemptsProvable, NEW t \in Tasks, Coordinator(t),
           NEW n \in DOMAIN req[t], req[t][n].state # "confirmed", req[t][n].runs # {},
           req'[t][n].state = "confirmed"
    PROVE  ~Unprovable(t) /\ req[t][n].epoch = epoch
<1>0. TypeOK /\ job[t] \in Job /\ req \in [Tasks -> Seq(Request)] /\ AttemptInv(t)
  BY DEF IInv, TypeOK
<1>1. CASE req' = req
  BY <1>1
<1>2. ASSUME NEW m, NEW state, NEW s, Ack(t, m, state, s), req' # req
      PROVE  req' = [req EXCEPT ![t][m].state = state] /\ TargetOf(req[t][m]) = Target(t)
  BY <1>2 DEF Ack
<1>3. ASSUME NEW m \in DOMAIN req[t], NEW state, NEW s, Ack(t, m, state, s), req' # req
      PROVE  m = n /\ state = "confirmed" /\ req[t][n].epoch = epoch
  <2>1. req' = [req EXCEPT ![t][m].state = state] /\ TargetOf(req[t][m]) = Target(t)
    BY <1>2, <1>3
  <2>2. req'[t] = [req[t] EXCEPT ![m] = Answered(req[t][m], state)]
    BY <1>0, <2>1 DEF Answered
  <2>3. m = n
    BY <1>0, <2>2
  <2>4. req'[t][n] = Answered(req[t][n], state) /\ req[t][n] \in Request
    BY <1>0, <2>2, <2>3
  <2>5. state = "confirmed"
    BY <2>4 DEF Answered, Request
  <2> QED BY <2>1, <2>3, <2>5 DEF TargetOf, Target
<1>4. seen[t] # 0 => seen[t] \in DOMAIN req[t]
  <2>1. seen[t] \in Nat /\ seen[t] <= Len(req[t]) /\ Len(req[t]) \in Nat /\ DOMAIN req[t] = 1..Len(req[t])
    BY <1>0 DEF TypeOK
  <2> QED BY <2>1
<1>5. CASE StartAttempt(t)
  <2>1. seen[t] # 0 /\ (req' = req \/ (req[t][seen[t]].runs = {} /\ Ack(t, seen[t], "confirmed", Idle(t))))
    BY <1>5 DEF StartAttempt, Handled
  <2> QED BY <1>1, <1>3, <1>4, <2>1
<1>6. CASE FinishAttempt(t)
  <2> DEFINE state == IF job[t].err THEN "failed_to_stop" ELSE "confirmed"
  <2>1. seen[t] # 0 /\ job[t].phase = 3 /\ Ack(t, seen[t], state, Deferred(t))
    BY <1>6 DEF FinishAttempt, Handled
  <2>2. req' # req => state = "confirmed" /\ req[t][n].epoch = epoch
    <3> HIDE DEF state
    <3> QED BY <1>3, <1>4, <2>1
  <2> QED BY <1>1, <2>1, <2>2 DEF AttemptsProvable
<1>7. CASE PollAttempt(t)
  <2>1. req' = req \/ (seen[t] # 0 /\ Ack(t, seen[t], "failed_to_stop", job[t]))
    BY <1>7 DEF PollAttempt, Handled
  <2>2. "failed_to_stop" # "confirmed"
    OBVIOUS
  <2> QED BY <1>1, <1>3, <1>4, <2>1, <2>2
<1>8. CASE \/ ListRequest(t) \/ Waiting(t) \/ SettleUnprovable(t) \/ LoseAttempt(t)
           \/ BackoffElapses(t)
  BY <1>1, <1>8 DEF ListRequest, Waiting, SettleUnprovable, LoseAttempt, BackoffElapses, Handled, database
<1> QED BY <1>5, <1>6, <1>7, <1>8 DEF Coordinator

LEMMA ConfirmedStayProvable ==
    ASSUME IInv, AttemptsProvable, ConfirmedIsProvable, [Next]_vars
    PROVE  ConfirmedIsProvable'
<1> SUFFICES ASSUME NEW t \in Tasks, NEW n \in DOMAIN req'[t],
                    req'[t][n].state = "confirmed", req'[t][n].runs # {}
             PROVE  t \notin Uncovered /\ req'[t][n].epoch = 0
  BY DEF ConfirmedIsProvable
<1>0. TypeOK /\ req[t] \in Seq(Request)
  BY DEF IInv, TypeOK
<1>1. RequestsStep(t)
  BY RequestSteps
<1>2. n \in DOMAIN req[t]
  <2>1. ASSUME NEW c \in Request, c.state = "requested", req'[t] = Append(req[t], c)
        PROVE  n \in DOMAIN req[t]
    BY <1>0, <2>1, Appending
  <2> QED BY <1>1, <2>1 DEF RequestsStep
<1>3. TargetOf(req'[t][n]) = TargetOf(req[t][n])
  BY <1>0, <1>1, <1>2, AnswersImprove
<1>4. req'[t][n].runs = req[t][n].runs /\ req'[t][n].epoch = req[t][n].epoch
  BY <1>3 DEF TargetOf
<1>5. CASE req[t][n].state = "confirmed"
  BY <1>2, <1>4, <1>5 DEF ConfirmedIsProvable
<1>6. CASE req[t][n].state # "confirmed"
  <2>1. \E u \in Tasks : Coordinator(u)
    <3>1. ASSUME ~\E u \in Tasks : Coordinator(u) PROVE FALSE
      <4>1. req' = req \/ \E u \in Tasks : StopTask(u)
        <5>1. ASSUME NEW i \in Invs, Worker(i) \/ Provider(i) PROVE req' = req
          BY <1>0, <5>1, WorkTypes DEF database
        <5>2. ASSUME NEW u \in Tasks, Attempt(u) PROVE req' = req
          BY <1>0, <5>2, AttemptTypes DEF AttemptKeeps, database
        <5>3. CASE History
          BY <5>3 DEF History, PutRun, StartRun, Restart, Complete, Abandon, CloseTaskWorkflow
        <5>4. Crash \/ UNCHANGED vars => req' = req
          BY DEF Crash, vars
        <5> QED BY <3>1, <5>1, <5>2, <5>3, <5>4 DEF Next
      <4>2. ASSUME NEW u \in Tasks, StopTask(u) PROVE req'[t][n] = req[t][n]
        <5> DEFINE c == [episode |-> CurrentStart(facts[u]), runs |-> Members(u),
                         epoch |-> epoch, state |-> "requested"]
        <5>1. c \in Request
          BY <1>0, <4>2, TargetIs
        <5>2. req' = [req EXCEPT ![u] = Append(req[u], c)]
          BY <4>2 DEF StopTask
        <5> HIDE DEF c
        <5>3. req'[t] = req[t] \/ req'[t] = Append(req[t], c)
          BY <1>0, <5>2 DEF TypeOK
        <5> QED BY <1>0, <1>2, <5>1, <5>3, Appending
      <4> QED BY <1>6, <4>1, <4>2
    <3> QED BY <3>1
  <2>2. PICK u \in Tasks : Coordinator(u)
    BY <2>1
  <2>3. u = t
    <3>1. u # t => req'[t] = req[t]
      <4>1. AnswerStep(u)
        BY <2>2, CoordinatorIs DEF IInv, CoordinatorStep
      <4> QED BY <1>0, <4>1, AnswerIs DEF AnswerStep
    <3> QED BY <1>6, <3>1
  <2>4. ~Unprovable(t) /\ req[t][n].epoch = epoch
    BY <1>2, <1>4, <1>6, <2>2, <2>3, ConfirmsProvable
  <2> QED BY <1>4, <2>4 DEF Unprovable
<1> QED BY <1>5, <1>6

\* Where ownership cannot be proved, it is not assumed: of a task older than the
\* journals, or after a restore into a new epoch, no stop with runs to account
\* for is ever confirmed, whatever its providers answered.
THEOREM ConfirmedProvable == Spec => []ConfirmedIsProvable
<1>1. Init => AttemptsProvable /\ ConfirmedIsProvable
  <2> SUFFICES ASSUME Init PROVE AttemptsProvable /\ ConfirmedIsProvable
    OBVIOUS
  <2>1. \A t \in Tasks : job[t].phase = 0
    BY DEF Init, NoJob
  <2>2. \A t \in Tasks : DOMAIN req[t] = {}
    <3>1. DOMAIN <<>> = {}
      OBVIOUS
    <3> QED BY <3>1 DEF Init
  <2> QED BY <2>1, <2>2 DEF AttemptsProvable, ConfirmedIsProvable
<1>2. IInv /\ AttemptsProvable /\ ConfirmedIsProvable /\ [Next]_vars =>
        AttemptsProvable' /\ ConfirmedIsProvable'
  BY AttemptsStayProvable, ConfirmedStayProvable
<1> QED BY <1>1, <1>2, Invariance, PTL DEF Spec
=============================================================================
