-------------------------- MODULE DecisionSyncProofs --------------------------
(***************************************************************************)
(* Proofs about DecisionSync for any commands, submissions and bounds.      *)
(* A command sent and not answered for is never forgotten: a step keeps the *)
(* slot, releases it with a verdict, takes it for a new command, or reloads *)
(* it (IInv).  A fresh list shows the daemon's item: whatever the client    *)
(* holds of the daemon's history is a part of it (MirrorInv).  The operator *)
(* is told the truth: an answer, while its history lasts, goes on proving   *)
(* what became of the command (AnswersInv).                                 *)
(***************************************************************************)
EXTENDS DecisionSyncProperties, TLAPS

-----------------------------------------------------------------------------
(* What the client holds.                                                   *)

\* A client's state as TypeOK has it.
Held(m) ==
    /\ m \in Client
    /\ m.cursors.epoch = 0 => m.cursors = NoCursors
    /\ m.slot.unresolved => m.slot.id # None

\* The two states agree on the slot's command (pendingCommandSlots).
SameSlot(m, n) == n.slot.id = m.slot.id

\* Values the code starts from have their types.
LEMMA Defaults ==
    /\ NoItem \in Item
    /\ NoCursors \in Cursors
    /\ NoSlot \in Slot /\ NoSlot.id = None /\ ~NoSlot.unresolved
    /\ Pending \in Answers /\ Lost \in Answers /\ Denied \in Answers
BY DEF NoItem, Item, NoCursors, Cursors, NoSlot, Slot, Pending, Lost, Denied,
       Answer, Answers

\* advanceObservedRevision moves a cursor and may call the list outdated.
LEMMA ObservedHeld ==
    ASSUME NEW m, Held(m), NEW r \in Nat
    PROVE  Held(Observed(m, r)) /\ Observed(m, r).slot = m.slot
<1>1. CASE m.cursors = NoCursors \/ r <= m.cursors.seen
  BY <1>1 DEF Observed
<1>2. CASE ~(m.cursors = NoCursors \/ r <= m.cursors.seen)
  <2>1. m.cursors \in Cursors /\ m.cursors.epoch # 0
    BY <1>2 DEF Held, Client
  <2>2. [m.cursors EXCEPT !.seen = r] \in Cursors
    BY <2>1 DEF Cursors
  <2>3. [m.cursors EXCEPT !.seen = r].epoch # 0
    BY <2>1 DEF Cursors
  <2>4. DEFINE f == IF r > m.cursors.full /\ m.fresh # "failing"
                    THEN "unvalidated" ELSE m.fresh
  <2>5. f \in {"unvalidated", "fresh", "failing"}
    BY DEF Held, Client
  <2>6. Observed(m, r) = [m EXCEPT !.cursors = [m.cursors EXCEPT !.seen = r], !.fresh = f]
    BY <1>2, <2>1 DEF Observed, Held, Client
  <2> HIDE DEF f
  <2> QED BY <2>2, <2>3, <2>5, <2>6 DEF Held, Client
<1> QED BY <1>1, <1>2

\* InboxStore.apply replaces the row.
LEMMA ShowingHeld ==
    ASSUME NEW m, Held(m), NEW i \in Item
    PROVE  Held(Showing(m, i)) /\ Showing(m, i).slot = m.slot
<1>1. Held([m EXCEPT !.row = i]) /\ [m EXCEPT !.row = i].slot = m.slot
  BY DEF Held, Client
<1>2. i.asof \in Nat
  BY DEF Item
<1> QED BY <1>1, <1>2, ObservedHeld DEF Showing

\* discardCache leaves the slot.
LEMMA EvictedHeld ==
    ASSUME NEW m, Held(m)
    PROVE  Held(Evicted(m)) /\ Evicted(m).slot = m.slot
BY Defaults DEF Held, Client, Evicted

\* adopt replaces rows and cursors and leaves the slot.
LEMMA AdoptedHeld ==
    ASSUME NEW m, Held(m), NEW a \in Answers, a.epoch # 0
    PROVE  Held(Adopted(m, a)) /\ Adopted(m, a).slot = m.slot
<1> DEFINE kept == IF OtherEpoch(m, a.epoch) THEN Evicted(m) ELSE m
           row == IF a.item.ver # 0 /\ Outranked(kept, a.item) THEN kept.row ELSE a.item
           cur == [epoch |-> a.epoch, full |-> a.rev,
                   seen |-> IF kept.cursors.seen > a.rev THEN kept.cursors.seen ELSE a.rev]
<1>1. Held(kept) /\ kept.slot = m.slot
  BY EvictedHeld
<1>2. row \in Item
  BY <1>1 DEF Held, Client, Answers
<1>3. cur \in Cursors /\ cur.epoch # 0
  BY <1>1 DEF Held, Client, Answers, Cursors
<1>4. Adopted(m, a) = [kept EXCEPT !.row = row, !.cursors = cur, !.fresh = "fresh"]
  BY <1>1 DEF Adopted, Held, Client
<1> HIDE DEF kept, row, cur
<1>5. /\ [kept EXCEPT !.row = row, !.cursors = cur, !.fresh = "fresh"] \in Client
      /\ [kept EXCEPT !.row = row, !.cursors = cur, !.fresh = "fresh"].slot = kept.slot
      /\ [kept EXCEPT !.row = row, !.cursors = cur, !.fresh = "fresh"].cursors = cur
  BY <1>1, <1>2, <1>3 DEF Held, Client
<1>6. kept.slot.unresolved => kept.slot.id # None
  BY <1>1 DEF Held
<1> QED BY <1>1, <1>3, <1>4, <1>5, <1>6 DEF Held

\* The marks on the slot, the card and the phase keep everything else.
LEMMA MarkedHeld ==
    ASSUME NEW m, Held(m), NEW c \in Commands, NEW u \in BOOLEAN
    PROVE  Held(Marked(m, c, u)) /\ SameSlot(m, Marked(m, c, u))
<1>1. CASE m.slot.id = c
  <2>1. m.slot \in Slot /\ c # None
    BY CommandsAssumption DEF Held, Client
  <2>2. [m.slot EXCEPT !.unresolved = u] \in Slot /\ [m.slot EXCEPT !.unresolved = u].id = c
    BY <2>1, <1>1 DEF Slot
  <2>3. Marked(m, c, u) = [m EXCEPT !.slot = [m.slot EXCEPT !.unresolved = u]]
    BY <1>1 DEF Marked, Held, Client
  <2> QED BY <1>1, <2>1, <2>2, <2>3 DEF Held, Client, SameSlot
<1>2. CASE m.slot.id # c
  BY <1>2 DEF Marked, SameSlot
<1> QED BY <1>1, <1>2

LEMMA ClearedHeld ==
    ASSUME NEW m, Held(m), NEW c \in Commands
    PROVE  /\ Held(Cleared(m, c))
           /\ Cleared(m, c).slot.id = IF m.slot.id = c THEN None ELSE m.slot.id
BY Defaults DEF Held, Client, Cleared

LEMMA CardHeld ==
    ASSUME NEW m, Held(m)
    PROVE  /\ Held(Certified(m)) /\ Certified(m).slot = m.slot
           /\ Held(Uncertified(m)) /\ Uncertified(m).slot = m.slot
           /\ \A p \in {"idle", "submitting", "applied"} :
                 Held(InPhase(m, p)) /\ InPhase(m, p).slot = m.slot
           /\ \A s \in {"unvalidated", "fresh", "failing"} :
                 Held([m EXCEPT !.fresh = s]) /\ [m EXCEPT !.fresh = s].slot = m.slot
BY DEF Held, Client, Certified, Uncertified, InPhase

-----------------------------------------------------------------------------
(* The parts of the invariant.                                              *)

SrvOK == /\ srv \in [epoch : Nat \ {0}, rev : Nat, item : Item, recorded : Records]
         /\ saved \in [rev : Nat, item : Item, recorded : Records]
DiskOK(d) == /\ d \in [cursors : Cursors, row : Item, slot : Commands \cup {None}]
             /\ d.cursors.epoch = 0 => d.cursors = NoCursors
RoundOK(r) == /\ r \in [kind : {"none", "heartbeat", "bootstrap"}, ans : Answers]
              /\ r.ans # Pending => r.ans.epoch # 0
ValOK(v) == v \in [owner : Flows \cup {None}, tries : 0..2, cur : BOOLEAN, ans : Answers]
FlowOK(s) == /\ s \in [pc : Steps, id : Commands \cup {None}, cur : BOOLEAN,
                       rev : Nat, ans : Answers]
             /\ s.pc # "idle" => s.id # None
FlowsOK == flow \in [Flows -> {s \in [pc : Steps, id : Commands \cup {None},
                                      cur : BOOLEAN, rev : Nat, ans : Answers] : FlowOK(s)}]
SentOK == sent \in [Commands -> [ver : Nat, body : Bodies \cup {None}, epoch : Nat]]
VerdictOK == verdict \in [Commands -> {"none", "applied", "rejected", "unrecorded"}]
ListsOK == late \subseteq Commands /\ missed \subseteq Commands
ClientOK == Held(cl) /\ DiskOK(disk)

IInv == TypeOK /\ SentIsRemembered

\* The type invariant, part by part, before and after a step.
LEMMA Parts ==
    /\ TypeOK <=> (SrvOK /\ ClientOK /\ RoundOK(round) /\ ValOK(val) /\ FlowsOK
                   /\ ListsOK /\ faults \in Nat /\ SentOK /\ VerdictOK)
    /\ TypeOK' <=> (SrvOK' /\ ClientOK' /\ RoundOK(round') /\ ValOK(val') /\ FlowsOK'
                    /\ ListsOK' /\ faults' \in Nat /\ SentOK' /\ VerdictOK')
<1>1. FlowsOK <=> /\ flow \in [Flows -> [pc : Steps, id : Commands \cup {None},
                               cur : BOOLEAN, rev : Nat, ans : Answers]]
                  /\ \A f \in Flows : flow[f].pc # "idle" => flow[f].id # None
  BY DEF FlowsOK, FlowOK
<1>2. FlowsOK' <=> /\ flow' \in [Flows -> [pc : Steps, id : Commands \cup {None},
                                 cur : BOOLEAN, rev : Nat, ans : Answers]]
                   /\ \A f \in Flows : flow'[f].pc # "idle" => flow'[f].id # None
  BY DEF FlowsOK, FlowOK
<1> QED BY <1>1, <1>2 DEF TypeOK, SrvOK, ClientOK, Held, DiskOK, RoundOK, ValOK,
           ListsOK, SentOK, VerdictOK

\* What a handler may use of the state it reads.
LEMMA Reads ==
    ASSUME TypeOK
    PROVE  /\ Held(cl) /\ DiskOK(disk)
           /\ round.ans \in Answers /\ val.ans \in Answers /\ srv.item \in Item
           /\ srv.rev \in Nat /\ srv.epoch \in Nat \ {0}
           /\ \A f \in Flows :
                 /\ FlowOK(flow[f])
                 /\ flow[f].ans \in Answers /\ flow[f].rev \in Nat
                 /\ flow[f].ans.item \in Item /\ flow[f].ans.rev \in Nat
                 /\ flow[f].pc # "idle" => flow[f].id \in Commands
<1>1. SrvOK /\ ClientOK /\ RoundOK(round) /\ ValOK(val) /\ FlowsOK
  BY Parts
<1>2. ASSUME NEW f \in Flows
      PROVE  /\ FlowOK(flow[f])
             /\ flow[f].ans \in Answers /\ flow[f].rev \in Nat
             /\ flow[f].ans.item \in Item /\ flow[f].ans.rev \in Nat
             /\ flow[f].pc # "idle" => flow[f].id \in Commands
  <2>1. FlowOK(flow[f])
    BY <1>1 DEF FlowsOK
  <2> QED BY <2>1 DEF FlowOK, Answers
<1> QED BY <1>1, <1>2 DEF ClientOK, SrvOK, RoundOK, ValOK

\* A cache file written from a typed client is typed and names its slot.
LEMMA ImageOK ==
    ASSUME NEW m, Held(m)
    PROVE  DiskOK(Image(m)) /\ Image(m).slot = m.slot.id
BY Defaults DEF Held, Client, Slot, Image, DiskOK

\* A flow moves on to a typed state of its own.
LEMMA GotoOK ==
    ASSUME TypeOK, NEW f \in Flows, NEW s, FlowOK(s), Goto(f, s)
    PROVE  FlowsOK'
<1>1. FlowsOK
  BY Parts
<1> QED BY <1>1 DEF FlowsOK, Goto, FlowOK

LEMMA Starts ==
    /\ RoundOK(NoRound) /\ RoundOK(Asking("bootstrap"))
    /\ ValOK(NoValidation)
    /\ \A o \in Flows \cup {None}, n \in 0..2 : ValOK(Validation(o, n))
    /\ FlowOK(Idle)
    /\ \A p \in Posts, c \in Commands : FlowOK(Sending(p, c))
BY Defaults, CommandsAssumption
   DEF RoundOK, NoRound, Asking, ValOK, NoValidation, Validation, FlowOK, Idle,
       Sending, Steps, Posts, Drains

-----------------------------------------------------------------------------
(* What a client step does with the slot.                                   *)

\* The slot stays with its command, or the operator is told of command c and
\* the slot is released if it was c's.
Settling(c, m) ==
    \/ verdict' = verdict /\ SameSlot(cl, m)
    \/ /\ \E v \in {"applied", "rejected", "unrecorded"} : Told(c, v)
       /\ m.slot.id = IF cl.slot.id = c THEN None ELSE cl.slot.id

\* What the client keeps after any handler.
Sound == ClientOK /\ VerdictOK /\ SentOK /\ faults \in Nat /\ SentIsRemembered

\* Whatever a handler leaves in memory, saved or not, no command is forgotten.
LEMMA Handled ==
    ASSUME IInv, Held(cl'), NEW c \in Commands, Settling(c, cl'), sent' = sent,
           \/ disk' = disk
           \/ disk' = Image(cl'),
           faults' \in Nat
    PROVE  Sound'
<1>1. ClientOK /\ VerdictOK /\ SentOK
  BY Parts DEF IInv
<1>2. ClientOK'
  BY <1>1, ImageOK DEF ClientOK
<1>3. VerdictOK'
  BY <1>1 DEF Settling, Told, VerdictOK
<1>4. disk'.slot = disk.slot \/ disk'.slot = cl'.slot.id
  BY ImageOK
<1>5. ASSUME NEW d \in Commands, sent'[d].ver # 0, verdict'[d] = "none"
      PROVE  cl'.slot.id = d /\ disk'.slot = d
  <2>1. verdict[d] = "none"
    BY <1>1, <1>5 DEF Settling, Told, VerdictOK
  <2>2. cl.slot.id = d /\ disk.slot = d
    BY <1>5, <2>1 DEF IInv, SentIsRemembered
  <2>3. cl'.slot.id = d
    <3>1. CASE verdict' = verdict /\ SameSlot(cl, cl')
      BY <3>1, <2>2 DEF SameSlot
    <3>2. ASSUME NEW v \in {"applied", "rejected", "unrecorded"}, Told(c, v),
                 cl'.slot.id = IF cl.slot.id = c THEN None ELSE cl.slot.id
          PROVE  cl'.slot.id = d
      <4>1. c # d
        <5> SUFFICES ASSUME c = d PROVE FALSE
          OBVIOUS
        <5>1. verdict'[d] = v
          BY <3>2, <2>2, <1>1 DEF Told, VerdictOK
        <5> QED BY <5>1, <1>5, <3>2
      <4> QED BY <4>1, <3>2, <2>2
    <3> QED BY <3>1, <3>2 DEF Settling
  <2> QED BY <2>2, <2>3, <1>4
<1>6. SentIsRemembered'
  BY <1>5 DEF SentIsRemembered
<1>7. SentOK'
  BY <1>1 DEF SentOK
<1> QED BY <1>2, <1>3, <1>6, <1>7 DEF Sound

\* A save reaches the file or leaves it, at the cost of a fault.
LEMMA Saved ==
    ASSUME faults \in Nat, Saves(cl')
    PROVE  (disk' = disk \/ disk' = Image(cl')) /\ faults' \in Nat
BY DEF Saves, Fault

LEMMA Untouched ==
    ASSUME IInv, UNCHANGED <<cl, disk, verdict, sent>>, faults' \in Nat
    PROVE  Sound'
BY Parts DEF IInv, Sound, ClientOK, VerdictOK, SentOK, SentIsRemembered

\* The two ways a submission ends, and settleAmbiguousOutcome.
LEMMA EndsSound ==
    ASSUME IInv, NEW f \in Flows, NEW c \in Commands, NEW m, Held(m), Settling(c, m),
           Ends(f, m), sent' = sent
    PROVE  Sound' /\ FlowsOK' /\ ValOK(val')
<1>1. cl' = m /\ Saves(cl') /\ Goto(f, Idle) /\ val' = val /\ TypeOK /\ faults \in Nat /\ ValOK(val)
  BY Parts DEF Ends, IInv
<1>2. Held(cl') /\ Settling(c, cl')
  BY <1>1
<1>3. (disk' = disk \/ disk' = Image(cl')) /\ faults' \in Nat
  BY <1>1, Saved
<1>4. Sound'
  BY <1>2, <1>3, Handled
<1>5. FlowsOK'
  BY <1>1, GotoOK, Starts
<1> QED BY <1>1, <1>4, <1>5

LEMMA ThenValidateSound ==
    ASSUME IInv, NEW f \in Flows, NEW c \in Commands, NEW m, Held(m), Settling(c, m),
           ThenValidate(f, m), sent' = sent
    PROVE  Sound' /\ FlowsOK' /\ ValOK(val')
<1>1. /\ cl' = Uncertified(m) /\ Saves(cl') /\ Goto(f, Idle)
      /\ val' = Validation(None, 1) /\ TypeOK /\ faults \in Nat
  BY Parts DEF ThenValidate, IInv
<1>2. Held(Uncertified(m)) /\ Uncertified(m).slot = m.slot
  BY CardHeld
<1>3. Held(cl') /\ Settling(c, cl')
  BY <1>1, <1>2 DEF Settling, SameSlot
<1>4. (disk' = disk \/ disk' = Image(cl')) /\ faults' \in Nat
  BY <1>1, Saved
<1>5. Sound'
  BY <1>3, <1>4, Handled
<1>6. FlowsOK'
  BY <1>1, GotoOK, Starts
<1> QED BY <1>1, <1>5, <1>6, Starts

LEMMA AmbiguousSound ==
    ASSUME IInv, NEW f \in Flows, flow[f].id \in Commands, Ambiguous(f), sent' = sent
    PROVE  Sound' /\ FlowsOK' /\ ValOK(val')
<1> DEFINE c == flow[f].id
           m == InPhase(Marked(cl, c, TRUE), "idle")
<1>1. /\ cl' = Uncertified(m) /\ Saves(cl') /\ verdict' = verdict
      /\ Goto(f, [Idle EXCEPT !.pc = "recheck", !.id = c])
      /\ val' = Validation(f, 1) /\ TypeOK /\ faults \in Nat /\ Held(cl)
  BY Parts DEF Ambiguous, IInv, ClientOK
<1>2. Held(Marked(cl, c, TRUE)) /\ SameSlot(cl, Marked(cl, c, TRUE))
  BY <1>1, MarkedHeld
<1>3. Held(m) /\ SameSlot(cl, m)
  BY <1>2, CardHeld DEF SameSlot
<1>4. Held(Uncertified(m)) /\ SameSlot(cl, Uncertified(m))
  <2> HIDE DEF m
  <2> QED BY <1>3, CardHeld DEF SameSlot
<1>5. Held(cl') /\ Settling(c, cl')
  BY <1>1, <1>4 DEF Settling, SameSlot
<1>6. (disk' = disk \/ disk' = Image(cl')) /\ faults' \in Nat
  BY <1>1, Saved
<1>7. Sound'
  BY <1>5, <1>6, Handled
<1>8. FlowOK([Idle EXCEPT !.pc = "recheck", !.id = c])
  BY Starts, CommandsAssumption DEF FlowOK, Idle, Steps
<1>9. FlowsOK'
  BY <1>1, <1>8, GotoOK
<1> QED BY <1>1, <1>7, <1>9, Starts

\* The invariant from its parts.
LEMMA Concludes ==
    ASSUME Sound', SrvOK', RoundOK(round'), ValOK(val'), FlowsOK', ListsOK'
    PROVE  IInv'
BY Parts DEF Sound, IInv

\* What a step that leaves a part alone keeps of it.
LEMMA Keeps ==
    ASSUME IInv
    PROVE  /\ UNCHANGED <<srv, saved>> => SrvOK'
           /\ UNCHANGED round => RoundOK(round')
           /\ UNCHANGED val => ValOK(val')
           /\ UNCHANGED flow => FlowsOK'
           /\ UNCHANGED <<late, missed>> => ListsOK'
BY Parts DEF IInv, SrvOK, FlowsOK, ListsOK

-----------------------------------------------------------------------------
(* The daemon's steps.                                                      *)

\* submitDecisionTransaction answers and records within the types.
LEMMA SubmitOK ==
    ASSUME TypeOK, NEW c \in Commands
    PROVE  /\ AnswerTo(c) \in Answers /\ Refusal \in Answers
           /\ Submit(c) \/ Refuses(c) => srv' \in [epoch : Nat \ {0}, rev : Nat, item : Item,
                                     recorded : Records]
<1>1. /\ srv \in [epoch : Nat \ {0}, rev : Nat, item : Item, recorded : Records]
      /\ sent[c].body \in Bodies \cup {None}
  BY Parts DEF SrvOK, SentOK
<1>2. srv.item \in Item /\ srv.rev \in Nat /\ srv.recorded \in Records
  BY <1>1
<1>3. srv.recorded[c].rev \in Nat
  BY <1>2 DEF Records
<1>4. AnswerTo(c) \in Answers /\ Refusal \in Answers
  <2>1. \A k \in {"ok", "refused", "conflict"}, r \in Nat, i \in Item :
           Answer(k, 0, r, i) \in Answers
    BY DEF Answer, Answers
  <2>2. Refusal \in Answers
    BY <2>1, Defaults DEF Refusal
  <2>3. CASE Recorded(c)
    <3>1. AnswerTo(c) = Answer("ok", 0, srv.recorded[c].rev, NoItem)
      BY <2>3 DEF AnswerTo
    <3> QED BY <3>1, <2>1, <2>2, <1>3, Defaults
  <2>4. CASE ~Recorded(c) /\ srv.item.ver = 0
    <3>1. AnswerTo(c) = Refusal
      BY <2>4 DEF AnswerTo
    <3> QED BY <3>1, <2>2
  <2>5. CASE ~Recorded(c) /\ srv.item.ver # 0 /\ ~Binds(c)
    <3>1. AnswerTo(c) = Answer("conflict", 0, 0, srv.item)
      BY <2>5 DEF AnswerTo
    <3> QED BY <3>1, <2>1, <2>2, <1>2
  <2>6. CASE ~Recorded(c) /\ srv.item.ver # 0 /\ Binds(c)
    <3>1. AnswerTo(c) = Answer("ok", 0, srv.rev + 1, NoItem)
      BY <2>6 DEF AnswerTo
    <3>2. srv.rev + 1 \in Nat
      BY <1>2
    <3> QED BY <3>1, <3>2, <2>1, <2>2, Defaults
  <2> QED BY <2>3, <2>4, <2>5, <2>6
<1>5. ASSUME Submit(c) \/ Refuses(c)
      PROVE  srv' \in [epoch : Nat \ {0}, rev : Nat, item : Item, recorded : Records]
  <2>1. Concluded(srv.item, c) \in Item
    <3>1. srv.item.ver + 1 \in Nat \ {0} /\ srv.rev + 1 \in Nat
      BY <1>2 DEF Item
    <3>2. [srv.item EXCEPT !.ver = srv.item.ver + 1, !.open = FALSE,
                           !.asof = srv.rev + 1] \in Item
      BY <1>2, <3>1 DEF Item
    <3> QED BY <1>2, <3>2 DEF Concluded
  <2>2. [srv.recorded EXCEPT ![c] = [rev |-> srv.rev + 1, body |-> sent[c].body]] \in Records
    BY <1>1, <1>2 DEF Records
  <2> DEFINE i == Concluded(srv.item, c)
             k == [srv.recorded EXCEPT ![c] = [rev |-> srv.rev + 1, body |-> sent[c].body]]
  <2>3. CASE UNCHANGED srv
    BY <2>3, <1>1
  <2>4. CASE srv' = [srv EXCEPT !.rev = srv.rev + 1, !.item = i, !.recorded = k]
    <3> HIDE DEF i, k
    <3>1. i \in Item /\ k \in Records
      BY <2>1, <2>2 DEF i, k
    <3>2. srv.rev + 1 \in Nat
      BY <1>2
    <3>3. srv' = [epoch |-> srv.epoch, rev |-> srv.rev + 1, item |-> i, recorded |-> k]
      BY <2>4, <1>1
    <3> QED BY <3>1, <3>2, <3>3, <1>1
  <2>5. UNCHANGED srv \/ srv' = [srv EXCEPT !.rev = srv.rev + 1, !.item = i, !.recorded = k]
    BY <1>5, <1>1 DEF Submit, Refuses
  <2> QED BY <2>3, <2>4, <2>5
<1> QED BY <1>4, <1>5

LEMMA ServerSteps ==
    ASSUME IInv, Server
    PROVE  IInv'
<1>0. TypeOK /\ SrvOK /\ ListsOK /\ faults \in Nat
  BY Parts DEF IInv
<1>1. ASSUME NEW b \in Bodies, NEW o \in BOOLEAN, Advance(b, o) PROVE IInv'
  <2>1. Sound' /\ RoundOK(round') /\ ValOK(val') /\ FlowsOK' /\ ListsOK'
    BY <1>0, <1>1, Untouched, Keeps DEF Advance, told
  <2>2. [ver |-> srv.item.ver + 1, body |-> b, open |-> o, asof |-> srv.rev + 1] \in Item
    BY <1>0 DEF SrvOK, Item
  <2> DEFINE i == [ver |-> srv.item.ver + 1, body |-> b, open |-> o, asof |-> srv.rev + 1]
  <2>3. SrvOK'
    <3>1. srv' = [srv EXCEPT !.rev = srv.rev + 1, !.item = i] /\ saved' = saved
      BY <1>0, <1>1 DEF SrvOK, Advance
    <3>2. i \in Item /\ srv.rev + 1 \in Nat
      BY <2>2, <1>0 DEF SrvOK
    <3> HIDE DEF i
    <3>3. srv' = [epoch |-> srv.epoch, rev |-> srv.rev + 1, item |-> i,
                  recorded |-> srv.recorded]
      BY <1>0, <3>1 DEF SrvOK
    <3> QED BY <1>0, <3>1, <3>2, <3>3 DEF SrvOK
  <2> QED BY <2>1, <2>3, Concludes
<1>2. CASE Checkpoint
  <2>1. Sound' /\ RoundOK(round') /\ ValOK(val') /\ FlowsOK' /\ ListsOK'
    BY <1>0, <1>2, Untouched, Keeps DEF Checkpoint, told
  <2>2. SrvOK'
    BY <1>0, <1>2 DEF SrvOK, Checkpoint
  <2> QED BY <2>1, <2>2, Concludes
<1>3. CASE Restore
  <2>1. Sound' /\ RoundOK(round') /\ ValOK(val') /\ FlowsOK'
    BY <1>0, <1>3, Untouched, Keeps DEF Restore, told
  <2>2. SrvOK'
    BY <1>0, <1>3 DEF SrvOK, Restore
  <2>3. ListsOK'
    BY <1>0, <1>3 DEF ListsOK, Restore, told
  <2> QED BY <2>1, <2>2, <2>3, Concludes
<1>4. ASSUME NEW c \in Commands, Arrive(c) PROVE IInv'
  <2>1. Sound' /\ RoundOK(round') /\ ValOK(val') /\ FlowsOK'
    BY <1>0, <1>4, Untouched, Keeps DEF Arrive, told
  <2>2. SrvOK'
    BY <1>0, <1>4, SubmitOK DEF SrvOK, Arrive
  <2>3. ListsOK'
    BY <1>0, <1>4 DEF ListsOK, Arrive, told
  <2> QED BY <2>1, <2>2, <2>3, Concludes
<1> QED BY <1>1, <1>2, <1>3, <1>4 DEF Server

-----------------------------------------------------------------------------
(* Answers, and their loss.                                                 *)

\* A flow that waits for an answer may be given one.
LEMMA AnsweredOK ==
    ASSUME TypeOK, NEW f \in Flows, NEW a \in Answers
    PROVE  FlowOK([flow[f] EXCEPT !.ans = a])
<1>1. FlowOK(flow[f])
  BY Reads
<1> QED BY <1>1 DEF FlowOK

LEMMA ServeSteps ==
    ASSUME IInv, Serve
    PROVE  IInv'
<1>0. TypeOK /\ SrvOK /\ ValOK(val) /\ RoundOK(round) /\ faults \in Nat /\ srv.item \in Item
  BY Parts, Reads DEF IInv
<1>1. CASE ServeValidation
  <2>1. Sound' /\ SrvOK' /\ RoundOK(round') /\ FlowsOK' /\ ListsOK'
    BY <1>0, <1>1, Untouched, Keeps DEF ServeValidation, told, daemon
  <2>2. Answer("ok", 0, 0, srv.item) \in Answers
    BY <1>0 DEF Answer, Answers
  <2>3. ValOK(val')
    BY <1>0, <1>1, <2>2 DEF ServeValidation, ValOK
  <2> QED BY <2>1, <2>3, Concludes
<1>2. CASE ServeBootstrap
  <2>1. Sound' /\ SrvOK' /\ ValOK(val') /\ FlowsOK' /\ ListsOK'
    BY <1>0, <1>2, Untouched, Keeps DEF ServeBootstrap, told, daemon
  <2>2. /\ Answer("ok", srv.epoch, srv.rev, srv.item) \in Answers
        /\ Answer("ok", srv.epoch, srv.rev, srv.item).epoch # 0
    BY <1>0 DEF SrvOK, Answer, Answers
  <2>3. RoundOK(round')
    BY <1>0, <1>2, <2>2 DEF ServeBootstrap, RoundOK
  <2> QED BY <2>1, <2>3, Concludes
<1>3. ASSUME NEW f \in Flows, ServePost(f) PROVE IInv'
  <2>1. Sound' /\ RoundOK(round') /\ ValOK(val') /\ ListsOK'
    BY <1>0, <1>3, Untouched, Keeps DEF ServePost, told
  <2>2. flow[f].id \in Commands
    BY <1>0, <1>3, Reads DEF ServePost, Posts
  <2>3. SrvOK'
    BY <1>0, <1>3, <2>2, SubmitOK DEF ServePost, SrvOK
  <2>4. FlowsOK'
    BY <1>0, <1>3, <2>2, SubmitOK, AnsweredOK, GotoOK DEF ServePost
  <2> QED BY <2>1, <2>3, <2>4, Concludes
<1>4. ASSUME NEW f \in Flows, ServeRefetch(f) PROVE IInv'
  <2>1. Sound' /\ SrvOK' /\ RoundOK(round') /\ ValOK(val') /\ ListsOK'
    BY <1>0, <1>4, Untouched, Keeps DEF ServeRefetch, told
  <2>2. Answer("ok", 0, 0, srv.item) \in Answers
    BY <1>0 DEF Answer, Answers
  <2>3. FlowsOK'
    BY <1>0, <1>4, <2>2, AnsweredOK, GotoOK DEF ServeRefetch
  <2> QED BY <2>1, <2>3, Concludes
<1> QED BY <1>1, <1>2, <1>3, <1>4 DEF Serve

\* A failed round or validation, a refusal, a lost answer, a crash: the slot is
\* kept, and a relaunch finds in the cache file what was sent.
LEMMA RelaunchStep ==
    ASSUME IInv, Relaunch
    PROVE  IInv'
<1>0. TypeOK /\ SrvOK /\ ClientOK /\ ListsOK /\ faults \in Nat /\ SentOK /\ VerdictOK
  BY Parts DEF IInv
<1>1. SrvOK'
  BY <1>0 DEF Relaunch, SrvOK
<1>2. Held(cl') /\ cl'.slot.id = disk.slot
  BY <1>0 DEF Relaunch, ClientOK, DiskOK, Held, Client, Slot
<1>3. DiskOK(disk') /\ faults' \in Nat
  BY <1>0 DEF Relaunch, ClientOK, Fault
<1>4. VerdictOK' /\ SentOK'
  BY <1>0 DEF Relaunch, VerdictOK, SentOK
<1>5. SentIsRemembered'
  <2> SUFFICES ASSUME NEW d \in Commands, sent'[d].ver # 0, verdict'[d] = "none"
               PROVE  cl'.slot.id = d /\ disk'.slot = d
    BY DEF SentIsRemembered
  <2>1. d = disk.slot \/ verdict[d] = "none"
    BY DEF Relaunch
  <2>2. disk.slot = d
    BY <2>1 DEF IInv, SentIsRemembered, Relaunch
  <2> QED BY <2>2, <1>2 DEF Relaunch
<1>6. RoundOK(round') /\ ValOK(val')
  BY Starts DEF Relaunch
<1>7. FlowsOK'
  BY Starts DEF Relaunch, FlowsOK, FlowOK
<1>8. ListsOK'
  <2>1. \A g \in Flows : flow[g].pc \in Posts => flow[g].id \in Commands
    BY <1>0, Reads DEF Posts
  <2> QED BY <1>0, <2>1 DEF Relaunch, ListsOK
<1> QED BY <1>1, <1>2, <1>3, <1>4, <1>5, <1>6, <1>7, <1>8, Concludes DEF Sound, ClientOK

LEMMA FailureSteps ==
    ASSUME IInv, Failures
    PROVE  IInv'
<1>0. TypeOK /\ ListsOK /\ faults \in Nat /\ Held(cl)
  BY Parts DEF IInv, ClientOK
<1>1. CASE FailRound
  <2>1. SrvOK' /\ ValOK(val') /\ FlowsOK' /\ ListsOK' /\ RoundOK(round')
    BY <1>1, Keeps, Starts DEF FailRound, told, daemon
  <2>2. Held(cl') /\ cl'.slot = cl.slot /\ disk' = disk /\ verdict' = verdict /\ sent' = sent
    BY <1>0, <1>1, CardHeld DEF FailRound, told
  <2>3. faults' \in Nat
    BY <1>0, <1>1 DEF FailRound, Fault
  <2>4. ClientOK' /\ VerdictOK' /\ SentOK' /\ SentIsRemembered'
    BY <2>2, Parts DEF IInv, ClientOK, VerdictOK, SentOK, SentIsRemembered
  <2> QED BY <2>1, <2>3, <2>4, Concludes DEF Sound
<1>2. CASE FailValidation
  <2>1. SrvOK' /\ ValOK(val') /\ FlowsOK' /\ ListsOK' /\ RoundOK(round')
    BY <1>2, Keeps, Starts DEF FailValidation, told, daemon
  <2>2. Held(cl') /\ cl'.slot = cl.slot /\ disk' = disk /\ verdict' = verdict /\ sent' = sent
    BY <1>0, <1>2, CardHeld DEF FailValidation, told
  <2>3. faults' \in Nat
    BY <1>0, <1>2 DEF FailValidation, Fault
  <2>4. ClientOK' /\ VerdictOK' /\ SentOK' /\ SentIsRemembered'
    BY <2>2, Parts DEF IInv, ClientOK, VerdictOK, SentOK, SentIsRemembered
  <2> QED BY <2>1, <2>3, <2>4, Concludes DEF Sound
<1>3. ASSUME NEW f \in Flows, LoseAnswer(f) PROVE IInv'
  <2>1. faults' \in Nat
    BY <1>0, <1>3 DEF LoseAnswer, Fault
  <2>2. Sound' /\ SrvOK' /\ RoundOK(round') /\ ValOK(val')
    BY <1>3, <2>1, Untouched, Keeps DEF LoseAnswer, told
  <2>3. FlowsOK'
    BY <1>0, <1>3, Defaults, AnsweredOK, GotoOK DEF LoseAnswer
  <2>4. flow[f].pc \in Posts => flow[f].id \in Commands
    BY <1>0, Reads DEF Posts
  <2>5. ListsOK'
    BY <1>0, <1>3, <2>4 DEF LoseAnswer, ListsOK, told
  <2> QED BY <2>2, <2>3, <2>5, Concludes
<1>4. ASSUME NEW f \in Flows, Deny(f) PROVE IInv'
  <2>1. faults' \in Nat
    BY <1>0, <1>4 DEF Deny, Fault
  <2>2. Sound' /\ SrvOK' /\ RoundOK(round') /\ ValOK(val') /\ ListsOK'
    BY <1>4, <2>1, Untouched, Keeps DEF Deny, told, daemon
  <2>3. FlowsOK'
    BY <1>0, <1>4, Defaults, AnsweredOK, GotoOK DEF Deny
  <2> QED BY <2>2, <2>3, Concludes
<1> QED BY <1>1, <1>2, <1>3, <1>4, RelaunchStep DEF Failures

-----------------------------------------------------------------------------
(* Rounds and validations: SyncCoordinator and DecisionModel.validate.      *)

\* Rounds and validations tell the operator nothing and keep the slot.
LEMMA KeptSound ==
    ASSUME IInv, Held(cl'), SameSlot(cl, cl'), UNCHANGED told,
           disk' = disk \/ disk' = Image(cl'), faults' \in Nat
    PROVE  Sound'
<1>1. verdict' = verdict /\ sent' = sent
  BY DEF told
<1>2. ClientOK /\ VerdictOK /\ SentOK
  BY Parts DEF IInv
<1>3. ClientOK'
  BY <1>2, ImageOK DEF ClientOK
<1>4. VerdictOK' /\ SentOK'
  BY <1>1, <1>2 DEF VerdictOK, SentOK
<1>5. disk'.slot = disk.slot \/ disk'.slot = cl.slot.id
  BY ImageOK DEF SameSlot
<1>6. SentIsRemembered'
  BY <1>1, <1>5 DEF IInv, SentIsRemembered, SameSlot
<1> QED BY <1>3, <1>4, <1>6 DEF Sound

LEMMA EvictRequestsOK ==
    ASSUME TypeOK, EvictRequests
    PROVE  ValOK(val') /\ FlowsOK'
<1>1. ValOK(val) /\ FlowsOK
  BY Parts
<1>2. ValOK(val')
  BY <1>1 DEF EvictRequests, ValOK
<1>3. ASSUME NEW f \in Flows PROVE FlowOK([flow[f] EXCEPT !.cur = FALSE])
  BY Reads DEF FlowOK
<1>4. FlowsOK'
  BY <1>3 DEF EvictRequests, FlowsOK, FlowOK
<1> QED BY <1>2, <1>4

LEMMA SyncSteps ==
    ASSUME IInv, Sync
    PROVE  IInv'
<1>0. /\ TypeOK /\ SrvOK /\ ValOK(val) /\ FlowsOK /\ RoundOK(round) /\ faults \in Nat
      /\ Held(cl) /\ round.ans \in Answers /\ round.ans.rev \in Nat
  BY Parts, Reads DEF IInv, Answers
<1>1. CASE StartRound
  <2>1. Sound' /\ SrvOK' /\ ValOK(val') /\ FlowsOK' /\ ListsOK'
    BY <1>0, <1>1, Untouched, Keeps DEF StartRound, told, daemon
  <2>2. /\ Answer("ok", srv.epoch, srv.rev, NoItem) \in Answers
        /\ Answer("ok", srv.epoch, srv.rev, NoItem).epoch # 0
    BY <1>0, Defaults DEF SrvOK, Answer, Answers
  <2>3. RoundOK(round')
    BY <1>1, <2>2 DEF StartRound, RoundOK
  <2> QED BY <2>1, <2>3, Concludes
<1>2. CASE Heartbeat
  <2>1. SrvOK' /\ ListsOK' /\ UNCHANGED told
    BY <1>2, Keeps DEF Heartbeat, daemon, told
  <2>2. CASE FirstSync
    <3>1. Sound' /\ ValOK(val') /\ FlowsOK' /\ RoundOK(round')
      BY <1>0, <2>1, <2>2, Untouched, Keeps, Starts DEF FirstSync, told
    <3> QED BY <2>1, <3>1, Concludes
  <2>3. CASE NewEpoch
    <3>1. cl' = Evicted(cl) /\ Saves(cl') /\ EvictRequests /\ round' = Asking("bootstrap")
      BY <2>3 DEF NewEpoch
    <3>2. Held(cl') /\ SameSlot(cl, cl')
      BY <1>0, <3>1, EvictedHeld DEF SameSlot
    <3>3. (disk' = disk \/ disk' = Image(cl')) /\ faults' \in Nat
      BY <1>0, <3>1, Saved
    <3>4. Sound'
      BY <2>1, <3>2, <3>3, KeptSound
    <3> QED BY <1>0, <2>1, <3>1, <3>4, EvictRequestsOK, Starts, Concludes
  <2>4. ASSUME NEW drift \in BOOLEAN, SameEpoch(drift) PROVE IInv'
    <3> DEFINE m == Observed(cl, round.ans.rev)
    <3>1. Held(m) /\ m.slot = cl.slot
      BY <1>0, ObservedHeld
    <3>2. /\ cl' = m \/ cl' = [m EXCEPT !.fresh = "fresh"]
          /\ UNCHANGED <<disk, faults>> \/ Saves(cl')
          /\ round' = Asking("bootstrap") \/ round' = NoRound
          /\ UNCHANGED <<val, flow>>
      BY <2>4 DEF SameEpoch
    <3> HIDE DEF m
    <3>3. Held(cl') /\ SameSlot(cl, cl')
      BY <3>1, <3>2, CardHeld DEF SameSlot
    <3>4. (disk' = disk \/ disk' = Image(cl')) /\ faults' \in Nat
      BY <1>0, <3>2, Saved
    <3>5. Sound'
      BY <2>1, <3>3, <3>4, KeptSound
    <3> QED BY <2>1, <3>2, <3>5, Keeps, Starts, Concludes
  <2> QED BY <1>2, <2>2, <2>3, <2>4 DEF Heartbeat
<1>3. CASE Bootstrap
  <2>1. SrvOK' /\ ListsOK' /\ UNCHANGED told
    BY <1>3, Keeps DEF Bootstrap, daemon, told
  <2>2. CASE Refetch
    <3>1. Held(cl') /\ SameSlot(cl, cl')
      BY <1>0, <2>2, CardHeld DEF Refetch, SameSlot
    <3>2. disk' = disk /\ faults' \in Nat /\ UNCHANGED <<val, flow>> /\ round' = Asking("bootstrap")
      BY <1>0, <2>2 DEF Refetch
    <3>3. Sound'
      BY <2>1, <3>1, <3>2, KeptSound
    <3> QED BY <2>1, <3>2, <3>3, Keeps, Starts, Concludes
  <2>3. CASE Adopt
    <3>1. /\ cl' = Adopted(cl, round.ans) /\ Saves(cl') /\ round' = NoRound
          /\ EvictRequests \/ UNCHANGED <<val, flow>>
      BY <2>3 DEF Adopt
    <3>2. round.ans.epoch # 0
      BY <1>0, <1>3 DEF Bootstrap, RoundOK
    <3>3. Held(cl') /\ SameSlot(cl, cl')
      BY <1>0, <3>1, <3>2, AdoptedHeld DEF SameSlot
    <3>4. (disk' = disk \/ disk' = Image(cl')) /\ faults' \in Nat
      BY <1>0, <3>1, Saved
    <3>5. Sound'
      BY <2>1, <3>3, <3>4, KeptSound
    <3>6. ValOK(val') /\ FlowsOK'
      BY <1>0, <3>1, EvictRequestsOK, Keeps
    <3> QED BY <2>1, <3>1, <3>5, <3>6, Starts, Concludes
  <2> QED BY <1>3, <2>2, <2>3 DEF Bootstrap
<1> QED BY <1>1, <1>2, <1>3 DEF Sync

LEMMA ValidationSteps ==
    ASSUME IInv, ViewValidates \/ Validate
    PROVE  IInv'
<1>0. /\ TypeOK /\ ValOK(val) /\ faults \in Nat /\ Held(cl)
      /\ val.ans \in Answers /\ val.ans.item \in Item
  BY Parts, Reads DEF IInv, Answers
<1>1. CASE ViewValidates
  <2>1. SrvOK' /\ ListsOK' /\ RoundOK(round') /\ FlowsOK' /\ UNCHANGED told
    BY <1>1, Keeps DEF ViewValidates, daemon, told
  <2>2. Held(cl') /\ SameSlot(cl, cl')
    BY <1>0, <1>1, CardHeld DEF ViewValidates, SameSlot
  <2>3. disk' = disk /\ faults' \in Nat /\ ValOK(val')
    BY <1>0, <1>1, Starts DEF ViewValidates
  <2> QED BY <2>1, <2>2, <2>3, KeptSound, Concludes
<1>2. CASE Validate
  <2>1. SrvOK' /\ ListsOK' /\ RoundOK(round') /\ FlowsOK' /\ UNCHANGED told
    BY <1>2, Keeps DEF Validate, daemon, told
  <2>2. CASE CertifyRow
    <3> DEFINE n == Showing(cl, val.ans.item)
               m == Certified(n)
    <3>1. Held(n) /\ n.slot = cl.slot
      BY <1>0, ShowingHeld
    <3>2. Held(m) /\ m.slot = cl.slot
      <4> HIDE DEF n
      <4> QED BY <3>1, CardHeld
    <3>3. /\ cl' = m \/ cl' = InPhase(m, "idle")
          /\ Saves(cl') /\ val' = NoValidation
      BY <2>2 DEF CertifyRow
    <3> HIDE DEF m
    <3>4. Held(cl') /\ SameSlot(cl, cl')
      BY <3>2, <3>3, CardHeld DEF SameSlot
    <3>5. (disk' = disk \/ disk' = Image(cl')) /\ faults' \in Nat
      BY <1>0, <3>3, Saved
    <3> QED BY <2>1, <3>3, <3>4, <3>5, KeptSound, Starts, Concludes
  <2>3. CASE ReadAgain
    <3>1. Held(cl') /\ SameSlot(cl, cl')
      BY <1>0, <2>3, CardHeld DEF ReadAgain, SameSlot
    <3>2. disk' = disk /\ faults' \in Nat
      BY <1>0, <2>3 DEF ReadAgain
    <3>3. val.owner \in Flows \cup {None}
      BY <1>0 DEF ValOK
    <3>4. ValOK(val')
      BY <2>3, <3>3, Starts DEF ReadAgain
    <3> QED BY <2>1, <3>1, <3>2, <3>4, KeptSound, Concludes
  <2>4. CASE NotFound
    <3>1. Held(cl') /\ SameSlot(cl, cl')
      BY <1>0, <2>4, CardHeld DEF NotFound, SameSlot
    <3>2. disk' = disk /\ faults' \in Nat /\ ValOK(val')
      BY <1>0, <2>4, Starts DEF NotFound
    <3> QED BY <2>1, <3>1, <3>2, KeptSound, Concludes
  <2> QED BY <1>2, <2>2, <2>3, <2>4 DEF Validate
<1> QED BY <1>1, <1>2

-----------------------------------------------------------------------------
(* Decisions and retries begin.                                             *)

\* registerPendingCommand: the slot was empty, so every earlier command has its
\* verdict, and the new one is in the file before it is sent.
LEMMA DecideStep ==
    ASSUME IInv, NEW f \in Flows, NEW c \in Commands, Decide(f, c)
    PROVE  IInv'
<1>0. /\ TypeOK /\ ClientOK /\ VerdictOK /\ SentOK /\ faults \in Nat /\ Held(cl)
      /\ cl.slot = NoSlot /\ c # None
  BY Parts, CommandsAssumption DEF IInv, ClientOK, Decide, ActionsEnabled
<1>1. SrvOK' /\ RoundOK(round') /\ ValOK(val') /\ ListsOK'
  BY Keeps DEF Decide, daemon
<1>2. Held(cl') /\ cl'.slot.id = c
  BY <1>0 DEF Decide, Held, Client, Slot
<1>3. DiskOK(disk') /\ disk'.slot = c
  BY <1>2, ImageOK DEF Decide, Registered
<1>4. [ver |-> cl.row.ver, body |-> cl.row.body, epoch |-> cl.cursors.epoch]
        \in [ver : Nat, body : Bodies \cup {None}, epoch : Nat]
  BY <1>0 DEF Held, Client, Item, Cursors
<1>5. SentOK' /\ \A d \in Commands : d # c => sent'[d] = sent[d]
  BY <1>0, <1>4 DEF Decide, SentOK
<1>6. VerdictOK' /\ faults' \in Nat
  BY <1>0 DEF Decide, VerdictOK
<1>7. SentIsRemembered'
  <2> SUFFICES ASSUME NEW d \in Commands, sent'[d].ver # 0, verdict'[d] = "none", d # c
               PROVE  FALSE
    BY <1>2, <1>3 DEF SentIsRemembered
  <2>1. sent[d].ver # 0 /\ verdict[d] = "none"
    BY <1>5 DEF Decide
  <2>2. cl.slot.id = d
    BY <2>1 DEF IInv, SentIsRemembered
  <2> QED BY <2>2, <1>0, Defaults, CommandsAssumption
<1>8. FlowsOK'
  BY <1>0, GotoOK, Starts DEF Decide, Posts
<1> QED BY <1>1, <1>2, <1>3, <1>5, <1>6, <1>7, <1>8, Concludes DEF Sound, ClientOK

LEMMA RetryStep ==
    ASSUME IInv, NEW f \in Flows, Retry(f)
    PROVE  IInv'
<1> DEFINE c == cl.slot.id
           m == Marked(cl, c, FALSE)
<1>0. TypeOK /\ faults \in Nat /\ Held(cl) /\ cl.slot.unresolved
  BY Parts DEF IInv, ClientOK, Retry
<1>1. c \in Commands
  BY <1>0 DEF Held, Client, Slot
<1>2. Held(m) /\ SameSlot(cl, m)
  BY <1>0, <1>1, MarkedHeld
<1>3. cl' = InPhase(m, "submitting") /\ Saves(cl') /\ Goto(f, Sending("retry", c))
  BY DEF Retry
<1>4. SrvOK' /\ RoundOK(round') /\ ValOK(val') /\ ListsOK' /\ UNCHANGED told
  BY Keeps DEF Retry, daemon, told
<1>5. FlowsOK'
  BY <1>0, <1>1, <1>3, GotoOK, Starts DEF Posts
<1> HIDE DEF m
<1>6. Held(cl') /\ SameSlot(cl, cl')
  BY <1>2, <1>3, CardHeld DEF SameSlot
<1>7. (disk' = disk \/ disk' = Image(cl')) /\ faults' \in Nat
  BY <1>0, <1>3, Saved
<1> QED BY <1>4, <1>5, <1>6, <1>7, KeptSound, Concludes

-----------------------------------------------------------------------------
(* Decisions and resends go on.                                             *)

\* Clearing the slot of the command the operator is told about settles it.
LEMMA Releases ==
    ASSUME NEW m, Held(m), SameSlot(cl, m), NEW c \in Commands,
           NEW v \in {"applied", "rejected", "unrecorded"}, Told(c, v)
    PROVE  Held(Cleared(m, c)) /\ Settling(c, Cleared(m, c))
BY ClearedHeld DEF SameSlot, Settling

\* What a handler does to the card afterwards leaves the settling as it is.
LEMMA Then ==
    ASSUME NEW c \in Commands, NEW m, Held(m), Settling(c, m)
    PROVE  /\ Held(Certified(m)) /\ Settling(c, Certified(m))
           /\ Held(Uncertified(m)) /\ Settling(c, Uncertified(m))
           /\ \A p \in {"idle", "submitting", "applied"} :
                 Held(InPhase(m, p)) /\ Settling(c, InPhase(m, p))
           /\ \A s \in {"unvalidated", "fresh", "failing"} :
                 Held([m EXCEPT !.fresh = s]) /\ Settling(c, [m EXCEPT !.fresh = s])
           /\ \A i \in Item : Held(Showing(m, i)) /\ Settling(c, Showing(m, i))
<1>1. \A n : n.slot = m.slot => Settling(c, n)
  BY DEF Settling, SameSlot
<1>2. ASSUME NEW i \in Item PROVE Held(Showing(m, i)) /\ Settling(c, Showing(m, i))
  BY <1>1, ShowingHeld
<1>3. /\ Held(Certified(m)) /\ Settling(c, Certified(m))
      /\ Held(Uncertified(m)) /\ Settling(c, Uncertified(m))
  BY <1>1, CardHeld
<1>4. ASSUME NEW p \in {"idle", "submitting", "applied"}
      PROVE  Held(InPhase(m, p)) /\ Settling(c, InPhase(m, p))
  BY <1>1, CardHeld
<1>5. ASSUME NEW s \in {"unvalidated", "fresh", "failing"}
      PROVE  Held([m EXCEPT !.fresh = s]) /\ Settling(c, [m EXCEPT !.fresh = s])
  BY <1>1, CardHeld
<1> QED BY <1>2, <1>3, <1>4, <1>5

\* The answered first send: accepted, in conflict, refused or lost.
LEMMA SubmittedStep ==
    ASSUME IInv, NEW f \in Flows, Submitted(f)
    PROVE  IInv'
<1> DEFINE c == flow[f].id
           i == flow[f].ans.item
<1>0. /\ TypeOK /\ Held(cl) /\ c \in Commands /\ i \in Item /\ flow[f].ans.rev \in Nat
      /\ FlowOK(flow[f]) /\ faults \in Nat
  BY Parts, Reads DEF IInv, Submitted, Arrived
<1>1. SrvOK' /\ RoundOK(round') /\ ListsOK' /\ sent' = sent
  BY Keeps, Parts DEF Submitted, daemon, IInv, ListsOK
<1> HIDE DEF c, i
<1>2. CASE Accepted(f)
  <2>1. CASE Ambiguous(f)
    BY <1>0, <1>1, <2>1, AmbiguousSound, Concludes DEF c
  <2>2. CASE /\ Goto(f, [flow[f] EXCEPT !.pc = "drain", !.rev = flow[f].ans.rev,
                                        !.ans = Pending])
             /\ UNCHANGED <<cl, disk, val, verdict, faults>>
    <3>1. FlowOK([flow[f] EXCEPT !.pc = "drain", !.rev = flow[f].ans.rev, !.ans = Pending])
      BY <1>0, Defaults, CommandsAssumption DEF FlowOK, Steps, Drains, c
    <3>2. FlowsOK'
      BY <1>0, <2>2, <3>1, GotoOK
    <3>3. Sound' /\ ValOK(val')
      BY <1>0, <1>1, <2>2, Untouched, Keeps
    <3> QED BY <1>1, <3>2, <3>3, Concludes
  <2> QED BY <1>2, <2>1, <2>2 DEF Accepted
<1>3. CASE Conflicted(f)
  <2> DEFINE m == Cleared(cl, c)
  <2>1. Told(c, "rejected")
    BY <1>3 DEF Conflicted, c
  <2>2. Held(m) /\ Settling(c, m)
    BY <1>0, <2>1, Releases DEF SameSlot
  <2>3. Ends(f, Replaced(m, i)) \/ ThenValidate(f, InPhase(m, "idle"))
    BY <1>3 DEF Conflicted, c, i
  <2> HIDE DEF m
  <2>4. Held(InPhase(m, "idle")) /\ Settling(c, InPhase(m, "idle"))
    BY <1>0, <2>2, Then
  <2>5. Held(Replaced(m, i)) /\ Settling(c, Replaced(m, i))
    <3>1. Held(Showing(m, i)) /\ Settling(c, Showing(m, i))
      BY <1>0, <2>2, Then
    <3>2. /\ Held(InPhase(Showing(m, i), "idle"))
          /\ Settling(c, InPhase(Showing(m, i), "idle"))
      BY <1>0, <3>1, Then
    <3> QED BY <1>0, <3>2, Then DEF Replaced
  <2>6. Sound' /\ FlowsOK' /\ ValOK(val')
    BY <1>0, <1>1, <2>3, <2>4, <2>5, EndsSound, ThenValidateSound
  <2> QED BY <1>1, <2>6, Concludes
<1>4. CASE Refused(f)
  <2> DEFINE n == Cleared(cl, c)
             m == InPhase(n, "idle")
  <2>1. Told(c, "rejected")
    BY <1>4 DEF Refused, c
  <2>2. Held(n) /\ Settling(c, n)
    BY <1>0, <2>1, Releases DEF SameSlot
  <2>3. ThenValidate(f, m) \/ Ends(f, [m EXCEPT !.fresh = "failing"])
    BY <1>4 DEF Refused, c
  <2>4. Held(m) /\ Settling(c, m)
    <3> HIDE DEF n
    <3> QED BY <1>0, <2>2, Then
  <2> HIDE DEF m
  <2>5. Held([m EXCEPT !.fresh = "failing"]) /\ Settling(c, [m EXCEPT !.fresh = "failing"])
    BY <1>0, <2>4, Then
  <2>6. Sound' /\ FlowsOK' /\ ValOK(val')
    BY <1>0, <1>1, <2>3, <2>4, <2>5, EndsSound, ThenValidateSound
  <2> QED BY <1>1, <2>6, Concludes
<1>5. CASE Unanswered(f)
  BY <1>0, <1>1, <1>5, AmbiguousSound, Concludes DEF Unanswered, c
<1> QED BY <1>2, <1>3, <1>4, <1>5 DEF Submitted

\* emitDecisionEvents has returned; only the flow moves.
LEMMA DrainedStep ==
    ASSUME IInv, NEW f \in Flows, Drained(f)
    PROVE  IInv'
<1>0. TypeOK /\ FlowOK(flow[f]) /\ ListsOK /\ faults \in Nat /\ flow[f].id \in Commands
  BY Parts, Reads DEF IInv, Drained
<1>1. Sound' /\ SrvOK' /\ RoundOK(round') /\ ValOK(val')
  BY <1>0, Untouched, Keeps DEF Drained, daemon
<1>2. FlowOK([flow[f] EXCEPT !.pc = "refetch", !.cur = TRUE])
  BY <1>0, CommandsAssumption DEF FlowOK, Steps
<1>3. FlowsOK'
  BY <1>0, <1>2, GotoOK DEF Drained
<1>4. ListsOK'
  BY <1>0 DEF Drained, Missing, ListsOK, daemon
<1> QED BY <1>1, <1>3, <1>4, Concludes

\* The confirming read settles an accepted command, or leaves it ambiguous.
LEMMA RefetchedStep ==
    ASSUME IInv, NEW f \in Flows, Refetched(f)
    PROVE  IInv'
<1> DEFINE c == flow[f].id
           i == flow[f].ans.item
           o == Observed(cl, flow[f].rev)
           m == Cleared(o, c)
<1>0. TypeOK /\ Held(cl) /\ c \in Commands /\ i \in Item /\ flow[f].rev \in Nat
  BY Parts, Reads DEF IInv, Refetched, Arrived
<1>1. SrvOK' /\ RoundOK(round') /\ ListsOK' /\ sent' = sent
  BY Keeps, Parts DEF Refetched, daemon, IInv, ListsOK
<1>2. CASE Ambiguous(f)
  BY <1>0, <1>1, <1>2, AmbiguousSound, Concludes
<1>3. CASE Confirm(f)
  <2>1. Held(o) /\ SameSlot(cl, o)
    BY <1>0, ObservedHeld DEF SameSlot
  <2>2. Told(c, "applied")
    BY <1>3 DEF Confirm
  <2>3. Held(m) /\ Settling(c, m)
    <3> HIDE DEF o, c
    <3> QED BY <1>0, <2>1, <2>2, Releases
  <2>4. \/ Ends(f, Uncertified(InPhase(m, "applied")))
        \/ ThenValidate(f, InPhase(m, "applied"))
        \/ Ends(f, InPhase(Showing(m, i), IF i.open THEN "idle" ELSE "applied"))
    BY <1>3 DEF Confirm
  <2> HIDE DEF m, i, c
  <2>5. Held(InPhase(m, "applied")) /\ Settling(c, InPhase(m, "applied"))
    BY <1>0, <2>3, Then
  <2>6. /\ Held(Uncertified(InPhase(m, "applied")))
        /\ Settling(c, Uncertified(InPhase(m, "applied")))
    BY <1>0, <2>5, Then
  <2>7. Held(Showing(m, i)) /\ Settling(c, Showing(m, i))
    BY <1>0, <2>3, Then
  <2>8. \A p \in {"idle", "applied"} :
           Held(InPhase(Showing(m, i), p)) /\ Settling(c, InPhase(Showing(m, i), p))
    BY <1>0, <2>7, Then
  <2>9. Sound' /\ FlowsOK' /\ ValOK(val')
    BY <1>0, <1>1, <2>4, <2>5, <2>6, <2>8, EndsSound, ThenValidateSound
  <2> QED BY <1>1, <2>9, Concludes
<1> QED BY <1>2, <1>3 DEF Refetched

LEMMA AutoReplayStep ==
    ASSUME IInv, NEW f \in Flows, AutoReplay(f)
    PROVE  IInv'
<1>0. TypeOK /\ flow[f].id \in Commands /\ faults \in Nat
  BY Parts, Reads DEF IInv, AutoReplay
<1>1. Sound' /\ SrvOK' /\ RoundOK(round') /\ ValOK(val') /\ ListsOK'
  BY <1>0, Untouched, Keeps DEF AutoReplay, daemon, told
<1>2. FlowsOK'
  BY <1>0, GotoOK, Starts DEF AutoReplay, Posts
<1> QED BY <1>1, <1>2, Concludes

\* The resend's outcomes: each keeps the slot or gives it up with a verdict.
LEMMA RecoveredStep ==
    ASSUME IInv, NEW f \in Flows, flow[f].id \in Commands, Recovered(f), sent' = sent
    PROVE  Sound' /\ FlowsOK' /\ ValOK(val')
<1> DEFINE c == flow[f].id
           o == Observed(cl, flow[f].ans.rev)
           m == InPhase(o, "applied")
<1>0. /\ TypeOK /\ Held(cl) /\ c \in Commands /\ faults \in Nat /\ ValOK(val)
      /\ flow[f].ans.rev \in Nat /\ FlowOK(flow[f])
  BY Parts, Reads DEF IInv
<1>1. Held(o) /\ o.slot = cl.slot
  BY <1>0, ObservedHeld
<1>2. Held(m) /\ SameSlot(cl, m)
  <2> HIDE DEF o
  <2> QED BY <1>1, CardHeld DEF SameSlot
<1>3. \/ Told(c, "applied") /\ ThenValidate(f, Cleared(m, c))
      \/ /\ cl' = m /\ Saves(m) /\ UNCHANGED <<val, verdict>>
         /\ Goto(f, [flow[f] EXCEPT !.ans = Pending,
                  !.pc = IF flow[f].pc = "auto" THEN "autodrain" ELSE "retrydrain"])
  BY DEF Recovered
<1> HIDE DEF m, c
<1>4. CASE Told(c, "applied") /\ ThenValidate(f, Cleared(m, c))
  <2>1. Held(Cleared(m, c)) /\ Settling(c, Cleared(m, c))
    BY <1>0, <1>2, <1>4, Releases
  <2> QED BY <1>0, <1>4, <2>1, ThenValidateSound
<1>5. CASE /\ cl' = m /\ Saves(m) /\ UNCHANGED <<val, verdict>>
           /\ Goto(f, [flow[f] EXCEPT !.ans = Pending,
                    !.pc = IF flow[f].pc = "auto" THEN "autodrain" ELSE "retrydrain"])
  <2>1. Held(cl') /\ Settling(c, cl') /\ Saves(cl')
    BY <1>2, <1>5 DEF Settling, SameSlot
  <2>2. (disk' = disk \/ disk' = Image(cl')) /\ faults' \in Nat
    BY <1>0, <2>1, Saved
  <2>3. Sound'
    BY <1>0, <2>1, <2>2, Handled
  <2>4. \A p \in Drains : FlowOK([flow[f] EXCEPT !.ans = Pending, !.pc = p])
    BY <1>0, Defaults, CommandsAssumption DEF FlowOK, Steps, Drains, c
  <2>5. FlowsOK'
    BY <1>0, <1>5, <2>4, GotoOK DEF Drains
  <2> QED BY <1>0, <1>5, <2>3, <2>5
<1> QED BY <1>3, <1>4, <1>5

LEMMA RebuttedStep ==
    ASSUME IInv, NEW f \in Flows, flow[f].id \in Commands, Rebutted(f), sent' = sent
    PROVE  Sound' /\ FlowsOK' /\ ValOK(val')
<1> DEFINE c == flow[f].id
           i == flow[f].ans.item
           s == IF Shows(f) THEN Showing(cl, i) ELSE cl
           m == Cleared(s, c)
           done == IF flow[f].pc = "auto" THEN m ELSE InPhase(m, "idle")
<1>0. TypeOK /\ Held(cl) /\ c \in Commands /\ i \in Item
  BY Parts, Reads DEF IInv
<1>1. Held(s) /\ SameSlot(cl, s)
  BY <1>0, ShowingHeld DEF SameSlot
<1>2. Told(c, "rejected")
  BY DEF Rebutted
<1>3. Held(m) /\ Settling(c, m)
  <2> HIDE DEF s, c
  <2> QED BY <1>0, <1>1, <1>2, Releases
<1>4. Ends(f, Certified(InPhase(m, "idle"))) \/ ThenValidate(f, done)
  BY DEF Rebutted
<1> HIDE DEF m, c
<1>5. Held(InPhase(m, "idle")) /\ Settling(c, InPhase(m, "idle"))
  BY <1>0, <1>3, Then
<1>6. Held(done) /\ Settling(c, done)
  BY <1>3, <1>5
<1>7. Held(Certified(InPhase(m, "idle"))) /\ Settling(c, Certified(InPhase(m, "idle")))
  BY <1>0, <1>5, Then
<1> HIDE DEF done
<1> QED BY <1>0, <1>4, <1>6, <1>7, EndsSound, ThenValidateSound

LEMMA RejectedStep ==
    ASSUME IInv, NEW f \in Flows, flow[f].id \in Commands, Rejected(f), sent' = sent
    PROVE  Sound' /\ FlowsOK' /\ ValOK(val')
<1> DEFINE c == flow[f].id
           m == Cleared(cl, c)
           done == IF flow[f].pc = "auto" THEN m ELSE InPhase(m, "idle")
<1>0. TypeOK /\ Held(cl) /\ c \in Commands
  BY Parts, Reads DEF IInv
<1>1. Told(c, "unrecorded") /\ ThenValidate(f, done)
  BY DEF Rejected
<1> HIDE DEF c
<1>2. Held(m) /\ Settling(c, m)
  BY <1>0, <1>1, Releases DEF SameSlot
<1> HIDE DEF m
<1>3. Held(InPhase(m, "idle")) /\ Settling(c, InPhase(m, "idle"))
  BY <1>0, <1>2, Then
<1>4. Held(done) /\ Settling(c, done)
  BY <1>2, <1>3
<1> HIDE DEF done
<1> QED BY <1>0, <1>1, <1>4, ThenValidateSound

LEMMA StrayStep ==
    ASSUME IInv, NEW f \in Flows, flow[f].id \in Commands, Stray(f), sent' = sent
    PROVE  Sound' /\ FlowsOK' /\ ValOK(val')
<1> DEFINE c == flow[f].id
           i == flow[f].ans.item
<1>0. TypeOK /\ Held(cl) /\ c \in Commands /\ i \in Item
  BY Parts, Reads DEF IInv
<1>1. PICK m \in {cl, [cl EXCEPT !.fresh = "failing"], Showing(cl, i)} : Inconclusive(f, m)
  BY DEF Stray
<1>2. Held(m) /\ m.slot = cl.slot
  <2>1. CASE m = cl
    BY <1>0, <2>1
  <2>2. CASE m = [cl EXCEPT !.fresh = "failing"]
    <3>1. /\ Held([cl EXCEPT !.fresh = "failing"])
          /\ [cl EXCEPT !.fresh = "failing"].slot = cl.slot
      BY <1>0, CardHeld
    <3> QED BY <3>1, <2>2
  <2>3. CASE m = Showing(cl, i)
    BY <1>0, <2>3, ShowingHeld
  <2> QED BY <1>1, <2>1, <2>2, <2>3
<1> DEFINE n == Marked(m, c, TRUE)
<1>3. verdict' = verdict /\ (Ends(f, m) \/ ThenValidate(f, InPhase(n, "idle")))
  BY <1>1 DEF Inconclusive
<1> HIDE DEF c
<1>4. Held(n) /\ SameSlot(m, n)
  BY <1>0, <1>2, MarkedHeld
<1> HIDE DEF n
<1>5. Held(InPhase(n, "idle")) /\ InPhase(n, "idle").slot = n.slot
  BY <1>4, CardHeld
<1>6. Settling(c, m) /\ Settling(c, InPhase(n, "idle"))
  BY <1>2, <1>3, <1>4, <1>5 DEF Settling, SameSlot
<1> QED BY <1>0, <1>2, <1>3, <1>5, <1>6, EndsSound, ThenValidateSound

LEMMA ReplaySteps ==
    ASSUME IInv, NEW f \in Flows, Replayed(f) \/ ReplayDrained(f)
    PROVE  IInv'
<1> DEFINE c == flow[f].id
<1>0. TypeOK /\ Held(cl) /\ c \in Commands /\ ListsOK
  BY Parts, Reads DEF IInv, Replayed, ReplayDrained, Arrived
<1>1. SrvOK' /\ RoundOK(round') /\ sent' = sent
  BY Keeps DEF Replayed, ReplayDrained, daemon
<1>2. CASE Replayed(f)
  <2>1. ListsOK'
    BY <1>0, <1>2 DEF Replayed, daemon, ListsOK
  <2>2. Recovered(f) \/ Rebutted(f) \/ Rejected(f) \/ Stray(f)
    BY <1>2 DEF Replayed
  <2>3. Sound' /\ FlowsOK' /\ ValOK(val')
    BY <1>0, <1>1, <2>2, RecoveredStep, RebuttedStep, RejectedStep, StrayStep
  <2> QED BY <1>1, <2>1, <2>3, Concludes
<1>3. CASE ReplayDrained(f)
  <2>1. Told(c, "applied") /\ ThenValidate(f, Cleared(cl, c))
    BY <1>3 DEF ReplayDrained
  <2>2. ListsOK'
    BY <1>0, <1>3 DEF ReplayDrained, Missing, daemon, ListsOK
  <2> HIDE DEF c
  <2>3. Held(Cleared(cl, c)) /\ Settling(c, Cleared(cl, c))
    BY <1>0, <2>1, Releases DEF SameSlot
  <2>4. Sound' /\ FlowsOK' /\ ValOK(val')
    BY <1>0, <1>1, <2>1, <2>3, ThenValidateSound
  <2> QED BY <1>1, <2>2, <2>4, Concludes
<1> QED BY <1>2, <1>3

-----------------------------------------------------------------------------
(* The theorems.                                                            *)

LEMMA InitIInv ==
    ASSUME Init
    PROVE  IInv
<1>1. PICK b \in Bodies :
         /\ srv = [epoch |-> 1, rev |-> 1, item |-> FirstItem(b),
                   recorded |-> [c \in Commands |-> NoRecord]]
         /\ cl = [cursors |-> [epoch |-> 1, full |-> 1, seen |-> 1],
                  row |-> FirstItem(b), fresh |-> "unvalidated", slot |-> NoSlot,
                  valid |-> FALSE, phase |-> "idle"]
  BY DEF Init
<1>2. FirstItem(b) \in Item /\ [c \in Commands |-> NoRecord] \in Records
  BY DEF FirstItem, Item, NoRecord, Records
<1>3. SrvOK
  BY <1>1, <1>2, Defaults DEF Init, SrvOK
<1>4. Held(cl)
  BY <1>1, <1>2, Defaults DEF Held, Client, Cursors
<1>5. ClientOK
  BY <1>4, ImageOK DEF Init, ClientOK
<1>6. RoundOK(round) /\ ValOK(val)
  BY Starts DEF Init
<1>7. FlowsOK
  BY Starts DEF Init, FlowsOK, FlowOK
<1>8. ListsOK /\ faults \in Nat /\ VerdictOK
  BY DEF Init, ListsOK, VerdictOK
<1>9. SentOK /\ SentIsRemembered
  BY DEF Init, SentOK, Unsent, SentIsRemembered
<1> QED BY <1>3, <1>5, <1>6, <1>7, <1>8, <1>9, Parts DEF IInv

LEMMA NextIInv ==
    ASSUME IInv, [Next]_vars
    PROVE  IInv'
<1>1. CASE UNCHANGED vars
  <2>1. Sound' /\ SrvOK' /\ RoundOK(round') /\ ValOK(val') /\ FlowsOK' /\ ListsOK'
    BY <1>1, Untouched, Keeps, Parts DEF vars, IInv
  <2> QED BY <2>1, Concludes
<1>2. CASE Next
  <2>1. ASSUME NEW f \in Flows, Continue(f) PROVE IInv'
    BY <2>1, SubmittedStep, DrainedStep, RefetchedStep, AutoReplayStep, ReplaySteps
       DEF Continue
  <2>2. ASSUME Operator PROVE IInv'
    BY <2>2, DecideStep, RetryStep DEF Operator
  <2> QED BY <1>2, <2>1, <2>2, ServerSteps, ServeSteps, SyncSteps, ValidationSteps,
             FailureSteps DEF Next
<1> QED BY <1>1, <1>2

\* Whatever crashes, restores, lost answers and failed saves come between, the
\* client's memory, its cache file, the daemon's records and every request under
\* way stay well-formed (SyncCoordinator, InboxStore, DecisionModel, service.go).
THEOREM TypeCorrect == Spec => []TypeOK
<1>1. IInv => TypeOK
  BY DEF IInv
<1> QED BY <1>1, InitIInv, NextIInv, PTL DEF Spec

\* A decision that was sent and not answered for the operator is in the item's
\* slot, in memory and in the cache file (registerPendingCommand,
\* restorePendingCommands), for any commands, submissions and restores.
THEOREM SentRemembered == Spec => []SentIsRemembered
<1>1. IInv => SentIsRemembered
  BY DEF IInv
<1> QED BY <1>1, InitIInv, NextIInv, PTL DEF Spec

-----------------------------------------------------------------------------
(* The daemon's history within an epoch.                                    *)

\* Database t follows s: a write counts the item's version and revision on.
Follows(s, t) ==
    /\ t.epoch = s.epoch /\ t.rev >= s.rev
    /\ t.item = s.item \/ (t.item.ver = s.item.ver + 1 /\ t.item.asof > s.rev)

\* What was known of a history stays known as it goes on.
LEMMA KnownFollows ==
    ASSUME NEW s, NEW t, s.item \in Item, t.item \in Item, s.rev \in Nat, t.rev \in Nat,
           Follows(s, t)
    PROVE  /\ \A i \in Item : Known(i, s) => Known(i, t)
           /\ \A i \in Item, r \in Nat : UpTo(r, i, s) => UpTo(r, i, t)
           /\ \A e \in [epoch : Nat, full : Nat, seen : Nat], i \in Item :
                 Mirrors(e, i, s) => Mirrors(e, i, t)
<1>1. s.item.ver \in Nat /\ t.item.ver \in Nat /\ s.item.asof \in Nat /\ t.item.asof \in Nat
  BY DEF Item
<1>2. ASSUME NEW i \in Item, Known(i, s) PROVE Known(i, t)
  <2>1. i.ver \in Nat
    BY DEF Item
  <2> QED BY <1>1, <1>2, <2>1 DEF Known, Follows
<1>3. ASSUME NEW i \in Item, NEW r \in Nat, UpTo(r, i, s) PROVE UpTo(r, i, t)
  BY <1>1, <1>3 DEF UpTo, Follows
<1> QED BY <1>2, <1>3 DEF Mirrors, Follows

\* submitDecisionTransaction and every other writer count on.
LEMMA SubmitFollows ==
    ASSUME TypeOK, NEW c \in Commands, Submit(c) \/ Refuses(c)
    PROVE  /\ Follows(srv, srv')
           /\ srv.item.asof <= srv.rev => srv'.item.asof <= srv'.rev
           /\ srv' = srv \/ (~Recorded(c) /\ Binds(c) /\ Recorded(c)')
           /\ \A d \in Commands : srv'.recorded[d].rev # srv.recorded[d].rev => d = c
           /\ \A d \in Commands : Recorded(d) => Recorded(d)'
<1>1. /\ srv \in [epoch : Nat \ {0}, rev : Nat, item : Item, recorded : Records]
      /\ srv.item.ver \in Nat /\ srv.item.asof \in Nat /\ srv.rev \in Nat
  BY Parts DEF SrvOK, Item
<1>2. CASE srv' = srv
  BY <1>1, <1>2 DEF Follows, Recorded
<1>3. CASE ~Recorded(c) /\ Binds(c)
           /\ srv' = [srv EXCEPT !.rev = srv.rev + 1,
                            !.item = Concluded(srv.item, c),
                            !.recorded = [srv.recorded EXCEPT ![c] = [rev |-> srv.rev + 1, body |-> sent[c].body]]]
  <2> DEFINE i == Concluded(srv.item, c)
             k == [srv.recorded EXCEPT ![c] = [rev |-> srv.rev + 1, body |-> sent[c].body]]
  <2>1. i = srv.item \/ (i.ver = srv.item.ver + 1 /\ i.asof = srv.rev + 1)
    BY <1>1 DEF Concluded, Item
  <2>2. /\ \A d \in Commands : d # c => k[d] = srv.recorded[d]
        /\ k[c].rev = srv.rev + 1
    BY <1>1 DEF Records
  <2> HIDE DEF i, k
  <2>3. srv' = [epoch |-> srv.epoch, rev |-> srv.rev + 1, item |-> i, recorded |-> k]
    BY <1>1, <1>3 DEF i, k
  <2>4. srv'.epoch = srv.epoch /\ srv'.rev = srv.rev + 1 /\ srv'.item = i /\ srv'.recorded = k
    BY <2>3
  <2>5. Follows(srv, srv')
    BY <1>1, <2>1, <2>4 DEF Follows
  <2>6. srv.item.asof <= srv.rev => srv'.item.asof <= srv'.rev
    BY <1>1, <2>1, <2>4
  <2>7. Recorded(c)' /\ \A d \in Commands : d # c => srv'.recorded[d] = srv.recorded[d]
    BY <1>1, <2>2, <2>4 DEF Recorded
  <2>8. \A d \in Commands : Recorded(d) => Recorded(d)'
    BY <2>7 DEF Recorded
  <2> QED BY <1>3, <2>5, <2>6, <2>7, <2>8
<1> QED BY <1>1, <1>2, <1>3 DEF Submit, Refuses

-----------------------------------------------------------------------------
(* What the client shows, and the daemon's history.                         *)

\* What a client step may do with what it mirrors: cursors keep their epoch and
\* full revision, the row stays or becomes a known one no older.
Scoped(n) == n.cursors.epoch = cl.cursors.epoch /\ n.cursors.full = cl.cursors.full
Reflects(n) ==
    /\ Scoped(n)
    /\ n.row = cl.row \/ (cl.row.ver <= n.row.ver /\ (InEpoch => Known(n.row, srv)))

\* The parts of MirrorInv.
ServerDated == srv.item.asof <= srv.rev /\ saved.item.asof <= saved.rev
ClientMirrors ==
    /\ Mirrors(cl.cursors, cl.row, srv)
    /\ Mirrors(disk.cursors, disk.row, srv)
    /\ disk.cursors.epoch = 0 => disk.row = NoItem
RoundMirrors ==
    /\ round.kind = "heartbeat" => round.ans # Pending
    /\ round.ans # Pending => round.ans.epoch <= srv.epoch
    /\ (round.kind = "bootstrap" /\ round.ans # Pending /\ round.ans.epoch = srv.epoch)
          => Known(round.ans.item, srv) /\ UpTo(round.ans.rev, round.ans.item, srv)
ValMirrors == (InEpoch /\ val.cur) => Known(val.ans.item, srv)
FlowMirrors ==
    /\ \A f \in Flows : (InEpoch /\ flow[f].cur) => Known(flow[f].ans.item, srv)
    /\ \A f \in Flows : flow[f].pc \in Drains => flow[f].ans = Pending

LEMMA MirrorParts ==
    /\ MirrorInv <=> (ServerDated /\ ClientMirrors /\ RoundMirrors /\ ValMirrors /\ FlowMirrors)
    /\ MirrorInv' <=> (ServerDated' /\ ClientMirrors' /\ RoundMirrors' /\ ValMirrors'
                       /\ FlowMirrors')
BY DEF MirrorInv, ServerDated, ClientMirrors, RoundMirrors, ValMirrors, FlowMirrors

\* The absent item is known of every history.
LEMMA NothingKnown ==
    ASSUME NEW s, s.item \in Item
    PROVE  Known(NoItem, s) /\ Pending.item = NoItem /\ Lost.item = NoItem /\ Denied.item = NoItem
<1>1. s.item.ver \in Nat /\ (s.item.ver = 0 => s.item = NoItem)
  BY DEF Item
<1>2. NoItem.ver = 0
  BY DEF NoItem
<1>3. Pending.item = NoItem /\ Lost.item = NoItem /\ Denied.item = NoItem
  BY DEF Pending, Lost, Denied, Answer
<1> QED BY <1>1, <1>2, <1>3 DEF Known

\* What the cache file says of a client that mirrors the daemon does so too.
LEMMA ImageMirrors ==
    ASSUME NEW s, s.item \in Item, s.epoch \in Nat \ {0},
           NEW m, Held(m), Mirrors(m.cursors, m.row, s)
    PROVE  LET d == Image(m)
           IN  Mirrors(d.cursors, d.row, s) /\ (d.cursors.epoch = 0 => d.row = NoItem)
<1>1. CASE m.cursors = NoCursors
  BY <1>1, NothingKnown DEF Image, Mirrors, NoCursors
<1>2. CASE m.cursors # NoCursors
  BY <1>2 DEF Image, Held
<1> QED BY <1>1, <1>2

\* A client step that reflects the daemon keeps the mirror, saved or not.
LEMMA ReflectedMirrors ==
    ASSUME IInv, MirrorInv, srv' = srv, Held(cl'), Reflects(cl'),
           disk' = disk \/ disk' = Image(cl')
    PROVE  ClientMirrors' /\ (InEpoch' <=> InEpoch)
<1>1. /\ ClientMirrors /\ Held(cl) /\ srv.item \in Item /\ srv.epoch \in Nat \ {0}
  BY MirrorParts, Reads DEF IInv
<1>2. /\ srv.item.ver \in Nat /\ cl.row.ver \in Nat /\ cl'.row.ver \in Nat
  BY <1>1 DEF Held, Client, Item
<1>3. Mirrors(cl'.cursors, cl'.row, srv)
  <2>1. CASE cl'.row = cl.row
    BY <1>1, <2>1 DEF ClientMirrors, Mirrors, Reflects, Scoped
  <2>2. CASE cl.row.ver <= cl'.row.ver /\ (InEpoch => Known(cl'.row, srv))
    <3>1. cl'.cursors.epoch = srv.epoch => UpTo(cl'.cursors.full, cl'.row, srv)
      BY <1>1, <1>2, <2>2 DEF ClientMirrors, Mirrors, Reflects, Scoped, InEpoch, Known, UpTo
    <3> QED BY <1>1, <2>2, <3>1 DEF ClientMirrors, Mirrors, Reflects, Scoped, InEpoch
  <2> QED BY <2>1, <2>2 DEF Reflects
<1>4. Mirrors(disk'.cursors, disk'.row, srv) /\ (disk'.cursors.epoch = 0 => disk'.row = NoItem)
  BY <1>1, <1>3, ImageMirrors DEF ClientMirrors
<1> QED BY <1>3, <1>4 DEF ClientMirrors, InEpoch, Reflects, Scoped

-----------------------------------------------------------------------------
(* What a submission's continuation does.                                   *)

\* Two states of the client with the same row, cursors and slot.
Alike(m, n) ==
    /\ Held(n) /\ n.row = m.row /\ n.slot = m.slot
    /\ n.cursors.epoch = m.cursors.epoch /\ n.cursors.full = m.cursors.full

LEMMA AlikeMarks ==
    ASSUME NEW m, Held(m)
    PROVE  /\ Alike(m, Certified(m)) /\ Alike(m, Uncertified(m))
           /\ \A p \in {"idle", "submitting", "applied"} : Alike(m, InPhase(m, p))
           /\ \A s \in {"unvalidated", "fresh", "failing"} : Alike(m, [m EXCEPT !.fresh = s])
           /\ \A r \in Nat : Alike(m, Observed(m, r))
<1>1. ASSUME NEW r \in Nat PROVE Alike(m, Observed(m, r))
  <2>1. Held(Observed(m, r)) /\ Observed(m, r).slot = m.slot
    BY ObservedHeld
  <2>2. m \in Client /\ m.cursors \in Cursors
    BY DEF Held, Client
  <2>3. /\ [m.cursors EXCEPT !.seen = r].epoch = m.cursors.epoch
        /\ [m.cursors EXCEPT !.seen = r].full = m.cursors.full
    BY <2>2 DEF Cursors
  <2>4. \/ Observed(m, r) = m
        \/ \E s : Observed(m, r) = [m EXCEPT !.cursors = [m.cursors EXCEPT !.seen = r],
                                             !.fresh = s]
    BY <2>2 DEF Observed, Client
  <2> DEFINE k == [m.cursors EXCEPT !.seen = r]
  <2> HIDE DEF k
  <2>5. \A s : /\ [m EXCEPT !.cursors = k, !.fresh = s].row = m.row
               /\ [m EXCEPT !.cursors = k, !.fresh = s].cursors = k
    BY <2>2 DEF Client
  <2> QED BY <2>1, <2>3, <2>4, <2>5 DEF Alike, k
<1>2. /\ Alike(m, Certified(m)) /\ Alike(m, Uncertified(m))
      /\ \A p \in {"idle", "submitting", "applied"} : Alike(m, InPhase(m, p))
      /\ \A s \in {"unvalidated", "fresh", "failing"} : Alike(m, [m EXCEPT !.fresh = s])
  BY DEF Alike, Held, Client, Certified, Uncertified, InPhase
<1> QED BY <1>1, <1>2

\* InboxStore.apply puts the item in place of the row.
LEMMA ShowingRow ==
    ASSUME NEW m, Held(m), NEW i \in Item
    PROVE  /\ Held(Showing(m, i)) /\ Showing(m, i).row = i /\ Showing(m, i).slot = m.slot
           /\ Showing(m, i).cursors.epoch = m.cursors.epoch
           /\ Showing(m, i).cursors.full = m.cursors.full
<1> DEFINE n == [m EXCEPT !.row = i]
<1>1. Held(n) /\ n.row = i /\ n.slot = m.slot /\ n.cursors = m.cursors
  BY DEF Held, Client
<1>2. i.asof \in Nat
  BY DEF Item
<1>3. Showing(m, i) = Observed(n, i.asof)
  BY DEF Showing
<1>4. Alike(n, Observed(n, i.asof))
  BY <1>1, <1>2, AlikeMarks
<1> HIDE DEF n
<1> QED BY <1>1, <1>3, <1>4 DEF Alike

\* A handler of submission f leaves the client as n: the cursors' scope stays, the
\* row stays or becomes the answer's item, and the slot stays or is released with
\* a verdict.
Outcome(f, n) ==
    /\ Held(n) /\ Scoped(n)
    /\ \/ n.row = cl.row
       \/ flow[f].cur /\ n.row = flow[f].ans.item /\ cl.row.ver <= n.row.ver
    /\ \/ /\ verdict' = verdict /\ n.slot.id = cl.slot.id
          /\ n.slot.unresolved => (cl.slot.unresolved \/ cl.slot.id = flow[f].id)
       \/ /\ \E v \in {"applied", "rejected", "unrecorded"} : Told(flow[f].id, v)
          /\ n.slot = IF cl.slot.id = flow[f].id THEN NoSlot ELSE cl.slot

LEMMA OutcomeAlike ==
    ASSUME NEW f, NEW m, NEW n, Outcome(f, m), Alike(m, n)
    PROVE  Outcome(f, n)
BY DEF Outcome, Alike, Scoped

\* Marks on the card come after the slot and the row.
LEMMA OutcomeThen ==
    ASSUME NEW f, NEW m, Outcome(f, m)
    PROVE  /\ Outcome(f, Certified(m)) /\ Outcome(f, Uncertified(m))
           /\ \A p \in {"idle", "submitting", "applied"} : Outcome(f, InPhase(m, p))
           /\ \A s \in {"unvalidated", "fresh", "failing"} : Outcome(f, [m EXCEPT !.fresh = s])
           /\ \A r \in Nat : Outcome(f, Observed(m, r))
<1>1. Held(m)
  BY DEF Outcome
<1> QED BY <1>1, AlikeMarks, OutcomeAlike

\* The answer's item replaces a row it does not fall behind.
LEMMA OutcomeShows ==
    ASSUME TypeOK, NEW f \in Flows, NEW m, Outcome(f, m), m.row = cl.row, Shows(f)
    PROVE  Outcome(f, Showing(m, flow[f].ans.item))
<1>1. flow[f].ans.item \in Item /\ Held(cl)
  BY Reads
<1>2. cl.row.ver \in Nat /\ flow[f].ans.item.ver \in Nat
  BY <1>1 DEF Held, Client, Item
<1>3. flow[f].cur /\ cl.row.ver <= flow[f].ans.item.ver
  BY <1>2 DEF Shows, Outranked
<1>4. Held(m)
  BY DEF Outcome
<1> HIDE DEF Shows
<1> QED BY <1>1, <1>3, <1>4, ShowingRow DEF Outcome, Scoped

\* The slot of the command the operator is told about is given up.
LEMMA OutcomeClears ==
    ASSUME NEW f, flow[f].id \in Commands, NEW m, Held(m), Scoped(m),
           m.row = cl.row, m.slot = cl.slot,
           NEW v \in {"applied", "rejected", "unrecorded"}, Told(flow[f].id, v)
    PROVE  /\ Outcome(f, Cleared(m, flow[f].id))
           /\ Cleared(m, flow[f].id).row = cl.row
<1> DEFINE c == flow[f].id
           n == Cleared(m, c)
<1>1. Held(n)
  BY ClearedHeld
<1>2. /\ n.row = m.row /\ n.cursors = m.cursors
      /\ n.slot = IF m.slot.id = c THEN NoSlot ELSE m.slot
  BY DEF Cleared, Held, Client
<1> QED BY <1>1, <1>2 DEF Outcome, Scoped

\* settleAmbiguousOutcome and a retry that proved nothing mark the slot for a retry.
LEMMA OutcomeMarks ==
    ASSUME NEW f, flow[f].id \in Commands, NEW m, Outcome(f, m), verdict' = verdict,
           m.slot = cl.slot, NEW u \in BOOLEAN
    PROVE  Outcome(f, Marked(m, flow[f].id, u))
<1> DEFINE c == flow[f].id
           n == Marked(m, c, u)
<1>1. Held(m) /\ Held(n) /\ SameSlot(m, n)
  BY MarkedHeld DEF Outcome
<1>2. m \in Client /\ m.slot \in Slot
  BY <1>1 DEF Held, Client
<1>3. /\ n.row = m.row /\ n.cursors = m.cursors
      /\ n.slot.unresolved = IF m.slot.id = c THEN u ELSE m.slot.unresolved
  <2>1. [m.slot EXCEPT !.unresolved = u].unresolved = u
    BY <1>2 DEF Slot
  <2>2. m.slot.id # c => n = m
    BY DEF Marked
  <2>3. m.slot.id = c => n = [m EXCEPT !.slot = [m.slot EXCEPT !.unresolved = u]]
    BY <1>2 DEF Marked, Client
  <2>4. m.slot.id = c => n.slot.unresolved = u
    <3> DEFINE k == [m.slot EXCEPT !.unresolved = u]
    <3> HIDE DEF k
    <3>1. [m EXCEPT !.slot = k].slot = k
      BY <1>2 DEF Client
    <3> QED BY <3>1, <2>1, <2>3 DEF k
  <2>5. n.row = m.row /\ n.cursors = m.cursors
    <3> DEFINE k == [m.slot EXCEPT !.unresolved = u]
    <3> HIDE DEF k
    <3>1. [m EXCEPT !.slot = k].row = m.row /\ [m EXCEPT !.slot = k].cursors = m.cursors
      BY <1>2 DEF Client
    <3> QED BY <3>1, <2>2, <2>3 DEF k
  <2> QED BY <2>2, <2>4, <2>5
<1>4. n.slot.id = cl.slot.id
  BY <1>1 DEF SameSlot
<1> QED BY <1>1, <1>3, <1>4 DEF Outcome, Scoped

\* Where a submission stands after its handler.
Moves(f, s) ==
    \/ s = Idle
    \/ /\ s.id = flow[f].id /\ s.ans = Pending
       /\ \/ s.pc = "recheck"
          \/ s.pc = "auto" /\ flow[f].pc = "recheck"
          \/ /\ s.pc \in Drains /\ s.cur = flow[f].cur
             /\ flow[f].pc \in Posts /\ flow[f].ans.kind = "ok"
          \/ /\ s.pc = "refetch" /\ flow[f].pc = "drain"
             /\ flow[f].cur \/ flow[f].id \in missed'

\* What it tells the operator, and on what grounds.
Tells(f) ==
    \/ verdict' = verdict
    \/ /\ Told(flow[f].id, "applied") /\ Goto(f, Idle)
       /\ Settles(f) /\ (flow[f].cur \/ flow[f].id \in missed')
    \/ /\ Told(flow[f].id, "rejected") /\ Goto(f, Idle)
       /\ flow[f].pc \in Posts
       /\ \/ flow[f].ans.kind = "conflict"
          \/ flow[f].ans.kind \in {"refused", "denied"} /\ flow[f].pc = "submit"
    \/ /\ Told(flow[f].id, "unrecorded") /\ Goto(f, Idle)
       /\ flow[f].pc \in Posts

\* All that a continuation of submission f does.
Effect(f) ==
    /\ UNCHANGED <<srv, saved, late, sent, round>> /\ missed \subseteq missed'
    /\ Outcome(f, cl') /\ Tells(f)
    /\ disk' = disk \/ disk' = Image(cl')
    /\ val' = val \/ val'.ans = Pending
    /\ \E s : Goto(f, s) /\ Moves(f, s)

LEMMA EndsEffect ==
    ASSUME NEW f, NEW m, Outcome(f, m), faults \in Nat, Ends(f, m) \/ ThenValidate(f, m),
           UNCHANGED <<srv, saved, late, sent, round>>, missed \subseteq missed', Tells(f)
    PROVE  Effect(f)
<1>1. Outcome(f, Uncertified(m))
  BY OutcomeThen
<1>2. Outcome(f, cl') /\ Saves(cl') /\ Goto(f, Idle)
  BY <1>1 DEF Ends, ThenValidate
<1>3. val' = val \/ val'.ans = Pending
  BY DEF Ends, ThenValidate, Validation
<1>4. disk' = disk \/ disk' = Image(cl')
  BY <1>2, Saved
<1>5. Moves(f, Idle)
  BY DEF Moves
<1> QED BY <1>2, <1>3, <1>4, <1>5 DEF Effect

\* The client as it is, before a handler has changed anything.
LEMMA OutcomeStart ==
    ASSUME TypeOK, NEW f \in Flows
    PROVE  verdict' = verdict => Outcome(f, cl)
BY Reads DEF Outcome, Scoped

LEMMA AmbiguousEffect ==
    ASSUME IInv, NEW f \in Flows, flow[f].id \in Commands, Ambiguous(f),
           UNCHANGED <<srv, saved, late, sent, round, missed>>
    PROVE  Effect(f)
<1> DEFINE c == flow[f].id
           n == Marked(cl, c, TRUE)
           m == InPhase(n, "idle")
           s == [Idle EXCEPT !.pc = "recheck", !.id = c]
<1>1. /\ TypeOK /\ faults \in Nat /\ verdict' = verdict /\ Saves(cl')
      /\ cl' = Uncertified(m) /\ val' = Validation(f, 1) /\ Goto(f, s)
  BY Parts DEF IInv, Ambiguous
<1>2. Outcome(f, n)
  BY <1>1, OutcomeStart, OutcomeMarks
<1>3. Outcome(f, m)
  <2> HIDE DEF n
  <2> QED BY <1>2, OutcomeThen
<1>4. Outcome(f, cl')
  <2> HIDE DEF m
  <2> QED BY <1>1, <1>3, OutcomeThen
<1>5. disk' = disk \/ disk' = Image(cl')
  BY <1>1, Saved
<1>6. Moves(f, s)
  BY DEF Moves, Idle
<1>7. val'.ans = Pending
  BY <1>1 DEF Validation
<1> HIDE DEF s
<1> QED BY <1>1, <1>4, <1>5, <1>6, <1>7 DEF Effect, Tells

LEMMA SubmittedEffect ==
    ASSUME IInv, NEW f \in Flows, Submitted(f)
    PROVE  Effect(f)
<1> DEFINE c == flow[f].id
           i == flow[f].ans.item
           n == Cleared(cl, c)
<1>0. /\ TypeOK /\ c \in Commands /\ faults \in Nat /\ Held(cl) /\ FlowOK(flow[f])
      /\ UNCHANGED <<srv, saved, late, sent, round, missed>>
      /\ flow[f].pc = "submit" /\ flow[f].pc \in Posts /\ Scoped(cl)
  BY Parts, Reads DEF IInv, Submitted, Arrived, Posts, daemon, Scoped
<1>1. CASE Accepted(f) /\ ~flow[f].cur
  BY <1>0, <1>1, AmbiguousEffect DEF Accepted
<1>2. CASE Accepted(f) /\ flow[f].cur
  <2> DEFINE s == [flow[f] EXCEPT !.pc = "drain", !.rev = flow[f].ans.rev, !.ans = Pending]
  <2>1. Goto(f, s) /\ UNCHANGED <<cl, disk, val, verdict>> /\ flow[f].ans.kind = "ok"
    BY <1>2 DEF Accepted
  <2>2. Moves(f, s)
    BY <1>0, <2>1 DEF Moves, FlowOK, Drains
  <2>3. Outcome(f, cl')
    BY <1>0, <2>1, OutcomeStart
  <2> HIDE DEF s
  <2> QED BY <1>0, <2>1, <2>2, <2>3 DEF Effect, Tells
<1>3. CASE Conflicted(f)
  <2>1. Told(c, "rejected") /\ flow[f].ans.kind = "conflict"
    BY <1>3 DEF Conflicted
  <2>2. Outcome(f, n) /\ n.row = cl.row /\ Held(n)
    BY <1>0, <2>1, OutcomeClears DEF Outcome
  <2>3. \/ Shows(f) /\ Ends(f, Replaced(n, i))
        \/ ThenValidate(f, InPhase(n, "idle"))
    BY <1>3 DEF Conflicted
  <2> HIDE DEF n
  <2>4. Tells(f)
    BY <1>0, <2>1, <2>3 DEF Tells, Ends, ThenValidate
  <2>5. Outcome(f, InPhase(n, "idle"))
    BY <2>2, OutcomeThen
  <2>6. Shows(f) => Outcome(f, Replaced(n, i))
    <3> SUFFICES ASSUME Shows(f) PROVE Outcome(f, Replaced(n, i))
      OBVIOUS
    <3>1. Outcome(f, Showing(n, i))
      BY <1>0, <2>2, OutcomeShows
    <3>2. Outcome(f, InPhase(Showing(n, i), "idle"))
      BY <3>1, OutcomeThen
    <3> QED BY <3>2, OutcomeThen DEF Replaced
  <2> HIDE DEF i
  <2> QED BY <1>0, <2>3, <2>4, <2>5, <2>6, EndsEffect
<1>4. CASE Refused(f)
  <2> DEFINE m == InPhase(n, "idle")
  <2>1. /\ Told(c, "rejected") /\ flow[f].ans.kind \in {"refused", "denied"}
        /\ ThenValidate(f, m) \/ Ends(f, [m EXCEPT !.fresh = "failing"])
    BY <1>4 DEF Refused
  <2>2. Outcome(f, n)
    BY <1>0, <2>1, OutcomeClears
  <2>3. Outcome(f, m)
    <3> HIDE DEF n
    <3> QED BY <2>2, OutcomeThen
  <2> HIDE DEF m
  <2>4. Outcome(f, [m EXCEPT !.fresh = "failing"])
    BY <2>3, OutcomeThen
  <2>5. Tells(f)
    BY <1>0, <2>1 DEF Tells, Ends, ThenValidate
  <2> QED BY <1>0, <2>1, <2>3, <2>4, <2>5, EndsEffect
<1>5. CASE Unanswered(f)
  BY <1>0, <1>5, AmbiguousEffect DEF Unanswered
<1> QED BY <1>1, <1>2, <1>3, <1>4, <1>5 DEF Submitted

LEMMA DrainedEffect ==
    ASSUME IInv, MirrorInv, NEW f \in Flows, Drained(f)
    PROVE  Effect(f)
<1> DEFINE s == [flow[f] EXCEPT !.pc = "refetch", !.cur = TRUE]
<1>0. /\ TypeOK /\ FlowOK(flow[f]) /\ UNCHANGED <<srv, saved, late, sent, round>>
      /\ UNCHANGED <<cl, disk, val, verdict>> /\ flow[f].pc = "drain" /\ Goto(f, s)
      /\ flow[f].ans = Pending /\ Missing(f)
  BY Parts, Reads DEF IInv, Drained, daemon, MirrorInv, Drains
<1>1. missed \subseteq missed' /\ (flow[f].cur \/ flow[f].id \in missed')
  BY <1>0 DEF Missing
<1>2. Moves(f, s)
  BY <1>0, <1>1 DEF Moves, FlowOK
<1>3. Outcome(f, cl')
  BY <1>0, OutcomeStart
<1> HIDE DEF s
<1> QED BY <1>0, <1>1, <1>2, <1>3 DEF Effect, Tells

LEMMA RefetchedEffect ==
    ASSUME IInv, NEW f \in Flows, Refetched(f)
    PROVE  Effect(f)
<1> DEFINE c == flow[f].id
           i == flow[f].ans.item
           o == Observed(cl, flow[f].rev)
           m == Cleared(o, c)
<1>0. /\ TypeOK /\ c \in Commands /\ faults \in Nat /\ Held(cl) /\ flow[f].rev \in Nat
      /\ UNCHANGED <<srv, saved, late, sent, round, missed>> /\ flow[f].pc = "refetch"
  BY Parts, Reads DEF IInv, Refetched, Arrived, daemon
<1>1. CASE Ambiguous(f)
  BY <1>0, <1>1, AmbiguousEffect
<1>2. CASE Confirm(f)
  <2>1. Told(c, "applied") /\ flow[f].cur
    BY <1>2 DEF Confirm
  <2>2. Held(o) /\ Scoped(o) /\ o.row = cl.row /\ o.slot = cl.slot
    <3>1. Alike(cl, o)
      BY <1>0, AlikeMarks
    <3> HIDE DEF o
    <3> QED BY <3>1 DEF Alike, Scoped
  <2>3. Outcome(f, m) /\ m.row = cl.row
    <3> HIDE DEF o
    <3> QED BY <1>0, <2>1, <2>2, OutcomeClears
  <2>4. \/ Ends(f, Uncertified(InPhase(m, "applied")))
        \/ ThenValidate(f, InPhase(m, "applied"))
        \/ /\ ~Outranked(m, i)
           /\ Ends(f, InPhase(Showing(m, i), IF i.open THEN "idle" ELSE "applied"))
    BY <1>2 DEF Confirm
  <2> HIDE DEF m
  <2>5. Outcome(f, InPhase(m, "applied"))
    BY <2>3, OutcomeThen
  <2>6. Outcome(f, Uncertified(InPhase(m, "applied")))
    BY <2>5, OutcomeThen
  <2>7. ~Outranked(m, i) => Shows(f)
    BY <2>1, <2>3 DEF Shows, Outranked
  <2>8. ~Outranked(m, i) => Outcome(f, Showing(m, i))
    BY <1>0, <2>3, <2>7, OutcomeShows
  <2>9. ~Outranked(m, i) =>
           \A p \in {"idle", "submitting", "applied"} : Outcome(f, InPhase(Showing(m, i), p))
    BY <2>8, OutcomeThen
  <2>10. Tells(f)
    BY <1>0, <2>1, <2>4 DEF Tells, Ends, ThenValidate, Settles
  <2>11. PICK n : Outcome(f, n) /\ (Ends(f, n) \/ ThenValidate(f, n))
    BY <2>4, <2>5, <2>6, <2>9
  <2> QED BY <1>0, <2>10, <2>11, EndsEffect
<1> QED BY <1>1, <1>2 DEF Refetched

LEMMA AutoReplayEffect ==
    ASSUME IInv, NEW f \in Flows, AutoReplay(f)
    PROVE  Effect(f)
<1> DEFINE s == Sending("auto", flow[f].id)
<1>0. /\ TypeOK /\ UNCHANGED <<srv, saved, late, sent, round, missed>>
      /\ UNCHANGED <<cl, disk, val, verdict>> /\ flow[f].pc = "recheck" /\ Goto(f, s)
  BY DEF IInv, AutoReplay, daemon, told
<1>1. Moves(f, s)
  BY <1>0 DEF Moves, Sending
<1>2. Outcome(f, cl')
  BY <1>0, OutcomeStart
<1> HIDE DEF s
<1> QED BY <1>0, <1>1, <1>2 DEF Effect, Tells

LEMMA RecoveredEffect ==
    ASSUME IInv, NEW f \in Flows, flow[f].id \in Commands, Recovered(f),
           flow[f].pc \in {"auto", "retry"},
           UNCHANGED <<srv, saved, late, sent, round, missed>>
    PROVE  Effect(f)
<1> DEFINE c == flow[f].id
           o == Observed(cl, flow[f].ans.rev)
           m == InPhase(o, "applied")
           p == IF flow[f].pc = "auto" THEN "autodrain" ELSE "retrydrain"
           s == [flow[f] EXCEPT !.ans = Pending, !.pc = p]
<1>0. /\ TypeOK /\ faults \in Nat /\ Held(cl) /\ flow[f].ans.rev \in Nat /\ FlowOK(flow[f])
      /\ flow[f].pc \in Posts /\ flow[f].ans.kind = "ok" /\ flow[f].cur
  BY Parts, Reads DEF IInv, Posts, Recovered
<1>1. Alike(cl, m)
  <2>1. Alike(cl, o)
    BY <1>0, AlikeMarks
  <2>2. Alike(o, m)
    <3> HIDE DEF o
    <3> QED BY <2>1, AlikeMarks DEF Alike
  <2> HIDE DEF o, m
  <2> QED BY <2>1, <2>2 DEF Alike
<1>2. \/ Told(c, "applied") /\ ThenValidate(f, Cleared(m, c))
      \/ /\ cl' = m /\ Saves(m) /\ Goto(f, s) /\ UNCHANGED <<val, verdict>>
  BY DEF Recovered
<1> HIDE DEF m
<1>3. CASE Told(c, "applied") /\ ThenValidate(f, Cleared(m, c))
  <2>1. Outcome(f, Cleared(m, c))
    BY <1>0, <1>1, <1>3, OutcomeClears DEF Alike, Scoped
  <2>2. Tells(f)
    BY <1>0, <1>3 DEF Tells, ThenValidate, Settles
  <2> QED BY <1>0, <1>3, <2>1, <2>2, EndsEffect
<1>4. CASE cl' = m /\ Saves(m) /\ Goto(f, s) /\ UNCHANGED <<val, verdict>>
  <2>1. Outcome(f, cl')
    BY <1>0, <1>1, <1>4, OutcomeStart, OutcomeAlike
  <2>2. disk' = disk \/ disk' = Image(cl')
    BY <1>0, <1>4, Saved
  <2>3. s.id = flow[f].id /\ s.ans = Pending /\ s.pc \in Drains /\ s.cur = flow[f].cur
    <3>1. p \in Drains
      BY DEF Drains
    <3> HIDE DEF p
    <3> QED BY <1>0, <3>1 DEF FlowOK
  <2>4. Moves(f, s)
    BY <1>0, <2>3 DEF Moves
  <2> HIDE DEF s
  <2> QED BY <1>4, <2>1, <2>2, <2>4 DEF Effect, Tells
<1> QED BY <1>2, <1>3, <1>4

LEMMA RebuttedEffect ==
    ASSUME IInv, NEW f \in Flows, flow[f].id \in Commands, Rebutted(f),
           flow[f].pc \in {"auto", "retry"},
           UNCHANGED <<srv, saved, late, sent, round, missed>>
    PROVE  Effect(f)
<1> DEFINE c == flow[f].id
           i == flow[f].ans.item
           r == IF Shows(f) THEN Showing(cl, i) ELSE cl
           m == Cleared(r, c)
           done == IF flow[f].pc = "auto" THEN m ELSE InPhase(m, "idle")
<1>0. /\ TypeOK /\ faults \in Nat /\ Held(cl) /\ i \in Item
      /\ flow[f].pc \in Posts /\ flow[f].ans.kind = "conflict" /\ Told(c, "rejected")
  BY Parts, Reads DEF IInv, Posts, Rebutted
<1>1. Outcome(f, m)
  <2>1. CASE ~Shows(f)
    BY <1>0, <2>1, OutcomeClears DEF Scoped
  <2>2. CASE Shows(f)
    <3>1. /\ Held(Showing(cl, i)) /\ Showing(cl, i).row = i /\ Showing(cl, i).slot = cl.slot
          /\ Scoped(Showing(cl, i))
      BY <1>0, ShowingRow DEF Scoped
    <3>2. i.ver \in Nat /\ cl.row.ver \in Nat
      BY <1>0 DEF Held, Client, Item
    <3>3. flow[f].cur /\ cl.row.ver <= i.ver
      BY <2>2, <3>2 DEF Shows, Outranked
    <3>4. m = Cleared(Showing(cl, i), c)
      BY <2>2
    <3> DEFINE n == Showing(cl, i)
    <3>5. Held(m)
      <4> HIDE DEF n
      <4> QED BY <3>1, <3>4, ClearedHeld DEF n
    <3>6. /\ m.row = i /\ Scoped(m)
          /\ m.slot = IF cl.slot.id = c THEN NoSlot ELSE cl.slot
      <4>1. /\ m.row = n.row /\ m.cursors = n.cursors
            /\ m.slot = IF n.slot.id = c THEN NoSlot ELSE n.slot
        <5>1. n \in Client /\ m = Cleared(n, c)
          BY <3>1, <3>4 DEF Held
        <5> HIDE DEF n, m
        <5> QED BY <5>1 DEF Cleared, Client
      <4> HIDE DEF m
      <4> QED BY <3>1, <4>1 DEF Scoped
    <3> HIDE DEF m
    <3> QED BY <1>0, <3>3, <3>5, <3>6 DEF Outcome
  <2> QED BY <2>1, <2>2
<1>2. Ends(f, Certified(InPhase(m, "idle"))) \/ ThenValidate(f, done)
  BY DEF Rebutted
<1> HIDE DEF m
<1>3. Outcome(f, InPhase(m, "idle"))
  BY <1>1, OutcomeThen
<1>4. Outcome(f, done) /\ Outcome(f, Certified(InPhase(m, "idle")))
  BY <1>1, <1>3, OutcomeThen
<1>5. Tells(f)
  BY <1>0, <1>2 DEF Tells, Ends, ThenValidate
<1> HIDE DEF done
<1> QED BY <1>0, <1>2, <1>4, <1>5, EndsEffect

LEMMA RejectedEffect ==
    ASSUME IInv, NEW f \in Flows, flow[f].id \in Commands, Rejected(f),
           flow[f].pc \in {"auto", "retry"},
           UNCHANGED <<srv, saved, late, sent, round, missed>>
    PROVE  Effect(f)
<1> DEFINE c == flow[f].id
           m == Cleared(cl, c)
           done == IF flow[f].pc = "auto" THEN m ELSE InPhase(m, "idle")
<1>0. /\ TypeOK /\ faults \in Nat /\ Held(cl) /\ Told(c, "unrecorded") /\ ThenValidate(f, done)
      /\ flow[f].pc \in Posts
  BY Parts, Reads DEF IInv, Posts, Rejected
<1>1. Outcome(f, m)
  BY <1>0, OutcomeClears DEF Scoped
<1> HIDE DEF m
<1>2. Outcome(f, InPhase(m, "idle"))
  BY <1>1, OutcomeThen
<1>3. Outcome(f, done)
  BY <1>1, <1>2
<1>4. Tells(f)
  BY <1>0 DEF Tells, ThenValidate
<1> HIDE DEF done
<1> QED BY <1>0, <1>3, <1>4, EndsEffect

LEMMA StrayEffect ==
    ASSUME IInv, NEW f \in Flows, flow[f].id \in Commands, Stray(f),
           UNCHANGED <<srv, saved, late, sent, round, missed>>
    PROVE  Effect(f)
<1> DEFINE c == flow[f].id
           i == flow[f].ans.item
<1>0. TypeOK /\ faults \in Nat /\ Held(cl) /\ i \in Item /\ verdict' = verdict
  BY Parts, Reads DEF IInv, Stray, Inconclusive
<1>1. PICK m : /\ Inconclusive(f, m)
               /\ \/ m = cl \/ m = [cl EXCEPT !.fresh = "failing"]
                  \/ Shows(f) /\ m = Showing(cl, i)
  BY DEF Stray
<1>2. Outcome(f, cl)
  BY <1>0, OutcomeStart
<1>3. Outcome(f, m) /\ m.slot = cl.slot
  <2>1. CASE m = cl
    BY <1>2, <2>1
  <2>2. CASE m = [cl EXCEPT !.fresh = "failing"]
    <3>1. Alike(cl, m)
      BY <1>0, <2>2, AlikeMarks
    <3> QED BY <1>2, <3>1, OutcomeAlike DEF Alike
  <2>3. CASE Shows(f) /\ m = Showing(cl, i)
    BY <1>0, <1>2, <2>3, OutcomeShows, ShowingRow
  <2> QED BY <1>1, <2>1, <2>2, <2>3
<1>4. Ends(f, m) \/ ThenValidate(f, InPhase(Marked(m, c, TRUE), "idle"))
  BY <1>1 DEF Inconclusive
<1>5. Outcome(f, Marked(m, c, TRUE))
  BY <1>0, <1>3, OutcomeMarks
<1>6. Outcome(f, InPhase(Marked(m, c, TRUE), "idle"))
  BY <1>5, OutcomeThen
<1>7. Tells(f)
  BY <1>0 DEF Tells
<1> HIDE DEF c
<1> QED BY <1>0, <1>3, <1>4, <1>6, <1>7, EndsEffect

LEMMA ContinueEffect ==
    ASSUME IInv, MirrorInv, NEW f \in Flows, Continue(f)
    PROVE  Effect(f)
<1> DEFINE c == flow[f].id
<1>1. CASE Replayed(f)
  <2>1. /\ c \in Commands /\ flow[f].pc \in {"auto", "retry"}
        /\ UNCHANGED <<srv, saved, late, sent, round, missed>>
    BY <1>1, Reads DEF IInv, Replayed, Arrived, daemon
  <2>2. Recovered(f) \/ Rebutted(f) \/ Rejected(f) \/ Stray(f)
    BY <1>1 DEF Replayed
  <2> QED BY <2>1, <2>2, RecoveredEffect, RebuttedEffect, RejectedEffect, StrayEffect
<1>2. CASE ReplayDrained(f)
  <2>1. /\ TypeOK /\ faults \in Nat /\ Held(cl) /\ c \in Commands
        /\ Told(c, "applied") /\ ThenValidate(f, Cleared(cl, c)) /\ Missing(f)
        /\ UNCHANGED <<srv, saved, late, sent, round>> /\ flow[f].pc \in Drains
    BY <1>2, Parts, Reads DEF IInv, ReplayDrained, daemon, Drains
  <2>2. Outcome(f, Cleared(cl, c))
    BY <2>1, OutcomeClears DEF Scoped
  <2>3. missed \subseteq missed' /\ Tells(f)
    BY <2>1 DEF Missing, Tells, Settles, ThenValidate
  <2> QED BY <2>1, <2>2, <2>3, EndsEffect
<1> QED BY <1>1, <1>2, SubmittedEffect, DrainedEffect, RefetchedEffect, AutoReplayEffect
        DEF Continue

-----------------------------------------------------------------------------
(* Each step keeps the client a mirror of the daemon's history.             *)

\* What a step needs to show of the requests under way: an answer still counted
\* on is an absent item, or was counted on before.
RequestsKept ==
    /\ InEpoch' /\ val'.cur => \/ val'.ans.item = NoItem
                               \/ InEpoch /\ val.cur /\ val'.ans = val.ans
    /\ \A f \in Flows :
          /\ InEpoch' /\ flow'[f].cur => \/ flow'[f].ans.item = NoItem
                                         \/ InEpoch /\ flow[f].cur /\ flow'[f].ans = flow[f].ans
          /\ flow'[f].pc \in Drains => flow'[f].ans = Pending

LEMMA RequestsMirror ==
    ASSUME IInv, MirrorInv, srv' = srv, RequestsKept
    PROVE  ValMirrors' /\ FlowMirrors'
<1>1. Known(NoItem, srv)
  BY NothingKnown, Reads DEF IInv
<1> QED BY <1>1, MirrorParts DEF RequestsKept, ValMirrors, FlowMirrors

\* The client's own steps: the daemon stands still.
LEMMA StandsStill ==
    ASSUME IInv, MirrorInv, UNCHANGED <<srv, saved>>, Held(cl'), Reflects(cl'),
           disk' = disk \/ disk' = Image(cl'), RequestsKept,
           round' = round \/ round' = NoRound \/ round' = Asking("bootstrap")
    PROVE  MirrorInv'
<1>1. ClientMirrors'
  BY ReflectedMirrors
<1>2. ServerDated' /\ RoundMirrors'
  BY MirrorParts DEF ServerDated, RoundMirrors, NoRound, Asking
<1> QED BY <1>1, <1>2, RequestsMirror, MirrorParts

\* Requests that are not touched are kept while the client's epoch stays.
LEMMA RequestsStay ==
    ASSUME MirrorInv, srv' = srv, Scoped(cl'), flow' = flow,
           val' = val \/ val'.ans = Pending \/ val'.cur = FALSE
    PROVE  RequestsKept
<1>1. InEpoch' => InEpoch
  BY DEF InEpoch, Scoped
<1>2. \A f \in Flows : flow[f].pc \in Drains => flow[f].ans = Pending
  BY DEF MirrorInv
<1>3. Pending.item = NoItem
  BY DEF Pending, Answer
<1> QED BY <1>1, <1>2, <1>3 DEF RequestsKept

LEMMA ContinueMirrors ==
    ASSUME IInv, IInv', MirrorInv, NEW f \in Flows, Continue(f)
    PROVE  MirrorInv'
<1>1. Effect(f) /\ FlowsOK /\ Held(cl')
  BY ContinueEffect, Parts DEF IInv, ClientOK
<1>2. Reflects(cl')
  BY <1>1 DEF Effect, Outcome, Reflects, MirrorInv
<1>3. PICK s : flow' = [flow EXCEPT ![f] = s] /\ Moves(f, s)
  BY <1>1 DEF Effect, Goto
<1>4. flow'[f] = s /\ \A g \in Flows : g # f => flow'[g] = flow[g]
  BY <1>1, <1>3 DEF FlowsOK
<1>5. s.ans = Pending
  BY <1>3 DEF Moves, Idle
<1>6. InEpoch' <=> InEpoch
  BY <1>1, <1>2 DEF Effect, InEpoch, Reflects, Scoped
<1>7. Pending.item = NoItem
  BY DEF Pending, Answer
<1>8. RequestsKept
  <2>1. \A g \in Flows : flow[g].pc \in Drains => flow[g].ans = Pending
    BY DEF MirrorInv
  <2>2. val' = val \/ val'.ans = Pending
    BY <1>1 DEF Effect
  <2> QED BY <1>4, <1>5, <1>6, <1>7, <2>1, <2>2 DEF RequestsKept
<1> QED BY <1>1, <1>2, <1>8, StandsStill DEF Effect

\* The card's validation shows an item only if it was read in this epoch.
LEMMA ValidationMirrors ==
    ASSUME IInv, IInv', MirrorInv, ViewValidates \/ Validate
    PROVE  MirrorInv'
<1>0. /\ Held(cl) /\ Held(cl') /\ val.ans.item \in Item /\ faults \in Nat
      /\ UNCHANGED <<srv, saved, round, flow>>
  BY Reads, Parts DEF IInv, ClientOK, ViewValidates, Validate, daemon, Answers
<1>1. Alike(cl, cl') /\ (disk' = disk) /\ (val'.ans = Pending) => MirrorInv'
  <2> SUFFICES ASSUME Alike(cl, cl'), disk' = disk, val'.ans = Pending PROVE MirrorInv'
    OBVIOUS
  <2>1. Scoped(cl') /\ Reflects(cl')
    BY DEF Alike, Scoped, Reflects
  <2> QED BY <1>0, <2>1, RequestsStay, StandsStill
<1>2. Alike(cl, cl) /\ Alike(cl, Uncertified(cl))
  BY <1>0, AlikeMarks DEF Alike
<1>3. \A o, n : Validation(o, n).ans = Pending
  BY DEF Validation
<1>4. NoValidation.ans = Pending
  BY DEF NoValidation
<1>5. CASE ViewValidates
  BY <1>1, <1>2, <1>3, <1>5 DEF ViewValidates
<1>6. CASE CertifyRow
  <2> DEFINE i == val.ans.item
             n == Showing(cl, i)
             m == Certified(n)
  <2>1. /\ cl' = m \/ cl' = InPhase(m, "idle")
        /\ Saves(cl') /\ val' = NoValidation /\ val.cur /\ ~Outranked(cl, i)
    BY <1>6 DEF CertifyRow
  <2>2. Held(n) /\ n.row = i /\ Scoped(n)
    BY <1>0, ShowingRow DEF Scoped
  <2>3. Alike(n, m)
    <3> HIDE DEF n
    <3> QED BY <2>2, AlikeMarks
  <2>4. Alike(m, InPhase(m, "idle"))
    <3> HIDE DEF m
    <3> QED BY <2>3, AlikeMarks DEF Alike
  <2> HIDE DEF n, m
  <2>5. cl'.row = i /\ Scoped(cl')
    BY <2>1, <2>2, <2>3, <2>4 DEF Alike, Scoped
  <2>6. cl.row.ver <= i.ver
    <3>1. i.ver \in Nat /\ cl.row.ver \in Nat
      BY <1>0 DEF Held, Client, Item
    <3> QED BY <2>1, <3>1 DEF Outranked
  <2>7. InEpoch => Known(i, srv)
    BY <2>1 DEF MirrorInv
  <2>8. Reflects(cl')
    BY <2>5, <2>6, <2>7 DEF Reflects
  <2>9. disk' = disk \/ disk' = Image(cl')
    BY <1>0, <2>1, Saved
  <2>10. RequestsKept
    BY <1>0, <1>4, <2>1, <2>5, RequestsStay
  <2> QED BY <1>0, <2>8, <2>9, <2>10, StandsStill
<1>7. CASE ReadAgain
  BY <1>1, <1>2, <1>3, <1>4, <1>7 DEF ReadAgain
<1>8. CASE NotFound
  BY <1>1, <1>2, <1>4, <1>8 DEF NotFound
<1> QED BY <1>5, <1>6, <1>7, <1>8 DEF Validate

\* A registered decision and a retry change nothing that is shown.
LEMMA OperatorMirrors ==
    ASSUME IInv, IInv', MirrorInv, NEW f \in Flows,
           Retry(f) \/ \E c \in Commands : Decide(f, c)
    PROVE  MirrorInv'
<1>0. /\ Held(cl) /\ Held(cl') /\ FlowsOK /\ faults \in Nat
      /\ UNCHANGED <<srv, saved, round, val>>
  BY Parts DEF IInv, ClientOK, Retry, Decide, daemon
<1>1. Scoped(cl') /\ cl'.row = cl.row
  <2>1. CASE Retry(f)
    <3> DEFINE m == Marked(cl, cl.slot.id, FALSE)
    <3>1. m.row = cl.row /\ Scoped(m) /\ Held(m)
      <4>1. Held(m)
        <5>1. cl.slot.id \in Commands
          BY <1>0, <2>1 DEF Retry, Held, Client, Slot
        <5> QED BY <1>0, <5>1, MarkedHeld
      <4>2. m.row = cl.row /\ m.cursors = cl.cursors
        BY <1>0 DEF Marked, Held, Client
      <4> HIDE DEF m
      <4> QED BY <4>1, <4>2 DEF Scoped
    <3>2. cl' = InPhase(m, "submitting")
      BY <2>1 DEF Retry
    <3> HIDE DEF m
    <3>3. Alike(m, cl')
      BY <3>1, <3>2, AlikeMarks
    <3> QED BY <3>1, <3>3 DEF Alike, Scoped
  <2>2. ASSUME NEW c \in Commands, Decide(f, c) PROVE Scoped(cl') /\ cl'.row = cl.row
    BY <1>0, <2>2 DEF Decide, Held, Client, Scoped
  <2> QED BY <2>1, <2>2
<1>2. disk' = disk \/ disk' = Image(cl')
  BY <1>0, Saved DEF Retry, Decide, Registered
<1>3. \E s : flow' = [flow EXCEPT ![f] = s] /\ s.ans = Pending
  <2>1. \E p, c : flow' = [flow EXCEPT ![f] = Sending(p, c)]
    BY DEF Retry, Decide, Goto
  <2>2. \A p, c : Sending(p, c).ans = Pending
    BY DEF Sending
  <2> QED BY <2>1, <2>2
<1>4. PICK s : flow' = [flow EXCEPT ![f] = s] /\ s.ans = Pending
  BY <1>3
<1>5. flow'[f] = s /\ \A g \in Flows : g # f => flow'[g] = flow[g]
  BY <1>0, <1>4 DEF FlowsOK
<1>6. RequestsKept
  <2>1. \A g \in Flows : flow[g].pc \in Drains => flow[g].ans = Pending
    BY DEF MirrorInv
  <2>2. Pending.item = NoItem
    BY DEF Pending, Answer
  <2>3. InEpoch' <=> InEpoch
    BY <1>0, <1>1 DEF InEpoch, Scoped
  <2> QED BY <1>0, <1>4, <1>5, <2>1, <2>2, <2>3 DEF RequestsKept
<1> QED BY <1>0, <1>1, <1>2, <1>6, StandsStill DEF Reflects

\* The daemon goes on, alone or with an answer for a submission.
LEMMA GoesOn ==
    ASSUME IInv, IInv', MirrorInv, Follows(srv, srv'), UNCHANGED <<cl, disk, round, val>>,
           srv'.item.asof <= srv'.rev, saved'.item.asof <= saved'.rev,
           \A f \in Flows :
              /\ flow'[f].cur => \/ flow'[f].ans.item = NoItem
                                 \/ Known(flow'[f].ans.item, srv')
                                 \/ flow[f].cur /\ flow'[f].ans.item = flow[f].ans.item
              /\ flow'[f].pc \in Drains => flow'[f].ans = Pending
    PROVE  MirrorInv'
<1>0. /\ srv.item \in Item /\ srv'.item \in Item /\ srv.rev \in Nat /\ srv'.rev \in Nat
      /\ Held(cl) /\ DiskOK(disk) /\ RoundOK(round) /\ ValOK(val) /\ FlowsOK
      /\ round.ans \in Answers /\ val.ans.item \in Item
      /\ \A f \in Flows : flow[f].ans.item \in Item
  BY Reads, Parts DEF IInv, SrvOK, Answers
<1>1. /\ \A i \in Item : Known(i, srv) => Known(i, srv')
      /\ \A i \in Item, r \in Nat : UpTo(r, i, srv) => UpTo(r, i, srv')
      /\ \A e \in [epoch : Nat, full : Nat, seen : Nat], i \in Item :
            Mirrors(e, i, srv) => Mirrors(e, i, srv')
  BY <1>0, KnownFollows
<1>2. /\ ServerDated /\ ClientMirrors /\ RoundMirrors /\ ValMirrors /\ FlowMirrors
      /\ srv'.epoch = srv.epoch
  BY MirrorParts DEF Follows
<1>3. ClientMirrors'
  BY <1>0, <1>1, <1>2 DEF ClientMirrors, Held, Client, Cursors, DiskOK
<1>4. RoundMirrors'
  BY <1>0, <1>1, <1>2 DEF RoundMirrors, Answers
<1>5. InEpoch' <=> InEpoch
  BY <1>2 DEF InEpoch
<1>6. ValMirrors'
  BY <1>0, <1>1, <1>2, <1>5 DEF ValMirrors
<1>7. Known(NoItem, srv')
  BY <1>0, NothingKnown
<1>8. FlowMirrors'
  BY <1>0, <1>1, <1>2, <1>5, <1>7 DEF FlowMirrors
<1> QED BY <1>3, <1>4, <1>6, <1>8, MirrorParts DEF ServerDated

\* The answer to a submission names the item the daemon holds, or none.
LEMMA AnswerShown ==
    ASSUME NEW c \in Commands, Submit(c)
    PROVE  AnswerTo(c).item = NoItem \/ (AnswerTo(c).item = srv.item /\ srv' = srv)
BY DEF AnswerTo, Refusal, Answer, Submit

LEMMA StandingStill ==
    ASSUME IInv
    PROVE  Follows(srv, srv)
BY Reads DEF IInv, Follows

LEMMA ServerMirrors ==
    ASSUME IInv, IInv', MirrorInv, Server,
           srv'.epoch # srv.epoch => cl.cursors # NoCursors
    PROVE  MirrorInv'
<1>0. /\ TypeOK /\ SrvOK /\ SrvOK' /\ srv.item \in Item /\ srv.rev \in Nat /\ ServerDated
      /\ srv.item.ver \in Nat /\ srv.item.asof \in Nat
      /\ \A f \in Flows : flow[f].pc \in Drains => flow[f].ans = Pending
  BY Reads, Parts, MirrorParts DEF IInv, Item, FlowMirrors
<1>1. ASSUME NEW b \in Bodies, NEW o \in BOOLEAN, Advance(b, o) PROVE MirrorInv'
  <2>1. /\ srv'.epoch = srv.epoch /\ srv'.rev = srv.rev + 1
        /\ srv'.item.ver = srv.item.ver + 1 /\ srv'.item.asof = srv.rev + 1
    <3> DEFINE i == [ver |-> srv.item.ver + 1, body |-> b, open |-> o, asof |-> srv.rev + 1]
    <3>1. srv' = [srv EXCEPT !.rev = srv.rev + 1, !.item = i]
      BY <1>0, <1>1 DEF SrvOK, Advance
    <3>2. i.ver = srv.item.ver + 1 /\ i.asof = srv.rev + 1
      OBVIOUS
    <3> HIDE DEF i
    <3> QED BY <1>0, <3>1, <3>2 DEF SrvOK
  <2>2. Follows(srv, srv') /\ srv'.item.asof <= srv'.rev
    BY <1>0, <2>1 DEF Follows
  <2>3. UNCHANGED <<cl, disk, round, val, flow, saved>>
    BY <1>1 DEF Advance
  <2> QED BY <1>0, <2>2, <2>3, GoesOn DEF ServerDated
<1>2. CASE Checkpoint
  <2>1. UNCHANGED <<srv, cl, disk, round, val, flow>> /\ saved'.item.asof <= saved'.rev
    BY <1>0, <1>2 DEF Checkpoint, ServerDated
  <2> QED BY <1>0, <2>1, GoesOn, StandingStill DEF ServerDated
<1>3. CASE Restore
  <2>1. /\ srv'.epoch = srv.epoch + 1 /\ srv'.rev = saved.rev /\ srv'.item = saved.item
        /\ UNCHANGED <<saved, cl, disk, round, val, flow>> /\ srv.epoch \in Nat
    BY <1>0, <1>3 DEF Restore, SrvOK
  <2>2. cl.cursors.epoch # 0 /\ cl.cursors.epoch \in Nat /\ cl.cursors.epoch <= srv.epoch
    <3>1. Held(cl) /\ cl.cursors # NoCursors
      BY <1>0, <2>1, Parts DEF ClientOK
    <3> QED BY <3>1 DEF Held, Client, Cursors, MirrorInv, Mirrors
  <2>3. ~InEpoch'
    BY <2>1, <2>2 DEF InEpoch
  <2>4. Mirrors(cl'.cursors, cl'.row, srv')
    BY <2>1, <2>2 DEF Mirrors
  <2>5. Mirrors(disk.cursors, disk.row, srv') /\ (disk.cursors.epoch = 0 => disk.row = NoItem)
    <3>1. /\ disk.cursors.epoch \in Nat /\ disk.cursors.epoch <= srv.epoch
          /\ disk.cursors.epoch = 0 => (disk.row = NoItem /\ srv.epoch >= 2)
      BY <1>0, Parts DEF ClientOK, DiskOK, Cursors, MirrorInv, Mirrors
    <3>2. Known(NoItem, srv')
      BY <1>0, NothingKnown DEF SrvOK
    <3> QED BY <2>1, <3>1, <3>2 DEF Mirrors
  <2>6. RoundMirrors'
    <3>1. round.ans.epoch \in Nat
      BY Reads DEF IInv, Answers
    <3> QED BY <2>1, <3>1 DEF MirrorInv, RoundMirrors
  <2>7. ServerDated' /\ ClientMirrors' /\ ValMirrors' /\ FlowMirrors'
    BY <1>0, <2>1, <2>3, <2>4, <2>5 DEF ServerDated, ClientMirrors, ValMirrors, FlowMirrors
  <2> QED BY <2>6, <2>7, MirrorParts
<1>4. ASSUME NEW c \in Commands, Arrive(c) PROVE MirrorInv'
  <2>1. (Submit(c) \/ Refuses(c)) /\ UNCHANGED <<saved, cl, disk, round, val, flow>>
    BY <1>4 DEF Arrive
  <2>2. Follows(srv, srv') /\ srv'.item.asof <= srv'.rev
    BY <1>0, <2>1, SubmitFollows DEF ServerDated
  <2> QED BY <1>0, <2>1, <2>2, GoesOn DEF ServerDated
<1> QED BY <1>1, <1>2, <1>3, <1>4 DEF Server

LEMMA ServeMirrors ==
    ASSUME IInv, IInv', MirrorInv, Serve
    PROVE  MirrorInv'
<1>0. /\ TypeOK /\ srv.item \in Item /\ ServerDated /\ ClientMirrors /\ RoundMirrors
      /\ ValMirrors /\ FlowMirrors /\ FlowsOK /\ ValOK(val) /\ RoundOK(round)
      /\ srv.rev \in Nat /\ srv.item.asof \in Nat /\ srv.epoch \in Nat
  BY Reads, Parts, MirrorParts DEF IInv, Item
<1>1. Known(srv.item, srv) /\ UpTo(srv.rev, srv.item, srv)
  BY <1>0 DEF Known, UpTo
<1>2. CASE ServeValidation
  <2>1. val'.ans.item = srv.item /\ UNCHANGED <<srv, saved, cl, disk, round, flow>>
    BY <1>0, <1>2 DEF ServeValidation, daemon, ValOK, Answer
  <2>2. ServerDated' /\ ClientMirrors' /\ RoundMirrors' /\ ValMirrors' /\ FlowMirrors'
    BY <1>0, <1>1, <2>1
       DEF ServerDated, ClientMirrors, RoundMirrors, ValMirrors, FlowMirrors, InEpoch
  <2> QED BY <2>2, MirrorParts
<1>3. CASE ServeBootstrap
  <2> DEFINE a == Answer("ok", srv.epoch, srv.rev, srv.item)
  <2>1. /\ round'.ans = a /\ round'.kind = "bootstrap"
        /\ UNCHANGED <<srv, saved, cl, disk, val, flow>>
    BY <1>0, <1>3 DEF ServeBootstrap, daemon, RoundOK, Asking
  <2>2. a.epoch = srv.epoch /\ a.rev = srv.rev /\ a.item = srv.item
    BY DEF Answer
  <2> HIDE DEF a
  <2>3. RoundMirrors'
    BY <1>0, <1>1, <2>1, <2>2 DEF RoundMirrors
  <2>4. ServerDated' /\ ClientMirrors' /\ ValMirrors' /\ FlowMirrors'
    BY <1>0, <2>1 DEF ServerDated, ClientMirrors, ValMirrors, FlowMirrors, InEpoch
  <2> QED BY <2>3, <2>4, MirrorParts
<1>4. ASSUME NEW f \in Flows, ServePost(f) PROVE MirrorInv'
  <2> DEFINE c == flow[f].id
  <2>1. /\ UNCHANGED <<saved, cl, disk, round, val>> /\ c \in Commands /\ flow[f].pc \in Posts
        /\ \E a : /\ flow' = [flow EXCEPT ![f] = [flow[f] EXCEPT !.ans = a]]
                  /\ (Submit(c) /\ a = AnswerTo(c)) \/ (Refuses(c) /\ a = Refusal)
    BY <1>0, <1>4, Reads DEF ServePost, Goto, Posts
  <2>2. /\ \/ Submit(c) /\ flow'[f].ans = AnswerTo(c)
           \/ Refuses(c) /\ flow'[f].ans = Refusal
        /\ flow'[f].pc = flow[f].pc
        /\ \A g \in Flows : g # f => flow'[g] = flow[g]
    BY <1>0, <2>1 DEF FlowsOK
  <2>3. Follows(srv, srv') /\ srv'.item.asof <= srv'.rev
    BY <1>0, <2>1, <2>2, SubmitFollows DEF ServerDated
  <2>4. flow'[f].ans.item = NoItem \/ Known(flow'[f].ans.item, srv')
    BY <1>1, <2>1, <2>2, AnswerShown DEF Refusal, Answer
  <2>5. flow'[f].pc \notin Drains
    BY <2>1, <2>2 DEF Posts, Drains
  <2>6. \A g \in Flows : flow[g].pc \in Drains => flow[g].ans = Pending
    BY <1>0 DEF FlowMirrors
  <2> QED BY <1>0, <2>1, <2>2, <2>3, <2>4, <2>5, <2>6, GoesOn DEF ServerDated
<1>5. ASSUME NEW f \in Flows, ServeRefetch(f) PROVE MirrorInv'
  <2>1. /\ flow' = [flow EXCEPT ![f] = [flow[f] EXCEPT !.ans = Answer("ok", 0, 0, srv.item)]]
        /\ UNCHANGED <<srv, saved, cl, disk, round, val>> /\ flow[f].pc = "refetch"
    BY <1>5 DEF ServeRefetch, Goto
  <2>2. /\ flow'[f].ans.item = srv.item /\ flow'[f].pc = flow[f].pc
        /\ \A g \in Flows : g # f => flow'[g] = flow[g]
    BY <1>0, <2>1 DEF FlowsOK, Answer
  <2>3. flow'[f].pc \notin Drains
    BY <2>1, <2>2 DEF Drains
  <2>4. \A g \in Flows : flow[g].pc \in Drains => flow[g].ans = Pending
    BY <1>0 DEF FlowMirrors
  <2> QED BY <1>0, <1>1, <2>1, <2>2, <2>3, <2>4, GoesOn, StandingStill DEF ServerDated
<1> QED BY <1>2, <1>3, <1>4, <1>5 DEF Serve

\* Failures take answers away; a relaunched client mirrors what its file did.
LEMMA FailureMirrors ==
    ASSUME IInv, IInv', MirrorInv, Failures
    PROVE  MirrorInv'
<1>0. /\ TypeOK /\ ServerDated /\ ClientMirrors /\ FlowsOK /\ Held(cl) /\ Held(cl')
      /\ \A g \in Flows : flow[g].pc \in Drains => flow[g].ans = Pending
      /\ Pending.item = NoItem /\ Lost.item = NoItem /\ Denied.item = NoItem
  BY Parts, MirrorParts DEF IInv, ClientOK, FlowMirrors, Pending, Lost, Denied, Answer
<1>1. CASE FailRound \/ FailValidation
  <2>1. Alike(cl, cl') /\ UNCHANGED <<srv, saved, disk, flow>>
    BY <1>0, <1>1, AlikeMarks DEF FailRound, FailValidation, daemon
  <2>2. val' = val \/ val'.ans = Pending
    BY <1>1 DEF FailRound, FailValidation, NoValidation
  <2>3. round' = round \/ round' = NoRound
    BY <1>1 DEF FailRound, FailValidation
  <2>4. Scoped(cl') /\ Reflects(cl')
    BY <2>1 DEF Alike, Scoped, Reflects
  <2> QED BY <1>0, <2>1, <2>2, <2>3, <2>4, RequestsStay, StandsStill
<1>2. CASE Relaunch
  <2>1. /\ UNCHANGED <<srv, saved, disk>> /\ round' = NoRound /\ val' = NoValidation
        /\ flow' = [f \in Flows |-> Idle] /\ cl'.cursors = disk.cursors /\ cl'.row = disk.row
    BY <1>2 DEF Relaunch
  <2>2. ClientMirrors' /\ ServerDated'
    BY <1>0, <2>1 DEF ClientMirrors, ServerDated
  <2>3. RoundMirrors' /\ ValMirrors' /\ FlowMirrors'
    BY <2>1 DEF RoundMirrors, ValMirrors, FlowMirrors, NoRound, NoValidation, Idle, Drains
  <2> QED BY <2>2, <2>3, MirrorParts
<1>3. ASSUME NEW f \in Flows, LoseAnswer(f) \/ Deny(f) PROVE MirrorInv'
  <2>1. PICK a \in {Lost, Denied} : flow' = [flow EXCEPT ![f] = [flow[f] EXCEPT !.ans = a]]
    BY <1>3 DEF LoseAnswer, Deny, Goto
  <2>2. /\ flow'[f].ans.item = NoItem /\ flow'[f].pc = flow[f].pc
        /\ \A g \in Flows : g # f => flow'[g] = flow[g]
    BY <1>0, <2>1 DEF FlowsOK
  <2>3. UNCHANGED <<srv, saved, cl, disk, round, val>>
    BY <1>3 DEF LoseAnswer, Deny, daemon
  <2>4. flow[f].pc \notin Drains
    <3>1. flow[f].ans # Pending \/ flow[f].pc \in Posts \cup {"refetch"}
      BY <1>3 DEF LoseAnswer, Deny, Waits
    <3>2. CASE flow[f].ans # Pending
      BY <1>0, <3>2
    <3>3. CASE flow[f].pc \in Posts \cup {"refetch"}
      BY <3>3 DEF Posts, Drains
    <3> QED BY <3>1, <3>2, <3>3
  <2> QED BY <1>0, <2>2, <2>3, <2>4, GoesOn, StandingStill DEF ServerDated
<1> QED BY <1>1, <1>2, <1>3 DEF Failures

\* adopt: of two rows of one history the newer one is current; rows of another
\* are dropped first.
LEMMA AdoptedMirrors ==
    ASSUME NEW s, s.item \in Item, s.epoch \in Nat \ {0}, s.rev \in Nat,
           NEW m, Held(m), Mirrors(m.cursors, m.row, s),
           NEW a \in Answers, a.epoch # 0, a.epoch <= s.epoch,
           a.epoch = s.epoch => Known(a.item, s) /\ UpTo(a.rev, a.item, s)
    PROVE  /\ Mirrors(Adopted(m, a).cursors, Adopted(m, a).row, s)
           /\ Adopted(m, a).cursors.epoch = a.epoch
<1> DEFINE kept == IF OtherEpoch(m, a.epoch) THEN Evicted(m) ELSE m
           row == IF a.item.ver # 0 /\ Outranked(kept, a.item) THEN kept.row ELSE a.item
           cur == [epoch |-> a.epoch, full |-> a.rev,
                   seen |-> IF kept.cursors.seen > a.rev THEN kept.cursors.seen ELSE a.rev]
<1>1. Held(kept) /\ (kept = m \/ kept.row = NoItem)
  BY EvictedHeld DEF Evicted, Held, Client
<1>2. Adopted(m, a).row = row /\ Adopted(m, a).cursors = cur
  <2>1. Adopted(m, a) = [kept EXCEPT !.row = row, !.cursors = cur, !.fresh = "fresh"]
    BY <1>1 DEF Adopted, Held, Client
  <2> HIDE DEF kept, row, cur
  <2> QED BY <1>1, <2>1 DEF Held, Client
<1>3. a.epoch = s.epoch => Known(kept.row, s)
  <2> SUFFICES ASSUME a.epoch = s.epoch PROVE Known(kept.row, s)
    OBVIOUS
  <2>1. CASE OtherEpoch(m, a.epoch)
    BY <2>1, NothingKnown DEF Evicted, Held, Client
  <2>2. CASE ~OtherEpoch(m, a.epoch)
    BY <2>2 DEF OtherEpoch, Mirrors, NoCursors
  <2> QED BY <2>1, <2>2
<1>4. /\ a.item \in Item /\ a.rev \in Nat /\ a.epoch \in Nat
      /\ kept.row \in Item /\ s.item.ver \in Nat
  BY <1>1 DEF Answers, Held, Client, Item
<1>5. a.item.ver \in Nat /\ kept.row.ver \in Nat
  BY <1>4 DEF Item
<1>6. a.epoch = s.epoch => Known(row, s) /\ UpTo(a.rev, row, s)
  <2> HIDE DEF kept
  <2> QED BY <1>3, <1>4, <1>5 DEF Outranked, Known, UpTo
<1> HIDE DEF kept, row
<1>7. cur.epoch = a.epoch /\ cur.full = a.rev
  OBVIOUS
<1> HIDE DEF cur
<1> QED BY <1>2, <1>4, <1>6, <1>7 DEF Mirrors

LEMMA SyncMirrors ==
    ASSUME IInv, IInv', MirrorInv, Sync
    PROVE  MirrorInv'
<1>0. /\ TypeOK /\ Held(cl) /\ Held(cl') /\ round.ans \in Answers /\ round.ans.rev \in Nat
      /\ RoundOK(round) /\ FlowsOK /\ ValOK(val) /\ faults \in Nat
      /\ srv.item \in Item /\ srv.epoch \in Nat \ {0} /\ srv.rev \in Nat
      /\ ServerDated /\ ClientMirrors /\ RoundMirrors /\ ValMirrors /\ FlowMirrors
  BY Reads, Parts, MirrorParts DEF IInv, ClientOK, Answers
<1>1. ASSUME Alike(cl, cl'), disk' = disk \/ disk' = Image(cl'),
             UNCHANGED <<srv, saved, val, flow>>,
             round' = NoRound \/ round' = Asking("bootstrap")
      PROVE  MirrorInv'
  <2>1. Scoped(cl') /\ Reflects(cl')
    BY <1>1 DEF Alike, Scoped, Reflects
  <2> QED BY <1>0, <1>1, <2>1, RequestsStay, StandsStill
<1>2. ASSUME val' = [val EXCEPT !.cur = FALSE],
             flow' = [f \in Flows |-> [flow[f] EXCEPT !.cur = FALSE]]
      PROVE  ValMirrors' /\ FlowMirrors'
  <2>1. ~val'.cur
    BY <1>0, <1>2 DEF ValOK
  <2>2. \A f \in Flows : /\ ~flow'[f].cur /\ flow'[f].pc = flow[f].pc
                         /\ flow'[f].ans = flow[f].ans
    <3>1. \A f \in Flows : FlowOK(flow[f])
      BY <1>0, Reads
    <3> QED BY <1>2, <3>1 DEF FlowOK
  <2> QED BY <1>0, <2>1, <2>2 DEF ValMirrors, FlowMirrors
<1>3. CASE StartRound
  <2> DEFINE a == Answer("ok", srv.epoch, srv.rev, NoItem)
  <2>1. /\ round'.kind = "heartbeat" /\ round'.ans = a
        /\ UNCHANGED <<srv, saved, cl, disk, val, flow>>
    BY <1>3 DEF StartRound, daemon
  <2>2. a.epoch = srv.epoch /\ a # Pending
    BY DEF Answer, Pending
  <2> HIDE DEF a
  <2>3. RoundMirrors'
    BY <1>0, <2>1, <2>2 DEF RoundMirrors
  <2>4. ServerDated' /\ ClientMirrors' /\ ValMirrors' /\ FlowMirrors'
    BY <1>0, <2>1 DEF ServerDated, ClientMirrors, ValMirrors, FlowMirrors, InEpoch
  <2> QED BY <2>3, <2>4, MirrorParts
<1>4. CASE Heartbeat /\ FirstSync
  BY <1>0, <1>1, <1>4 DEF Heartbeat, FirstSync, daemon, Alike
<1>5. CASE Heartbeat /\ NewEpoch
  <2>1. /\ cl' = Evicted(cl) /\ Saves(cl') /\ EvictRequests /\ round' = Asking("bootstrap")
        /\ UNCHANGED <<srv, saved>> /\ round.kind = "heartbeat"
        /\ cl.cursors # NoCursors /\ cl.cursors.epoch # round.ans.epoch
    BY <1>5 DEF Heartbeat, NewEpoch, daemon, OtherEpoch
  <2>2. srv.epoch >= 2
    <3>1. /\ round.ans.epoch # 0 /\ round.ans.epoch <= srv.epoch /\ round.ans.epoch \in Nat
      BY <1>0, <2>1 DEF RoundOK, RoundMirrors, Answers
    <3>2. cl.cursors.epoch # 0 /\ cl.cursors.epoch <= srv.epoch /\ cl.cursors.epoch \in Nat
      BY <1>0, <2>1 DEF Held, Client, Cursors, ClientMirrors, Mirrors
    <3> QED BY <1>0, <2>1, <3>1, <3>2
  <2>3. cl'.cursors = NoCursors /\ cl'.row = NoItem
    BY <1>0, <2>1 DEF Evicted, Held, Client
  <2>4. Mirrors(cl'.cursors, cl'.row, srv)
    BY <1>0, <2>2, <2>3, NothingKnown DEF Mirrors, NoCursors
  <2>5. disk' = disk \/ disk' = Image(cl')
    BY <1>0, <2>1, Saved
  <2>6. ClientMirrors'
    BY <1>0, <2>1, <2>4, <2>5, ImageMirrors DEF ClientMirrors
  <2>7. ValMirrors' /\ FlowMirrors'
    BY <1>2, <2>1 DEF EvictRequests
  <2>8. RoundMirrors' /\ ServerDated'
    BY <1>0, <2>1 DEF RoundMirrors, ServerDated, Asking
  <2> QED BY <2>6, <2>7, <2>8, MirrorParts
<1>6. ASSUME NEW drift \in BOOLEAN, Heartbeat, SameEpoch(drift) PROVE MirrorInv'
  <2> DEFINE m == Observed(cl, round.ans.rev)
  <2>1. Alike(cl, m)
    BY <1>0, AlikeMarks
  <2>2. /\ cl' = m \/ cl' = [m EXCEPT !.fresh = "fresh"]
        /\ UNCHANGED <<disk, faults>> \/ Saves(cl')
        /\ round' = Asking("bootstrap") \/ round' = NoRound
        /\ UNCHANGED <<srv, saved, val, flow>>
    BY <1>6 DEF Heartbeat, SameEpoch, daemon
  <2> HIDE DEF m
  <2>3. Alike(m, [m EXCEPT !.fresh = "fresh"])
    BY <2>1, AlikeMarks DEF Alike
  <2>4. Alike(cl, cl')
    BY <2>1, <2>2, <2>3 DEF Alike
  <2>5. disk' = disk \/ disk' = Image(cl')
    BY <1>0, <2>2, Saved
  <2> QED BY <1>1, <2>2, <2>4, <2>5
<1>7. CASE Bootstrap /\ Refetch
  <2>1. Alike(cl, cl')
    BY <1>0, <1>7, AlikeMarks DEF Refetch, Alike
  <2> QED BY <1>1, <1>7, <2>1 DEF Bootstrap, Refetch, daemon
<1>8. CASE Bootstrap /\ Adopt
  <2> DEFINE a == round.ans
  <2>1. /\ cl' = Adopted(cl, a) /\ Saves(cl') /\ round' = NoRound /\ UNCHANGED <<srv, saved>>
        /\ round.kind = "bootstrap" /\ a # Pending
        /\ IF OtherEpoch(cl, a.epoch) THEN EvictRequests ELSE UNCHANGED <<val, flow>>
    BY <1>8 DEF Bootstrap, Adopt, daemon
  <2>2. /\ a.epoch # 0 /\ a.epoch <= srv.epoch
        /\ a.epoch = srv.epoch => Known(a.item, srv) /\ UpTo(a.rev, a.item, srv)
    BY <1>0, <2>1 DEF RoundOK, RoundMirrors
  <2>3. Mirrors(cl'.cursors, cl'.row, srv) /\ cl'.cursors.epoch = a.epoch
    BY <1>0, <2>1, <2>2, AdoptedMirrors DEF ClientMirrors
  <2>4. disk' = disk \/ disk' = Image(cl')
    BY <1>0, <2>1, Saved
  <2>5. ClientMirrors'
    BY <1>0, <2>1, <2>3, <2>4, ImageMirrors DEF ClientMirrors
  <2>6. ValMirrors' /\ FlowMirrors'
    <3>1. CASE OtherEpoch(cl, a.epoch)
      BY <1>2, <2>1, <3>1 DEF EvictRequests
    <3>2. CASE ~OtherEpoch(cl, a.epoch)
      <4>1. InEpoch' => InEpoch
        BY <2>1, <2>2, <2>3, <3>2 DEF InEpoch, OtherEpoch, NoCursors
      <4> QED BY <1>0, <2>1, <3>2, <4>1 DEF ValMirrors, FlowMirrors
    <3> QED BY <3>1, <3>2
  <2>7. RoundMirrors' /\ ServerDated'
    BY <1>0, <2>1 DEF RoundMirrors, ServerDated, NoRound
  <2> QED BY <2>5, <2>6, <2>7, MirrorParts
<1> QED BY <1>3, <1>4, <1>5, <1>6, <1>7, <1>8 DEF Sync, Heartbeat, Bootstrap

LEMMA InitMirrors ==
    ASSUME Init
    PROVE  MirrorInv
<1>1. PICK b \in Bodies :
         /\ srv = [epoch |-> 1, rev |-> 1, item |-> FirstItem(b),
                   recorded |-> [c \in Commands |-> NoRecord]]
         /\ cl = [cursors |-> [epoch |-> 1, full |-> 1, seen |-> 1],
                  row |-> FirstItem(b), fresh |-> "unvalidated", slot |-> NoSlot,
                  valid |-> FALSE, phase |-> "idle"]
  BY DEF Init
<1>2. FirstItem(b).asof = 1
  BY DEF FirstItem
<1>3. ServerDated
  BY <1>1, <1>2 DEF Init, ServerDated, NoItem
<1>4. Mirrors(cl.cursors, cl.row, srv)
  BY <1>1, <1>2 DEF Mirrors, Known, UpTo
<1>5. ClientMirrors
  <2>1. disk.cursors = cl.cursors /\ disk.row = cl.row /\ cl.cursors.epoch # 0
    BY <1>1 DEF Init, Image, NoCursors
  <2> QED BY <1>4, <2>1 DEF ClientMirrors
<1>6. RoundMirrors /\ ValMirrors /\ FlowMirrors
  BY DEF Init, RoundMirrors, ValMirrors, FlowMirrors, NoRound, NoValidation, Idle, Drains
<1> QED BY <1>3, <1>5, <1>6, MirrorParts

\* A step of the daemon or the client, when no restore falls into a gap.
GapFree == srv'.epoch # srv.epoch => cl.cursors # NoCursors

LEMMA NextMirrors ==
    ASSUME IInv, IInv', MirrorInv, [Next]_vars, [GapFree]_vars
    PROVE  MirrorInv'
<1>1. CASE UNCHANGED vars
  <2>1. Pending.item = NoItem /\ FlowMirrors /\ ServerDated
    BY MirrorParts DEF Pending, Answer
  <2> QED BY <1>1, <2>1, GoesOn, StandingStill DEF vars, FlowMirrors, ServerDated
<1>2. CASE Next /\ ~UNCHANGED vars
  <2>1. GapFree
    BY <1>2 DEF GapFree
  <2>2. ASSUME Operator PROVE MirrorInv'
    BY <2>2, OperatorMirrors DEF Operator
  <2> QED BY <1>2, <2>1, <2>2, ServerMirrors, ServeMirrors, SyncMirrors, ValidationMirrors,
             FailureMirrors, ContinueMirrors DEF Next, GapFree
<1> QED BY <1>1, <1>2

\* With one restore at most, it finds the client with the cursors of the epoch
\* before: they are only ever dropped for another one.
LEMMA OneRestoreSeen ==
    ASSUME IInv, MirrorInv, MaxEpoch <= 2, [Next]_vars
    PROVE  GapFree
<1> SUFFICES ASSUME srv'.epoch # srv.epoch, cl.cursors = NoCursors
             PROVE  FALSE
  BY DEF GapFree
<1>1. /\ srv.epoch \in Nat \ {0} /\ srv.epoch >= 2 /\ Held(cl) /\ TypeOK
      /\ \A f \in Flows : flow[f].pc \in Posts => flow[f].id \in Commands
  BY Reads, Parts DEF IInv, MirrorInv, Mirrors, NoCursors, Posts
<1>2. MaxEpoch \in Nat
  BY SyncBounds
<1>3. ~Restore
  BY <1>1, <1>2 DEF Restore
<1>4. ASSUME NEW c \in Commands, Submit(c) \/ Refuses(c) PROVE srv'.epoch = srv.epoch
  BY <1>1, <1>4, SubmitFollows DEF Follows
<1>5. ASSUME NEW b, NEW o, Advance(b, o) PROVE srv'.epoch = srv.epoch
  BY <1>1, <1>5, Parts DEF Advance, SrvOK
<1>6. ~Server
  BY <1>3, <1>4, <1>5 DEF Server, Checkpoint, Arrive
<1>7. ~Serve
  BY <1>1, <1>4 DEF Serve, ServeValidation, ServeBootstrap, ServePost, ServeRefetch, daemon
<1>8. ~Sync /\ ~Validate /\ ~ViewValidates /\ ~Operator /\ ~Failures
  BY DEF Sync, StartRound, Heartbeat, Bootstrap, Validate, ViewValidates, Operator, Retry,
         Decide, Failures, FailRound, FailValidation, Relaunch, LoseAnswer, Deny, daemon
<1>9. \A f \in Flows : ~Continue(f)
  BY ContinueEffect DEF Effect
<1> QED BY <1>6, <1>7, <1>8, <1>9 DEF Next, vars

LEMMA MirrorCurrent ==
    ASSUME IInv, MirrorInv
    PROVE  FreshIsCurrent
BY Reads DEF IInv, MirrorInv, Mirrors, UpTo, FreshIsCurrent, Item

\* A list shown as fresh at the daemon's epoch and revision shows the daemon's item
\* (SyncCoordinator.adopt, DecisionModel.validate), for any commands, submissions,
\* faults and writes and one restore.
THEOREM FreshCurrent ==
    ASSUME MaxEpoch <= 2
    PROVE  Spec => []FreshIsCurrent
<1>1. Init => IInv /\ MirrorInv
  BY InitIInv, InitMirrors
<1>2. IInv /\ MirrorInv /\ [Next]_vars => (IInv /\ MirrorInv)'
  <2> SUFFICES ASSUME IInv, MirrorInv, [Next]_vars PROVE (IInv /\ MirrorInv)'
    OBVIOUS
  <2>1. IInv' /\ GapFree
    BY NextIInv, OneRestoreSeen
  <2> QED BY <2>1, NextMirrors
<1>3. IInv /\ MirrorInv => FreshIsCurrent
  BY MirrorCurrent
<1> QED BY <1>1, <1>2, <1>3, PTL DEF Spec

\* The same for any number of restores, each of which finds the client with the
\* cursors of some epoch: none falls between an eviction and the next bootstrap.
THEOREM FreshWhenSeen == Spec /\ RestoresSeen => []FreshIsCurrent
<1>1. Init => IInv /\ MirrorInv
  BY InitIInv, InitMirrors
<1>2. IInv /\ MirrorInv /\ [Next]_vars /\ [GapFree]_vars => (IInv /\ MirrorInv)'
  BY NextIInv, NextMirrors
<1>3. IInv /\ MirrorInv => FreshIsCurrent
  BY MirrorCurrent
<1>4. RestoresSeen <=> [][GapFree]_vars
  BY PTL DEF RestoresSeen, GapFree
<1> QED BY <1>1, <1>2, <1>3, <1>4, PTL DEF Spec

-----------------------------------------------------------------------------
(* What was answered for a command, and the daemon's records.               *)

\* The daemon's history goes on, and of the commands only those in D may have
\* been accepted, by an item they bind to.
Writes(D) ==
    /\ Follows(srv, srv')
    /\ \A c \in Commands : Recorded(c) => Recorded(c)'
    /\ \A c \in Commands : RecordedNow(c) => c \in D /\ Binds(c)

Requested(c) == c \in late \/ \E f \in Flows : Live(f, c)

\* VerdictInv, of one command.
VerdictOf(c) ==
    verdict[c] # "none" =>
       /\ cl.slot.id # c
       /\ SentHere(c) /\ verdict[c] # "unrecorded" =>
             Recorded(c) \/ Spent(c) \/ ~Requested(c)

\* SentInv, of one command.
SentOf(c) ==
    /\ sent[c].epoch <= srv.epoch
    /\ SentHere(c) => sent[c].ver <= srv.item.ver
    /\ sent[c].ver = 0 => /\ ~Recorded(c) /\ saved.recorded[c].rev = 0
                          /\ ~Requested(c) /\ verdict[c] = "none"
                          /\ c # cl.slot.id /\ c # disk.slot

\* FlowInv, of one submission.
FlowOf(f) == flow[f].pc # "idle" => AnswerInv(f) /\ (flow[f].pc = "submit" => FirstSend(f))

LEMMA AnswerParts ==
    /\ AnswersInv <=> /\ \A c \in Commands : SentOf(c) /\ VerdictOf(c)
                      /\ \A f \in Flows : FlowOf(f)
    /\ AnswersInv' <=> /\ \A c \in Commands : SentOf(c)' /\ VerdictOf(c)'
                       /\ \A f \in Flows : FlowOf(f)'
<1>1. \A c \in Commands : Requested(c) <=> (c \in late \/ \E f \in Flows : Live(f, c))
  BY DEF Requested
<1>2. \A c \in Commands : Requested(c)' <=> (c \in late' \/ \E f \in Flows : Live(f, c)')
  BY DEF Requested
<1>3. SentInv <=> \A c \in Commands : SentOf(c)
  BY <1>1 DEF SentInv, SentOf
<1>4. SentInv' <=> \A c \in Commands : SentOf(c)'
  BY <1>2 DEF SentInv, SentOf
<1>5. VerdictInv <=> \A c \in Commands : VerdictOf(c)
  BY <1>1 DEF VerdictInv, VerdictOf
<1>6. VerdictInv' <=> \A c \in Commands : VerdictOf(c)'
  BY <1>2 DEF VerdictInv, VerdictOf
<1>7. FlowInv <=> \A f \in Flows : FlowOf(f)
  BY DEF FlowInv, FlowOf
<1>8. FlowInv' <=> \A f \in Flows : FlowOf(f)'
  BY DEF FlowInv, FlowOf
<1> QED BY <1>3, <1>4, <1>5, <1>6, <1>7, <1>8 DEF AnswersInv

\* What is true of a command in this history stays true as it goes on.
LEMMA WritesLast ==
    ASSUME IInv, IInv', NEW D, Writes(D), NEW c \in Commands, sent'[c] = sent[c]
    PROVE  /\ SentHere(c)' <=> SentHere(c)
           /\ Spent(c) => Spent(c)' /\ ~RecordedNow(c)
           /\ (SentHere(c) => sent[c].ver <= srv.item.ver)
                 => (SentHere(c)' => sent'[c].ver <= srv'.item.ver)
<1>1. /\ srv.item.ver \in Nat /\ srv'.item.ver \in Nat /\ sent[c].ver \in Nat
      /\ srv'.epoch = srv.epoch
  BY Parts DEF IInv, SrvOK, Item, SentOK, Writes, Follows
<1>2. srv'.item = srv.item \/ srv'.item.ver = srv.item.ver + 1
  BY DEF Writes, Follows
<1>3. SentHere(c)' <=> SentHere(c)
  BY <1>1 DEF SentHere
<1>4. Spent(c) => ~Binds(c)
  BY <1>1 DEF Spent, Binds
<1>5. Spent(c) => Spent(c)'
  BY <1>1, <1>2 DEF Spent, Binds
<1> QED BY <1>1, <1>2, <1>3, <1>4, <1>5 DEF Writes

\* A step that only takes commands on: no command is new, and nothing is asked
\* for or released but what was.
Quiet(D) ==
    /\ Writes(D) /\ \A d \in D : Requested(d)
    /\ sent' = sent /\ (saved' = saved \/ saved'.recorded = srv.recorded)
    /\ \A c \in late' : Requested(c)
    /\ \A f \in Flows, c \in Commands : Live(f, c)' => Live(f, c) \/ c = cl.slot.id
    /\ cl'.slot.id \in {None, cl.slot.id, disk.slot}
    /\ disk'.slot \in {disk.slot, cl'.slot.id}
    /\ \A c \in Commands : verdict'[c] \in {"none", verdict[c]} \/ Requested(c)

\* An unsent command is still nowhere.
LEMMA QuietSent ==
    ASSUME IInv, IInv', NEW D, Quiet(D), NEW c \in Commands, SentOf(c)
    PROVE  SentOf(c)'
<1>1. Writes(D) /\ sent'[c] = sent[c]
  BY DEF Quiet
<1>2. sent'[c].epoch <= srv'.epoch
  BY <1>1 DEF SentOf, Writes, Follows
<1>3. SentHere(c)' => sent'[c].ver <= srv'.item.ver
  BY <1>1, WritesLast DEF SentOf
<1>4. ASSUME sent[c].ver = 0
      PROVE  /\ ~Recorded(c)' /\ saved'.recorded[c].rev = 0 /\ ~Requested(c)'
             /\ verdict'[c] = "none" /\ c # cl'.slot.id /\ c # disk'.slot
  <2>1. /\ ~Recorded(c) /\ saved.recorded[c].rev = 0 /\ ~Requested(c)
        /\ verdict[c] = "none" /\ c # cl.slot.id /\ c # disk.slot /\ c # None
    BY <1>4, CommandsAssumption DEF SentOf
  <2>2. ~Recorded(c)'
    BY <2>1 DEF Quiet, Writes, RecordedNow
  <2>3. saved'.recorded[c].rev = 0
    BY <2>1 DEF Quiet, Recorded
  <2>4. ~Requested(c)'
    BY <2>1 DEF Quiet, Requested
  <2>5. verdict'[c] = "none" /\ c # cl'.slot.id /\ c # disk'.slot
    BY <2>1 DEF Quiet
  <2> QED BY <2>2, <2>3, <2>4, <2>5
<1> QED BY <1>1, <1>2, <1>3, <1>4 DEF SentOf

\* What was told stays true.
LEMMA QuietVerdict ==
    ASSUME IInv, IInv', NEW D, Quiet(D), NEW c \in Commands, VerdictOf(c),
           verdict'[c] \in {"none", verdict[c]}, cl'.slot.id = c => verdict'[c] = "none"
    PROVE  VerdictOf(c)'
<1> SUFFICES ASSUME verdict'[c] \notin {"none", "unrecorded"}
             PROVE  SentHere(c)' => Recorded(c)' \/ Spent(c)' \/ ~Requested(c)'
  BY DEF VerdictOf
<1>1. Writes(D) /\ sent'[c] = sent[c]
  BY DEF Quiet
<1>2. /\ SentHere(c)' <=> SentHere(c)
      /\ Spent(c) => Spent(c)'
      /\ Recorded(c) => Recorded(c)'
  BY <1>1, WritesLast DEF Writes
<1>3. cl.slot.id # c /\ (SentHere(c) => Recorded(c) \/ Spent(c) \/ ~Requested(c))
  BY DEF VerdictOf
<1>4. ~Requested(c) => ~Requested(c)'
  BY <1>3 DEF Quiet, Requested
<1> QED BY <1>2, <1>3, <1>4

\* The request goes on as it is, or its answer is taken away.
Stays(f) ==
    /\ flow'[f].pc = flow[f].pc /\ flow'[f].id = flow[f].id
    /\ \/ flow'[f].ans = flow[f].ans \/ flow'[f].ans.kind \in {"lost", "denied", "refused"}
       \/ flow[f].pc = "refetch"
    /\ InEpoch' /\ flow'[f].cur => InEpoch /\ flow[f].cur

\* What an answer proves, it goes on proving.
LEMMA StaysTrue ==
    ASSUME IInv, IInv', NEW D, Writes(D), missed \subseteq missed',
           NEW f \in Flows, flow[f].pc # "idle", sent'[flow[f].id] = sent[flow[f].id],
           AnswerInv(f), Stays(f)
    PROVE  AnswerInv(f)'
<1> DEFINE c == flow[f].id
<1>1. c \in Commands /\ flow'[f].id = c /\ flow'[f].pc = flow[f].pc
  BY Reads DEF IInv, Stays
<1>2. /\ SentHere(c)' <=> SentHere(c)
      /\ Spent(c) => Spent(c)' /\ ~RecordedNow(c)
      /\ Recorded(c) => Recorded(c)'
  BY <1>1, WritesLast DEF Writes
<1>3. Settles(f)' => Settles(f)
  BY DEF Settles, Stays, Posts
<1>4. (SentHere(c)' /\ Settles(f)') => Recorded(c)'
  BY <1>2, <1>3 DEF AnswerInv
<1>5. SentHere(c)' /\ flow'[f].pc \in Posts /\ flow'[f].ans.kind = "conflict"
         => Spent(c)' /\ ~Recorded(c)'
  <2> SUFFICES ASSUME SentHere(c), flow[f].pc \in Posts, flow'[f].ans.kind = "conflict"
               PROVE  Spent(c)' /\ ~Recorded(c)'
    BY <1>1, <1>2
  <2>1. flow'[f].ans = flow[f].ans
    BY DEF Stays, Posts
  <2>2. Spent(c) /\ ~Recorded(c)
    BY <2>1 DEF AnswerInv
  <2> QED BY <1>2, <2>2 DEF RecordedNow
<1>6. (InEpoch' /\ flow'[f].cur /\ Settles(f)' /\ (flow'[f].pc = "refetch" => c \notin missed'))
         => Recorded(c)'
  BY <1>1, <1>2, <1>3 DEF AnswerInv, Stays
<1> QED BY <1>1, <1>4, <1>5, <1>6 DEF AnswerInv

\* No answer has come, or one that refuses the request without writing anything.
Unserved(a) == a.kind \in {"pending", "denied", "refused"}

\* A request goes on; a first send that nothing else touches stays its command's
\* only trace.
LEMMA StaysFlow ==
    ASSUME IInv, IInv', NEW D, Writes(D), missed \subseteq missed', sent' = sent,
           NEW f \in Flows, FlowOf(f), Stays(f),
           flow[f].pc = "submit" =>
              /\ verdict'[flow[f].id] = verdict[flow[f].id]
              /\ cl'.slot.unresolved => cl.slot.unresolved
              /\ \A g \in Flows \ {f} : flow'[g].pc # "idle" /\ flow'[g].id = flow[f].id
                                           => Live(g, flow[f].id)
              /\ Unserved(flow'[f].ans) =>
                    /\ Unserved(flow[f].ans) /\ flow[f].id \notin D
                    /\ flow[f].id \in late' => flow[f].id \in late
    PROVE  FlowOf(f)'
<1> SUFFICES ASSUME flow[f].pc # "idle"
             PROVE  AnswerInv(f)' /\ (flow[f].pc = "submit" => FirstSend(f)')
  BY DEF FlowOf, Stays
<1>1. AnswerInv(f)'
  BY StaysTrue DEF FlowOf
<1>2. ASSUME flow[f].pc = "submit" PROVE FirstSend(f)'
  <2> DEFINE c == flow[f].id
  <2>1. c \in Commands /\ flow'[f].id = c
    BY Reads DEF IInv, Stays
  <2>2. (SentHere(c)' <=> SentHere(c)) /\ (c \notin D => ~RecordedNow(c))
    BY <2>1, WritesLast DEF Writes
  <2>3. FirstSend(f)
    BY <1>2 DEF FlowOf
  <2>4. verdict'[c] = "none" /\ ~cl'.slot.unresolved
    BY <1>2, <2>3 DEF FirstSend
  <2>5. \A g \in Flows \ {f} : ~Live(g, c)'
    BY <1>2, <2>1, <2>3 DEF FirstSend, Live
  <2>6. Unserved(flow'[f].ans) => c \notin late' /\ (SentHere(c)' => ~Recorded(c)')
    BY <1>2, <2>2, <2>3 DEF FirstSend, RecordedNow, Unserved
  <2> QED BY <2>1, <2>4, <2>5, <2>6 DEF FirstSend, Unserved
<1> QED BY <1>1, <1>2

-----------------------------------------------------------------------------
(* Each step keeps what was answered true.                                  *)

\* What a step may say of the commands (the action of AnswersAreTrue).
Truthful ==
    \A c \in Commands :
         /\ (TellsNow(c, "applied") /\ cl.cursors.epoch = srv.epoch /\ c \notin missed')
                => Recorded(c)
         /\ (TellsNow(c, "rejected") /\ sent[c].epoch = srv.epoch) => ~Recorded(c)
         /\ (RecordedNow(c) /\ sent[c].epoch = srv.epoch /\ srv'.epoch = srv.epoch)
                => verdict[c] \in {"none", "unrecorded"}

\* A command that is taken on was not answered for.
LEMMA QuietTruth ==
    ASSUME IInv, IInv', AnswersInv, NEW D, Quiet(D),
           \A c \in Commands : verdict'[c] \in {"none", verdict[c]}
    PROVE  Truthful
<1>1. \A c \in Commands : ~TellsNow(c, "applied") /\ ~TellsNow(c, "rejected")
  BY DEF TellsNow
<1>2. ASSUME NEW c \in Commands, RecordedNow(c), sent[c].epoch = srv.epoch,
             verdict[c] \notin {"none", "unrecorded"}
      PROVE  FALSE
  <2>1. Writes(D) /\ sent'[c] = sent[c] /\ Requested(c)
    BY <1>2 DEF Quiet, Writes
  <2>2. ~Spent(c) /\ ~Recorded(c)
    BY <1>2, <2>1, WritesLast DEF RecordedNow
  <2>3. SentOf(c) /\ VerdictOf(c)
    BY AnswerParts
  <2>4. SentHere(c)
    BY <1>2, <2>1, <2>3 DEF SentOf, SentHere
  <2> QED BY <1>2, <2>1, <2>2, <2>3, <2>4 DEF VerdictOf
<1> QED BY <1>1, <1>2 DEF Truthful

LEMMA QuietAnswers ==
    ASSUME IInv, IInv', AnswersInv, NEW D, Quiet(D),
           \A c \in Commands : /\ verdict'[c] \in {"none", verdict[c]}
                               /\ cl'.slot.id = c => verdict'[c] = "none" \/ cl.slot.id = c,
           \A f \in Flows : FlowOf(f)'
    PROVE  AnswersInv' /\ Truthful
<1>1. ASSUME NEW c \in Commands PROVE SentOf(c)' /\ VerdictOf(c)'
  <2>1. SentOf(c) /\ VerdictOf(c)
    BY AnswerParts
  <2>2. cl'.slot.id = c => verdict'[c] = "none"
    BY <2>1 DEF VerdictOf
  <2> QED BY <2>1, <2>2, QuietSent, QuietVerdict
<1> QED BY <1>1, QuietTruth, AnswerParts

\* The client stands still while the daemon goes on or answers, or an answer is lost.
LEMMA RequestsGoOn ==
    ASSUME IInv, IInv', AnswersInv, NEW D, Writes(D), UNCHANGED <<cl, disk, sent, verdict, missed>>,
           saved' = saved \/ saved'.recorded = srv.recorded,
           \A d \in D : Requested(d), \A c \in late' : Requested(c),
           \A f \in Flows :
              /\ flow'[f].pc = flow[f].pc /\ flow'[f].id = flow[f].id
              /\ flow'[f].cur = flow[f].cur
              /\ \/ /\ \/ flow'[f].ans = flow[f].ans
                       \/ flow'[f].ans.kind \in {"lost", "denied", "refused"}
                       \/ flow[f].pc = "refetch"
                    /\ flow[f].pc = "submit" /\ Unserved(flow'[f].ans) =>
                          /\ Unserved(flow[f].ans) /\ flow[f].id \notin D
                          /\ flow[f].id \in late' => flow[f].id \in late
                 \/ AnswerInv(f)' /\ ~Unserved(flow'[f].ans)
    PROVE  AnswersInv' /\ Truthful
<1>1. \A f \in Flows, c \in Commands : Live(f, c)' <=> Live(f, c)
  BY DEF Live
<1>2. InEpoch' <=> InEpoch
  BY DEF InEpoch, Writes, Follows
<1>3. Quiet(D)
  <2>1. \A f \in Flows, c \in Commands : Live(f, c)' => Live(f, c)
    BY <1>1
  <2> QED BY <2>1 DEF Quiet
<1>4. ASSUME NEW f \in Flows PROVE FlowOf(f)'
  <2>1. FlowOf(f)
    BY AnswerParts
  <2>2. CASE /\ \/ flow'[f].ans = flow[f].ans
                \/ flow'[f].ans.kind \in {"lost", "denied", "refused"}
                \/ flow[f].pc = "refetch"
             /\ flow[f].pc = "submit" /\ Unserved(flow'[f].ans) =>
                   /\ Unserved(flow[f].ans) /\ flow[f].id \notin D
                   /\ flow[f].id \in late' => flow[f].id \in late
    <3>1. Stays(f)
      BY <1>2, <2>2 DEF Stays
    <3> QED BY <2>1, <2>2, <3>1, StaysFlow DEF Live
  <2>3. CASE AnswerInv(f)' /\ ~Unserved(flow'[f].ans)
    <3>1. ASSUME flow[f].pc = "submit" PROVE FirstSend(f)'
      <4>1. FirstSend(f)
        BY <2>1, <3>1 DEF FlowOf
      <4> QED BY <2>3, <4>1 DEF FirstSend, Unserved, Live
    <3> QED BY <2>3, <3>1 DEF FlowOf
  <2> QED BY <2>2, <2>3
<1> QED BY <1>3, <1>4, QuietAnswers

\* submitDecisionTransaction answers with what it found or did.
LEMMA AnswerTells ==
    ASSUME TypeOK, NEW c \in Commands, Submit(c)
    PROVE  /\ AnswerTo(c).kind \in {"ok", "refused", "conflict"}
           /\ AnswerTo(c).kind = "ok" => Recorded(c)'
           /\ AnswerTo(c).kind = "refused" => srv' = srv
           /\ AnswerTo(c).kind = "conflict" => srv' = srv /\ ~Recorded(c) /\ ~Binds(c)
<1>1. \A k, r, i : Answer(k, 0, r, i).kind = k
  BY DEF Answer
<1>2. CASE Recorded(c)
  BY <1>1, <1>2, SubmitFollows DEF AnswerTo
<1>3. CASE ~Recorded(c) /\ srv.item.ver = 0
  BY <1>1, <1>3 DEF AnswerTo, Refusal, Submit
<1>4. CASE ~Recorded(c) /\ srv.item.ver # 0 /\ ~Binds(c)
  BY <1>1, <1>4 DEF AnswerTo, Submit
<1>5. CASE ~Recorded(c) /\ srv.item.ver # 0 /\ Binds(c)
  <2>1. AnswerTo(c).kind = "ok"
    BY <1>1, <1>5 DEF AnswerTo
  <2>2. srv' = [srv EXCEPT !.rev = @ + 1, !.item = Concluded(@, c),
                           !.recorded[c] = [rev |-> srv.rev + 1, body |-> sent[c].body]]
    BY <1>5 DEF Submit
  <2>3. /\ srv.recorded \in [Commands -> [rev : Nat, body : Bodies \cup {None}]]
        /\ srv \in [epoch : Nat \ {0}, rev : Nat, item : Item, recorded : Records]
    BY Parts DEF SrvOK, Records
  <2> DEFINE k == [srv.recorded EXCEPT ![c] = [rev |-> srv.rev + 1, body |-> sent[c].body]]
  <2>4. srv'.recorded = k
    BY <2>2, <2>3
  <2>5. k[c].rev = srv.rev + 1 /\ srv.rev \in Nat
    BY <2>3
  <2>6. Recorded(c)'
    BY <2>4, <2>5 DEF Recorded
  <2> QED BY <2>1, <2>6
<1> QED BY <1>2, <1>3, <1>4, <1>5

LEMMA SubmitWrites ==
    ASSUME TypeOK, NEW c \in Commands, Submit(c) \/ Refuses(c)
    PROVE  Writes({c})
<1>1. /\ Follows(srv, srv') /\ \A d \in Commands : Recorded(d) => Recorded(d)'
      /\ srv' = srv \/ (~Recorded(c) /\ Binds(c) /\ Recorded(c)')
      /\ \A d \in Commands : srv'.recorded[d].rev # srv.recorded[d].rev => d = c
  BY SubmitFollows
<1>2. \A d \in Commands : RecordedNow(d) => d = c /\ Binds(c)
  BY <1>1 DEF RecordedNow, Recorded
<1> QED BY <1>1, <1>2 DEF Writes

\* Everything as it is.
LEMMA NothingWritten ==
    ASSUME IInv, srv' = srv
    PROVE  Writes({}) /\ \A c \in Commands : Recorded(c)' <=> Recorded(c)
BY StandingStill DEF Writes, RecordedNow, Recorded

\* A command on its way has been sent.
LEMMA RequestedSent ==
    ASSUME AnswersInv, NEW c \in Commands, Requested(c)
    PROVE  sent[c].ver # 0
BY AnswerParts DEF SentOf

LEMMA ServerAnswers ==
    ASSUME IInv, IInv', MirrorInv, AnswersInv, Server,
           srv'.epoch # srv.epoch => cl.cursors # NoCursors
    PROVE  AnswersInv' /\ Truthful
<1>0. /\ TypeOK /\ SrvOK /\ srv.item.ver \in Nat /\ srv.rev \in Nat
      /\ \A D : \A f \in Flows : flow[f].pc = "submit" /\ Unserved(flow[f].ans) /\ D \subseteq late
            => flow[f].id \notin D
  <2>1. \A f \in Flows : flow[f].pc = "submit" /\ Unserved(flow[f].ans) => flow[f].id \notin late
    BY AnswerParts DEF FlowOf, FirstSend, Unserved
  <2> QED BY <2>1, Reads, Parts DEF IInv, Item
<1>1. ASSUME NEW b \in Bodies, NEW o \in BOOLEAN, Advance(b, o) PROVE AnswersInv' /\ Truthful
  <2>1. /\ srv'.epoch = srv.epoch /\ srv'.rev = srv.rev + 1 /\ srv'.recorded = srv.recorded
        /\ srv'.item.ver = srv.item.ver + 1 /\ srv'.item.asof = srv.rev + 1
    <3> DEFINE i == [ver |-> srv.item.ver + 1, body |-> b, open |-> o, asof |-> srv.rev + 1]
    <3>1. srv' = [srv EXCEPT !.rev = srv.rev + 1, !.item = i]
      BY <1>0, <1>1 DEF SrvOK, Advance
    <3>2. i.ver = srv.item.ver + 1 /\ i.asof = srv.rev + 1
      OBVIOUS
    <3> HIDE DEF i
    <3> QED BY <1>0, <3>1, <3>2 DEF SrvOK
  <2>2. Writes({})
    BY <1>0, <2>1 DEF Writes, Follows, RecordedNow, Recorded
  <2>3. UNCHANGED <<saved, cl, disk, flow, late, sent, verdict, missed>>
    BY <1>1 DEF Advance, told
  <2> QED BY <2>2, <2>3, RequestsGoOn DEF Requested
<1>2. CASE Checkpoint
  <2>1. UNCHANGED <<srv, cl, disk, flow, late, sent, verdict, missed>>
    BY <1>2 DEF Checkpoint, told
  <2>2. Writes({})
    BY <2>1, NothingWritten
  <2>3. saved'.recorded = srv.recorded
    BY <1>2 DEF Checkpoint
  <2> QED BY <2>1, <2>2, <2>3, RequestsGoOn DEF Requested
<1>3. CASE Restore
  <2>1. /\ srv'.epoch = srv.epoch + 1 /\ srv'.recorded = saved.recorded /\ late' = {}
        /\ UNCHANGED <<saved, cl, disk, flow, sent, verdict, missed>> /\ srv.epoch \in Nat
    BY <1>0, <1>3 DEF Restore, SrvOK, told
  <2>2. ~InEpoch'
    <3>1. Held(cl) /\ cl.cursors # NoCursors
      BY <2>1, Parts DEF ClientOK, IInv
    <3>2. cl.cursors.epoch # 0 /\ cl.cursors.epoch \in Nat /\ cl.cursors.epoch <= srv.epoch
      BY <3>1 DEF Held, Client, Cursors, MirrorInv, Mirrors
    <3> QED BY <2>1, <3>2 DEF InEpoch
  <2>3. \A f \in Flows, c \in Commands : Live(f, c)' <=> Live(f, c)
    BY <2>1 DEF Live
  <2>4. ASSUME NEW c \in Commands PROVE SentOf(c)' /\ VerdictOf(c)' /\ ~SentHere(c)'
    <3>1. SentOf(c) /\ VerdictOf(c) /\ sent[c].epoch \in Nat
      BY AnswerParts, Parts DEF SentOK, IInv
    <3>2. ~SentHere(c)'
      BY <2>1, <3>1 DEF SentHere, SentOf
    <3>3. sent[c].ver = 0 => ~Recorded(c)'
      BY <2>1, <3>1 DEF SentOf, Recorded
    <3>4. ~Requested(c) => ~Requested(c)'
      BY <2>1, <2>3 DEF Requested
    <3> QED BY <2>1, <3>1, <3>2, <3>3, <3>4 DEF SentOf, VerdictOf
  <2>5. ASSUME NEW f \in Flows PROVE FlowOf(f)'
    <3>1. FlowOf(f) /\ (flow[f].pc # "idle" => flow[f].id \in Commands)
      BY AnswerParts, Reads DEF IInv
    <3>2. flow[f].pc # "idle" => AnswerInv(f)'
      BY <2>1, <2>2, <2>4, <3>1 DEF AnswerInv
    <3>3. flow[f].pc = "submit" => FirstSend(f)'
      BY <2>1, <2>3, <2>4, <3>1 DEF FlowOf, FirstSend, Live
    <3> QED BY <2>1, <3>2, <3>3 DEF FlowOf
  <2>6. Truthful
    BY <2>1 DEF Truthful, TellsNow
  <2> QED BY <2>4, <2>5, <2>6, AnswerParts
<1>4. ASSUME NEW c \in Commands, Arrive(c) PROVE AnswersInv' /\ Truthful
  <2>1. /\ Submit(c) \/ Refuses(c)
        /\ c \in late /\ late' = late \ {c}
        /\ UNCHANGED <<saved, cl, disk, flow, sent, verdict, missed>>
    BY <1>4 DEF Arrive, told
  <2>2. Writes({c})
    BY <1>0, <2>1, SubmitWrites
  <2> DEFINE D == {c}
  <2>3. /\ \A d \in D : Requested(d)
        /\ \A d \in late' : Requested(d)
    BY <2>1 DEF Requested
  <2>4. \A f \in Flows : flow[f].pc = "submit" /\ Unserved(flow[f].ans) => flow[f].id \notin D
    BY <1>0, <2>1
  <2>5. \A d : d \in late' => d \in late
    BY <2>1
  <2> HIDE DEF D
  <2>6. Writes(D)
    BY <2>2 DEF D
  <2> QED BY <2>1, <2>3, <2>4, <2>5, <2>6, RequestsGoOn
<1> QED BY <1>1, <1>2, <1>3, <1>4 DEF Server

LEMMA ServeAnswers ==
    ASSUME IInv, IInv', AnswersInv, Serve
    PROVE  AnswersInv' /\ Truthful
<1>0. TypeOK /\ FlowsOK /\ srv.item.ver \in Nat
  BY Parts, Reads DEF IInv, Item
<1>1. CASE ServeValidation \/ ServeBootstrap
  <2>1. UNCHANGED <<srv, saved, cl, disk, flow, late, sent, verdict, missed>>
    BY <1>1 DEF ServeValidation, ServeBootstrap, daemon, told
  <2> QED BY <2>1, NothingWritten, RequestsGoOn DEF Requested
<1>2. ASSUME NEW f \in Flows, ServePost(f) PROVE AnswersInv' /\ Truthful
  <2>0. PICK c \in Commands : c = flow[f].id
    BY <1>0, <1>2, Reads DEF ServePost, Posts
  <2>1. /\ UNCHANGED <<saved, cl, disk, late, sent, verdict, missed>>
        /\ flow[f].pc \in Posts /\ flow[f].pc # "idle" /\ flow[f].ans = Pending
        /\ \E a : /\ flow' = [flow EXCEPT ![f] = [flow[f] EXCEPT !.ans = a]]
                  /\ (Submit(c) /\ a = AnswerTo(c)) \/ (Refuses(c) /\ a = Refusal)
    BY <1>2, <2>0 DEF ServePost, Goto, told, Posts, Waits
  <2>2. /\ \/ Submit(c) /\ flow'[f].ans = AnswerTo(c)
           \/ Refuses(c) /\ flow'[f].ans = Refusal
        /\ flow'[f].pc = flow[f].pc /\ flow'[f].id = c /\ flow'[f].cur = flow[f].cur
        /\ \A g \in Flows : g # f => flow'[g] = flow[g]
    BY <1>0, <2>0, <2>1 DEF FlowsOK
  <2>3. Writes({c}) /\ Requested(c)
    BY <1>0, <2>0, <2>1, <2>2, SubmitWrites DEF Requested, Live
  <2>4. /\ SentHere(c)' <=> SentHere(c)
        /\ sent[c].ver # 0 /\ (SentHere(c) => sent[c].ver <= srv.item.ver)
        /\ sent[c].ver \in Nat
    BY <2>1, <2>3, WritesLast, RequestedSent, AnswerParts, Parts DEF SentOf, IInv, SentOK
  <2>5. /\ flow'[f].ans.kind \in {"ok", "refused", "conflict"}
        /\ flow'[f].ans.kind = "ok" => Recorded(c)'
        /\ flow'[f].ans.kind = "refused" => srv' = srv
        /\ flow'[f].ans.kind = "conflict" => srv' = srv /\ ~Recorded(c) /\ ~Binds(c)
    <3>1. CASE Submit(c) /\ flow'[f].ans = AnswerTo(c)
      BY <1>0, <3>1, AnswerTells
    <3>2. CASE Refuses(c) /\ flow'[f].ans = Refusal
      BY <3>2 DEF Refuses, Refusal, Answer
    <3> QED BY <2>2, <3>1, <3>2
  <2>6. CASE flow'[f].ans.kind = "refused"
    <3>1. Unserved(flow[f].ans)
      BY <2>1 DEF Unserved, Pending, Answer
    <3>2. Writes({})
      BY <2>5, <2>6, NothingWritten
    <3>3. \A d \in late' : Requested(d)
      BY <2>1 DEF Requested
    <3> QED BY <2>1, <2>2, <2>6, <3>1, <3>2, <3>3, RequestsGoOn
  <2>7. CASE flow'[f].ans.kind # "refused"
    <3>1. SentHere(c)' /\ flow'[f].ans.kind = "conflict" => Spent(c)' /\ ~Recorded(c)'
      BY <1>0, <2>1, <2>4, <2>5 DEF Spent, Binds, Recorded
    <3>2. AnswerInv(f)' /\ ~Unserved(flow'[f].ans)
      <4>1. flow'[f].pc \notin Drains \cup {"refetch"}
        BY <2>1, <2>2 DEF Posts, Drains
      <4>2. Settles(f)' => Recorded(c)'
        BY <2>2, <2>5, <4>1 DEF Settles
      <4> QED BY <2>2, <2>5, <2>7, <3>1, <4>2 DEF AnswerInv, Unserved
    <3>3. \A g \in Flows : g # f /\ flow[g].pc = "submit" => flow[g].id # c
      BY <2>0, <2>1, AnswerParts DEF FlowOf, FirstSend, Live
    <3> DEFINE D == {c}
    <3>4. /\ \A d \in D : Requested(d)
          /\ \A d \in late' : Requested(d)
          /\ \A g \in Flows : g # f /\ flow[g].pc = "submit" => flow[g].id \notin D
          /\ Writes(D)
      BY <2>1, <2>3, <3>3 DEF Requested
    <3> HIDE DEF D
    <3> QED BY <2>1, <2>2, <3>2, <3>4, RequestsGoOn
  <2> QED BY <2>6, <2>7
<1>3. ASSUME NEW f \in Flows, ServeRefetch(f) PROVE AnswersInv' /\ Truthful
  <2>1. /\ flow' = [flow EXCEPT ![f] = [flow[f] EXCEPT !.ans = Answer("ok", 0, 0, srv.item)]]
        /\ UNCHANGED <<srv, saved, cl, disk, late, sent, verdict, missed>>
        /\ flow[f].pc = "refetch"
    BY <1>3 DEF ServeRefetch, Goto, told
  <2>2. /\ flow'[f].pc = flow[f].pc /\ flow'[f].id = flow[f].id /\ flow'[f].cur = flow[f].cur
        /\ \A g \in Flows : g # f => flow'[g] = flow[g]
    BY <1>0, <2>1 DEF FlowsOK
  <2> QED BY <2>1, <2>2, NothingWritten, RequestsGoOn DEF Requested
<1> QED BY <1>1, <1>2, <1>3 DEF Serve

\* Rounds and validations keep the slot and whatever was said of its command; an
\* eviction only takes answers away.
LEMMA RoundsAnswers ==
    ASSUME IInv, IInv', AnswersInv,
           UNCHANGED <<srv, saved, late, sent, verdict, missed>>,
           cl'.slot = cl.slot, disk'.slot \in {disk.slot, cl.slot.id},
           \A f \in Flows :
              /\ flow'[f].pc = flow[f].pc /\ flow'[f].id = flow[f].id
              /\ flow'[f].ans = flow[f].ans
              /\ InEpoch' /\ flow'[f].cur => InEpoch /\ flow[f].cur
    PROVE  AnswersInv' /\ Truthful
<1>1. Writes({})
  BY NothingWritten
<1>2. \A f \in Flows, c \in Commands : Live(f, c)' <=> Live(f, c)
  BY DEF Live
<1>3. Quiet({})
  BY <1>1, <1>2 DEF Quiet, Requested
<1>4. ASSUME NEW f \in Flows PROVE FlowOf(f)'
  <2>1. FlowOf(f) /\ Stays(f)
    BY AnswerParts DEF Stays
  <2> QED BY <1>1, <2>1, StaysFlow DEF Live
<1> QED BY <1>3, <1>4, QuietAnswers

LEMMA FailureAnswers ==
    ASSUME IInv, IInv', AnswersInv, Failures
    PROVE  AnswersInv' /\ Truthful
<1>0. /\ TypeOK /\ FlowsOK /\ Held(cl)
      /\ \A f \in Flows : flow[f].pc \in Posts => flow[f].id \in Commands /\ flow[f].pc # "idle"
  BY Parts, Reads DEF IInv, ClientOK, Posts
<1>1. CASE FailRound \/ FailValidation
  <2>1. /\ UNCHANGED <<srv, saved, late, sent, verdict, missed, disk, flow>>
        /\ Alike(cl, cl')
    BY <1>0, <1>1, AlikeMarks DEF FailRound, FailValidation, daemon, told
  <2>2. cl'.slot = cl.slot /\ (InEpoch' <=> InEpoch)
    BY <2>1 DEF Alike, InEpoch
  <2> QED BY <2>1, <2>2, RoundsAnswers
<1>2. CASE Relaunch
  <2>1. /\ UNCHANGED <<srv, saved, disk, sent, missed>>
        /\ cl'.slot.id = disk.slot /\ flow' = [f \in Flows |-> Idle]
        /\ \A c \in Commands : verdict'[c] \in {"none", verdict[c]}
        /\ disk.slot \in Commands => verdict'[disk.slot] = "none"
        /\ \A c \in late' : c \in late \/ \E g \in Flows : flow[g].pc \in Posts /\ c = flow[g].id
    BY <1>2 DEF Relaunch
  <2>2. \A f \in Flows, c \in Commands : ~Live(f, c)'
    BY <2>1 DEF Live, Idle
  <2>3. \A c \in late' : Requested(c)
    BY <1>0, <2>1 DEF Requested, Live
  <2>4. Writes({})
    BY <2>1, NothingWritten
  <2>5. Quiet({})
    BY <2>1, <2>2, <2>3, <2>4 DEF Quiet
  <2>6. \A f \in Flows : FlowOf(f)'
    BY <2>1 DEF FlowOf, Idle
  <2> QED BY <2>1, <2>5, <2>6, QuietAnswers
<1>3. ASSUME NEW f \in Flows, LoseAnswer(f) PROVE AnswersInv' /\ Truthful
  <2>1. /\ flow' = [flow EXCEPT ![f] = [flow[f] EXCEPT !.ans = Lost]]
        /\ UNCHANGED <<srv, saved, cl, disk, sent, verdict, missed>>
        /\ late' = late \/ (late' = late \cup {flow[f].id} /\ flow[f].pc \in Posts)
    BY <1>3 DEF LoseAnswer, Goto, told
  <2>2. /\ flow'[f].pc = flow[f].pc /\ flow'[f].id = flow[f].id /\ flow'[f].cur = flow[f].cur
        /\ flow'[f].ans.kind = "lost"
        /\ \A g \in Flows : g # f => flow'[g] = flow[g]
    BY <1>0, <2>1 DEF FlowsOK, Lost, Answer
  <2>3. \A c \in late' : Requested(c)
    BY <1>0, <2>1 DEF Requested, Live
  <2>4. \A g \in Flows : g # f /\ flow[g].pc = "submit" /\ flow[g].id \in late'
                            => flow[g].id \in late
    BY <1>0, <2>1, AnswerParts DEF FlowOf, FirstSend, Live
  <2> QED BY <2>1, <2>2, <2>3, <2>4, NothingWritten, RequestsGoOn DEF Unserved
<1>4. ASSUME NEW f \in Flows, Deny(f) PROVE AnswersInv' /\ Truthful
  <2>1. /\ flow' = [flow EXCEPT ![f] = [flow[f] EXCEPT !.ans = Denied]]
        /\ UNCHANGED <<srv, saved, cl, disk, late, sent, verdict, missed>>
        /\ flow[f].ans = Pending
    BY <1>4 DEF Deny, Goto, told, daemon, Waits, Posts
  <2>2. /\ flow'[f].pc = flow[f].pc /\ flow'[f].id = flow[f].id /\ flow'[f].cur = flow[f].cur
        /\ flow'[f].ans.kind = "denied" /\ Unserved(flow[f].ans)
        /\ \A g \in Flows : g # f => flow'[g] = flow[g]
    BY <1>0, <2>1 DEF FlowsOK, Denied, Pending, Answer, Unserved
  <2> QED BY <2>1, <2>2, NothingWritten, RequestsGoOn DEF Requested
<1> QED BY <1>1, <1>2, <1>3, <1>4 DEF Failures

LEMMA SyncAnswers ==
    ASSUME IInv, IInv', MirrorInv, AnswersInv, Sync \/ ViewValidates \/ Validate
    PROVE  AnswersInv' /\ Truthful
<1>0. /\ TypeOK /\ Held(cl) /\ round.ans \in Answers /\ round.ans.rev \in Nat
      /\ RoundOK(round) /\ FlowsOK /\ faults \in Nat /\ val.ans.item \in Item
      /\ srv.epoch \in Nat \ {0}
      /\ UNCHANGED <<srv, saved, late, sent, verdict, missed>>
  BY Reads, Parts DEF IInv, ClientOK, Answers, Sync, StartRound, Heartbeat, Bootstrap,
     ViewValidates, Validate, daemon, told
<1>1. ASSUME cl'.slot = cl.slot, disk' = disk \/ disk' = Image(cl'),
             \/ flow' = flow /\ (InEpoch' => InEpoch)
             \/ flow' = [f \in Flows |-> [flow[f] EXCEPT !.cur = FALSE]]
      PROVE  AnswersInv' /\ Truthful
  <2>1. disk'.slot \in {disk.slot, cl.slot.id}
    BY <1>1, Parts, ImageOK DEF IInv, ClientOK
  <2>2. ASSUME NEW f \in Flows
        PROVE  /\ flow'[f].pc = flow[f].pc /\ flow'[f].id = flow[f].id
               /\ flow'[f].ans = flow[f].ans
               /\ InEpoch' /\ flow'[f].cur => InEpoch /\ flow[f].cur
    <3>1. FlowOK(flow[f])
      BY <1>0, Reads
    <3> QED BY <1>1, <3>1 DEF FlowOK
  <2> QED BY <1>0, <1>1, <2>1, <2>2, RoundsAnswers
<1>2. Alike(cl, cl') /\ (disk' = disk \/ disk' = Image(cl')) /\ flow' = flow
         => AnswersInv' /\ Truthful
  <2> SUFFICES ASSUME Alike(cl, cl'), disk' = disk \/ disk' = Image(cl'), flow' = flow
               PROVE  AnswersInv' /\ Truthful
    OBVIOUS
  <2>1. InEpoch' <=> InEpoch
    BY <1>0 DEF Alike, InEpoch
  <2> QED BY <1>1, <2>1 DEF Alike
<1>3. Alike(cl, cl) /\ Alike(cl, Uncertified(cl))
  BY <1>0, AlikeMarks DEF Alike
<1>4. CASE StartRound \/ (Heartbeat /\ FirstSync) \/ ViewValidates
           \/ (Validate /\ (ReadAgain \/ NotFound))
  BY <1>2, <1>3, <1>4 DEF StartRound, Heartbeat, FirstSync, ViewValidates, Validate,
                          ReadAgain, NotFound
<1>5. CASE Heartbeat /\ NewEpoch
  <2>1. /\ cl' = Evicted(cl) /\ Saves(cl')
        /\ flow' = [f \in Flows |-> [flow[f] EXCEPT !.cur = FALSE]]
    BY <1>5 DEF NewEpoch, EvictRequests
  <2> QED BY <1>0, <1>1, <2>1, EvictedHeld, Saved
<1>6. ASSUME NEW drift \in BOOLEAN, Heartbeat, SameEpoch(drift) PROVE AnswersInv' /\ Truthful
  <2> DEFINE m == Observed(cl, round.ans.rev)
  <2>1. Alike(cl, m)
    BY <1>0, AlikeMarks
  <2>2. /\ cl' = m \/ cl' = [m EXCEPT !.fresh = "fresh"]
        /\ UNCHANGED <<disk, faults>> \/ Saves(cl')
        /\ flow' = flow
    BY <1>6 DEF SameEpoch
  <2> HIDE DEF m
  <2>3. Alike(m, [m EXCEPT !.fresh = "fresh"])
    BY <2>1, AlikeMarks DEF Alike
  <2>4. Alike(cl, cl')
    BY <2>1, <2>2, <2>3 DEF Alike
  <2>5. disk' = disk \/ disk' = Image(cl')
    BY <1>0, <2>2, Saved
  <2> QED BY <1>2, <2>2, <2>4, <2>5
<1>7. CASE Bootstrap /\ Refetch
  <2>1. Alike(cl, cl')
    BY <1>0, <1>7, AlikeMarks DEF Refetch, Alike
  <2> QED BY <1>2, <1>7, <2>1 DEF Refetch
<1>8. CASE Bootstrap /\ Adopt
  <2> DEFINE a == round.ans
  <2>1. /\ cl' = Adopted(cl, a) /\ Saves(cl')
        /\ a.epoch # 0 /\ a.epoch <= srv.epoch
        /\ IF OtherEpoch(cl, a.epoch) THEN EvictRequests ELSE flow' = flow
    BY <1>0, <1>8 DEF Bootstrap, Adopt, RoundOK, MirrorInv
  <2>2. cl'.slot = cl.slot /\ cl'.cursors.epoch = a.epoch
    <3>1. cl'.slot = cl.slot
      BY <1>0, <2>1, AdoptedHeld
    <3>2. Mirrors(cl.cursors, cl.row, srv) /\ srv.item \in Item /\ srv.rev \in Nat
      BY Reads DEF IInv, MirrorInv
    <3>3. a.epoch = srv.epoch => Known(a.item, srv) /\ UpTo(a.rev, a.item, srv)
      BY <1>8 DEF Bootstrap, MirrorInv
    <3> QED BY <1>0, <2>1, <3>1, <3>2, <3>3, AdoptedMirrors
  <2>3. ~OtherEpoch(cl, a.epoch) => (InEpoch' => InEpoch)
    BY <1>0, <2>1, <2>2 DEF InEpoch, OtherEpoch, NoCursors
  <2>4. disk' = disk \/ disk' = Image(cl')
    BY <1>0, <2>1, Saved
  <2> QED BY <1>1, <2>1, <2>2, <2>3, <2>4 DEF EvictRequests
<1>9. CASE Validate /\ CertifyRow
  <2> DEFINE n == Showing(cl, val.ans.item)
             m == Certified(n)
  <2>1. /\ cl' = m \/ cl' = InPhase(m, "idle")
        /\ Saves(cl') /\ flow' = flow
    BY <1>9 DEF Validate, CertifyRow
  <2>2. Held(n) /\ n.slot = cl.slot /\ n.cursors.epoch = cl.cursors.epoch
    BY <1>0, ShowingRow
  <2>3. Alike(n, m)
    <3> HIDE DEF n
    <3> QED BY <2>2, AlikeMarks
  <2>4. Alike(m, InPhase(m, "idle"))
    <3> HIDE DEF m
    <3> QED BY <2>3, AlikeMarks DEF Alike
  <2> HIDE DEF n, m
  <2>5. cl'.slot = cl.slot /\ (InEpoch' <=> InEpoch)
    BY <1>0, <2>1, <2>2, <2>3, <2>4 DEF Alike, InEpoch
  <2>6. disk' = disk \/ disk' = Image(cl')
    BY <1>0, <2>1, Saved
  <2> QED BY <1>1, <2>1, <2>5, <2>6
<1> QED BY <1>4, <1>5, <1>6, <1>7, <1>8, <1>9 DEF Sync, Heartbeat, Bootstrap, Validate

\* A retry takes up the slot's own command, which no first send is under way for.
LEMMA RetryAnswers ==
    ASSUME IInv, IInv', AnswersInv, NEW f \in Flows, Retry(f)
    PROVE  AnswersInv' /\ Truthful
<1>0. /\ TypeOK /\ FlowsOK /\ Held(cl) /\ Held(cl') /\ DiskOK(disk) /\ faults \in Nat
  BY Parts, Reads DEF IInv, ClientOK
<1>1. PICK c \in Commands : c = cl.slot.id
  BY <1>0 DEF Retry, Held, Client, Slot
<1>2. /\ UNCHANGED <<srv, saved, late, sent, verdict, missed>> /\ cl.slot.unresolved
      /\ flow' = [flow EXCEPT ![f] = Sending("retry", c)]
      /\ cl' = InPhase(Marked(cl, c, FALSE), "submitting") /\ Saves(cl')
  BY <1>1 DEF Retry, daemon, told, Goto
<1>3. /\ flow'[f].pc = "retry" /\ flow'[f].id = c /\ flow'[f].ans = Pending
      /\ \A g \in Flows : g # f => flow'[g] = flow[g]
  BY <1>0, <1>2 DEF FlowsOK, Sending
<1>4. cl'.slot.id = cl.slot.id /\ cl'.cursors = cl.cursors
  <2> DEFINE m == Marked(cl, c, FALSE)
  <2>1. Held(m) /\ SameSlot(cl, m)
    BY <1>0, MarkedHeld
  <2>2. m.cursors = cl.cursors
    BY <1>0 DEF Marked, Held, Client
  <2>3. cl' = InPhase(m, "submitting")
    BY <1>2
  <2> HIDE DEF m
  <2> QED BY <2>1, <2>2, <2>3 DEF InPhase, Held, Client, SameSlot
<1>5. disk'.slot \in {disk.slot, cl'.slot.id}
  BY <1>0, <1>2, Saved, ImageOK
<1>6. Quiet({})
  <2>1. \A g \in Flows, d \in Commands : Live(g, d)' => Live(g, d) \/ d = cl.slot.id
    BY <1>1, <1>3 DEF Live
  <2> QED BY <1>2, <1>4, <1>5, <2>1, NothingWritten DEF Quiet, Requested
<1>7. ASSUME NEW g \in Flows PROVE FlowOf(g)'
  <2>1. CASE g = f
    <3>1. AnswerInv(f)' /\ flow'[f].pc # "submit"
      BY <1>3 DEF AnswerInv, Settles, Pending, Answer, Posts, Drains
    <3> QED BY <2>1, <3>1 DEF FlowOf
  <2>2. CASE g # f
    <3>1. FlowOf(g) /\ flow'[g] = flow[g] /\ (InEpoch' <=> InEpoch)
      BY <1>2, <1>3, <1>4, <2>2, AnswerParts DEF InEpoch
    <3>2. flow[g].pc # "submit"
      BY <1>2, <3>1 DEF FlowOf, FirstSend
    <3>3. Stays(g)
      BY <3>1 DEF Stays
    <3> QED BY <1>2, <3>1, <3>2, <3>3, StaysFlow, NothingWritten
  <2> QED BY <2>1, <2>2
<1> QED BY <1>2, <1>4, <1>6, <1>7, QuietAnswers

\* A decision is of a command that is nowhere yet, on a row of this history or of
\* an earlier epoch.
LEMMA DecideAnswers ==
    ASSUME IInv, IInv', MirrorInv, AnswersInv, NEW f \in Flows, NEW c \in Commands, Decide(f, c)
    PROVE  AnswersInv' /\ Truthful
<1>0. /\ TypeOK /\ FlowsOK /\ SentOK /\ Held(cl) /\ Held(cl') /\ srv.item.ver \in Nat
      /\ srv.epoch \in Nat \ {0}
  BY Parts, Reads DEF IInv, ClientOK, Item
<1> DEFINE b == [ver |-> cl.row.ver, body |-> cl.row.body, epoch |-> cl.cursors.epoch]
<1>1. /\ UNCHANGED <<srv, saved, late, verdict, missed>> /\ sent[c].ver = 0
      /\ flow' = [flow EXCEPT ![f] = Sending("submit", c)] /\ flow[f] = Idle
      /\ cl' = [cl EXCEPT !.slot = [id |-> c, unresolved |-> FALSE], !.phase = "submitting"]
      /\ disk' = Image(cl') /\ sent' = [sent EXCEPT ![c] = b]
      /\ cl.slot = NoSlot /\ cl.row.open
  BY DEF Decide, daemon, Goto, ActionsEnabled, Registered
<1>2. /\ flow'[f].pc = "submit" /\ flow'[f].id = c /\ flow'[f].ans = Pending
      /\ \A g \in Flows : g # f => flow'[g] = flow[g]
  BY <1>0, <1>1 DEF FlowsOK, Sending
<1>3. /\ cl'.slot.id = c /\ ~cl'.slot.unresolved /\ cl'.cursors = cl.cursors /\ disk'.slot = c
  <2>1. cl'.slot = [id |-> c, unresolved |-> FALSE] /\ cl'.cursors = cl.cursors
    BY <1>0, <1>1 DEF Held, Client
  <2>2. Image(cl').slot = cl'.slot.id
    BY <1>0, ImageOK
  <2> QED BY <1>1, <2>1, <2>2
<1>4. /\ sent'[c] = b /\ \A d \in Commands : d # c => sent'[d] = sent[d]
  BY <1>0, <1>1 DEF SentOK
<1>5. /\ ~Recorded(c) /\ saved.recorded[c].rev = 0 /\ ~Requested(c) /\ verdict[c] = "none"
  BY <1>1, AnswerParts DEF SentOf
<1>6. \A g \in Flows, d \in Commands : Live(g, d)' <=> (g # f /\ Live(g, d)) \/ (g = f /\ d = c)
  BY <1>1, <1>2 DEF Live
<1>7. /\ cl.row.ver # 0 /\ cl.cursors.epoch <= srv.epoch
      /\ cl.cursors.epoch = srv.epoch => cl.row.ver <= srv.item.ver
  <2>1. cl.row.ver # 0
    BY <1>0, <1>1 DEF Held, Client, Item, NoItem
  <2>2. Mirrors(cl.cursors, cl.row, srv) /\ cl.row.ver \in Nat
    BY <1>0 DEF MirrorInv, Held, Client, Item
  <2> QED BY <1>0, <2>1, <2>2 DEF Mirrors, Known
<1>8. Writes({}) /\ (InEpoch' <=> InEpoch) /\ \A d \in Commands : Recorded(d)' <=> Recorded(d)
  BY <1>1, <1>3, NothingWritten DEF InEpoch
<1>9. ASSUME NEW d \in Commands PROVE SentOf(d)' /\ VerdictOf(d)'
  <2>1. CASE d = c
    <3>1. /\ sent'[c].ver = cl.row.ver /\ sent'[c].epoch = cl.cursors.epoch
      BY <1>4
    <3>2. SentHere(c)' => cl.cursors.epoch = srv.epoch
      BY <1>1, <3>1 DEF SentHere
    <3> HIDE DEF b
    <3> QED BY <1>1, <1>5, <1>7, <2>1, <3>1, <3>2 DEF SentOf, VerdictOf
  <2>2. CASE d # c
    <3>1. SentOf(d) /\ VerdictOf(d) /\ sent'[d] = sent[d]
      BY <1>4, <2>2, AnswerParts
    <3>2. Requested(d)' => Requested(d)
      BY <1>1, <1>6, <2>2 DEF Requested
    <3>3. /\ SentHere(d)' <=> SentHere(d)
          /\ Spent(d)' <=> Spent(d)
      BY <1>1, <3>1 DEF SentHere, Spent, Binds
    <3> HIDE DEF b
    <3> QED BY <1>1, <1>3, <1>8, <2>2, <3>1, <3>2, <3>3 DEF SentOf, VerdictOf
  <2> QED BY <2>1, <2>2
<1>10. ASSUME NEW g \in Flows PROVE FlowOf(g)'
  <2>1. CASE g = f
    <3>1. AnswerInv(f)'
      BY <1>2 DEF AnswerInv, Settles, Pending, Answer, Drains
    <3>2. \A h \in Flows \ {f} : ~Live(h, c)'
      BY <1>5, <1>6 DEF Requested
    <3>3. FirstSend(f)'
      BY <1>1, <1>2, <1>3, <1>5, <1>8, <3>2 DEF FirstSend, Requested
    <3> QED BY <2>1, <3>1, <3>3 DEF FlowOf
  <2>2. CASE g # f /\ flow[g].pc # "idle"
    <3>1. /\ FlowOf(g) /\ flow'[g] = flow[g] /\ flow[g].id \in Commands
          /\ sent[flow[g].id].ver # 0
      <4>1. flow[g].id \in Commands
        BY <1>0, <2>2, Reads
      <4>2. Requested(flow[g].id)
        BY <2>2 DEF Requested, Live
      <4> QED BY <1>2, <2>2, <4>1, <4>2, AnswerParts, RequestedSent
    <3>2. flow[g].pc # "submit"
      BY <1>0, <1>1, <3>1, Defaults, CommandsAssumption
         DEF FlowOf, FirstSend, IInv, SentIsRemembered
    <3>3. Stays(g)
      BY <1>8, <3>1 DEF Stays
    <3>4. sent'[flow[g].id] = sent[flow[g].id]
      BY <1>1, <1>4, <3>1
    <3>5. AnswerInv(g)'
      BY <1>1, <1>8, <2>2, <3>1, <3>3, <3>4, StaysTrue DEF FlowOf
    <3> QED BY <3>1, <3>2, <3>5 DEF FlowOf
  <2>3. CASE g # f /\ flow[g].pc = "idle"
    BY <1>2, <2>3 DEF FlowOf
  <2> QED BY <2>1, <2>2, <2>3
<1>11. Truthful
  BY <1>1, <1>8 DEF Truthful, TellsNow, RecordedNow
<1> QED BY <1>9, <1>10, <1>11, AnswerParts

\* A continuation runs for a submission under way.
LEMMA ContinuesLive ==
    ASSUME NEW f \in Flows, Continue(f)
    PROVE  flow[f].pc # "idle"
BY DEF Continue, Submitted, Drained, Refetched, AutoReplay, Replayed, ReplayDrained, Arrived

\* What the operator is told is what the answer proved.
LEMMA ContinueAnswers ==
    ASSUME IInv, IInv', MirrorInv, AnswersInv, NEW f \in Flows, Continue(f)
    PROVE  AnswersInv' /\ Truthful
<1>0. /\ TypeOK /\ FlowsOK /\ VerdictOK /\ Held(cl) /\ Held(cl') /\ DiskOK(disk)
      /\ Effect(f) /\ flow[f].pc # "idle"
  BY Parts, ContinueEffect, ContinuesLive DEF IInv, ClientOK
<1>1. PICK c \in Commands : c = flow[f].id
  BY <1>0, Reads
<1>2. /\ UNCHANGED <<srv, saved, late, sent>> /\ missed \subseteq missed'
      /\ Outcome(f, cl') /\ Tells(f) /\ (disk' = disk \/ disk' = Image(cl'))
  BY <1>0 DEF Effect
<1>3. PICK s : Goto(f, s) /\ Moves(f, s)
  BY <1>0 DEF Effect
<1>4. /\ flow'[f] = s /\ \A g \in Flows : g # f => flow'[g] = flow[g]
  BY <1>0, <1>3 DEF FlowsOK, Goto
<1>5. Live(f, c) /\ Requested(c) /\ sent[c].ver # 0
  BY <1>0, <1>1, RequestedSent DEF Live, Requested
<1>6. \A g \in Flows, d \in Commands : Live(g, d)' => Live(g, d)
  BY <1>0, <1>1, <1>3, <1>4 DEF Live, Moves, Idle
<1>7. /\ \A d \in Commands : d # c => verdict'[d] = verdict[d]
      /\ verdict' = verdict \/ (cl.slot.id = c /\ cl'.slot.id = None)
      /\ cl'.slot.id \in {None, cl.slot.id}
      /\ cl'.slot.unresolved => cl.slot.unresolved \/ cl.slot.id = c
  BY <1>0, <1>1, <1>2, Defaults DEF Outcome, Told, VerdictOK
<1>8. Writes({}) /\ (InEpoch' <=> InEpoch) /\ \A d \in Commands : Recorded(d)' <=> Recorded(d)
  BY <1>2, NothingWritten DEF InEpoch, Outcome, Scoped
<1>9. disk'.slot \in {disk.slot, cl'.slot.id}
  BY <1>0, <1>2, ImageOK
<1>10. Quiet({})
  BY <1>2, <1>5, <1>6, <1>7, <1>8, <1>9 DEF Quiet, Requested
<1>11. ASSUME NEW g \in Flows PROVE FlowOf(g)'
  <2>1. CASE g = f
    <3>1. flow'[f].pc # "submit"
      BY <1>3, <1>4 DEF Moves, Idle, Drains
    <3>2. flow'[f].pc # "idle" => AnswerInv(f)'
      <4> SUFFICES ASSUME flow'[f].pc # "idle" PROVE AnswerInv(f)'
        OBVIOUS
      <4>1. /\ s.id = c /\ s.ans.kind = "pending" /\ s.pc # "idle"
            /\ \/ s.pc = "recheck"
               \/ s.pc = "auto"
               \/ /\ s.pc \in Drains /\ s.cur = flow[f].cur
                  /\ flow[f].pc \in Posts /\ flow[f].ans.kind = "ok"
               \/ /\ s.pc = "refetch" /\ flow[f].pc = "drain"
                  /\ flow[f].cur \/ flow[f].id \in missed'
        BY <1>1, <1>3, <1>4 DEF Moves, Idle, Pending, Answer
      <4>2. AnswerInv(f)
        BY <1>0, AnswerParts DEF FlowOf
      <4>3. SentHere(c)' <=> SentHere(c)
        BY <1>2 DEF SentHere
      <4>4. Settles(f)' => Settles(f) /\ flow[f].pc # "refetch"
        BY <1>4, <4>1 DEF Settles, Posts, Drains
      <4>5. (SentHere(c)' /\ Settles(f)') => Recorded(c)'
        BY <1>1, <1>8, <4>2, <4>3, <4>4 DEF AnswerInv
      <4>6. (InEpoch' /\ flow'[f].cur /\ Settles(f)'
               /\ (flow'[f].pc = "refetch" => c \notin missed')) => Recorded(c)'
        <5> SUFFICES ASSUME InEpoch', flow'[f].cur, Settles(f)',
                            flow'[f].pc = "refetch" => c \notin missed'
                     PROVE  Recorded(c)
          BY <1>8
        <5>1. flow[f].cur
          BY <1>1, <1>4, <4>1 DEF Settles, Posts, Drains
        <5> QED BY <1>1, <1>8, <4>2, <4>4, <5>1 DEF AnswerInv
      <4> QED BY <1>4, <4>1, <4>5, <4>6 DEF AnswerInv
    <3> QED BY <2>1, <3>1, <3>2 DEF FlowOf
  <2>2. CASE g # f
    <3>1. FlowOf(g) /\ flow'[g] = flow[g]
      BY <1>4, <2>2, AnswerParts
    <3>2. Stays(g)
      BY <1>8, <3>1 DEF Stays
    <3>3. ASSUME flow[g].pc = "submit"
          PROVE  /\ verdict'[flow[g].id] = verdict[flow[g].id]
                 /\ cl'.slot.unresolved => cl.slot.unresolved
      <4>1. FirstSend(g) /\ flow[g].id \in Commands
        BY <1>0, <3>1, <3>3, Reads DEF FlowOf
      <4>2. flow[g].id # c
        BY <1>5, <2>2, <4>1 DEF FirstSend
      <4>3. cl.slot.id = flow[g].id
        <5>1. Requested(flow[g].id)
          BY <3>3 DEF Requested, Live
        <5> QED BY <4>1, <5>1, RequestedSent DEF FirstSend, IInv, SentIsRemembered
      <4> QED BY <1>7, <4>1, <4>2, <4>3
    <3>4. \A h \in Flows \ {g} : flow'[h].pc # "idle" /\ flow'[h].id = flow[g].id
                                    => Live(h, flow[g].id)
      BY <1>0, <1>1, <1>3, <1>4 DEF Live, Moves, Idle
    <3> QED BY <1>2, <1>8, <3>1, <3>2, <3>3, <3>4, StaysFlow
  <2> QED BY <2>1, <2>2
<1>12. \/ verdict'[c] = verdict[c]
       \/ verdict'[c] = "applied" /\ Settles(f) /\ (flow[f].cur \/ c \in missed') /\ Goto(f, Idle)
       \/ /\ verdict'[c] = "rejected" /\ Goto(f, Idle) /\ flow[f].pc \in Posts
          /\ \/ flow[f].ans.kind = "conflict"
             \/ flow[f].ans.kind \in {"refused", "denied"} /\ flow[f].pc = "submit"
       \/ verdict'[c] = "unrecorded"
  BY <1>0, <1>1, <1>2 DEF Tells, Told, VerdictOK
<1>13. AnswerInv(f) /\ (flow[f].pc = "submit" => FirstSend(f))
  BY <1>0, AnswerParts DEF FlowOf
<1>14. ASSUME verdict'[c] = "rejected", verdict'[c] # verdict[c], SentHere(c)
       PROVE  ~Recorded(c) /\ (Spent(c)' \/ ~Requested(c)')
  <2>1. CASE flow[f].ans.kind = "conflict" /\ flow[f].pc \in Posts
    <3>1. Spent(c) /\ ~Recorded(c)
      BY <1>1, <1>13, <1>14, <2>1 DEF AnswerInv
    <3> QED BY <1>2, <3>1 DEF Spent, Binds
  <2>2. CASE flow[f].ans.kind \in {"refused", "denied"} /\ flow[f].pc = "submit" /\ Goto(f, Idle)
    <3>1. FirstSend(f)
      BY <1>13, <2>2
    <3>2. flow'[f] = Idle
      BY <1>0, <2>2 DEF FlowsOK, Goto
    <3>3. ~Recorded(c) /\ c \notin late /\ \A g \in Flows : ~Live(g, c)'
      BY <1>1, <1>4, <1>14, <2>2, <3>1, <3>2 DEF FirstSend, Live, Idle
    <3> QED BY <1>2, <3>3 DEF Requested
  <2> QED BY <1>12, <1>14, <2>1, <2>2
<1>15. ASSUME NEW d \in Commands PROVE SentOf(d)' /\ VerdictOf(d)'
  <2>1. SentOf(d) /\ VerdictOf(d)
    BY AnswerParts
  <2>2. SentOf(d)'
    BY <1>10, <2>1, QuietSent
  <2>3. CASE verdict'[d] = verdict[d]
    <3>1. cl'.slot.id = d => verdict'[d] = "none"
      BY <1>7, <2>1, <2>3, CommandsAssumption DEF VerdictOf
    <3> QED BY <1>10, <2>1, <2>2, <2>3, <3>1, QuietVerdict
  <2>4. CASE verdict'[d] # verdict[d]
    <3>1. d = c /\ cl'.slot.id # c /\ (SentHere(c)' <=> SentHere(c))
      BY <1>2, <1>7, <2>4, CommandsAssumption DEF SentHere
    <3>2. verdict'[c] = "applied" /\ SentHere(c) => Recorded(c)'
      BY <1>1, <1>8, <1>12, <1>13, <2>4, <3>1 DEF AnswerInv
    <3> QED BY <1>12, <1>14, <2>2, <2>4, <3>1, <3>2 DEF VerdictOf
  <2> QED BY <2>3, <2>4
<1>16. Truthful
  <2>1. \A d \in Commands : ~RecordedNow(d)
    BY <1>8 DEF RecordedNow
  <2>2. \A d \in Commands, v \in {"applied", "rejected"} : TellsNow(d, v) => d = c
    BY <1>7 DEF TellsNow
  <2>3. ASSUME TellsNow(c, "applied"), cl.cursors.epoch = srv.epoch, c \notin missed'
        PROVE  Recorded(c)
    <3>1. Settles(f) /\ flow[f].cur /\ c \notin missed
      BY <1>2, <1>12, <2>3 DEF TellsNow
    <3> QED BY <1>1, <1>13, <2>3, <3>1 DEF AnswerInv, InEpoch
  <2>4. ASSUME TellsNow(c, "rejected"), sent[c].epoch = srv.epoch PROVE ~Recorded(c)
    BY <1>5, <1>14, <2>4 DEF TellsNow, SentHere
  <2> QED BY <2>1, <2>2, <2>3, <2>4 DEF Truthful
<1> QED BY <1>11, <1>15, <1>16, AnswerParts

LEMMA InitAnswers ==
    ASSUME Init
    PROVE  AnswersInv
<1>1. /\ srv.epoch = 1 /\ srv.recorded = [c \in Commands |-> NoRecord] /\ cl.slot = NoSlot
      /\ saved.recorded = srv.recorded /\ disk = Image(cl)
  BY DEF Init
<1>2. disk.slot = None /\ cl.slot.id = None
  BY <1>1, Defaults DEF Image
<1>3. ASSUME NEW c \in Commands
      PROVE  /\ sent[c].ver = 0 /\ sent[c].epoch = 0 /\ verdict[c] = "none"
             /\ ~Recorded(c) /\ saved.recorded[c].rev = 0
  BY <1>1 DEF Init, Unsent, Recorded, NoRecord
<1>4. \A c \in Commands : ~Requested(c)
  BY DEF Init, Requested, Live, Idle
<1>5. ASSUME NEW c \in Commands PROVE SentOf(c) /\ VerdictOf(c)
  <2>1. c # cl.slot.id /\ c # disk.slot
    BY <1>2, CommandsAssumption
  <2>2. sent[c].epoch <= srv.epoch /\ ~SentHere(c)
    BY <1>1, <1>3 DEF SentHere
  <2> QED BY <1>3, <1>4, <2>1, <2>2 DEF SentOf, VerdictOf
<1>6. \A f \in Flows : FlowOf(f)
  BY DEF Init, FlowOf, Idle
<1> QED BY <1>5, <1>6, AnswerParts

LEMMA NextAnswers ==
    ASSUME IInv, IInv', MirrorInv, AnswersInv, [Next]_vars, [GapFree]_vars
    PROVE  AnswersInv' /\ (Truthful \/ UNCHANGED vars)
<1>1. CASE UNCHANGED vars
  BY <1>1, NothingWritten, RequestsGoOn DEF vars, Requested
<1>2. CASE Next /\ ~UNCHANGED vars
  <2>1. GapFree
    BY <1>2
  <2>2. ASSUME Operator PROVE AnswersInv' /\ Truthful
    BY <2>2, RetryAnswers, DecideAnswers DEF Operator
  <2> QED BY <1>2, <2>1, <2>2, ServerAnswers, ServeAnswers, SyncAnswers, FailureAnswers,
             ContinueAnswers DEF Next, GapFree
<1> QED BY <1>1, <1>2

\* What the operator is told of a command (submit, replayLostResponse) is true of the
\* daemon's records and stays so, for any commands, submissions, lost answers and
\* faults and one restore.
THEOREM AnswersTrue ==
    ASSUME MaxEpoch <= 2
    PROVE  Spec => AnswersAreTrue
<1>1. Init => IInv /\ MirrorInv /\ AnswersInv
  BY InitIInv, InitMirrors, InitAnswers
<1>2. IInv /\ MirrorInv /\ AnswersInv /\ [Next]_vars
         => (IInv /\ MirrorInv /\ AnswersInv)' /\ [Truthful]_vars
  <2> SUFFICES ASSUME IInv, MirrorInv, AnswersInv, [Next]_vars
               PROVE  (IInv /\ MirrorInv /\ AnswersInv)' /\ [Truthful]_vars
    OBVIOUS
  <2>1. IInv' /\ GapFree
    BY NextIInv, OneRestoreSeen
  <2> QED BY <2>1, NextMirrors, NextAnswers
<1>3. AnswersAreTrue <=> [][Truthful]_vars
  BY PTL DEF AnswersAreTrue, Truthful
<1> QED BY <1>1, <1>2, <1>3, PTL DEF Spec

\* The same for any number of restores that find the client with cursors.
THEOREM AnswersTrueWhenSeen == Spec /\ RestoresSeen => AnswersAreTrue
<1>1. Init => IInv /\ MirrorInv /\ AnswersInv
  BY InitIInv, InitMirrors, InitAnswers
<1>2. IInv /\ MirrorInv /\ AnswersInv /\ [Next]_vars /\ [GapFree]_vars
         => (IInv /\ MirrorInv /\ AnswersInv)' /\ [Truthful]_vars
  BY NextIInv, NextMirrors, NextAnswers
<1>3. RestoresSeen <=> [][GapFree]_vars
  BY PTL DEF RestoresSeen, GapFree
<1>4. AnswersAreTrue <=> [][Truthful]_vars
  BY PTL DEF AnswersAreTrue, Truthful
<1> QED BY <1>1, <1>2, <1>3, <1>4, PTL DEF Spec
=============================================================================
