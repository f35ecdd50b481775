----------------------------- MODULE DecisionSync -----------------------------
(***************************************************************************)
(* One attention item, the daemon that owns it and the client that shows    *)
(* it.  The client mirrors the daemon through heartbeats and bootstraps,    *)
(* certifies the card by a read of its own, and submits decisions bound to  *)
(* what it shows; each submission holds the item's slot, saved before the   *)
(* first send, until an answer proves what became of it.  The daemon may be *)
(* restored to a checkpoint: its revisions and versions then repeat under a *)
(* new epoch, and what it had recorded since is gone.                      *)
(* The client runs on one actor: a handler is atomic from one await to the  *)
(* next, and everything else may happen in between.                        *)
(***************************************************************************)
EXTENDS Integers

CONSTANTS
    Commands, None,     \* command ids, and the absence of a value
    Flows,              \* submissions and retries that can be under way at once
    Concluding,         \* commands whose acceptance concludes the item
    Bodies,             \* what a decision binds: item version, head, artifacts
    MaxEpoch,   \* bound: restores, as epochs
    MaxRev,     \* bound: writes of others, as revision plus epoch
    MaxFaults   \* bound: relaunches, lost answers, failed saves and rounds

ASSUME CommandsAssumption == Concluding \subseteq Commands /\ None \notin Commands \cup Flows
ASSUME SyncBounds == {MaxEpoch, MaxRev, MaxFaults} \subseteq Nat

VARIABLES
    srv,      \* the daemon's database: epoch, revision, item, commands
    saved,    \* the checkpoint a restore would bring back
    cl,       \* what the client holds in memory
    disk,     \* the client's cache file
    round,    \* the heartbeat or bootstrap under way
    val,      \* the card's validation under way
    flow,     \* the submissions and retries under way
    late,     \* abandoned requests that may still reach the daemon
    sent,     \* what each command bound when it was submitted
    verdict,  \* what the operator was last told of each command
    missed,   \* commands that lost an eviction to their report (bookkeeping)
    faults

daemon == <<srv, saved, late>>
told == <<sent, verdict, missed>>
vars == <<srv, saved, late, cl, disk, round, val, flow, sent, verdict, missed, faults>>

-----------------------------------------------------------------------------
(* The daemon.                                                             *)

\* Versions start at 1; "no item" is the one without.
NoItem == [ver |-> 0, body |-> None, open |-> FALSE, asof |-> 0]
Item == {i \in [ver : Nat, body : Bodies \cup {None}, open : BOOLEAN, asof : Nat] :
            i.ver = 0 => i = NoItem}

\* A command's record: the revision that accepted it, and what it bound.
NoRecord == [rev |-> 0, body |-> None]
Recorded(c) == srv.recorded[c].rev # 0

Answer(k, e, r, i) == [kind |-> k, epoch |-> e, rev |-> r, item |-> i]
Pending == Answer("pending", 0, 0, NoItem)
Lost == Answer("lost", 0, 0, NoItem)
Denied == Answer("denied", 0, 0, NoItem)
Refusal == Answer("refused", 0, 0, NoItem)

\* The two checks of an item against a command: the version the client saw
\* (submitDecisionTransaction) and the bindings it decided on (PutCommand).
Binds(c) ==
    /\ srv.item.open
    /\ srv.item.ver = sent[c].ver
    /\ srv.item.body = sent[c].body

\* submitDecisionTransaction: a known id is answered from its record first.
AnswerTo(c) ==
    CASE Recorded(c) -> Answer("ok", 0, srv.recorded[c].rev, NoItem)
      [] ~Recorded(c) /\ srv.item.ver = 0 -> Refusal
      [] ~Recorded(c) /\ srv.item.ver # 0 /\ ~Binds(c) ->
            Answer("conflict", 0, 0, srv.item)
      [] OTHER -> Answer("ok", 0, srv.rev + 1, NoItem)

Concluded(i, c) ==
    IF c \in Concluding
    THEN [i EXCEPT !.ver = @ + 1, !.open = FALSE, !.asof = srv.rev + 1]
    ELSE i

Submit(c) ==
    IF Recorded(c) \/ srv.item.ver = 0 \/ ~Binds(c)
    THEN UNCHANGED srv
    ELSE srv' = [srv EXCEPT !.rev = @ + 1,
                            !.item = Concluded(@, c),
                            !.recorded[c] = [rev |-> srv.rev + 1, body |-> sent[c].body]]

\* The other grounds on which a new command is turned away: its device, content,
\* route or surface, the run's publication, the policy of the day.  Some of them
\* pass, so one copy of a command may be refused and another accepted.
Refuses(c) == ~Recorded(c) /\ srv.item.ver # 0 /\ UNCHANGED srv

\* Any other writer of the item: a stage, another device, the daemon itself.
Advance(b, o) ==
    /\ srv.rev + srv.epoch <= MaxRev
    /\ srv.item.ver = 0 \/ srv.item.open
    /\ srv' = [srv EXCEPT !.rev = @ + 1,
                          !.item = [ver |-> @.ver + 1, body |-> b, open |-> o,
                                    asof |-> srv.rev + 1]]
    /\ UNCHANGED <<saved, cl, disk, round, val, flow, late, told, faults>>

Checkpoint ==
    /\ saved' = [rev |-> srv.rev, item |-> srv.item, recorded |-> srv.recorded]
    /\ saved' # saved /\ srv.epoch < MaxEpoch  \* no bounded restore reads a later one
    /\ UNCHANGED <<srv, cl, disk, round, val, flow, late, told, faults>>

\* Store.Restore, of a stopped daemon: what its clients abandoned died with it.
Restore ==
    /\ srv.epoch < MaxEpoch
    /\ srv' = [epoch |-> srv.epoch + 1, rev |-> saved.rev, item |-> saved.item,
               recorded |-> saved.recorded]
    /\ late' = {}
    /\ UNCHANGED <<saved, cl, disk, round, val, flow, told, faults>>

\* An abandoned request arrives after all; nobody waits for the answer.
Arrive(c) ==
    /\ c \in late
    /\ Submit(c) \/ Refuses(c)
    /\ late' = late \ {c}
    /\ UNCHANGED <<saved, cl, disk, round, val, flow, told, faults>>

-----------------------------------------------------------------------------
(* What the client holds, and what each event does to it.                  *)

NoCursors == [epoch |-> 0, full |-> 0, seen |-> 0]
NoSlot == [id |-> None, unresolved |-> FALSE]

Observed_Nil(m, r) == \* fault: a client without cursors observes too
    IF r <= m.cursors.seen THEN m ELSE [m EXCEPT !.cursors.seen = r]
\* advanceObservedRevision
Observed(m, r) ==
    IF m.cursors = NoCursors \/ r <= m.cursors.seen THEN m
    ELSE [m EXCEPT !.cursors.seen = r,
                   !.fresh = IF r > m.cursors.full /\ @ # "failing"
                             THEN "unvalidated" ELSE @]

\* InboxStore.apply: versions only grow, as long as they count one history.
Outranked(m, i) == m.row.ver > i.ver
Showing(m, i) == Observed([m EXCEPT !.row = i], i.asof)

Evicted_Row(m) == [m EXCEPT !.cursors = NoCursors, !.valid = FALSE] \* fault: the row stays
\* discardCache: the slot survives, every certified card does not.
Evicted(m) ==
    [m EXCEPT !.cursors = NoCursors,
              !.row = NoItem,
              !.valid = FALSE]

OtherEpoch(m, e) == m.cursors # NoCursors /\ m.cursors.epoch # e

\* adopt: a bootstrap replaces rows and cursors.
Overtaken_Level(m, a) == m.cursors.epoch = a.epoch /\ m.cursors.seen >= a.rev \* fault
Overtaken(m, a) == m.cursors.epoch = a.epoch /\ m.cursors.seen > a.rev
Adopted(m, a) ==
    LET kept == IF OtherEpoch(m, a.epoch) THEN Evicted(m) ELSE m
    IN  [kept EXCEPT
           !.row = IF a.item.ver # 0 /\ Outranked(kept, a.item) THEN @ ELSE a.item,
           !.cursors = [epoch |-> a.epoch, full |-> a.rev,
                        seen |-> IF @.seen > a.rev THEN @.seen ELSE a.rev],
           !.fresh = "fresh"]

\* setPendingCommandState and clearPendingCommand, of the slot's own command.
Marked(m, c, u) == IF m.slot.id = c THEN [m EXCEPT !.slot.unresolved = u] ELSE m
Cleared(m, c) == IF m.slot.id = c THEN [m EXCEPT !.slot = NoSlot] ELSE m

InPhase(m, p) == [m EXCEPT !.phase = p]
Certified(m) == [m EXCEPT !.valid = TRUE]
Uncertified(m) == [m EXCEPT !.valid = FALSE]

\* persist: rows only with the cursors that scope them, the slot always.
Image(m) ==
    [cursors |-> m.cursors,
     row |-> IF m.cursors = NoCursors THEN NoItem ELSE m.row,
     slot |-> m.slot.id]

Fault == faults < MaxFaults /\ faults' = faults + 1

\* A save that fails leaves the file as it was.
Saves(m) ==
    \/ disk' = Image(m) /\ UNCHANGED faults
    \/ Image(m) # disk /\ UNCHANGED disk /\ Fault

\* What the operator is told, once, when the slot is released.
Told(c, v) ==
    verdict' = IF cl.slot.id = c THEN [verdict EXCEPT ![c] = v] ELSE verdict

-----------------------------------------------------------------------------
(* Requests.  "cur" says that no eviction came since the request's cache    *)
(* generation was read.                                                    *)

NoRound == [kind |-> "none", ans |-> Pending]
Asking(k) == [kind |-> k, ans |-> Pending]

NoValidation == [owner |-> None, tries |-> 0, cur |-> FALSE, ans |-> Pending]
Validation(o, n) == [owner |-> o, tries |-> n, cur |-> TRUE, ans |-> Pending]

Idle == [pc |-> "idle", id |-> None, cur |-> FALSE, rev |-> 0, ans |-> Pending]
Sending(p, c) == [pc |-> p, id |-> c, cur |-> TRUE, rev |-> 0, ans |-> Pending]
Posts == {"submit", "auto", "retry"}
Drains == {"drain", "autodrain", "retrydrain"}

\* Flows differ in nothing but their place here: a new one takes the first free.
Free == CHOOSE f \in Flows : flow[f] = Idle

Waits(f) == flow[f].pc \in Posts \cup {"refetch"} /\ flow[f].ans = Pending
Arrived(f, p) == flow[f].pc = p /\ flow[f].ans # Pending
Goto(f, s) == flow' = [flow EXCEPT ![f] = s]

EvictRequests_Cards == \* fault: a submission under way does not notice
    val' = [val EXCEPT !.cur = FALSE] /\ UNCHANGED flow
\* The eviction reaches every request whose answer is still awaited.
EvictRequests ==
    /\ val' = [val EXCEPT !.cur = FALSE]
    /\ flow' = [f \in Flows |-> [flow[f] EXCEPT !.cur = FALSE]]

ServePost(f) ==
    /\ Waits(f) /\ flow[f].pc \in Posts
    /\ \/ /\ Submit(flow[f].id)
          /\ Goto(f, [flow[f] EXCEPT !.ans = AnswerTo(flow[f].id)])
       \/ /\ Refuses(flow[f].id)
          /\ Goto(f, [flow[f] EXCEPT !.ans = Refusal])
    /\ UNCHANGED <<saved, cl, disk, round, val, late, told, faults>>

\* GetAttentionItem; an absent item is answered 404.
ServeRefetch(f) ==
    /\ Waits(f) /\ flow[f].pc = "refetch"
    /\ Goto(f, [flow[f] EXCEPT !.ans = Answer("ok", 0, 0, srv.item)])
    /\ UNCHANGED <<saved, srv, cl, disk, round, val, late, told, faults>>

ServeValidation ==
    /\ val.tries # 0 /\ val.ans = Pending
    /\ val' = [val EXCEPT !.ans = Answer("ok", 0, 0, srv.item)]
    /\ UNCHANGED <<daemon, cl, disk, round, flow, told, faults>>

ServeBootstrap ==
    /\ round = Asking("bootstrap")
    /\ round' = [round EXCEPT !.ans = Answer("ok", srv.epoch, srv.rev, srv.item)]
    /\ UNCHANGED <<daemon, cl, disk, val, flow, told, faults>>

\* A timeout or a 5xx.  The client gives a submission up, and it may yet arrive.
LoseAnswer(f) ==
    /\ Waits(f) \/ (flow[f].ans # Pending /\ flow[f].ans # Lost)
    /\ Fault
    /\ late' = IF flow[f].pc \in Posts /\ flow[f].ans = Pending
               THEN late \cup {flow[f].id} ELSE late
    /\ Goto(f, [flow[f] EXCEPT !.ans = Lost])
    /\ UNCHANGED <<srv, saved, cl, disk, round, val, told>>

\* The credential gate refuses a submission, whatever became of earlier ones.
Deny(f) ==
    /\ Waits(f) /\ flow[f].pc \in Posts
    /\ Fault
    /\ Goto(f, [flow[f] EXCEPT !.ans = Denied])
    /\ UNCHANGED <<daemon, cl, disk, round, val, told>>

-----------------------------------------------------------------------------
(* Sync rounds: SyncCoordinator.                                           *)

\* A round starts with a heartbeat; it changes nothing before the daemon reads
\* the revision, so the two are one step.
StartRound ==
    /\ round = NoRound
    /\ round' = [kind |-> "heartbeat", ans |-> Answer("ok", srv.epoch, srv.rev, NoItem)]
    /\ UNCHANGED <<daemon, cl, disk, val, flow, told, faults>>

\* performHeartbeat: another epoch evicts at once, a gap asks for a bootstrap.
FirstSync ==
    /\ cl.cursors = NoCursors
    /\ round' = Asking("bootstrap")
    /\ UNCHANGED <<cl, disk, val, flow, faults>>

NewEpoch ==
    /\ OtherEpoch(cl, round.ans.epoch)
    /\ cl' = Evicted(cl)
    /\ Saves(cl')
    /\ EvictRequests
    /\ round' = Asking("bootstrap")

\* The verdict or the lineup may have changed without a revision: "drift".
SameEpoch(drift) ==
    LET m == Observed(cl, round.ans.rev)
        gap == m.cursors.seen > m.cursors.full
    IN  /\ cl.cursors.epoch = round.ans.epoch
        /\ cl' = IF gap \/ drift THEN m ELSE [m EXCEPT !.fresh = "fresh"]
        /\ IF m = cl THEN UNCHANGED <<disk, faults>> ELSE Saves(cl')
        /\ round' = IF gap \/ drift THEN Asking("bootstrap") ELSE NoRound
        /\ UNCHANGED <<val, flow>>

Heartbeat ==
    /\ round.kind = "heartbeat"
    /\ FirstSync \/ NewEpoch \/ \E drift \in BOOLEAN : SameEpoch(drift)
    /\ UNCHANGED <<daemon, told>>

\* bootstrap: an image older than what the client has read since is refetched.
Refetch ==
    /\ Overtaken(cl, round.ans)
    /\ cl' = IF cl.fresh = "failing" THEN cl ELSE [cl EXCEPT !.fresh = "unvalidated"]
    /\ round' = Asking("bootstrap")
    /\ UNCHANGED <<disk, val, flow, faults>>

Adopt ==
    /\ ~Overtaken(cl, round.ans)
    /\ cl' = Adopted(cl, round.ans)
    /\ Saves(cl')
    /\ IF OtherEpoch(cl, round.ans.epoch) THEN EvictRequests ELSE UNCHANGED <<val, flow>>
    /\ round' = NoRound

Bootstrap ==
    /\ round.kind = "bootstrap" /\ round.ans # Pending
    /\ Refetch \/ Adopt
    /\ UNCHANGED <<daemon, told>>

\* No answer, or a failed one: unreachable, failing, skewed or unauthenticated.
FailRound ==
    /\ round # NoRound
    /\ Fault
    /\ cl' = [cl EXCEPT !.fresh = "failing"]
    /\ round' = NoRound
    /\ UNCHANGED <<daemon, disk, val, flow, told>>

-----------------------------------------------------------------------------
(* Validation of the card: DecisionModel.validate.                         *)

\* The view asks whenever an uncertified card appears or changes; the newest
\* validation counts, so this one takes over from a flow's.
ViewValidates ==
    /\ ~cl.valid
    /\ val.owner # None \/ val = NoValidation \/ ~val.cur
    /\ cl' = Uncertified(cl)
    /\ val' = Validation(None, 1)
    /\ UNCHANGED <<daemon, disk, round, flow, told, faults>>

CertifyRow ==
    LET m == Certified(Showing(cl, val.ans.item))
    IN  /\ val.cur /\ val.ans.item.ver # 0 /\ ~Outranked(cl, val.ans.item)
        /\ cl' = IF m.phase = "applied" /\ m.row.open THEN InPhase(m, "idle") ELSE m
        /\ Saves(cl')
        /\ val' = NoValidation

\* A refused or outdated answer earns a second read.
ReadAgain ==
    /\ ~val.cur \/ (val.ans.item.ver # 0 /\ Outranked(cl, val.ans.item))
    /\ IF val.tries = 1
       THEN val' = Validation(val.owner, 2) /\ UNCHANGED cl
       ELSE val' = NoValidation /\ cl' = Uncertified(cl)
    /\ UNCHANGED <<disk, faults>>

NotFound ==
    /\ val.cur /\ val.ans.item.ver = 0
    /\ cl' = Uncertified(cl)
    /\ val' = NoValidation
    /\ UNCHANGED <<disk, faults>>

Validate ==
    /\ val.ans # Pending
    /\ CertifyRow \/ ReadAgain \/ NotFound
    /\ UNCHANGED <<daemon, round, flow, told>>

FailValidation ==
    /\ val.tries # 0
    /\ Fault
    /\ cl' = Uncertified(cl)
    /\ val' = NoValidation
    /\ UNCHANGED <<daemon, disk, round, flow, told>>

-----------------------------------------------------------------------------
(* Submitting a decision: DecisionModel.submit.                            *)

ActionsEnabled ==
    /\ cl.valid
    /\ cl.row.open
    /\ cl.slot = NoSlot
    /\ cl.fresh # "failing"
    /\ cl.phase = "idle"

Registered_Unsaved == cl.slot = NoSlot /\ UNCHANGED disk \* fault: sent all the same
\* registerPendingCommand: a slot that does not reach the disk is given back,
\* and nothing is sent.
Registered == cl.slot = NoSlot /\ disk' = Image(cl')

Decide(f, c) ==
    /\ flow[f] = Idle /\ f = Free
    /\ sent[c].ver = 0
    /\ ActionsEnabled
    /\ cl' = [cl EXCEPT !.slot = [id |-> c, unresolved |-> FALSE],
                        !.phase = "submitting"]
    /\ Registered
    /\ sent' = [sent EXCEPT ![c] = [ver |-> cl.row.ver, body |-> cl.row.body,
                                  epoch |-> cl.cursors.epoch]]
    /\ Goto(f, Sending("submit", c))
    /\ UNCHANGED <<daemon, round, val, verdict, missed, faults>>

\* Ends in "await validate()": the flow's result no longer matters to it.
ThenValidate(f, m) ==
    /\ cl' = Uncertified(m)
    /\ val' = Validation(None, 1)
    /\ Goto(f, Idle)
    /\ Saves(cl')

Ends(f, m) ==
    /\ cl' = m
    /\ Goto(f, Idle)
    /\ Saves(cl')
    /\ UNCHANGED val

\* settleAmbiguousOutcome, up to its replay: the slot is kept.
Ambiguous(f) ==
    /\ cl' = Uncertified(InPhase(Marked(cl, flow[f].id, TRUE), "idle"))
    /\ val' = Validation(f, 1)
    /\ Goto(f, [Idle EXCEPT !.pc = "recheck", !.id = flow[f].id])
    /\ Saves(cl')
    /\ UNCHANGED verdict

\* The answer decides the item while its epoch lasts.
Shows(f) == flow[f].cur /\ ~Outranked(cl, flow[f].ans.item)
Replaced(m, i) == Certified(InPhase(Showing(m, i), "idle"))

Accepted(f) ==
    /\ flow[f].ans.kind = "ok"
    /\ IF ~flow[f].cur THEN Ambiguous(f)
       ELSE /\ Goto(f, [flow[f] EXCEPT !.pc = "drain", !.rev = flow[f].ans.rev,
                                       !.ans = Pending])
            /\ UNCHANGED <<cl, disk, val, verdict, faults>>

Conflicted(f) ==
    LET m == Cleared(cl, flow[f].id)
    IN  /\ flow[f].ans.kind = "conflict"
        /\ Told(flow[f].id, "rejected")
        /\ IF Shows(f) THEN Ends(f, Replaced(m, flow[f].ans.item))
                       ELSE ThenValidate(f, InPhase(m, "idle"))

Refused(f) ==
    LET m == InPhase(Cleared(cl, flow[f].id), "idle")
    IN  /\ flow[f].ans.kind \in {"refused", "denied"}
        /\ Told(flow[f].id, "rejected")
        /\ IF flow[f].ans.kind = "refused" THEN ThenValidate(f, m)
           ELSE Ends(f, [m EXCEPT !.fresh = "failing"])

Unanswered(f) == flow[f].ans.kind = "lost" /\ Ambiguous(f)

Submitted(f) ==
    /\ Arrived(f, "submit")
    /\ Accepted(f) \/ Conflicted(f) \/ Refused(f) \/ Unanswered(f)
    /\ UNCHANGED <<daemon, round, sent, missed>>

Missing(f) == missed' = IF flow[f].cur THEN missed ELSE missed \cup {flow[f].id}

\* emitDecisionEvents returns.  Only now is the cache generation read again.
Drained(f) ==
    /\ flow[f].pc = "drain"
    /\ Goto(f, [flow[f] EXCEPT !.pc = "refetch", !.cur = TRUE])
    /\ Missing(f)
    /\ UNCHANGED <<daemon, cl, disk, round, val, sent, verdict, faults>>

\* The read that must confirm an accepted command before it is settled.
Unconfirmed(f) == flow[f].ans = Lost \/ flow[f].ans.item.ver = 0
Confirm(f) ==
    LET i == flow[f].ans.item
        m == Cleared(Observed(cl, flow[f].rev), flow[f].id)
    IN  /\ flow[f].cur
        /\ Told(flow[f].id, "applied")
        /\ \/ /\ Unconfirmed(f)
              /\ Ends(f, Uncertified(InPhase(m, "applied")))
           \/ /\ ~Unconfirmed(f) /\ Outranked(m, i)
              /\ ThenValidate(f, InPhase(m, "applied"))
           \/ /\ ~Unconfirmed(f) /\ ~Outranked(m, i)
              /\ Ends(f, InPhase(Showing(m, i), IF i.open THEN "idle" ELSE "applied"))

Refetched(f) ==
    /\ Arrived(f, "refetch")
    /\ Confirm(f) \/ (~flow[f].cur /\ Ambiguous(f))
    /\ UNCHANGED <<daemon, round, sent, missed>>

-----------------------------------------------------------------------------
(* Resending a command whose response was lost: replayLostResponse.        *)

\* settleAmbiguousOutcome resends once, when its validation has returned.
AutoReplay(f) ==
    /\ flow[f].pc = "recheck"
    /\ val.owner # f
    /\ Goto(f, Sending("auto", flow[f].id))
    /\ UNCHANGED <<daemon, cl, disk, round, val, told, faults>>

\* retryLostResponse; a command already accepted on this card offers no retry.
Retry(f) ==
    /\ flow[f] = Idle /\ f = Free
    /\ cl.slot # NoSlot /\ cl.slot.unresolved
    /\ cl.phase # "submitting"
    /\ \A g \in Flows : flow[g].pc \in Drains => flow[g].id # cl.slot.id
    /\ cl' = InPhase(Marked(cl, cl.slot.id, FALSE), "submitting")
    /\ Saves(cl')
    /\ Goto(f, Sending("retry", cl.slot.id))
    /\ UNCHANGED <<daemon, round, val, told>>

Owns(f) == cl.slot.id = flow[f].id

\* Lost again, or the slot went to a newer command: the first resend leaves
\* everything as it is, a retry gives the slot and the card back.
Inconclusive(f, m) ==
    /\ UNCHANGED verdict
    /\ IF flow[f].pc = "auto" THEN Ends(f, m)
       ELSE ThenValidate(f, InPhase(Marked(m, flow[f].id, TRUE), "idle"))

Recovered(f) ==
    LET m == InPhase(Observed(cl, flow[f].ans.rev), "applied")
    IN  /\ flow[f].ans.kind = "ok" /\ Owns(f) /\ flow[f].cur
        /\ \/ /\ Told(flow[f].id, "applied")
              /\ ThenValidate(f, Cleared(m, flow[f].id))
           \/ /\ cl' = m
              /\ Saves(m)
              /\ Goto(f, [flow[f] EXCEPT !.ans = Pending,
                     !.pc = IF flow[f].pc = "auto" THEN "autodrain" ELSE "retrydrain"])
              /\ UNCHANGED <<val, verdict>>

\* A 409 is canonical whoever owns the slot, and proves nothing was recorded.
Rebutted(f) ==
    LET i == flow[f].ans.item
        m == Cleared(IF Shows(f) THEN Showing(cl, i) ELSE cl, flow[f].id)
        done == IF flow[f].pc = "auto" THEN m ELSE InPhase(m, "idle")
    IN  /\ flow[f].ans.kind = "conflict" /\ Owns(f)
        /\ Told(flow[f].id, "rejected")
        /\ IF Shows(f) THEN Ends(f, Certified(InPhase(m, "idle")))
                       ELSE ThenValidate(f, done)

\* Any other refusal is taken to say that the first send was not recorded either.
Rejected(f) ==
    LET m == Cleared(cl, flow[f].id)
    IN  /\ flow[f].ans.kind = "refused" /\ Owns(f)
        /\ Told(flow[f].id, "unrecorded")
        /\ ThenValidate(f, IF flow[f].pc = "auto" THEN m ELSE InPhase(m, "idle"))

Stray(f) ==
    LET a == flow[f].ans
    IN  /\ \/ a.kind \in {"lost", "denied"} \/ ~Owns(f)
           \/ a.kind = "ok" /\ ~flow[f].cur
        /\ Inconclusive(f,
             CASE a.kind = "denied" -> [cl EXCEPT !.fresh = "failing"]
               [] a.kind = "conflict" /\ Shows(f) -> Showing(cl, a.item)
               [] OTHER -> cl)

Replayed(f) ==
    /\ Arrived(f, "auto") \/ Arrived(f, "retry")
    /\ Recovered(f) \/ Rebutted(f) \/ Rejected(f) \/ Stray(f)
    /\ UNCHANGED <<daemon, round, sent, missed>>

\* The replay's own report is through; the slot is released as it stands now.
ReplayDrained(f) ==
    /\ flow[f].pc \in {"autodrain", "retrydrain"}
    /\ Told(flow[f].id, "applied")
    /\ ThenValidate(f, Cleared(cl, flow[f].id))
    /\ Missing(f)
    /\ UNCHANGED <<daemon, round, sent>>

-----------------------------------------------------------------------------
(* The client is relaunched from its cache: a slot found there is           *)
(* unresolved, whatever it was (restorePendingCommands).                   *)

Relaunch ==
    /\ Fault
    /\ cl' = [cursors |-> disk.cursors, row |-> disk.row, fresh |-> "unvalidated",
              slot |-> [id |-> disk.slot, unresolved |-> disk.slot # None],
              valid |-> FALSE, phase |-> "idle"]
    /\ late' = late \cup {flow[f].id : f \in {g \in Flows :
                             Waits(g) /\ flow[g].pc \in Posts}}
    /\ round' = NoRound
    /\ val' = NoValidation
    /\ flow' = [f \in Flows |-> Idle]
    /\ verdict' = [c \in Commands |-> IF c = disk.slot THEN "none" ELSE verdict[c]]
    /\ UNCHANGED <<srv, saved, disk, sent, missed>>

-----------------------------------------------------------------------------
FirstItem(b) == [ver |-> 1, body |-> b, open |-> TRUE, asof |-> 1]
Unsent == [ver |-> 0, body |-> None, epoch |-> 0]
\* A bootstrapped client over an open item; the checkpoint predates it.
Init ==
    /\ \E b \in Bodies :
         /\ srv = [epoch |-> 1, rev |-> 1, item |-> FirstItem(b),
                   recorded |-> [c \in Commands |-> NoRecord]]
         /\ cl = [cursors |-> [epoch |-> 1, full |-> 1, seen |-> 1],
                  row |-> FirstItem(b), fresh |-> "unvalidated", slot |-> NoSlot,
                  valid |-> FALSE, phase |-> "idle"]
    /\ saved = [rev |-> 0, item |-> NoItem, recorded |-> srv.recorded]
    /\ disk = Image(cl)
    /\ round = NoRound
    /\ val = NoValidation
    /\ flow = [f \in Flows |-> Idle]
    /\ late = {}
    /\ sent = [c \in Commands |-> Unsent]
    /\ verdict = [c \in Commands |-> "none"]
    /\ missed = {}
    /\ faults = 0

Server ==
    \/ \E b \in Bodies, o \in BOOLEAN : Advance(b, o)
    \/ Checkpoint \/ Restore
    \/ \E c \in Commands : Arrive(c)
Serve == ServeValidation \/ ServeBootstrap \/ \E f \in Flows : ServePost(f) \/ ServeRefetch(f)
Sync == StartRound \/ Heartbeat \/ Bootstrap
Continue(f) ==
    \/ Submitted(f) \/ Drained(f) \/ Refetched(f)
    \/ AutoReplay(f) \/ Replayed(f) \/ ReplayDrained(f)
Operator == \E f \in Flows : Retry(f) \/ \E c \in Commands : Decide(f, c)
Failures ==
    \/ FailRound \/ FailValidation \/ Relaunch
    \/ \E f \in Flows : LoseAnswer(f) \/ Deny(f)

Next ==
    \/ Server \/ Serve \/ Sync \/ Validate \/ ViewValidates
    \/ Operator \/ Failures
    \/ \E f \in Flows : Continue(f)

\* The refresh loop keeps running, the daemon answers or the request times out
\* (a fault), and every continuation of the client's actor is scheduled.
Fairness ==
    /\ WF_round(Sync \/ ServeBootstrap)
    /\ WF_val(Validate \/ ServeValidation)
    /\ \A f \in Flows : WF_(flow[f])(ServePost(f) \/ ServeRefetch(f) \/ Continue(f))

Spec == Init /\ [][Next]_vars
FairSpec == Spec /\ Fairness
=============================================================================
