------------------------ MODULE DecisionSyncProperties ------------------------
(* What deciding an item from a client must guarantee.                       *)
EXTENDS DecisionSync

Cursors == [epoch : Nat, full : Nat, seen : Nat]
Slot == [id : Commands \cup {None}, unresolved : BOOLEAN]
Client == [cursors : Cursors, row : Item, fresh : {"unvalidated", "fresh", "failing"},
           slot : Slot, valid : BOOLEAN, phase : {"idle", "submitting", "applied"}]
Answers == [kind : {"pending", "ok", "refused", "conflict", "lost", "denied"},
            epoch : Nat, rev : Nat, item : Item]
Records == [Commands -> [rev : Nat, body : Bodies \cup {None}]]
Steps == {"idle", "recheck", "refetch"} \cup Posts \cup Drains

\* Every variable has its type, a client without an epoch has no revisions
\* either, an empty slot offers no retry, and every answer names an epoch.
TypeOK ==
    /\ srv \in [epoch : Nat \ {0}, rev : Nat, item : Item, recorded : Records]
    /\ saved \in [rev : Nat, item : Item, recorded : Records]
    /\ cl \in Client /\ (cl.cursors.epoch = 0 => cl.cursors = NoCursors)
    /\ cl.slot.unresolved => cl.slot.id # None
    /\ disk \in [cursors : Cursors, row : Item, slot : Commands \cup {None}]
    /\ disk.cursors.epoch = 0 => disk.cursors = NoCursors
    /\ round \in [kind : {"none", "heartbeat", "bootstrap"}, ans : Answers]
    /\ round.ans # Pending => round.ans.epoch # 0
    /\ val \in [owner : Flows \cup {None}, tries : 0..2, cur : BOOLEAN, ans : Answers]
    /\ flow \in [Flows -> [pc : Steps, id : Commands \cup {None}, cur : BOOLEAN,
                           rev : Nat, ans : Answers]]
    /\ \A f \in Flows : flow[f].pc # "idle" => flow[f].id # None
    /\ late \subseteq Commands /\ missed \subseteq Commands /\ faults \in Nat
    /\ sent \in [Commands -> [ver : Nat, body : Bodies \cup {None}, epoch : Nat]]
    /\ verdict \in [Commands -> {"none", "applied", "rejected", "unrecorded"}]

\* A card list shown as fresh (SyncCoordinator.adopt) at the daemon's own epoch
\* and revision shows the item as the daemon holds it: nothing read before a
\* restore, out of order, or from a cache file survives into it.
FreshIsCurrent ==
    (/\ cl.fresh = "fresh"
     /\ cl.cursors.epoch = srv.epoch /\ cl.cursors.full = srv.rev) => cl.row = srv.item

\* A command that was sent and not yet answered for the operator is the one in
\* the item's slot, in memory and in the cache file (registerPendingCommand):
\* no crash, eviction or lost answer forgets it, and no second one starts.
SentIsRemembered ==
    \A c \in Commands :
        (sent[c].ver # 0 /\ verdict[c] = "none") => cl.slot.id = c /\ disk.slot = c

TellsNow(c, v) == verdict[c] # v /\ verdict'[c] = v
RecordedNow(c) == ~Recorded(c) /\ Recorded(c)'

\* What the operator is told of a command (submit, replayLostResponse) holds in
\* the history it was decided in.  "Applied" is told with the command recorded;
\* "rejected" is told with it unrecorded, and neither is ever followed by its
\* recording.  A client that has not learnt of a restore yet is excused, and so
\* is a command that lost an eviction to its report (AppliedIsRecorded).  Nothing
\* is claimed of "unrecorded", a resend refused on grounds that may pass: the
\* first send may still be, or meanwhile have been, accepted.
AnswersAreTrue ==
    [][\A c \in Commands :
         /\ (TellsNow(c, "applied") /\ cl.cursors.epoch = srv.epoch /\ c \notin missed')
                => Recorded(c)
         /\ (TellsNow(c, "rejected") /\ sent[c].epoch = srv.epoch) => ~Recorded(c)
         /\ (RecordedNow(c) /\ sent[c].epoch = srv.epoch /\ srv'.epoch = srv.epoch)
                => verdict[c] \in {"none", "unrecorded"}]_vars

\* DecisionModel.submit's comment (976-980): a restore is "handled as ambiguous,
\* never shown as a false 'applied' with the retry slot already dropped".
AppliedIsRecorded ==
    [][\A c \in Commands :
         (TellsNow(c, "applied") /\ cl.cursors.epoch = srv.epoch) => Recorded(c)]_vars

CaughtUp == cl.fresh = "fresh" /\ cl.cursors.epoch = srv.epoch /\ cl.cursors.full = srv.rev
Answered == \A f \in Flows : flow[f] = Idle

\* Once writes, restores and faults stop, the client's rounds bring it to the
\* daemon's state for good (bootstrap's refetch ends), no submission stays under
\* way, and a command still in the slot offers its retry.
CatchesUp ==
    <>[](missed = {} => CaughtUp /\ Answered /\ (cl.slot # NoSlot => cl.slot.unresolved))

-----------------------------------------------------------------------------
(* The invariants behind the first and the third property, which hold as     *)
(* long as no restore falls between an eviction and the bootstrap after it   *)
(* (adopt installs an epoch without evicting what was read in the meantime). *)

\* The daemon is restored only while the client has cursors of some epoch.
RestoresSeen == [][srv'.epoch # srv.epoch => cl.cursors # NoCursors]_vars

\* An item read in this history is the daemon's or an earlier version of it.
Known(i, s) == i.ver < s.item.ver \/ i = s.item
\* A row scoped to revision r of this history is the one current at r.
UpTo(r, i, s) == r <= s.rev /\ (r >= s.item.asof => i = s.item)

\* No eviction is due, or none will come, for what is read of this history.
InEpoch == cl.cursors.epoch \in {0, srv.epoch}

\* Cursors and row, in memory or in the cache file, against the daemon.
Mirrors(cur, row, s) ==
    /\ cur.epoch <= s.epoch
    /\ cur.epoch = 0 => s.epoch >= 2
    /\ cur.epoch \in {0, s.epoch} => Known(row, s)
    /\ cur.epoch = s.epoch => UpTo(cur.full, row, s)

\* Whatever the client holds, and every answer on its way to it, is of an
\* earlier epoch or agrees with the daemon's history.
MirrorInv ==
    /\ srv.item.asof <= srv.rev /\ saved.item.asof <= saved.rev
    /\ Mirrors(cl.cursors, cl.row, srv)
    /\ Mirrors(disk.cursors, disk.row, srv)
    /\ disk.cursors.epoch = 0 => disk.row = NoItem
    /\ round.kind = "heartbeat" => round.ans # Pending
    /\ round.ans # Pending => round.ans.epoch <= srv.epoch
    /\ (round.kind = "bootstrap" /\ round.ans # Pending /\ round.ans.epoch = srv.epoch)
          => Known(round.ans.item, srv) /\ UpTo(round.ans.rev, round.ans.item, srv)
    /\ (InEpoch /\ val.cur) => Known(val.ans.item, srv)
    /\ \A f \in Flows : (InEpoch /\ flow[f].cur) => Known(flow[f].ans.item, srv)
    /\ \A f \in Flows : flow[f].pc \in Drains => flow[f].ans = Pending

Live(f, c) == flow[f].pc # "idle" /\ flow[f].id = c
\* c was sent in the daemon's present history.
SentHere(c) == sent[c].ver # 0 /\ sent[c].epoch = srv.epoch
\* c can no longer be accepted in this history.
Spent(c) == sent[c].ver < srv.item.ver \/ (sent[c].ver = srv.item.ver /\ ~Binds(c))

\* A command id is nowhere before it is sent, and what it bound is in the past.
SentInv ==
    \A c \in Commands :
       /\ sent[c].epoch <= srv.epoch
       /\ SentHere(c) => sent[c].ver <= srv.item.ver
       /\ sent[c].ver = 0 => /\ ~Recorded(c) /\ saved.recorded[c].rev = 0
                             /\ c \notin late /\ verdict[c] = "none"
                             /\ c # cl.slot.id /\ c # disk.slot
                             /\ \A f \in Flows : ~Live(f, c)

\* A first send under way is its command's only trace until it is answered.
FirstSend(f) ==
    LET c == flow[f].id
    IN  /\ verdict[c] = "none" /\ ~cl.slot.unresolved
        /\ \A g \in Flows \ {f} : ~Live(g, c)
        /\ flow[f].ans.kind \in {"pending", "denied", "refused"} =>
              c \notin late /\ (SentHere(c) => ~Recorded(c))

\* The command was found recorded when its answer, or its report, was formed.
Settles(f) ==
    \/ flow[f].pc \in Posts /\ flow[f].ans.kind = "ok"
    \/ flow[f].pc \in Drains \cup {"refetch"}

\* What a submission's answer proves while the history it came from lasts.
AnswerInv(f) ==
    LET c == flow[f].id
    IN  /\ (SentHere(c) /\ Settles(f)) => Recorded(c)
        /\ (SentHere(c) /\ flow[f].pc \in Posts /\ flow[f].ans.kind = "conflict")
              => Spent(c) /\ ~Recorded(c)
        /\ (InEpoch /\ flow[f].cur /\ Settles(f)
              /\ (flow[f].pc = "refetch" => c \notin missed)) => Recorded(c)

\* What was settled for a command stays as it is: it is recorded, never can be,
\* or has no request left.
VerdictInv ==
    \A c \in Commands :
       verdict[c] # "none" =>
          /\ cl.slot.id # c
          /\ SentHere(c) /\ verdict[c] # "unrecorded" =>
                \/ Recorded(c)
                \/ Spent(c)
                \/ c \notin late /\ \A f \in Flows : ~Live(f, c)

FlowInv == \A f \in Flows :
              flow[f].pc # "idle" => AnswerInv(f) /\ (flow[f].pc = "submit" => FirstSend(f))

AnswersInv == SentInv /\ FlowInv /\ VerdictInv
=============================================================================
