---------------------------- MODULE FollowUpFiling ----------------------------
(***************************************************************************)
(* Filing of approved follow-up issues (plan §5.17): publish's FollowUpFiler, *)
(* the intent ledger it writes, and the GitHub it talks to.  One goroutine *)
(* drives every approved filing, oldest first; each ledger transaction and *)
(* each network exchange is a step of its own, and a crash may fall between *)
(* any two.  GitHub may execute a create late, lose its answer, or never   *)
(* execute it.  Intents are written by the filer alone; operators approve  *)
(* filings, stop workflows and re-register the App meanwhile.              *)
(***************************************************************************)
EXTENDS Integers, FiniteSets

CONSTANTS
    Instances,      \* proposal instances, numbered from the oldest
    Repos, RepoOf,  \* repositories, and the one each instance files into
    Runs, RunOf,    \* runs (their workflows), and the origin of each instance
    Legacy,         \* instances whose intent predates the recorded identity
    Apps,           \* GitHub App bot identities
    AttemptBound,   \* followUpFilingAttemptBound
    ListingBound,   \* followUpFilingListingBound
    MaxPerDay, MaxPerRun,  \* the caps of the resolved policy
    MaxFaults       \* bound: crashes, failed exchanges and App registrations

ASSUME InstancesAreNumbered == Instances \subseteq Nat \ {0}
ASSUME Origins ==
    /\ RepoOf \in [Instances -> Repos]
    /\ RunOf \in [Instances -> Runs]
ASSUME LegacyIntents ==
    /\ Legacy \subseteq Instances /\ IsFiniteSet(Legacy)
    /\ \A i, j \in Legacy : RepoOf[i] = RepoOf[j] => i = j
ASSUME IdentitiesAreNamed == {"none", "unknown"} \cap Apps = {}
ASSUME Bounds == {AttemptBound, ListingBound, MaxPerDay, MaxPerRun} \subseteq Nat \ {0}

VARIABLES
    approved,    \* instances whose proposal card was approved
    closed,      \* runs whose workflow is closed
    registered,  \* the App registered for each repository
    issues,      \* GitHub: the issues Apps created; by and try are who sent it
    wire,        \* GitHub: the create requests sent, and what became of each
    intent,      \* follow_up_filing_intents with their attempts and issue rows
    elapsed,     \* waits of each intent that are over
    outside,     \* issues created before each intent's candidate window
    notices,     \* system_health items the filer raised
    at,          \* where the pass is: its step and what that filing has read
    todo,        \* instances the pass has still to drive
    fails,       \* listingFailures
    failing,     \* instances with an entry in failingSince
    holding,     \* transient notices this pass saw still holding
    faults

world == <<approved, closed, registered>>
github == <<issues, wire>>
ledger == <<intent, elapsed, outside>>
pass == <<at, todo, fails, failing, holding>>
vars == <<approved, closed, registered, issues, wire, intent, elapsed,
          outside, notices, at, todo, fails, failing, holding, faults>>

-----------------------------------------------------------------------------
(* The ledger: domain.FollowUpFilingIntent and its transitions.            *)

Identities == Apps \cup {"none", "unknown"}
Outcomes == {"none", "ledgered", "refused", "ambiguous"}

\* "sent" is a dispatched attempt without a response; "none" no attempt at all.
Classes == {"none", "sent", "success", "definite", "transient", "unproven"}

\* bot is "none" before the pre-dispatch set is recorded, "unknown" on a set
\* recorded before identities were.  Every attempt but the last was rejected
\* transiently, so tries and the last response stand for them all.
Intent == [open : BOOLEAN, seen : SUBSET Nat, bot : Identities, tries : Nat,
           last : Classes, outcome : Outcomes, issue : Nat]
NoIntent == [open |-> FALSE, seen |-> {}, bot |-> "none", tries |-> 0,
             last |-> "none", outcome |-> "none", issue |-> 0]

Terminal(i) == intent[i].outcome # "none"
Outstanding(i) == intent[i].open /\ ~Terminal(i)

\* FollowUpFilingAttempt.class: an attempt without a response is unproven.
Class_Forgets(i) == \* fault: no recorded response reads as not sent
    IF intent[i].last = "sent" THEN "transient" ELSE intent[i].last
Class(i) == IF intent[i].last = "sent" THEN "unproven" ELSE intent[i].last

\* rejectedBeforeCreation
Rejected(i) == Class(i) \in {"definite", "transient"}

\* outcomeSupported for a refusal, and for the outcomes that need an attempt.
MayRefuse(i) == ~Terminal(i) /\ (intent[i].tries = 0 \/ Rejected(i))
MayConclude(i) == ~Terminal(i) /\ intent[i].tries > 0

\* StartAttempt's evidence rule.
MayStart(i) ==
    /\ ~Terminal(i)
    /\ intent[i].bot \in Apps
    /\ intent[i].tries = 0 \/ Class(i) = "transient"

MayHaveCreated(i) ==
    \/ intent[i].outcome \in {"ledgered", "ambiguous"}
    \/ intent[i].tries > 0 /\ ~Rejected(i)

\* OutstandingFollowUpFilingIntent: opening is refused while another holds the
\* repository.
Busy_Unsent(i) == \* fault: only a dispatched filing holds its repository
    \E j \in Instances \ {i} :
        RepoOf[j] = RepoOf[i] /\ Outstanding(j) /\ intent[j].tries > 0
Busy(i) == \E j \in Instances \ {i} : RepoOf[j] = RepoOf[i] /\ Outstanding(j)

\* FollowUpFilingRepositoryAmbiguous
RepositoryAmbiguous_Never(r) == FALSE \* fault: an ambiguous filing is forgotten
RepositoryAmbiguous(r) ==
    \E i \in Instances : RepoOf[i] = r /\ intent[i].outcome = "ambiguous"

\* FiledFollowUpIssue: the issue is in the ledger.
FiledIssue(r, n) ==
    \E i \in Instances :
        RepoOf[i] = r /\ intent[i].outcome = "ledgered" /\ intent[i].issue = n

\* putHealthItem: a closed workflow gets no notice, a repeat changes nothing.
Transient == {"waiting", "stalled"}
Raised(i, code) ==
    IF RunOf[i] \in closed THEN notices ELSE notices \cup {<<i, code>>}

-----------------------------------------------------------------------------
(* GitHub.                                                                 *)

Fates == {"sent", "committed", "definite", "transient"}
Request == [i : Instances, try : Nat, as : Apps, fate : Fates]
Issue == [repo : Repos, n : Nat, author : Apps, by : Nat, try : Nat]

IssuesOf(r) == {x \in issues : x.repo = r}
Numbers(xs) == {x.n : x \in xs}

\* The create executes: now, late, or long after the filer gave up on it.  A
\* daemon clock far enough ahead puts the issue before the intent's window.
Commit(q) ==
    /\ q.fate = "sent"
    /\ LET r == RepoOf[q.i]
           n == Cardinality(IssuesOf(r)) + 1
       IN  /\ issues' = issues \cup
                {[repo |-> r, n |-> n, author |-> q.as, by |-> q.i, try |-> q.try]}
           /\ \E ahead \in BOOLEAN :
                outside' = [outside EXCEPT ![q.i] = IF ahead THEN @ \cup {n} ELSE @]
    /\ wire' = (wire \ {q}) \cup {[q EXCEPT !.fate = "committed"]}
    /\ UNCHANGED <<world, intent, elapsed, notices, pass, faults>>

\* The create is refused before anything exists.
Reject(q, class) ==
    /\ q.fate = "sent"
    /\ wire' = (wire \ {q}) \cup {[q EXCEPT !.fate = class]}
    /\ UNCHANGED <<world, issues, ledger, notices, pass, faults>>

\* classifyFollowUpFilingCreate: what the client may conclude from each fate.
\* A transport error, a timeout, a 5xx or an undecodable 201 is unproven.
Observable_Timeout(fate) == \* fault: a timeout reads as a definite rejection
    CASE fate = "sent" -> {"definite"}
      [] fate = "committed" -> {"success", "unproven"}
      [] OTHER -> {fate, "unproven"}
Observable(fate) ==
    CASE fate = "sent" -> {"unproven"}
      [] fate = "committed" -> {"success", "unproven"}
      [] OTHER -> {fate, "unproven"}

\* admits, for an issue of the target repository.
Admits_AnyTime(x, bot, i) == \* fault: the creation window is not checked
    x.author = bot /\ x.n \notin intent[i].seen
Admits(x, bot, i) ==
    /\ x.author = bot
    /\ x.n \notin outside[i]
    /\ x.n \notin intent[i].seen

\* listBotIssues: GitHub filters by last update, so of the issues older than
\* the window any may be listed.
Listing(r, bot, i) ==
    LET own == {x \in IssuesOf(r) : x.author = bot}
    IN  {own \ older : older \in SUBSET {x \in own : x.n \in outside[i]}}

-----------------------------------------------------------------------------
(* A pass.  at holds the step of the filing being driven and what its       *)
(* earlier steps read from GitHub; all of it is lost with the process.      *)

Steps == {"down", "idle", "drive", "retire", "open", "check", "list", "record",
          "build", "confirm", "mark", "send", "await", "settle", "target",
          "candidates", "adopt", "refuse"}
NoDrive == [step |-> "drive", i |-> 0, bot |-> "none", as |-> "none", found |-> {}]

Driving(i, step) == at.step = step /\ at.i = i

\* The next step of the same filing, keeping what it has read.
Then(step) == at' = [at EXCEPT !.step = step] /\ UNCHANGED <<todo, failing>>

\* drive returned nil: the next filing's turn.
Finished(i) ==
    /\ at' = NoDrive
    /\ todo' = todo \ {i}
    /\ failing' = failing \ {i}

\* drive returned an error: noteStall, whose notice waits until the filing has
\* failed for followUpFilingStallNoticeAfter.
Failed(i) ==
    /\ at' = NoDrive
    /\ todo' = todo \ {i}
    /\ holding' = holding \cup {<<i, "stalled">>}
    /\ failing' = failing \cup {i}
    /\ \/ UNCHANGED notices
       \/ i \in failing /\ notices' = Raised(i, "stalled")

\* An exchange with GitHub that fails, under the bound on faults.
ExchangeFails(i) ==
    /\ faults < MaxFaults
    /\ faults' = faults + 1
    /\ Failed(i)
    /\ UNCHANGED <<world, github, ledger, fails>>

\* The part of driveWorkflow that continues from the intent's durable state.
Continue(i) ==
    LET step ==
        CASE Terminal(i) -> "done"
          [] ~Terminal(i) /\ intent[i].tries = 0 -> "check"
          [] ~Terminal(i) /\ Class(i) \in {"success", "unproven"} -> "settle"
          [] ~Terminal(i) /\ Class(i) = "definite" -> "refuse"
          [] ~Terminal(i) /\ Class(i) = "transient" ->
                IF intent[i].tries >= AttemptBound THEN "refuse"
                ELSE IF "wait" \in elapsed[i] THEN "check" ELSE "done"
    IN  IF step = "done" THEN Finished(i)
        ELSE /\ at' = [NoDrive EXCEPT !.step = step, !.i = i]
             /\ UNCHANGED <<todo, failing>>

\* Run: the start sweep, a tick or a wake.  discover lists what is approved.
BeginPass ==
    /\ at.step = "idle"
    /\ at' = NoDrive
    /\ todo' = approved
    /\ holding' = {}
    /\ UNCHANGED <<world, github, ledger, notices, fails, failing, faults>>

\* driveWorkflow reads the workflow's fence, then the filing's turn begins.
StartDrive(i) ==
    /\ at.step = "drive"
    /\ i \in todo
    /\ \A j \in todo : i <= j
    /\ IF RunOf[i] \in closed
       THEN IF intent[i].open
            THEN at' = [at EXCEPT !.step = "retire", !.i = i] /\ UNCHANGED <<todo, failing>>
            ELSE Finished(i)
       ELSE IF intent[i].open
       THEN Continue(i)
       ELSE at' = [at EXCEPT !.step = "open", !.i = i] /\ UNCHANGED <<todo, failing>>
    /\ UNCHANGED <<world, github, ledger, notices, fails, holding, faults>>

\* retireClosed: a closed workflow releases its reservation when nothing it
\* sent can have been executed; otherwise the filing goes on to settle.
RetireClosed_Skipped(i) == \* fault: a closed workflow is left alone
    /\ Driving(i, "retire")
    /\ Finished(i)
    /\ UNCHANGED <<world, github, ledger, notices, fails, holding, faults>>
RetireClosed(i) ==
    /\ Driving(i, "retire")
    /\ IF MayRefuse(i)
       THEN intent' = [intent EXCEPT ![i].outcome = "refused"] /\ Finished(i)
       ELSE Continue(i) /\ UNCHANGED intent
    /\ UNCHANGED <<world, github, elapsed, outside, notices, fails, holding, faults>>

\* countFilings over the repository in the last 24 hours, and over the run.
RecentFilings(i) ==
    {j \in Instances \ {i} :
        RepoOf[j] = RepoOf[i] /\ MayHaveCreated(j) /\ "day" \notin elapsed[j]}
RunFilings(i) == {j \in Instances \ {i} : RunOf[j] = RunOf[i] /\ MayHaveCreated(j)}
DayCapped_ByOne(i) == Cardinality(RecentFilings(i)) > MaxPerDay \* fault: off by one
DayCapped(i) == Cardinality(RecentFilings(i)) >= MaxPerDay
RunCapped_ByOne(i) == Cardinality(RunFilings(i)) > MaxPerRun \* fault: off by one
RunCapped(i) == Cardinality(RunFilings(i)) >= MaxPerRun

\* open: hold the filing at the cap, give way to the one holding the
\* repository, or open the intent.  The ledger checks the fence again; its
\* refusal is an error, which holds a waiting notice.
OpenIntent(i) ==
    /\ Driving(i, "open")
    /\ IF DayCapped(i)
       THEN /\ holding' = holding \cup {<<i, "waiting">>}
            /\ notices' = Raised(i, "waiting")
            /\ Finished(i)
            /\ UNCHANGED <<intent, outside>>
       ELSE /\ IF RunOf[i] \in closed \/ Busy(i)
               THEN Finished(i) /\ UNCHANGED <<intent, outside>>
               ELSE /\ intent' = [intent EXCEPT ![i] = [NoIntent EXCEPT !.open = TRUE]]
                    /\ \E older \in SUBSET Numbers(IssuesOf(RepoOf[i])) :
                        /\ \A m \in Numbers(IssuesOf(RepoOf[i])) \ older : \A n \in older : n < m
                        /\ outside' = [outside EXCEPT ![i] = older]
                    /\ Then("check")
            /\ holding' = IF RunOf[i] \in closed THEN holding \cup {<<i, "waiting">>} ELSE holding
            /\ UNCHANGED notices
    /\ UNCHANGED <<world, github, elapsed, fails, faults>>

\* dispatch's preconditions and resolveTarget.  The live target may be gone,
\* out of reach or misconfigured at any time.
Precheck(i) ==
    /\ Driving(i, "check")
    /\ \/ /\ Then("refuse")
          /\ UNCHANGED <<github, ledger, notices, fails, holding, faults>>
       \/ /\ intent[i].bot # "unknown"
          /\ ~RunCapped(i)
          /\ \/ /\ at' = [at EXCEPT !.bot = registered[RepoOf[i]],
                              !.step = IF intent[i].bot = "none" THEN "list" ELSE "build"]
                /\ UNCHANGED <<github, ledger, notices, fails, todo, failing, holding, faults>>
             \/ ExchangeFails(i)
    /\ UNCHANGED world

\* listBotIssues before the first dispatch.
ListBefore(i) ==
    /\ Driving(i, "list")
    /\ \/ /\ \E listed \in Listing(RepoOf[i], at.bot, i) :
                at' = [at EXCEPT !.step = "record", !.found = Numbers(listed)]
          /\ UNCHANGED <<world, github, ledger, notices, fails, todo, failing, holding, faults>>
       \/ ExchangeFails(i)

\* RecordFollowUpFilingPreDispatch
RecordPreDispatch(i) ==
    /\ Driving(i, "record")
    /\ intent' = [intent EXCEPT ![i].seen = at.found, ![i].bot = at.bot]
    /\ Then("build")
    /\ UNCHANGED <<world, github, elapsed, outside, notices, fails, holding, faults>>

\* newCreateIssueRequest: the token is minted for the App of this moment.
BuildRequest(i) ==
    /\ Driving(i, "build")
    /\ \/ /\ at' = [at EXCEPT !.step = "confirm", !.as = registered[RepoOf[i]]]
          /\ UNCHANGED <<world, github, ledger, notices, fails, todo, failing, holding, faults>>
       \/ ExchangeFails(i)

\* The identity is resolved again and held to the one of the set.
ConfirmIdentity(i) ==
    /\ Driving(i, "confirm")
    /\ \/ /\ at' = [at EXCEPT !.bot = registered[RepoOf[i]],
                !.step = IF registered[RepoOf[i]] = intent[i].bot THEN "mark" ELSE "refuse"]
          /\ UNCHANGED <<world, github, ledger, notices, fails, todo, failing, holding, faults>>
       \/ ExchangeFails(i)

\* StartFollowUpFilingAttempt: the dispatch-started marker, behind the fence.
Fenced_Not(i) == FALSE \* fault: the marker ignores a closed workflow
Fenced(i) == RunOf[i] \in closed
StartAttempt(i) ==
    /\ Driving(i, "mark")
    /\ IF Fenced(i)
       THEN Finished(i) /\ UNCHANGED <<intent, elapsed, holding, notices>>
       ELSE IF ~MayStart(i)
       THEN Failed(i) /\ UNCHANGED <<intent, elapsed>>
       ELSE /\ intent' = [intent EXCEPT ![i].tries = @ + 1, ![i].last = "sent"]
            /\ elapsed' = [elapsed EXCEPT ![i] = {}]
            /\ Then("send")
            /\ UNCHANGED <<holding, notices>>
    /\ UNCHANGED <<world, github, outside, fails, faults>>

Send(i) ==
    /\ Driving(i, "send")
    /\ wire' = wire \cup
          {[i |-> i, try |-> intent[i].tries, as |-> at.as, fate |-> "sent"]}
    /\ Then("await")
    /\ UNCHANGED <<world, issues, ledger, notices, fails, holding, faults>>

\* The end of dispatch: classify what came back and record it in one
\* transaction.  A returned issue that would not pass as a candidate is
\* unproven; one already in the ledger fails the transaction.
Answer(i) ==
    /\ Driving(i, "await")
    /\ \E q \in wire : \E seen \in Observable(q.fate) :
        LET made == {x \in issues : x.by = i /\ x.try = q.try}
            issue == CHOOSE x \in made : TRUE
            class == IF seen = "success" /\ ~Admits(issue, at.bot, i)
                     THEN "unproven" ELSE seen
            refused == \/ class = "definite"
                       \/ class = "transient" /\ intent[i].tries >= AttemptBound
        IN  /\ q.i = i /\ q.try = intent[i].tries
            /\ IF class = "success" /\ FiledIssue(RepoOf[i], issue.n)
               THEN Failed(i) /\ UNCHANGED <<intent, elapsed>>
               ELSE /\ intent' = [intent EXCEPT ![i].last = class,
                          ![i].outcome = IF class = "success" THEN "ledgered"
                                         ELSE IF refused THEN "refused" ELSE "none",
                          ![i].issue = IF class = "success" THEN issue.n ELSE 0]
                    /\ elapsed' = [elapsed EXCEPT ![i] = @ \ {"wait"}]
                    /\ notices' = IF refused THEN Raised(i, "refused") ELSE notices
                    /\ Finished(i)
                    /\ UNCHANGED holding
    /\ UNCHANGED <<world, github, outside, fails, faults>>

\* refuse: the terminal refusal and its notice in one transaction.
Refuse(i) ==
    /\ Driving(i, "refuse")
    /\ IF MayRefuse(i)
       THEN /\ intent' = [intent EXCEPT ![i].outcome = "refused"]
            /\ notices' = Raised(i, "refused")
            /\ Finished(i)
            /\ UNCHANGED holding
       ELSE Failed(i) /\ UNCHANGED intent
    /\ UNCHANGED <<world, github, elapsed, outside, fails, faults>>

-----------------------------------------------------------------------------
(* settle: resolve an unproven create, never sending another.              *)

\* recordAmbiguous: the outcome and its notice in one transaction.
Ambiguous_Silent(i) == \* fault: the notice is left to a later step
    /\ MayConclude(i)
    /\ intent' = [intent EXCEPT ![i].outcome = "ambiguous"]
    /\ Finished(i)
    /\ UNCHANGED notices
Ambiguous(i) ==
    /\ MayConclude(i)
    /\ intent' = [intent EXCEPT ![i].outcome = "ambiguous"]
    /\ notices' = Raised(i, "ambiguous")
    /\ Finished(i)

\* What the ledger alone decides, and the wait for the settle interval.
Settle(i) ==
    /\ Driving(i, "settle")
    /\ IF intent[i].bot = "unknown" \/ RepositoryAmbiguous(RepoOf[i])
       THEN Ambiguous(i)
       ELSE /\ IF "wait" \in elapsed[i] THEN Then("target") ELSE Finished(i)
            /\ UNCHANGED <<intent, notices>>
    /\ UNCHANGED <<world, github, elapsed, outside, fails, holding, faults>>

\* A target or a listing that does not resolve, up to ListingBound times in
\* the life of this process.
ListingFails(i) ==
    /\ faults < MaxFaults
    /\ faults' = faults + 1
    /\ IF fails[i] + 1 < ListingBound
       THEN /\ fails' = [fails EXCEPT ![i] = @ + 1]
            /\ Failed(i)
            /\ UNCHANGED intent
       ELSE /\ fails' = [fails EXCEPT ![i] = 0]
            /\ Ambiguous(i)
            /\ UNCHANGED holding
    /\ UNCHANGED <<world, github, elapsed, outside>>

\* The identity is held to the dispatching one before any listing.
ResolveTarget(i) ==
    /\ Driving(i, "target")
    /\ \/ /\ IF registered[RepoOf[i]] = intent[i].bot
             THEN /\ at' = [at EXCEPT !.bot = registered[RepoOf[i]], !.step = "candidates"]
                  /\ UNCHANGED <<intent, notices, fails, todo, failing>>
             ELSE fails' = [fails EXCEPT ![i] = 0] /\ Ambiguous(i)
          /\ UNCHANGED <<world, github, elapsed, outside, holding, faults>>
       \/ ListingFails(i)

\* candidates: the admitted issues no other filing has ledgered.
ListCandidates(i) ==
    /\ Driving(i, "candidates")
    /\ \/ /\ \E listed \in Listing(RepoOf[i], at.bot, i) :
                at' = [at EXCEPT !.step = "adopt",
                    !.found = {x.n : x \in {y \in listed :
                        Admits(y, at.bot, i) /\ ~FiledIssue(RepoOf[i], y.n)}}]
          /\ fails' = [fails EXCEPT ![i] = 0]
          /\ UNCHANGED <<world, github, ledger, notices, todo, failing, holding, faults>>
       \/ ListingFails(i)

Adopted(i, n) ==
    intent' = [intent EXCEPT ![i].outcome = "ledgered", ![i].issue = n]

\* AdoptFollowUpFilingCandidate for the single candidate; residual ambiguity
\* when there is none, there are several, or the ledger refuses it.
Adopt(i) ==
    /\ Driving(i, "adopt")
    /\ IF Cardinality(at.found) = 1
       THEN LET n == CHOOSE n \in at.found : TRUE IN
            IF /\ MayConclude(i)
               /\ ~RepositoryAmbiguous(RepoOf[i])
               /\ n \notin intent[i].seen
               /\ ~FiledIssue(RepoOf[i], n)
            THEN /\ Adopted(i, n)
                 /\ Finished(i)
                 /\ UNCHANGED notices
            ELSE Ambiguous(i)
       ELSE Ambiguous(i)
    /\ UNCHANGED <<world, github, elapsed, outside, fails, holding, faults>>

\* resolveClearedNotices: a transient notice whose condition this pass did not
\* see is resolved, except behind a closed workflow.
Cleared_None == {} \* fault: nothing resolves a transient notice
Cleared ==
    {x \in notices : x[2] \in Transient /\ x \notin holding /\ RunOf[x[1]] \notin closed}
EndPass ==
    /\ at.step = "drive"
    /\ todo = {}
    /\ notices' = notices \ Cleared
    /\ at' = [NoDrive EXCEPT !.step = "idle"]
    /\ UNCHANGED <<world, github, ledger, todo, fails, failing, holding, faults>>

-----------------------------------------------------------------------------
(* The process, the operators and the passage of time.                      *)

Start ==
    /\ at.step = "down"
    /\ at' = [NoDrive EXCEPT !.step = "idle"]
    /\ UNCHANGED <<world, github, ledger, notices, todo, fails, failing, holding, faults>>

Crash ==
    /\ at.step # "down"
    /\ faults < MaxFaults
    /\ faults' = faults + 1
    /\ at' = [NoDrive EXCEPT !.step = "down"]
    /\ todo' = {} /\ failing' = {} /\ holding' = {}
    /\ fails' = [i \in Instances |-> 0]
    /\ UNCHANGED <<world, github, ledger, notices>>

Approve(i) ==
    /\ i \notin approved
    /\ approved' = approved \cup {i}
    /\ UNCHANGED <<closed, registered, github, ledger, notices, pass, faults>>

\* Stop, or any other closure of the task's workflow; it is permanent.
CloseWorkflow(run) ==
    /\ run \notin closed
    /\ closed' = closed \cup {run}
    /\ UNCHANGED <<approved, registered, github, ledger, notices, pass, faults>>

Register(r, app) ==
    /\ registered[r] # app
    /\ faults < MaxFaults
    /\ faults' = faults + 1
    /\ registered' = [registered EXCEPT ![r] = app]
    /\ UNCHANGED <<approved, closed, github, ledger, notices, pass>>

\* Since the last response or dispatch, the settle interval or the backoff
\* ("wait") or 24 hours ("day") have gone by.
Elapse(i, wait) ==
    /\ intent[i].tries > 0
    /\ wait \notin elapsed[i]
    /\ elapsed' = [elapsed EXCEPT ![i] = @ \cup {wait}]
    /\ UNCHANGED <<world, github, intent, outside, notices, pass, faults>>

-----------------------------------------------------------------------------
LegacyIntent(last) ==
    [NoIntent EXCEPT !.open = TRUE, !.bot = "unknown", !.last = last,
                     !.tries = IF last = "none" THEN 0 ELSE 1]

Init ==
    /\ approved = Legacy
    /\ closed = {}
    /\ registered \in {[r \in Repos |-> a] : a \in Apps}
    /\ issues = {[repo |-> r, n |-> 1, author |-> registered[r], by |-> 0, try |-> 0] : r \in Repos}
    /\ \E last \in [Legacy -> {"none", "sent", "transient", "unproven"}] :
        /\ intent = [i \in Instances |->
                        IF i \in Legacy THEN LegacyIntent(last[i]) ELSE NoIntent]
        /\ wire = {[i |-> i, try |-> 1, as |-> registered[RepoOf[i]], fate |-> "sent"] :
                        i \in {j \in Legacy : last[j] \in {"sent", "unproven"}}}
    /\ elapsed = [i \in Instances |-> {}]
    /\ outside = [i \in Instances |-> {}]
    /\ notices = {}
    /\ at = [NoDrive EXCEPT !.step = "down"]
    /\ todo = {} /\ failing = {} /\ holding = {}
    /\ fails = [i \in Instances |-> 0]
    /\ faults = 0

Dispatch(i) ==
    \/ Precheck(i) \/ ListBefore(i) \/ RecordPreDispatch(i) \/ BuildRequest(i)
    \/ ConfirmIdentity(i) \/ StartAttempt(i) \/ Send(i) \/ Answer(i)

Settling(i) == Settle(i) \/ ResolveTarget(i) \/ ListCandidates(i) \/ Adopt(i)

Drive(i) ==
    \/ StartDrive(i) \/ RetireClosed(i) \/ OpenIntent(i) \/ Refuse(i)
    \/ Dispatch(i) \/ Settling(i)

Filer == Start \/ BeginPass \/ EndPass \/ \E i \in Instances : Drive(i)

GitHub ==
    \E q \in wire : Commit(q) \/ \E class \in {"definite", "transient"} : Reject(q, class)

TimePasses == \E i \in Instances, wait \in {"wait", "day"} : Elapse(i, wait)

Environment ==
    \/ \E i \in Instances : Approve(i)
    \/ \E run \in Runs : CloseWorkflow(run)
    \/ \E r \in Repos, app \in Apps : Register(r, app)
    \/ TimePasses

Next == Filer \/ Crash \/ GitHub \/ Environment

Spec == Init /\ [][Next]_vars

(***************************************************************************)
(* Fairness.  The goroutine runs, its HTTP client times out, the ticker    *)
(* keeps sweeping, the operator restarts a daemon that is down, and time   *)
(* passes.  GitHub owes nothing: it may never execute a create.            *)
(***************************************************************************)
Fairness ==
    /\ WF_vars(Filer)
    /\ WF_vars(TimePasses)

FairSpec == Spec /\ Fairness
=============================================================================
