----------------------- MODULE FollowUpFilingProperties -----------------------
(***************************************************************************)
(* What must hold of FollowUpFiling.                                       *)
(***************************************************************************)
EXTENDS FollowUpFiling

IssuesBy(i) == {x \in issues : x.by = i}

Position == [step : Steps, i : Nat, bot : Apps \cup {"none"},
             as : Apps \cup {"none"}, found : SUBSET Nat]
Codes == {"refused", "ambiguous"} \cup Transient

\* Every row, request and process-local value has its declared shape, and an
\* intent the shape the ledger's validation accepts: attempts only behind a
\* pre-dispatch set, a response only to an attempt, an issue exactly when filed.
TypeOK ==
    /\ approved \subseteq Instances
    /\ closed \subseteq Runs
    /\ registered \in [Repos -> Apps]
    /\ issues \subseteq Issue
    /\ wire \subseteq Request
    /\ intent \in [Instances -> Intent]
    /\ \A i \in Instances :
        /\ intent[i].tries = 0 <=> intent[i].last = "none"
        /\ intent[i].tries > 0 => intent[i].open /\ intent[i].bot # "none"
        /\ intent[i].outcome = "ledgered" <=> intent[i].issue # 0
    /\ elapsed \in [Instances -> SUBSET {"wait", "day"}]
    /\ outside \in [Instances -> SUBSET Nat]
    /\ notices \subseteq Instances \X Codes
    /\ at \in Position
    /\ todo \subseteq Instances
    /\ fails \in [Instances -> Nat]
    /\ failing \subseteq Instances
    /\ holding \subseteq Instances \X Transient
    /\ faults \in Nat

\* An issue number in the ledger is the issue this very filing created, whatever
\* else carries the App's name in the repository.
LedgerNamesOwnIssue ==
    \A i \in Instances : intent[i].outcome = "ledgered" =>
        \E x \in IssuesBy(i) : x.repo = RepoOf[i] /\ x.n = intent[i].issue

\* No filing creates two issues, through any number of retries, crashes and late
\* executions.
AtMostOneIssue ==
    \A i \in Instances : \A x, y \in IssuesBy(i) : x = y

\* A filing recorded as refused created nothing, and nothing it sent can still
\* create: its notice tells the operator so.
RefusedCreatedNothing ==
    \A i \in Instances : intent[i].outcome = "refused" =>
        /\ IssuesBy(i) = {}
        /\ \A q \in wire : q.i = i => q.fate \notin {"sent", "committed"}

\* One filing at a time holds a repository, so a stray issue has one possible
\* origin.
OneOutstanding ==
    \A i, j \in Instances :
        (RepoOf[i] = RepoOf[j] /\ Outstanding(i) /\ Outstanding(j)) => i = j

\* The resolved policy's caps bound what may exist on GitHub: per run for good,
\* per repository within a day of the last create each filing sent.
CapsHold ==
    /\ \A run \in Runs :
        LET filings == {i \in Instances : RunOf[i] = run /\ MayHaveCreated(i)}
        IN  filings \subseteq Legacy \/ Cardinality(filings) <= MaxPerRun
    /\ \A r \in Repos :
        Cardinality({i \in Instances :
            RepoOf[i] = r /\ MayHaveCreated(i) /\ "day" \notin elapsed[i]}) <= MaxPerDay

\* A refusal or an ambiguity is never without the notice that explains it,
\* unless the workflow was closed and wants none.
EndIsExplained ==
    \A i \in Instances : \A o \in {"refused", "ambiguous"} :
        intent[i].outcome = o => <<i, o>> \in notices \/ RunOf[i] \in closed

\* Once a filing of the repository is ambiguous, only a confirmed create
\* response ledgers an issue there: a late issue is never adopted by another.
NoAdoptionAfterAmbiguity ==
    [][\A i \in Instances :
         (/\ intent'[i].outcome = "ledgered" /\ intent[i].outcome = "none"
          /\ \E j \in Instances : RepoOf[j] = RepoOf[i] /\ intent[j].outcome = "ambiguous")
            => intent'[i].last = "success"]_vars

\* No create is claimed for a run whose workflow is closed.
ClosedClaimsNothing ==
    [][\A i \in Instances :
         RunOf[i] \in closed => intent'[i].tries = intent[i].tries]_vars

\* The filer implements the promise of FilingContract.
Contract == INSTANCE FilingContract WITH
    made <- {i \in Instances : IssuesBy(i) # {}},
    outcome <- [i \in Instances |-> intent[i].outcome]

\* Every step of the filer and of GitHub is one step of the promise, or none.
ImplementsContract == Contract!Spec

\* Every approved filing ends: filed, refused or ambiguous, or unopened behind a
\* closed workflow.  None waits forever on the one that holds its repository.
FilingEnds ==
    \A i \in Instances :
        i \in approved ~> (Terminal(i) \/ (RunOf[i] \in closed /\ ~intent[i].open))

\* A waiting or stalled notice goes away once its filing has ended.
NoticesClear ==
    \A i \in Instances, code \in Transient :
        (Terminal(i) /\ <<i, code>> \in notices)
            ~> (<<i, code>> \notin notices \/ RunOf[i] \in closed)
-----------------------------------------------------------------------------
(* The inductive invariant behind the safety properties and the refinement. *)

\* An intent that is not open has no past, one that is refused nothing that
\* could still be executed.
IntentShape ==
    \A i \in Instances :
        /\ ~intent[i].open => intent[i] = NoIntent
        /\ intent[i].outcome = "refused" => intent[i].tries = 0 \/ Rejected(i)

\* A request belongs to one attempt; whatever precedes the last attempt, and the
\* last one when its rejection is recorded, GitHub did reject.
RequestShape ==
    /\ \A q \in wire :
        /\ 0 < q.try /\ q.try <= intent[q.i].tries
        /\ q.try < intent[q.i].tries \/ Rejected(q.i) => q.fate \in {"definite", "transient"}
    /\ \A p, q \in wire : p.i = q.i /\ p.try = q.try => p = q

\* GitHub numbers the issues of a repository from 1.
Numbering ==
    /\ \A r \in Repos : IsFiniteSet(IssuesOf(r))
    /\ \A x \in issues : 0 < x.n /\ x.n <= Cardinality(IssuesOf(x.repo))
    /\ \A x, y \in issues : x.repo = y.repo /\ x.n = y.n => x = y

\* An issue of the App is as old as the program or comes of a committed request,
\* and each committed request has its one issue.
IssueShape ==
    /\ \A x \in issues : x.by # 0 =>
        /\ x.by \in Instances /\ x.repo = RepoOf[x.by]
        /\ \E q \in wire : q.i = x.by /\ q.try = x.try /\ q.fate = "committed"
    /\ \A x, y \in issues : x.by = y.by /\ x.by # 0 /\ x.try = y.try => x = y
    /\ \A q \in wire : q.fate = "committed" =>
        \E x \in issues : x.by = q.i /\ x.try = q.try

\* Of the older issues of a repository, i knows those of bot: they were found
\* before dispatch or precede the window.
Knows(i, bot, found) ==
    \A x \in IssuesOf(RepoOf[i]) :
        x.by = 0 /\ x.author = bot => x.n \in found \cup outside[i]

SeenShape ==
    \A i \in Instances :
        intent[i].bot \in Apps => Knows(i, intent[i].bot, intent[i].seen)

\* What the filing being driven has established for its next step.
Driven == at.step \notin {"down", "idle", "drive"}
PassShape ==
    /\ Driven => at.i \in Instances
    /\ at.step = "open" => ~intent[at.i].open
    /\ at.step = "retire" => intent[at.i].open
    /\ Driven /\ at.step \notin {"open", "retire"} => Outstanding(at.i)
    /\ at.step \in {"list", "record"} => intent[at.i].bot = "none" /\ at.bot \in Apps
    /\ at.step = "record" => Knows(at.i, at.bot, at.found)
    /\ at.step \in {"build", "confirm", "mark", "send", "await"} => intent[at.i].bot \in Apps
    /\ at.step \in {"confirm", "mark", "send", "await"} => at.as \in Apps
    /\ at.step \in {"send", "await"} => intent[at.i].last = "sent"
    /\ at.step = "send" => \A q \in wire : q.i = at.i => q.try # intent[at.i].tries
    /\ at.step \in {"candidates", "adopt"} => intent[at.i].bot \in Apps
    /\ at.step = "candidates" => at.bot = intent[at.i].bot
    /\ at.step = "adopt" => \A n \in at.found :
        \E x \in IssuesOf(RepoOf[at.i]) :
            x.n = n /\ x.author = intent[at.i].bot /\ n \notin outside[at.i]

LedgerInv ==
    /\ IntentShape /\ RequestShape /\ Numbering /\ IssueShape /\ SeenShape
    /\ OneOutstanding /\ LedgerNamesOwnIssue

IInv == TypeOK /\ LedgerInv /\ PassShape

-----------------------------------------------------------------------------
(* Beyond it, what the notices and the caps rest on.                         *)

\* A filing is retired without a notice only behind a closed workflow.
EndInv ==
    /\ EndIsExplained
    /\ at.step = "retire" => RunOf[at.i] \in closed

\* The filings that count against the caps, and among them those of a
\* repository within the day.
Created == {i \in Instances : MayHaveCreated(i)}
OfRun(run) == {i \in Instances : RunOf[i] = run /\ MayHaveCreated(i)}
OfDay(r) == {i \in Instances : RepoOf[i] = r /\ MayHaveCreated(i) /\ "day" \notin elapsed[i]}

\* A filing that still may create one was under the day's cap when it opened, and
\* no other of its repository has created since; the run's cap was looked at in
\* this very turn.  A legacy intent never sends again.
CapInv ==
    /\ \A i \in Legacy : intent[i].bot = "unknown"
    /\ IsFiniteSet(Created)
    /\ at.step \in {"list", "record", "build", "confirm", "mark"} => ~RunCapped(at.i)
    /\ at.step \in {"settle", "target", "candidates", "adopt"} => MayHaveCreated(at.i)
    /\ \A i \in Instances : Outstanding(i) => ~DayCapped(i)
    /\ CapsHold
=============================================================================
