------------------------ MODULE FollowUpFilingProofs ------------------------
(***************************************************************************)
(* FollowUpFiling keeps its ledger true to GitHub, ends nothing silently,   *)
(* keeps the policy's caps and implements FilingContract, for any sets of  *)
(* instances, repositories, runs and Apps and any bounds.                  *)
(***************************************************************************)
EXTENDS FollowUpFilingProperties, FiniteSetTheorems, TLAPS

USE DEF Driving

\* The constants' assumptions in the form the proofs use.
LEMMA ConstantFacts ==
    /\ Instances \subseteq Nat /\ 0 \notin Instances
    /\ "none" \notin Apps /\ "unknown" \notin Apps
    /\ \A i \in Instances : RepoOf[i] \in Repos /\ RunOf[i] \in Runs
  BY InstancesAreNumbered, IdentitiesAreNamed, Origins

-----------------------------------------------------------------------------
(* Types.                                                                  *)

\* The type of one intent, with what the ledger's validation asks of it.
GoodIntent(e) ==
    /\ e \in Intent
    /\ e.tries = 0 <=> e.last = "none"
    /\ e.tries > 0 => e.open /\ e.bot # "none"
    /\ e.outcome = "ledgered" <=> e.issue # 0

\* An intent just opened has nothing else.
Opened == [NoIntent EXCEPT !.open = TRUE]
LEMMA OpenedShape ==
    /\ NoIntent \in Intent /\ ~NoIntent.open
    /\ Opened \in Intent /\ Opened.open
    /\ \A e \in {NoIntent, Opened} :
        /\ e.seen = {} /\ e.bot = "none" /\ e.tries = 0
        /\ e.last = "none" /\ e.outcome = "none" /\ e.issue = 0
  <1>1. /\ NoIntent \in Intent /\ ~NoIntent.open
        /\ NoIntent.seen = {} /\ NoIntent.bot = "none" /\ NoIntent.tries = 0
        /\ NoIntent.last = "none" /\ NoIntent.outcome = "none" /\ NoIntent.issue = 0
    BY DEF NoIntent, Intent, Identities, Classes, Outcomes
  <1>2. Opened \in Intent /\ Opened.open
    BY <1>1 DEF Opened, Intent
  <1>3. /\ Opened.seen = {} /\ Opened.bot = "none" /\ Opened.tries = 0
        /\ Opened.last = "none" /\ Opened.outcome = "none" /\ Opened.issue = 0
    BY <1>1 DEF Opened, Intent
  <1> QED BY <1>1, <1>2, <1>3

GoodPass ==
    /\ at \in Position /\ todo \subseteq Instances /\ fails \in [Instances -> Nat]
    /\ failing \subseteq Instances /\ holding \subseteq Instances \X Transient

GoodWorld ==
    /\ approved \subseteq Instances /\ closed \subseteq Runs /\ registered \in [Repos -> Apps]

GoodGitHub == issues \subseteq Issue /\ wire \subseteq Request

GoodRest ==
    /\ elapsed \in [Instances -> SUBSET {"wait", "day"}]
    /\ outside \in [Instances -> SUBSET Nat]
    /\ notices \subseteq Instances \X Codes
    /\ faults \in Nat

GoodLedger == intent \in [Instances -> Intent] /\ \A i \in Instances : GoodIntent(intent[i])

LEMMA TypeParts == TypeOK <=> GoodPass /\ GoodWorld /\ GoodGitHub /\ GoodRest /\ GoodLedger
  BY DEF TypeOK, GoodPass, GoodWorld, GoodGitHub, GoodRest, GoodLedger, GoodIntent

\* From its durable state a filing is done for this pass, or goes on to check,
\* settle or be refused.
LEMMA ContinueShape ==
    ASSUME NEW i \in Instances, GoodLedger, Continue(i)
    PROVE  \/ Finished(i)
           \/ /\ ~Terminal(i)
              /\ \E step \in {"check", "settle", "refuse"} :
                    at' = [NoDrive EXCEPT !.step = step, !.i = i]
              /\ UNCHANGED <<todo, failing>>
  <1>1. CASE Terminal(i)
    BY <1>1 DEF Continue
  <1>2. CASE ~Terminal(i) /\ intent[i].tries = 0
    BY <1>2 DEF Continue
  <1>3. CASE ~Terminal(i) /\ intent[i].tries # 0
    <2>1. Class(i) \in {"success", "unproven", "definite", "transient"}
      BY <1>3 DEF GoodLedger, GoodIntent, Intent, Class, Classes
    <2>2. CASE Class(i) \in {"success", "unproven"}
      BY <1>3, <2>2 DEF Continue
    <2>3. CASE Class(i) = "definite"
      BY <1>3, <2>3 DEF Continue
    <2>4. CASE Class(i) = "transient"
      BY <1>3, <2>4 DEF Continue
    <2> QED BY <2>1, <2>2, <2>3, <2>4
  <1> QED BY <1>1, <1>2, <1>3

\* Every way a filing's turn ends or goes on keeps the pass well typed.
LEMMA TurnTypes ==
    ASSUME NEW i \in Instances, GoodPass, GoodLedger
    PROVE  /\ Finished(i) => at' \in Position /\ todo' \subseteq Instances /\ failing' \subseteq Instances
           /\ \A step \in Steps : Then(step) =>
                at' \in Position /\ todo' \subseteq Instances /\ failing' \subseteq Instances
           /\ Continue(i) => at' \in Position /\ todo' \subseteq Instances /\ failing' \subseteq Instances
           /\ Failed(i) => /\ at' \in Position /\ todo' \subseteq Instances /\ failing' \subseteq Instances
                           /\ holding' \subseteq Instances \X Transient
  <1> USE ConstantFacts DEF GoodPass, Position, Steps, NoDrive
  <1>1. Finished(i) => at' \in Position /\ todo' \subseteq Instances /\ failing' \subseteq Instances
    BY DEF Finished
  <1>2. \A step \in Steps : Then(step) =>
          at' \in Position /\ todo' \subseteq Instances /\ failing' \subseteq Instances
    BY DEF Then
  <1>3. Continue(i) => at' \in Position /\ todo' \subseteq Instances /\ failing' \subseteq Instances
    BY ZenonT(200), <1>1, ContinueShape
  <1>4. Failed(i) => /\ at' \in Position /\ todo' \subseteq Instances /\ failing' \subseteq Instances
                     /\ holding' \subseteq Instances \X Transient
    BY DEF Failed, Transient
  <1> QED BY <1>1, <1>2, <1>3, <1>4

LEMMA RaisedTypes ==
    ASSUME NEW i \in Instances, NEW code \in Codes, GoodRest
    PROVE  Raised(i, code) \subseteq Instances \X Codes
  BY DEF Raised, GoodRest, Codes

\* One field of one intent changes.
LEMMA LedgerTypes ==
    ASSUME GoodLedger, NEW i \in Instances, NEW e, GoodIntent(e),
           intent' = [intent EXCEPT ![i] = e]
    PROVE  GoodLedger'
  BY DEF GoodLedger, GoodIntent

\* A terminal outcome other than filed fits any intent that has none.
LEMMA EndTypes ==
    ASSUME GoodLedger, NEW i \in Instances, NEW o \in {"refused", "ambiguous"},
           ~Terminal(i), intent' = [intent EXCEPT ![i].outcome = o]
    PROVE  GoodLedger'
  BY DEF GoodLedger, GoodIntent, Intent, Outcomes, Terminal

LEMMA AmbiguousTypes ==
    ASSUME NEW i \in Instances, GoodPass, GoodLedger, GoodRest, Ambiguous(i)
    PROVE  /\ GoodLedger' /\ notices' \subseteq Instances \X Codes
           /\ at' \in Position /\ todo' \subseteq Instances /\ failing' \subseteq Instances
  <1>1. GoodLedger'
    BY EndTypes DEF Ambiguous, MayConclude
  <1>2. notices' \subseteq Instances \X Codes
    BY RaisedTypes DEF Ambiguous, Codes
  <1> QED BY <1>1, <1>2, TurnTypes DEF Ambiguous

LEMMA FailedTypes ==
    ASSUME NEW i \in Instances, GoodPass, GoodLedger, GoodRest, Failed(i)
    PROVE  /\ notices' \subseteq Instances \X Codes
           /\ at' \in Position /\ todo' \subseteq Instances /\ failing' \subseteq Instances
           /\ holding' \subseteq Instances \X Transient
  <1>1. notices' \subseteq Instances \X Codes
    BY RaisedTypes DEF Failed, Codes, Transient, GoodRest
  <1> QED BY <1>1, TurnTypes

\* The environment's and GitHub's steps.
LEMMA OutsideTypes ==
    ASSUME TypeOK, Numbering, Environment \/ GitHub
    PROVE  TypeOK'
  <1> USE ConstantFacts, TypeParts
      DEF GoodPass, GoodWorld, GoodGitHub, GoodRest, GoodLedger, world, github, ledger, pass
  <1>0. TypeOK' <=> (GoodPass /\ GoodWorld /\ GoodGitHub /\ GoodRest /\ GoodLedger)'
    BY DEF TypeOK, GoodIntent
  <1>1. ASSUME NEW i \in Instances, Approve(i) PROVE TypeOK'
    BY <1>0, <1>1 DEF Approve, GoodIntent
  <1>2. ASSUME NEW run \in Runs, CloseWorkflow(run) PROVE TypeOK'
    BY <1>0, <1>2 DEF CloseWorkflow, GoodIntent
  <1>3. ASSUME NEW r \in Repos, NEW app \in Apps, Register(r, app) PROVE TypeOK'
    BY <1>0, <1>3 DEF Register, GoodIntent
  <1>4. ASSUME TimePasses PROVE TypeOK'
    BY <1>0, <1>4 DEF TimePasses, Elapse, GoodIntent
  <1>5. ASSUME NEW q \in wire, Commit(q) PROVE TypeOK'
    <2> DEFINE r == RepoOf[q.i]
               n == Cardinality(IssuesOf(r)) + 1
               x == [repo |-> r, n |-> n, author |-> q.as, by |-> q.i, try |-> q.try]
    <2>1. q \in Request
      BY TypeParts DEF GoodGitHub
    <2>2. n \in Nat
      <3>1. IsFiniteSet(IssuesOf(r))
        BY <2>1 DEF Numbering, Request
      <3> QED BY <3>1, FS_CardinalityType
    <2>3. x \in Issue
      BY <2>1, <2>2 DEF Request, Issue
    <2>4. issues' = issues \cup {x}
      BY <1>5 DEF Commit
    <2>5. outside' \in [Instances -> SUBSET Nat]
      <3>1. q.i \in Instances
        BY <2>1 DEF Request
      <3>2. PICK ahead \in BOOLEAN :
              outside' = [outside EXCEPT ![q.i] = IF ahead THEN @ \cup {n} ELSE @]
        BY <1>5 DEF Commit
      <3> HIDE DEF n
      <3> QED BY <2>2, <3>1, <3>2
    <2>6. wire' \subseteq Request
      BY <1>5, <2>1 DEF Commit, Request, Fates
    <2>7. UNCHANGED <<world, intent, elapsed, notices, pass, faults>>
      BY <1>5 DEF Commit
    <2> QED BY <1>0, <2>3, <2>4, <2>5, <2>6, <2>7 DEF GoodIntent
  <1>6. ASSUME NEW q \in wire, NEW class \in {"definite", "transient"}, Reject(q, class)
        PROVE  TypeOK'
    BY <1>0, <1>6 DEF Reject, Request, Fates, GoodIntent
  <1> QED BY <1>1, <1>2, <1>3, <1>4, <1>5, <1>6 DEF Environment, GitHub

\* What the end of a dispatch records: the class is the client's reading of the
\* attempt's own request, and a filed issue is the one that request made.
Recorded(i, q, class, n, o) ==
    /\ class = "success" <=> o = "ledgered"
    /\ class = "success" => n # 0 /\ \E x \in IssuesBy(i) : x.repo = RepoOf[i] /\ x.n = n
    /\ class # "success" => n = 0
    /\ class \in {"definite", "transient"} => q.fate = class
    /\ o = "refused" => class \in {"definite", "transient"}
    /\ intent' = [intent EXCEPT ![i].last = class, ![i].outcome = o, ![i].issue = n]
    /\ elapsed' = [elapsed EXCEPT ![i] = @ \ {"wait"}]
    /\ notices' = notices \/ notices' = Raised(i, "refused")
    /\ o = "refused" => notices' = Raised(i, "refused")
    /\ Finished(i)
    /\ UNCHANGED holding

LEMMA AnswerShape ==
    ASSUME IInv, NEW i \in Instances, Answer(i)
    PROVE  \E q \in wire :
             /\ q.i = i /\ q.try = intent[i].tries
             /\ \/ Failed(i) /\ UNCHANGED <<intent, elapsed>>
                \/ \E class \in {"success", "unproven", "definite", "transient"},
                      n \in Nat, o \in {"none", "ledgered", "refused"} :
                      Recorded(i, q, class, n, o)
  <1>1. PICK q \in wire, seen \in {"success", "unproven", "definite", "transient"} :
          /\ seen \in Observable(q.fate) /\ q.i = i /\ q.try = intent[i].tries
          /\ LET made == {x \in issues : x.by = i /\ x.try = q.try}
                 issue == CHOOSE x \in made : TRUE
                 class == IF seen = "success" /\ ~Admits(issue, at.bot, i)
                          THEN "unproven" ELSE seen
                 refused == \/ class = "definite"
                            \/ class = "transient" /\ intent[i].tries >= AttemptBound
             IN  IF class = "success" /\ FiledIssue(RepoOf[i], issue.n)
                 THEN Failed(i) /\ UNCHANGED <<intent, elapsed>>
                 ELSE /\ intent' = [intent EXCEPT ![i].last = class,
                            ![i].outcome = IF class = "success" THEN "ledgered"
                                           ELSE IF refused THEN "refused" ELSE "none",
                            ![i].issue = IF class = "success" THEN issue.n ELSE 0]
                      /\ elapsed' = [elapsed EXCEPT ![i] = @ \ {"wait"}]
                      /\ notices' = IF refused THEN Raised(i, "refused") ELSE notices
                      /\ Finished(i)
                      /\ UNCHANGED holding
    <2>1. \A q \in wire : Observable(q.fate) \subseteq {"success", "unproven", "definite", "transient"}
      BY TypeParts DEF IInv, GoodGitHub, Request, Fates, Observable
    <2> QED BY ZenonT(200), <2>1 DEF Answer
  <1> DEFINE made == {x \in issues : x.by = i /\ x.try = q.try}
             issue == CHOOSE x \in made : TRUE
             class == IF seen = "success" /\ ~Admits(issue, at.bot, i) THEN "unproven" ELSE seen
             refused == \/ class = "definite"
                        \/ class = "transient" /\ intent[i].tries >= AttemptBound
             n == IF class = "success" THEN issue.n ELSE 0
             o == IF class = "success" THEN "ledgered" ELSE IF refused THEN "refused" ELSE "none"
  <1>2. class \in {"success", "unproven", "definite", "transient"}
    OBVIOUS
  <1>3. CASE class = "success" /\ FiledIssue(RepoOf[i], issue.n)
    BY <1>1, <1>3
  <1>4. CASE ~(class = "success" /\ FiledIssue(RepoOf[i], issue.n))
    <2>1. /\ intent' = [intent EXCEPT ![i].last = class, ![i].outcome = o, ![i].issue = n]
          /\ elapsed' = [elapsed EXCEPT ![i] = @ \ {"wait"}]
          /\ notices' = IF refused THEN Raised(i, "refused") ELSE notices
          /\ Finished(i)
          /\ UNCHANGED holding
      BY <1>1, <1>4
    <2>2. q.fate \in Fates
      BY TypeParts DEF IInv, GoodGitHub, Request
    <2>3. seen = "success" => q.fate = "committed"
      BY <1>1, <2>2 DEF Observable, Fates
    <2>4. seen \in {"definite", "transient"} => q.fate = seen
      BY <1>1, <2>2 DEF Observable, Fates
    <2>5. ASSUME class = "success"
          PROVE  /\ issue \in issues /\ issue.by = i /\ issue.repo = RepoOf[i]
                 /\ issue.n \in Nat /\ issue.n # 0
      <3>1. q.fate = "committed"
        BY <2>3, <2>5
      <3>2. \E x \in issues : x.by = i /\ x.try = q.try
        BY <1>1, <3>1 DEF IInv, LedgerInv, IssueShape
      <3>3. issue \in made
        BY <3>2
      <3>4. issue \in issues /\ issue.by = i
        BY <3>3
      <3> HIDE DEF issue
      <3>5. issue.repo = RepoOf[i]
        BY <3>4, ConstantFacts DEF IInv, LedgerInv, IssueShape
      <3>6. issue.n \in Nat /\ issue.n # 0
        BY <3>4, TypeParts DEF IInv, LedgerInv, Numbering, GoodGitHub, Issue
      <3> QED BY <3>4, <3>5, <3>6
    <2>6. n \in Nat /\ o \in {"none", "ledgered", "refused"}
      BY <2>5
    <2>7. class = "success" => n # 0 /\ \E x \in IssuesBy(i) : x.repo = RepoOf[i] /\ x.n = n
      <3> HIDE DEF issue, class
      <3> QED BY <2>5 DEF IssuesBy
    <2>8. class \in {"definite", "transient"} => q.fate = class
      BY <2>4
    <2>9. /\ class = "success" <=> o = "ledgered"
          /\ class # "success" => n = 0
          /\ o = "refused" => class \in {"definite", "transient"}
      OBVIOUS
    <2>10. /\ notices' = notices \/ notices' = Raised(i, "refused")
           /\ o = "refused" => notices' = Raised(i, "refused")
      BY <2>1
    <2> HIDE DEF class, n, o, refused
    <2>11. Recorded(i, q, class, n, o)
      BY <2>1, <2>7, <2>8, <2>9, <2>10 DEF Recorded
    <2>12. \E c \in {"success", "unproven", "definite", "transient"},
              m \in Nat, p \in {"none", "ledgered", "refused"} : Recorded(i, q, c, m, p)
      BY <1>2, <2>6, <2>11
    <2>13. q.i = i /\ q.try = intent[i].tries
      BY <1>1
    <2> QED BY <2>12, <2>13
  <1> QED BY <1>3, <1>4

\* Every step of the process.
LEMMA FilerTypes ==
    ASSUME IInv, Filer \/ Crash
    PROVE  TypeOK'
  <1> USE ConstantFacts, TypeParts DEF IInv
  <1>0. /\ TypeOK' <=> (GoodPass /\ GoodWorld /\ GoodGitHub /\ GoodRest /\ GoodLedger)'
        /\ GoodPass /\ GoodWorld /\ GoodGitHub /\ GoodRest /\ GoodLedger
        /\ UNCHANGED world => GoodWorld'
        /\ UNCHANGED github => GoodGitHub'
        /\ UNCHANGED intent => GoodLedger'
        /\ at \in Position
    BY DEF TypeOK, GoodPass, GoodWorld, GoodGitHub, GoodRest, GoodLedger, GoodIntent, world, github
  <1>a. ASSUME UNCHANGED <<ledger, faults>>, notices' \subseteq Instances \X Codes PROVE GoodRest'
    BY <1>0, <1>a DEF GoodRest, ledger
  <1>p. ASSUME at' \in Position, UNCHANGED <<todo, fails, failing, holding>> PROVE GoodPass'
    BY <1>0, <1>p DEF GoodPass
  <1>n. notices \subseteq Instances \X Codes
    BY <1>0 DEF GoodRest
  <1>x. ASSUME NEW i \in Instances, ExchangeFails(i) PROVE TypeOK'
    BY <1>0, <1>x, FailedTypes DEF ExchangeFails, GoodPass, GoodRest, ledger
  <1>1. ASSUME Start \/ BeginPass \/ EndPass \/ Crash PROVE TypeOK'
    <2>1. CASE Start
      BY <1>0, <1>a, <1>n, <1>p, <2>1 DEF Start, NoDrive, Position, Steps, ledger
    <2>2. CASE BeginPass
      BY <1>0, <1>a, <1>n, <2>2 DEF BeginPass, NoDrive, Position, Steps, GoodPass, GoodWorld, ledger
    <2>3. CASE EndPass
      BY <1>0, <1>a, <1>n, <1>p, <2>3 DEF EndPass, NoDrive, Position, Steps, ledger
    <2>4. CASE Crash
      BY <1>0, <2>4 DEF Crash, NoDrive, Position, Steps, GoodPass, GoodRest, ledger
    <2> QED BY <1>1, <2>1, <2>2, <2>3, <2>4
  <1>2. ASSUME NEW i \in Instances, StartDrive(i) PROVE TypeOK'
    <2>1. at' \in Position /\ todo' \subseteq Instances /\ failing' \subseteq Instances
      BY ZenonT(60), <1>0, <1>2, TurnTypes DEF StartDrive, Position, Steps, GoodPass
    <2> QED BY <1>0, <1>a, <1>n, <1>2, <2>1 DEF StartDrive, GoodPass, ledger
  <1>3. ASSUME NEW i \in Instances, RetireClosed(i) PROVE TypeOK'
    <2>1. GoodLedger'
      BY <1>0, <1>3, EndTypes DEF RetireClosed, MayRefuse
    <2>2. at' \in Position /\ todo' \subseteq Instances /\ failing' \subseteq Instances
      BY <1>0, <1>3, TurnTypes DEF RetireClosed
    <2> QED BY <1>0, <1>3, <2>1, <2>2 DEF RetireClosed, GoodPass, GoodRest
  <1>4. ASSUME NEW i \in Instances, OpenIntent(i) PROVE TypeOK'
    <2>1. at' \in Position /\ todo' \subseteq Instances /\ failing' \subseteq Instances
      BY <1>0, <1>4, TurnTypes DEF OpenIntent, Steps
    <2>2. notices' \subseteq Instances \X Codes
      BY <1>0, <1>n, <1>4, RaisedTypes DEF OpenIntent, Codes, Transient
    <2>3. holding' \subseteq Instances \X Transient
      BY <1>0, <1>4 DEF OpenIntent, Transient, GoodPass
    <2>4. Numbers(IssuesOf(RepoOf[i])) \subseteq Nat
      BY <1>0 DEF Numbers, IssuesOf, GoodGitHub, Issue
    <2>5. outside' \in [Instances -> SUBSET Nat]
      BY <1>0, <1>4, <2>4 DEF OpenIntent, GoodRest
    <2>6. GoodIntent(Opened)
      BY OpenedShape DEF GoodIntent
    <2>7. GoodLedger'
      BY <1>0, <1>4, <2>6, LedgerTypes DEF OpenIntent, Opened
    <2> QED BY <1>0, <1>4, <2>1, <2>2, <2>3, <2>5, <2>7 DEF OpenIntent, GoodPass, GoodRest
  <1>5. ASSUME NEW i \in Instances, Refuse(i) PROVE TypeOK'
    <2>1. CASE MayRefuse(i)
      <3>1. GoodLedger'
        BY <1>0, <1>5, <2>1, EndTypes DEF Refuse, MayRefuse
      <3>2. notices' \subseteq Instances \X Codes
        BY <1>0, <1>5, <2>1, RaisedTypes DEF Refuse, Codes
      <3>3. at' \in Position /\ todo' \subseteq Instances /\ failing' \subseteq Instances
        BY <1>0, <1>5, <2>1, TurnTypes DEF Refuse
      <3> QED BY <1>0, <1>5, <2>1, <3>1, <3>2, <3>3 DEF Refuse, GoodPass, GoodRest
    <2>2. CASE ~MayRefuse(i)
      BY <1>0, <1>5, <2>2, FailedTypes DEF Refuse, GoodPass, GoodRest
    <2> QED BY <2>1, <2>2
  <1>6. ASSUME NEW i \in Instances, Dispatch(i) PROVE TypeOK'
    <2>r. registered[RepoOf[i]] \in Apps
      BY <1>0 DEF GoodWorld
    <2>1. CASE Precheck(i)
      <3>1. CASE Then("refuse") /\ UNCHANGED <<github, ledger, notices, fails, holding, faults>>
        BY <1>0, <1>a, <1>n, <2>1, <3>1, TurnTypes DEF Precheck, Steps, GoodPass, ledger
      <3>2. CASE /\ at' = [at EXCEPT !.bot = registered[RepoOf[i]],
                              !.step = IF intent[i].bot = "none" THEN "list" ELSE "build"]
                 /\ UNCHANGED <<github, ledger, notices, fails, todo, failing, holding, faults>>
        BY <1>0, <1>a, <1>n, <1>p, <2>1, <2>r, <3>2 DEF Precheck, Steps, Position, ledger
      <3> QED BY <1>x, <2>1, <3>1, <3>2 DEF Precheck
    <2>2. CASE ListBefore(i)
      <3>1. ASSUME NEW listed \in Listing(RepoOf[i], at.bot, i),
                   at' = [at EXCEPT !.step = "record", !.found = Numbers(listed)],
                   UNCHANGED <<world, github, ledger, notices, fails, todo, failing, holding, faults>>
            PROVE  TypeOK'
        <4>1. Numbers(listed) \subseteq Nat
          BY <1>0 DEF Numbers, Listing, IssuesOf, GoodGitHub, Issue
        <4>2. at' \in Position
          BY <1>0, <3>1, <4>1 DEF Position, Steps
        <4> QED BY <1>0, <1>a, <1>n, <1>p, <3>1, <4>2 DEF ledger
      <3> QED BY <1>x, <2>2, <3>1 DEF ListBefore
    <2>3. CASE RecordPreDispatch(i)
      <3>1. GoodLedger'
        BY SMTT(30), <1>0, <2>3 DEF RecordPreDispatch, PassShape, GoodLedger, GoodIntent, Intent, Identities, Position
      <3> QED BY <1>0, <2>3, <3>1, TurnTypes DEF RecordPreDispatch, Steps, GoodPass, GoodRest
    <2>4. CASE BuildRequest(i)
      <3>1. CASE /\ at' = [at EXCEPT !.step = "confirm", !.as = registered[RepoOf[i]]]
                 /\ UNCHANGED <<world, github, ledger, notices, fails, todo, failing, holding, faults>>
        BY <1>0, <1>a, <1>n, <1>p, <2>r, <3>1 DEF Steps, Position, ledger
      <3> QED BY <1>x, <2>4, <3>1 DEF BuildRequest
    <2>5. CASE ConfirmIdentity(i)
      <3>1. CASE /\ at' = [at EXCEPT !.bot = registered[RepoOf[i]],
                      !.step = IF registered[RepoOf[i]] = intent[i].bot THEN "mark" ELSE "refuse"]
                 /\ UNCHANGED <<world, github, ledger, notices, fails, todo, failing, holding, faults>>
        BY <1>0, <1>a, <1>n, <1>p, <2>r, <3>1 DEF Steps, Position, ledger
      <3> QED BY <1>x, <2>5, <3>1 DEF ConfirmIdentity
    <2>6. CASE StartAttempt(i)
      <3>1. CASE Fenced(i)
        BY <1>0, <2>6, <3>1, TurnTypes DEF StartAttempt, GoodPass, GoodRest
      <3>2. CASE ~Fenced(i) /\ ~MayStart(i)
        BY <1>0, <2>6, <3>2, FailedTypes DEF StartAttempt, GoodPass, GoodRest
      <3>3. CASE ~Fenced(i) /\ MayStart(i)
        <4>1. GoodLedger'
          BY <1>0, <2>6, <3>3 DEF StartAttempt, MayStart, Terminal, GoodLedger, GoodIntent, Intent, Classes, NoIntent
        <4> QED BY <1>0, <2>6, <3>3, <4>1, TurnTypes DEF StartAttempt, Steps, GoodPass, GoodRest
      <3> QED BY <3>1, <3>2, <3>3
    <2>7. CASE Send(i)
      <3>1. wire' \subseteq Request
        BY <1>0, <2>7 DEF Send, PassShape, GoodGitHub, GoodLedger, Intent, Request, Fates, Position
      <3> QED BY <1>0, <1>a, <1>n, <2>7, <3>1, TurnTypes
              DEF Send, Steps, GoodPass, GoodGitHub, world, ledger
    <2>8. CASE Answer(i)
      <3>0. UNCHANGED <<world, github, outside, fails, faults>>
        BY <2>8 DEF Answer
      <3>1. CASE Failed(i) /\ UNCHANGED <<intent, elapsed>>
        BY <1>0, <3>0, <3>1, FailedTypes DEF GoodPass, GoodRest
      <3>2. ASSUME NEW q \in wire, NEW class \in {"success", "unproven", "definite", "transient"},
                   NEW n \in Nat, NEW o \in {"none", "ledgered", "refused"},
                   Recorded(i, q, class, n, o)
            PROVE  TypeOK'
        <4>1. i = at.i /\ intent[i].last = "sent"
          BY <2>8 DEF Answer, PassShape
        <4>2. GoodLedger'
          <5> DEFINE e == [intent[i] EXCEPT !.last = class, !.outcome = o, !.issue = n]
          <5>1. intent' = [intent EXCEPT ![i] = e]
            BY <3>2 DEF Recorded
          <5>2. intent[i] \in Intent /\ intent[i].tries > 0 /\ intent[i].open /\ intent[i].bot # "none"
            <6>1. GoodIntent(intent[i])
              BY <1>0 DEF GoodLedger
            <6>2. intent[i].tries \in Nat
              BY <1>0 DEF GoodLedger, Intent
            <6> QED BY <4>1, <6>1, <6>2 DEF GoodIntent
          <5>3. e \in Intent
            BY <5>2 DEF Intent, Classes, Outcomes
          <5>4. /\ e.tries = intent[i].tries /\ e.open = intent[i].open /\ e.bot = intent[i].bot
                /\ e.last = class /\ e.outcome = o /\ e.issue = n
            BY <5>2 DEF Intent
          <5>5. o = "ledgered" <=> n # 0
            BY <3>2 DEF Recorded
          <5> HIDE DEF e
          <5>6. GoodIntent(e)
            BY <5>2, <5>3, <5>4, <5>5 DEF GoodIntent
          <5> QED BY <1>0, <5>1, <5>6, LedgerTypes
        <4>3. notices' \subseteq Instances \X Codes
          BY <1>0, <1>n, <3>2, RaisedTypes DEF Recorded, Codes
        <4>4. elapsed' \in [Instances -> SUBSET {"wait", "day"}]
          BY <1>0, <3>2 DEF Recorded, GoodRest
        <4>5. at' \in Position /\ todo' \subseteq Instances /\ failing' \subseteq Instances
          BY <1>0, <3>2, TurnTypes DEF Recorded
        <4>6. UNCHANGED holding
          BY <3>2 DEF Recorded
        <4> QED BY <1>0, <3>0, <4>2, <4>3, <4>4, <4>5, <4>6 DEF GoodPass, GoodRest
      <3> QED BY <2>8, <3>1, <3>2, AnswerShape
    <2> QED BY <1>6, <2>1, <2>2, <2>3, <2>4, <2>5, <2>6, <2>7, <2>8 DEF Dispatch
  <1>7. ASSUME NEW i \in Instances, Settling(i) PROVE TypeOK'
    <2>f. ASSUME ListingFails(i) PROVE TypeOK'
      <3>0. fails' \in [Instances -> Nat] /\ faults' \in Nat
        BY <1>0, <2>f DEF ListingFails, GoodPass, GoodRest
      <3>1. CASE fails[i] + 1 < ListingBound
        BY <1>0, <2>f, <3>0, <3>1, FailedTypes DEF ListingFails, GoodPass, GoodRest
      <3>2. CASE ~(fails[i] + 1 < ListingBound)
        BY <1>0, <2>f, <3>0, <3>2, AmbiguousTypes DEF ListingFails, GoodPass, GoodRest
      <3> QED BY <3>1, <3>2
    <2>1. CASE Settle(i)
      <3>1. CASE intent[i].bot = "unknown" \/ RepositoryAmbiguous(RepoOf[i])
        BY <1>0, <2>1, <3>1, AmbiguousTypes DEF Settle, GoodPass, GoodRest
      <3>2. CASE ~(intent[i].bot = "unknown" \/ RepositoryAmbiguous(RepoOf[i]))
        BY <1>0, <2>1, <3>2, TurnTypes DEF Settle, Steps, GoodPass, GoodRest
      <3> QED BY <3>1, <3>2
    <2>2. CASE ResolveTarget(i)
      <3>1. ASSUME /\ at' = [at EXCEPT !.bot = registered[RepoOf[i]], !.step = "candidates"]
                   /\ UNCHANGED <<intent, notices, fails, todo, failing>>
                   /\ UNCHANGED <<world, github, elapsed, outside, holding, faults>>
            PROVE  TypeOK'
        <4>1. at' \in Position
          BY <1>0, <3>1 DEF Position, Steps, GoodWorld
        <4> QED BY <1>0, <3>1, <4>1 DEF GoodPass, GoodRest
      <3>2. ASSUME /\ fails' = [fails EXCEPT ![i] = 0] /\ Ambiguous(i)
                   /\ UNCHANGED <<world, github, elapsed, outside, holding, faults>>
            PROVE  TypeOK'
        BY <1>0, <3>2, AmbiguousTypes DEF GoodPass, GoodRest
      <3> QED BY <2>f, <2>2, <3>1, <3>2 DEF ResolveTarget
    <2>3. CASE ListCandidates(i)
      <3>1. ASSUME NEW listed \in Listing(RepoOf[i], at.bot, i),
                   at' = [at EXCEPT !.step = "adopt",
                    !.found = {x.n : x \in {y \in listed :
                        Admits(y, at.bot, i) /\ ~FiledIssue(RepoOf[i], y.n)}}],
                   fails' = [fails EXCEPT ![i] = 0],
                   UNCHANGED <<world, github, ledger, notices, todo, failing, holding, faults>>
            PROVE  TypeOK'
        <4> DEFINE found == {x.n : x \in {y \in listed :
                               Admits(y, at.bot, i) /\ ~FiledIssue(RepoOf[i], y.n)}}
        <4>1. found \subseteq Nat
          BY <1>0 DEF Listing, IssuesOf, GoodGitHub, Issue
        <4>2. at' \in Position
          <5>1. at' = [at EXCEPT !.step = "adopt", !.found = found]
            BY <3>1
          <5> HIDE DEF found
          <5> QED BY <1>0, <4>1, <5>1 DEF Position, Steps
        <4>3. fails' \in [Instances -> Nat]
          BY <1>0, <3>1 DEF GoodPass
        <4> QED BY <1>0, <1>a, <1>n, <3>1, <4>2, <4>3 DEF GoodPass, ledger
      <3> QED BY <2>f, <2>3, <3>1 DEF ListCandidates
    <2>4. CASE Adopt(i)
      <3>1. CASE Ambiguous(i)
        BY <1>0, <2>4, <3>1, AmbiguousTypes DEF Adopt, GoodPass, GoodRest
      <3>2. CASE ~Ambiguous(i)
        <4>1. PICK n \in at.found : MayConclude(i) /\ Adopted(i, n) /\ Finished(i) /\ UNCHANGED notices
          <5>1. Cardinality(at.found) = 1
            BY <2>4, <3>2 DEF Adopt
          <5>2. \E n : n \in at.found
            BY <5>1, FS_EmptySet
          <5> QED BY <2>4, <3>2, <5>1, <5>2 DEF Adopt
        <4>2. n \in Nat /\ n # 0
          <5>1. at.step = "adopt" /\ at.i = i
            BY <2>4 DEF Adopt
          <5>2. PICK x \in IssuesOf(RepoOf[i]) : x.n = n
            BY <5>1 DEF PassShape
          <5>3. x \in issues
            BY <5>2 DEF IssuesOf
          <5>4. x.n \in Nat
            BY <1>0, <5>3 DEF GoodGitHub, Issue
          <5>5. 0 < x.n
            BY <5>3 DEF LedgerInv, Numbering
          <5> QED BY <5>2, <5>4, <5>5
        <4>3. GoodLedger'
          BY SMTT(30), <1>0, <4>1, <4>2 DEF Adopted, MayConclude, Terminal, GoodLedger, GoodIntent, Intent, Outcomes
        <4> QED BY <1>0, <1>n, <2>4, <4>1, <4>3, TurnTypes DEF Adopt, GoodPass, GoodRest
      <3> QED BY <3>1, <3>2
    <2> QED BY <1>7, <2>1, <2>2, <2>3, <2>4 DEF Settling
  <1> QED BY <1>1, <1>2, <1>3, <1>4, <1>5, <1>6, <1>7 DEF Filer, Drive

-----------------------------------------------------------------------------
(* What the ledger's invariant says of one filing.                          *)

LEMMA LastDecides ==
    ASSUME NEW i \in Instances
    PROVE  /\ Rejected(i) <=> intent[i].last \in {"definite", "transient"}
           /\ Rejected(i)' <=> intent'[i].last \in {"definite", "transient"}
  BY DEF Rejected, Class

\* Only the last attempt of a filing can have been executed.
LEMMA CommittedIsLast ==
    ASSUME TypeOK, RequestShape, NEW q \in wire, q.fate \in {"sent", "committed"}
    PROVE  /\ q.i \in Instances /\ q.try = intent[q.i].tries /\ q.try > 0
           /\ ~Rejected(q.i) /\ intent[q.i].open
  <1>1. q.i \in Instances /\ q.try \in Nat
    BY TypeParts DEF GoodGitHub, Request
  <1>2. intent[q.i].tries \in Nat
    BY <1>1, TypeParts DEF GoodLedger, Intent
  <1>3. 0 < q.try /\ q.try <= intent[q.i].tries /\ ~(q.try < intent[q.i].tries) /\ ~Rejected(q.i)
    BY DEF RequestShape
  <1>4. intent[q.i].open
    BY <1>1, <1>2, <1>3 DEF TypeOK
  <1> QED BY <1>1, <1>2, <1>3, <1>4

LEMMA OnlyOneIssue ==
    ASSUME TypeOK, RequestShape, IssueShape
    PROVE  AtMostOneIssue
  <1> SUFFICES ASSUME NEW i \in Instances, NEW x \in IssuesBy(i), NEW y \in IssuesBy(i)
               PROVE  x = y
    BY DEF AtMostOneIssue
  <1>1. x \in issues /\ y \in issues /\ x.by = i /\ y.by = i /\ i # 0
    BY ConstantFacts DEF IssuesBy
  <1>2. PICK p \in wire : p.i = i /\ p.try = x.try /\ p.fate = "committed"
    BY <1>1 DEF IssueShape
  <1>3. PICK q \in wire : q.i = i /\ q.try = y.try /\ q.fate = "committed"
    BY <1>1 DEF IssueShape
  <1>4. x.try = y.try
    BY <1>2, <1>3, CommittedIsLast
  <1> QED BY <1>1, <1>4 DEF IssueShape

LEMMA RefusedNothing ==
    ASSUME TypeOK, LedgerInv
    PROVE  RefusedCreatedNothing
  <1> USE DEF LedgerInv
  <1> SUFFICES ASSUME NEW i \in Instances, intent[i].outcome = "refused"
               PROVE  /\ IssuesBy(i) = {}
                      /\ \A q \in wire : q.i = i => q.fate \notin {"sent", "committed"}
    BY DEF RefusedCreatedNothing
  <1>1. intent[i].tries = 0 \/ Rejected(i)
    BY DEF IntentShape
  <1>2. ASSUME NEW q \in wire, q.i = i, q.fate \in {"sent", "committed"} PROVE FALSE
    BY <1>1, <1>2, CommittedIsLast
  <1>3. ASSUME NEW x \in IssuesBy(i) PROVE FALSE
    <2>1. x \in issues /\ x.by = i /\ i # 0
      BY <1>3, ConstantFacts DEF IssuesBy
    <2>2. \E q \in wire : q.i = i /\ q.fate = "committed"
      BY <2>1 DEF IssueShape
    <2> QED BY <1>2, <2>2
  <1> QED BY <1>2, <1>3

-----------------------------------------------------------------------------
(* The ledger and GitHub, step by step.                                    *)

LEMMA LedgerKept ==
    ASSUME LedgerInv, UNCHANGED <<intent, wire, issues, outside>>
    PROVE  LedgerInv'
  BY SMTT(200) DEF LedgerInv, IntentShape, RequestShape, Rejected, Class, Numbering, IssuesOf, IssueShape,
         SeenShape, Knows, OneOutstanding, Outstanding, Terminal, LedgerNamesOwnIssue, IssuesBy

\* The filing ends, or learns what became of its last attempt.
LEMMA EndKept ==
    ASSUME IInv, NEW i \in Instances, Outstanding(i),
           NEW e \in Intent, intent' = [intent EXCEPT ![i] = e],
           UNCHANGED <<wire, issues, outside>>,
           e.open, e.seen = intent[i].seen, e.bot = intent[i].bot, e.tries = intent[i].tries,
           e.outcome = "refused" => e.tries = 0 \/ e.last \in {"definite", "transient"},
           e.last \in {"definite", "transient"} =>
              \A q \in wire : q.i = i /\ q.try = e.tries => q.fate \in {"definite", "transient"},
           e.outcome = "ledgered" => \E x \in IssuesBy(i) : x.repo = RepoOf[i] /\ x.n = e.issue
    PROVE  LedgerInv'
  <1> USE DEF IInv, LedgerInv
  <1>1. intent'[i] = e /\ \A j \in Instances \ {i} : intent'[j] = intent[j]
    BY TypeParts DEF GoodLedger
  <1>2. IntentShape'
    BY <1>1, LastDecides DEF IntentShape
  <1>3. RequestShape'
    <2>1. \A q \in wire : q.i \in Instances /\ q.try \in Nat /\ intent[q.i].tries \in Nat
      BY TypeParts DEF GoodGitHub, Request, GoodLedger, Intent
    <2>2. ASSUME NEW q \in wire
          PROVE  /\ 0 < q.try /\ q.try <= intent'[q.i].tries
                 /\ q.try < intent'[q.i].tries \/ Rejected(q.i)' => q.fate \in {"definite", "transient"}
      <3>1. CASE q.i = i
        BY <1>1, <2>1, <3>1, LastDecides DEF RequestShape
      <3>2. CASE q.i # i
        BY <1>1, <2>1, <3>2, LastDecides DEF RequestShape
      <3> QED BY <3>1, <3>2
    <2> QED BY <2>2 DEF RequestShape
  <1>4. Numbering'
    BY DEF Numbering, IssuesOf
  <1>5. IssueShape'
    BY DEF IssueShape
  <1>6. SeenShape'
    BY <1>1 DEF SeenShape, Knows, IssuesOf
  <1>7. OneOutstanding'
    <2>1. \A j \in Instances : Outstanding(j)' => Outstanding(j)
      BY <1>1 DEF Outstanding, Terminal
    <2> QED BY <2>1 DEF OneOutstanding
  <1>8. LedgerNamesOwnIssue'
    BY <1>1 DEF LedgerNamesOwnIssue, IssuesBy
  <1> QED BY <1>2, <1>3, <1>4, <1>5, <1>6, <1>7, <1>8

\* A filing ends as refused or ambiguous.
LEMMA OutcomeKept ==
    ASSUME IInv, NEW i \in Instances, Outstanding(i),
           NEW o \in {"refused", "ambiguous"}, o = "refused" => MayRefuse(i),
           intent' = [intent EXCEPT ![i].outcome = o], UNCHANGED <<wire, issues, outside>>
    PROVE  LedgerInv'
  <1> DEFINE e == [intent[i] EXCEPT !.outcome = o]
  <1>1. intent[i] \in Intent
    BY TypeParts DEF IInv, GoodLedger
  <1>2. /\ e \in Intent /\ e.open = intent[i].open /\ e.seen = intent[i].seen /\ e.bot = intent[i].bot
        /\ e.tries = intent[i].tries /\ e.last = intent[i].last /\ e.outcome = o
    BY <1>1 DEF Intent, Outcomes
  <1>3. intent' = [intent EXCEPT ![i] = e]
    OBVIOUS
  <1> HIDE DEF e
  <1>4. o = "refused" => e.tries = 0 \/ e.last \in {"definite", "transient"}
    BY <1>2, LastDecides DEF MayRefuse
  <1>5. e.last \in {"definite", "transient"} =>
           \A q \in wire : q.i = i /\ q.try = e.tries => q.fate \in {"definite", "transient"}
    BY <1>2, LastDecides DEF IInv, LedgerInv, RequestShape
  <1>6. e.open
    BY <1>2 DEF Outstanding
  <1> QED BY <1>2, <1>3, <1>4, <1>5, <1>6, EndKept

LEMMA AmbiguousKept ==
    ASSUME IInv, NEW i \in Instances, Outstanding(i), Ambiguous(i), UNCHANGED <<wire, issues, outside>>
    PROVE  LedgerInv'
  BY OutcomeKept DEF Ambiguous

\* The response to a create is recorded.
LEMMA RecordedKept ==
    ASSUME IInv, NEW i \in Instances, Outstanding(i), NEW q \in wire,
           q.i = i, q.try = intent[i].tries,
           NEW class \in {"success", "unproven", "definite", "transient"}, NEW n \in Nat,
           NEW o \in {"none", "ledgered", "refused"}, Recorded(i, q, class, n, o),
           UNCHANGED <<wire, issues, outside>>
    PROVE  LedgerInv'
  <1> DEFINE e == [intent[i] EXCEPT !.last = class, !.outcome = o, !.issue = n]
  <1>1. intent[i] \in Intent
    BY TypeParts DEF IInv, GoodLedger
  <1>2. /\ e \in Intent /\ e.open = intent[i].open /\ e.seen = intent[i].seen /\ e.bot = intent[i].bot
        /\ e.tries = intent[i].tries /\ e.last = class /\ e.outcome = o /\ e.issue = n
    BY <1>1 DEF Intent, Outcomes, Classes
  <1>3. intent' = [intent EXCEPT ![i] = e]
    BY DEF Recorded
  <1> HIDE DEF e
  <1>4. o = "refused" => class \in {"definite", "transient"}
    BY DEF Recorded
  <1>5. class \in {"definite", "transient"} =>
           \A p \in wire : p.i = i /\ p.try = intent[i].tries => p.fate \in {"definite", "transient"}
    BY DEF Recorded, IInv, LedgerInv, RequestShape
  <1>6. o = "ledgered" => \E x \in IssuesBy(i) : x.repo = RepoOf[i] /\ x.n = n
    BY DEF Recorded
  <1>7. e.open
    BY <1>2 DEF Outstanding
  <1> QED BY <1>2, <1>3, <1>4, <1>5, <1>6, <1>7, EndKept

\* The single candidate is this filing's own issue: whoever else's it were, that
\* filing would still be open, or ambiguous, or have the issue in the ledger.
LEMMA CandidateIsOwn ==
    ASSUME IInv, NEW i \in Instances, Outstanding(i), Driving(i, "adopt"), NEW n \in at.found,
           ~RepositoryAmbiguous(RepoOf[i]), n \notin intent[i].seen, ~FiledIssue(RepoOf[i], n)
    PROVE  \E x \in IssuesBy(i) : x.repo = RepoOf[i] /\ x.n = n
  <1> USE DEF IInv, LedgerInv
  <1>1. intent[i].bot \in Apps
    BY DEF PassShape
  <1>2. PICK x \in IssuesOf(RepoOf[i]) : x.n = n /\ x.author = intent[i].bot /\ n \notin outside[i]
    BY DEF PassShape
  <1>3. x \in issues /\ x.repo = RepoOf[i]
    BY <1>2 DEF IssuesOf
  <1>4. x.by # 0
    BY <1>1, <1>2 DEF SeenShape, Knows
  <1>5. CASE x.by = i
    BY <1>2, <1>3, <1>5 DEF IssuesBy
  <1>6. CASE x.by # i
    <2> DEFINE j == x.by
    <2>1. j \in Instances /\ RepoOf[j] = RepoOf[i]
      BY <1>3, <1>4 DEF IssueShape
    <2>2. PICK q \in wire : q.i = j /\ q.fate = "committed"
      BY <1>3, <1>4 DEF IssueShape
    <2>3. intent[j].tries > 0 /\ ~Rejected(j) /\ intent[j].open
      BY <2>2, CommittedIsLast
    <2>4. CASE ~Terminal(j)
      BY <1>6, <2>1, <2>3, <2>4 DEF OneOutstanding, Outstanding
    <2>5. CASE intent[j].outcome = "ambiguous"
      BY <2>1, <2>5 DEF RepositoryAmbiguous
    <2>6. CASE intent[j].outcome = "refused"
      BY <2>1, <2>3, <2>6 DEF IntentShape
    <2>7. CASE intent[j].outcome = "ledgered"
      <3>1. PICK y \in IssuesBy(j) : y.repo = RepoOf[j] /\ y.n = intent[j].issue
        BY <2>1, <2>7 DEF LedgerNamesOwnIssue
      <3>2. x \in IssuesBy(j)
        BY <1>3 DEF IssuesBy
      <3>3. y = x
        BY <2>1, <3>1, <3>2, OnlyOneIssue DEF AtMostOneIssue
      <3> QED BY <1>2, <2>1, <2>7, <3>1, <3>3 DEF FiledIssue
    <2>8. intent[j].outcome \in Outcomes
      BY <2>1, TypeParts DEF GoodLedger, Intent
    <2> QED BY <2>4, <2>5, <2>6, <2>7, <2>8 DEF Outcomes, Terminal
  <1> QED BY <1>5, <1>6

LEMMA AdoptedKept ==
    ASSUME IInv, NEW i \in Instances, Outstanding(i), NEW n \in Nat, Adopted(i, n),
           \E x \in IssuesBy(i) : x.repo = RepoOf[i] /\ x.n = n,
           UNCHANGED <<wire, issues, outside>>
    PROVE  LedgerInv'
  <1> DEFINE e == [intent[i] EXCEPT !.outcome = "ledgered", !.issue = n]
  <1>1. intent[i] \in Intent
    BY TypeParts DEF IInv, GoodLedger
  <1>2. /\ e \in Intent /\ e.open = intent[i].open /\ e.seen = intent[i].seen /\ e.bot = intent[i].bot
        /\ e.tries = intent[i].tries /\ e.last = intent[i].last
        /\ e.outcome = "ledgered" /\ e.issue = n
    BY <1>1 DEF Intent, Outcomes
  <1>3. intent' = [intent EXCEPT ![i] = e]
    BY DEF Adopted
  <1> HIDE DEF e
  <1>4. e.last \in {"definite", "transient"} =>
           \A q \in wire : q.i = i /\ q.try = e.tries => q.fate \in {"definite", "transient"}
    BY <1>2, LastDecides DEF IInv, LedgerInv, RequestShape
  <1>5. e.open
    BY <1>2 DEF Outstanding
  <1> QED BY <1>2, <1>3, <1>4, <1>5, EndKept

\* The marker of a new attempt: those before it were all rejected.
LEMMA StartKept ==
    ASSUME IInv, NEW i \in Instances, Outstanding(i), MayStart(i),
           intent' = [intent EXCEPT ![i].tries = @ + 1, ![i].last = "sent"],
           UNCHANGED <<wire, issues, outside>>
    PROVE  LedgerInv'
  <1> USE DEF IInv, LedgerInv
  <1> DEFINE e == [intent[i] EXCEPT !.tries = @ + 1, !.last = "sent"]
  <1>1. intent[i] \in Intent
    BY TypeParts DEF GoodLedger
  <1>2. /\ e.open = intent[i].open /\ e.seen = intent[i].seen /\ e.bot = intent[i].bot
        /\ e.tries = intent[i].tries + 1 /\ e.last = "sent" /\ e.outcome = intent[i].outcome
        /\ e.issue = intent[i].issue /\ intent[i].tries \in Nat
    BY <1>1 DEF Intent
  <1>3. intent'[i] = e /\ \A j \in Instances \ {i} : intent'[j] = intent[j]
    BY TypeParts DEF GoodLedger
  <1> HIDE DEF e
  <1>4. ~Terminal(i) /\ e.outcome = "none" /\ e.open
    BY <1>2 DEF Outstanding, Terminal
  <1>5. IntentShape'
    BY <1>3, <1>4, LastDecides DEF IntentShape
  <1>6. RequestShape'
    <2>1. \A q \in wire : q.i \in Instances /\ q.try \in Nat /\ intent[q.i].tries \in Nat
      BY TypeParts DEF GoodGitHub, Request, GoodLedger, Intent
    <2>2. ASSUME NEW q \in wire
          PROVE  /\ 0 < q.try /\ q.try <= intent'[q.i].tries
                 /\ q.try < intent'[q.i].tries \/ Rejected(q.i)' => q.fate \in {"definite", "transient"}
      <3>1. CASE q.i = i
        <4>1. 0 < q.try /\ q.try <= intent[i].tries
          BY <3>1 DEF RequestShape
        <4>2. Rejected(i)
          BY <1>2, <2>1, <4>1 DEF MayStart, Rejected
        <4> QED BY <1>2, <1>3, <2>1, <3>1, <4>1, <4>2 DEF RequestShape
      <3>2. CASE q.i # i
        BY <1>3, <2>1, <3>2, LastDecides DEF RequestShape
      <3> QED BY <3>1, <3>2
    <2> QED BY <2>2 DEF RequestShape
  <1>7. Numbering' /\ IssueShape'
    BY DEF Numbering, IssuesOf, IssueShape
  <1>8. SeenShape'
    BY ZenonT(200), <1>2, <1>3 DEF SeenShape, Knows, IssuesOf
  <1>9. OneOutstanding'
    <2>1. \A j \in Instances : Outstanding(j)' => Outstanding(j)
      BY <1>2, <1>3 DEF Outstanding, Terminal
    <2> QED BY <2>1 DEF OneOutstanding
  <1>10. LedgerNamesOwnIssue'
    <2> SUFFICES ASSUME NEW j \in Instances, intent'[j].outcome = "ledgered"
                 PROVE  \E x \in IssuesBy(j)' : x.repo = RepoOf[j] /\ x.n = intent'[j].issue
      BY DEF LedgerNamesOwnIssue
    <2>1. intent'[j] = intent[j]
      BY <1>3, <1>4
    <2>2. IssuesBy(j)' = IssuesBy(j)
      BY DEF IssuesBy
    <2> QED BY <2>1, <2>2 DEF LedgerNamesOwnIssue
  <1> QED BY <1>5, <1>6, <1>7, <1>8, <1>9, <1>10

\* The pre-dispatch set is recorded: it holds the App's older issues.
LEMMA PreDispatchKept ==
    ASSUME IInv, NEW i \in Instances, RecordPreDispatch(i)
    PROVE  LedgerInv'
  <1> USE DEF IInv, LedgerInv
  <1>0. /\ intent' = [intent EXCEPT ![i].seen = at.found, ![i].bot = at.bot]
        /\ UNCHANGED <<wire, issues, outside>>
        /\ Knows(i, at.bot, at.found)
    BY DEF RecordPreDispatch, github, PassShape
  <1>1. \A j \in Instances : /\ intent'[j].open = intent[j].open /\ intent'[j].tries = intent[j].tries
                             /\ intent'[j].last = intent[j].last
                             /\ intent'[j].outcome = intent[j].outcome
                             /\ intent'[j].issue = intent[j].issue
    BY <1>0, TypeParts DEF GoodLedger, Intent
  <1>2. /\ intent'[i].seen = at.found /\ intent'[i].bot = at.bot
        /\ \A j \in Instances \ {i} : intent'[j] = intent[j]
    BY <1>0, TypeParts DEF GoodLedger, Intent
  <1>3. Outstanding(i)
    BY DEF RecordPreDispatch, PassShape, Driven
  <1>4. IntentShape'
    BY <1>1, <1>2, <1>3, LastDecides DEF IntentShape, Outstanding
  <1>5. RequestShape'
    <2>1. \A q \in wire : q.i \in Instances
      BY TypeParts DEF GoodGitHub, Request
    <2>2. \A j \in Instances : Rejected(j)' <=> Rejected(j)
      BY <1>1, LastDecides
    <2>3. ASSUME NEW q \in wire
          PROVE  /\ 0 < q.try /\ q.try <= intent'[q.i].tries
                 /\ q.try < intent'[q.i].tries \/ Rejected(q.i)' => q.fate \in {"definite", "transient"}
      <3>1. q.i \in Instances /\ intent'[q.i].tries = intent[q.i].tries /\ (Rejected(q.i)' <=> Rejected(q.i))
        BY <1>1, <2>1, <2>2
      <3> QED BY <3>1 DEF RequestShape
    <2> QED BY <1>0, <2>3 DEF RequestShape
  <1>6. Numbering' /\ IssueShape'
    BY <1>0 DEF Numbering, IssuesOf, IssueShape
  <1>7. SeenShape'
    BY <1>0, <1>2 DEF SeenShape, Knows, IssuesOf
  <1>8. OneOutstanding'
    <2>1. \A j \in Instances : Outstanding(j)' => Outstanding(j)
      BY <1>1 DEF Outstanding, Terminal
    <2> QED BY <2>1 DEF OneOutstanding
  <1>9. LedgerNamesOwnIssue'
    <2>1. \A j \in Instances : IssuesBy(j)' = IssuesBy(j)
      BY <1>0 DEF IssuesBy
    <2> QED BY <1>1, <2>1 DEF LedgerNamesOwnIssue
  <1> QED BY <1>4, <1>5, <1>6, <1>7, <1>8, <1>9

\* An intent is opened while no other holds the repository.
LEMMA OpenKept ==
    ASSUME IInv, NEW i \in Instances, OpenIntent(i)
    PROVE  LedgerInv'
  <1> USE DEF IInv, LedgerInv
  <1>1. CASE UNCHANGED <<intent, outside>>
    BY <1>1, LedgerKept DEF OpenIntent, github
  <1>2. CASE ~UNCHANGED <<intent, outside>>
    <2>0. /\ intent' = [intent EXCEPT ![i] = Opened] /\ ~Busy(i)
          /\ \E older : outside' = [outside EXCEPT ![i] = older]
          /\ UNCHANGED <<wire, issues>>
          /\ ~intent[i].open
      BY <1>2 DEF OpenIntent, Opened, github, PassShape
    <2>1. intent'[i] = Opened /\ \A j \in Instances \ {i} : intent'[j] = intent[j]
      BY <2>0, TypeParts DEF GoodLedger
    <2>2. \A j \in Instances \ {i} : outside'[j] = outside[j]
      BY <2>0, TypeParts DEF GoodRest
    <2>3. intent[i] = NoIntent
      BY <2>0 DEF IntentShape
    <2>4. IntentShape'
      BY <2>1, OpenedShape, LastDecides DEF IntentShape
    <2>5. RequestShape'
      <3>1. \A q \in wire : q.i \in Instances /\ q.try \in Nat
        BY TypeParts DEF GoodGitHub, Request
      <3>2. \A q \in wire : q.i # i
        BY <2>3, <3>1, OpenedShape DEF RequestShape
      <3> QED BY <2>0, <2>1, <3>1, <3>2, LastDecides DEF RequestShape
    <2>6. Numbering' /\ IssueShape'
      BY <2>0 DEF Numbering, IssuesOf, IssueShape
    <2>7. SeenShape'
      BY <2>0, <2>1, <2>2, OpenedShape, ConstantFacts DEF SeenShape, Knows, IssuesOf
    <2>8. OneOutstanding'
      BY <2>0, <2>1 DEF OneOutstanding, Outstanding, Terminal, Busy
    <2>9. LedgerNamesOwnIssue'
      BY <2>0, <2>1, OpenedShape DEF LedgerNamesOwnIssue, IssuesBy
    <2> QED BY <2>4, <2>5, <2>6, <2>7, <2>8, <2>9
  <1> QED BY <1>1, <1>2

\* The create goes on the wire under its own attempt.
LEMMA SendKept ==
    ASSUME IInv, NEW i \in Instances, Send(i)
    PROVE  LedgerInv'
  <1> USE DEF IInv, LedgerInv
  <1> DEFINE new == [i |-> i, try |-> intent[i].tries, as |-> at.as, fate |-> "sent"]
  <1>0. /\ wire' = wire \cup {new} /\ UNCHANGED <<issues, intent, outside>>
        /\ new.i = i /\ new.try = intent[i].tries /\ new.fate = "sent"
        /\ at.step = "send" /\ at.i = i
    BY DEF Send, ledger
  <1>1. intent[i].last = "sent" /\ \A q \in wire : q.i = i => q.try # intent[i].tries
    BY <1>0 DEF PassShape
  <1>2. intent[i].tries \in Nat /\ intent[i].tries # 0
    BY <1>1, TypeParts DEF GoodLedger, GoodIntent, Intent
  <1> HIDE DEF new
  <1>3. ~Rejected(i)
    BY <1>1, LastDecides
  <1>4. RequestShape'
    <2>1. \A j \in Instances : Rejected(j)' <=> Rejected(j)
      BY <1>0, LastDecides
    <2>2. \A q \in wire : q.i \in Instances
      BY TypeParts DEF GoodGitHub, Request
    <2>3. ASSUME NEW q \in wire'
          PROVE  /\ 0 < q.try /\ q.try <= intent'[q.i].tries
                 /\ q.try < intent'[q.i].tries \/ Rejected(q.i)' => q.fate \in {"definite", "transient"}
      <3>1. CASE q = new
        BY <1>0, <1>2, <1>3, <2>1, <3>1
      <3>2. CASE q \in wire
        BY <1>0, <2>1, <2>2, <3>2 DEF RequestShape
      <3> QED BY <1>0, <3>1, <3>2
    <2>4. ASSUME NEW p \in wire', NEW q \in wire', p.i = q.i, p.try = q.try PROVE p = q
      BY <1>0, <1>1, <2>4 DEF RequestShape
    <2> QED BY <2>3, <2>4 DEF RequestShape
  <1>5. IssueShape'
    <2>1. \A q \in wire' : q.fate = "committed" => q \in wire
      BY <1>0
    <2>2. wire \subseteq wire'
      BY <1>0
    <2> QED BY <1>0, <2>1, <2>2 DEF IssueShape
  <1>6. IntentShape' /\ Numbering' /\ SeenShape'
    BY <1>0, LastDecides DEF IntentShape, Numbering, IssuesOf, SeenShape, Knows
  <1>7. OneOutstanding' /\ LedgerNamesOwnIssue'
    BY <1>0 DEF OneOutstanding, Outstanding, Terminal, LedgerNamesOwnIssue, IssuesBy
  <1> QED BY <1>4, <1>5, <1>6, <1>7

\* A request is decided: its fate changes and nothing else of it.
LEMMA DecidedRequest ==
    ASSUME TypeOK, RequestShape, NEW q \in wire, q.fate = "sent", NEW f \in Fates,
           wire' = (wire \ {q}) \cup {[q EXCEPT !.fate = f]}, UNCHANGED intent
    PROVE  /\ RequestShape'
           /\ \A p \in wire : p # q => p \in wire'
           /\ \E d \in wire' : d.i = q.i /\ d.try = q.try /\ d.fate = f
           /\ \A p \in wire' : p \in wire \ {q} \/ (p.i = q.i /\ p.try = q.try /\ p.fate = f)
  <1> DEFINE d == [q EXCEPT !.fate = f]
  <1>1. q \in Request
    BY TypeParts DEF GoodGitHub
  <1>2. d.i = q.i /\ d.try = q.try /\ d.fate = f
    BY <1>1 DEF Request
  <1>3. wire' = (wire \ {q}) \cup {d}
    OBVIOUS
  <1> HIDE DEF d
  <1>4. q.try = intent[q.i].tries /\ ~Rejected(q.i)
    BY CommittedIsLast
  <1>5. \A p \in wire : p.i \in Instances
    BY TypeParts DEF GoodGitHub, Request
  <1>6. \A j \in Instances : Rejected(j)' <=> Rejected(j)
    BY LastDecides
  <1>7. ASSUME NEW p \in wire'
        PROVE  /\ 0 < p.try /\ p.try <= intent'[p.i].tries
               /\ p.try < intent'[p.i].tries \/ Rejected(p.i)' => p.fate \in {"definite", "transient"}
    <2>1. CASE p = d
      <3>1. intent[q.i].tries \in Nat
        BY <1>5, TypeParts DEF GoodLedger, Intent
      <3>2. ~Rejected(q.i)'
        BY <1>4, <1>5, <1>6
      <3> QED BY <1>2, <1>4, <2>1, <3>1, <3>2 DEF RequestShape
    <2>2. CASE p \in wire
      BY <1>5, <1>6, <2>2 DEF RequestShape
    <2> QED BY <1>3, <2>1, <2>2
  <1>8. ASSUME NEW p \in wire', NEW r \in wire', p.i = r.i, p.try = r.try PROVE p = r
    BY <1>2, <1>3, <1>8 DEF RequestShape
  <1>9. RequestShape'
    BY <1>7, <1>8 DEF RequestShape
  <1> QED BY <1>2, <1>3, <1>9

LEMMA RejectKept ==
    ASSUME IInv, NEW q \in wire, NEW class \in {"definite", "transient"}, Reject(q, class)
    PROVE  LedgerInv'
  <1> USE DEF IInv, LedgerInv
  <1>0. /\ UNCHANGED <<issues, intent, outside>>
        /\ q.fate = "sent" /\ wire' = (wire \ {q}) \cup {[q EXCEPT !.fate = class]}
        /\ class \in Fates
    BY DEF Reject, ledger, Fates
  <1>1. RequestShape'
    BY <1>0, DecidedRequest
  <1>2. IssueShape'
    <2>1. \A p \in wire : p.fate = "committed" => p \in wire'
      BY <1>0
    <2>2. \A p \in wire' : p.fate = "committed" => p \in wire
      BY <1>0, DecidedRequest
    <2> QED BY <1>0, <2>1, <2>2 DEF IssueShape
  <1>3. IntentShape' /\ Numbering' /\ SeenShape'
    BY <1>0, LastDecides DEF IntentShape, Numbering, IssuesOf, SeenShape, Knows
  <1>4. OneOutstanding' /\ LedgerNamesOwnIssue'
    BY <1>0 DEF OneOutstanding, Outstanding, Terminal, LedgerNamesOwnIssue, IssuesBy
  <1> QED BY <1>1, <1>2, <1>3, <1>4

\* The executed create's issue is the next of its repository.
LEMMA CommitShape ==
    ASSUME IInv, NEW q \in wire, Commit(q)
    PROVE  \E x : /\ issues' = issues \cup {x} /\ x \notin issues
                  /\ x.repo = RepoOf[q.i] /\ x.by = q.i /\ x.try = q.try
                  /\ x.n \in Nat /\ 0 < x.n /\ x.n = Cardinality(IssuesOf(RepoOf[q.i])) + 1
                  /\ \A y \in IssuesOf(RepoOf[q.i]) : y.n < x.n
                  /\ Cardinality(IssuesOf(RepoOf[q.i]))' = x.n
                  /\ IsFiniteSet(IssuesOf(RepoOf[q.i]))'
                  /\ \A j \in Instances :
                        /\ outside[j] \subseteq outside'[j]
                        /\ outside'[j] \subseteq outside[j] \cup {x.n}
                        /\ j # q.i => outside'[j] = outside[j]
  <1> USE DEF IInv, LedgerInv
  <1> DEFINE r == RepoOf[q.i]
             n == Cardinality(IssuesOf(r)) + 1
             x == [repo |-> r, n |-> n, author |-> q.as, by |-> q.i, try |-> q.try]
  <1>1. issues' = issues \cup {x}
    BY DEF Commit
  <1>2. PICK ahead \in BOOLEAN :
          outside' = [outside EXCEPT ![q.i] = IF ahead THEN @ \cup {n} ELSE @]
    BY DEF Commit
  <1>3. IsFiniteSet(IssuesOf(r))
    BY CommittedIsLast, ConstantFacts DEF Commit, Numbering
  <1>4. Cardinality(IssuesOf(r)) \in Nat
    BY <1>3, FS_CardinalityType
  <1>5. x.repo = r /\ x.n = n /\ x.by = q.i /\ x.try = q.try
    OBVIOUS
  <1> HIDE DEF x
  <1>6. \A y \in IssuesOf(r) : y.n < n
    <2> SUFFICES ASSUME NEW y \in IssuesOf(r) PROVE y.n < n
      OBVIOUS
    <2>1. y \in issues /\ y.repo = r
      BY DEF IssuesOf
    <2>2. y.n \in Nat
      BY <2>1, TypeParts DEF GoodGitHub, Issue
    <2>3. y.n <= Cardinality(IssuesOf(r))
      BY <2>1 DEF Numbering
    <2> QED BY <1>4, <2>2, <2>3
  <1>7. x \notin issues
    <2> SUFFICES ASSUME x \in issues PROVE FALSE
      OBVIOUS
    <2>1. x \in IssuesOf(r)
      BY <1>5 DEF IssuesOf
    <2> QED BY <1>4, <1>5, <1>6, <2>1
  <1>8. IssuesOf(r)' = IssuesOf(r) \cup {x}
    BY <1>1, <1>5 DEF IssuesOf
  <1>9. Cardinality(IssuesOf(r)') = n /\ IsFiniteSet(IssuesOf(r)')
    <2>1. x \notin IssuesOf(r)
      BY <1>7 DEF IssuesOf
    <2> QED BY <1>1, <1>3, <1>8, <2>1, FS_AddElement
  <1>10. ASSUME NEW j \in Instances
         PROVE  /\ outside[j] \subseteq outside'[j]
                /\ outside'[j] \subseteq outside[j] \cup {n}
                /\ j # q.i => outside'[j] = outside[j]
    <2> HIDE DEF n
    <2> QED BY <1>2, TypeParts DEF GoodRest
  <1> QED BY <1>1, <1>4, <1>5, <1>6, <1>7, <1>9, <1>10

LEMMA CommitKept ==
    ASSUME IInv, NEW q \in wire, Commit(q)
    PROVE  LedgerInv'
  <1> USE DEF IInv, LedgerInv
  <1>0. /\ UNCHANGED intent /\ q.fate = "sent"
        /\ wire' = (wire \ {q}) \cup {[q EXCEPT !.fate = "committed"]}
        /\ "committed" \in Fates
    BY DEF Commit, Fates
  <1>1. PICK x : /\ issues' = issues \cup {x} /\ x \notin issues
                 /\ x.repo = RepoOf[q.i] /\ x.by = q.i /\ x.try = q.try
                 /\ x.n \in Nat /\ 0 < x.n /\ x.n = Cardinality(IssuesOf(RepoOf[q.i])) + 1
                 /\ \A y \in IssuesOf(RepoOf[q.i]) : y.n < x.n
                 /\ Cardinality(IssuesOf(RepoOf[q.i]))' = x.n
                 /\ IsFiniteSet(IssuesOf(RepoOf[q.i]))'
                 /\ \A j \in Instances :
                       /\ outside[j] \subseteq outside'[j]
                       /\ outside'[j] \subseteq outside[j] \cup {x.n}
                       /\ j # q.i => outside'[j] = outside[j]
    BY CommitShape
  <1>2. q.i \in Instances /\ q.i # 0
    BY CommittedIsLast, <1>0, ConstantFacts
  <1>3. RequestShape'
    BY <1>0, DecidedRequest
  <1>4. Numbering'
    <2>1. ASSUME NEW y \in issues' PROVE 0 < y.n /\ y.n <= Cardinality(IssuesOf(y.repo))'
      <3>1. CASE y = x
        BY <1>1, <3>1
      <3>2. CASE y \in issues /\ y.repo # x.repo
        <4>1. IssuesOf(y.repo)' = IssuesOf(y.repo)
          BY <1>1, <3>2 DEF IssuesOf
        <4> QED BY <3>2, <4>1 DEF Numbering
      <3>3. CASE y \in issues /\ y.repo = x.repo
        <4>1. y \in IssuesOf(RepoOf[q.i])
          BY <1>1, <3>3 DEF IssuesOf
        <4>2. y.n \in Nat
          BY <3>3, TypeParts DEF GoodGitHub, Issue
        <4>3. 0 < y.n
          BY <3>3 DEF Numbering
        <4> QED BY <1>1, <3>3, <4>1, <4>2, <4>3
      <3> QED BY <1>1, <2>1, <3>1, <3>2, <3>3
    <2>2. ASSUME NEW y \in issues', NEW z \in issues', y.repo = z.repo, y.n = z.n PROVE y = z
      <3>1. \A w \in issues : w.repo = x.repo => w.n # x.n
        <4> SUFFICES ASSUME NEW w \in issues, w.repo = x.repo PROVE w.n # x.n
          OBVIOUS
        <4>1. w.n < x.n
          BY <1>1 DEF IssuesOf
        <4>2. w.n \in Nat
          BY TypeParts DEF GoodGitHub, Issue
        <4> QED BY <1>1, <4>1, <4>2
      <3> QED BY <1>1, <2>2, <3>1 DEF Numbering
    <2>3. ASSUME NEW r \in Repos PROVE IsFiniteSet(IssuesOf(r))'
      <3>1. CASE r = x.repo
        BY <1>1, <3>1
      <3>2. CASE r # x.repo
        <4>1. IssuesOf(r)' = IssuesOf(r)
          BY <1>1, <3>2 DEF IssuesOf
        <4> QED BY <4>1 DEF Numbering
      <3> QED BY <3>1, <3>2
    <2> QED BY <2>1, <2>2, <2>3 DEF Numbering
  <1>5. IssueShape'
    <2>1. \A y \in issues : ~(y.by = q.i /\ y.try = q.try)
      BY <1>0, <1>2 DEF IssueShape, RequestShape
    <2>2. \A p \in wire : p.fate = "committed" => p \in wire'
      BY <1>0
    <2>3. \E d \in wire' : d.i = q.i /\ d.try = q.try /\ d.fate = "committed"
      BY <1>0, DecidedRequest
    <2>4. \A p \in wire' : p \in wire \/ (p.i = q.i /\ p.try = q.try)
      BY <1>0, DecidedRequest
    <2>5. ASSUME NEW y \in issues', y.by # 0
          PROVE  /\ y.by \in Instances /\ y.repo = RepoOf[y.by]
                 /\ \E p \in wire' : p.i = y.by /\ p.try = y.try /\ p.fate = "committed"
      <3>1. CASE y = x
        BY <1>1, <1>2, <2>3, <3>1
      <3>2. CASE y \in issues
        BY <2>2, <2>5, <3>2 DEF IssueShape
      <3> QED BY <1>1, <3>1, <3>2
    <2>6. ASSUME NEW y \in issues', NEW z \in issues', y.by = z.by, y.by # 0, y.try = z.try
          PROVE  y = z
      BY <1>1, <2>1, <2>6 DEF IssueShape
    <2>7. ASSUME NEW p \in wire', p.fate = "committed"
          PROVE  \E y \in issues' : y.by = p.i /\ y.try = p.try
      BY <1>1, <2>4, <2>7 DEF IssueShape
    <2> QED BY <2>5, <2>6, <2>7 DEF IssueShape
  <1>6. IntentShape'
    BY <1>0, LastDecides DEF IntentShape
  <1>7. SeenShape'
    <2> SUFFICES ASSUME NEW i \in Instances, intent[i].bot \in Apps,
                        NEW y \in IssuesOf(RepoOf[i])', y.by = 0, y.author = intent[i].bot
                 PROVE  y.n \in intent[i].seen \cup outside'[i]
      BY <1>0 DEF SeenShape, Knows
    <2>1. y \in IssuesOf(RepoOf[i])
      BY <1>1, <1>2 DEF IssuesOf
    <2> QED BY <1>1, <2>1 DEF SeenShape, Knows
  <1>8. OneOutstanding'
    BY <1>0 DEF OneOutstanding, Outstanding, Terminal
  <1>9. LedgerNamesOwnIssue'
    <2>1. \A i \in Instances : IssuesBy(i) \subseteq IssuesBy(i)'
      BY <1>1 DEF IssuesBy
    <2> QED BY <1>0, <2>1 DEF LedgerNamesOwnIssue
  <1> QED BY <1>3, <1>4, <1>5, <1>6, <1>7, <1>8, <1>9

-----------------------------------------------------------------------------
(* What the pass has read stays true until it is used.                     *)

LEMMA NoneDriven ==
    ASSUME at'.step \in {"down", "idle", "drive"}
    PROVE  PassShape'
  BY DEF PassShape, Driven

LEMMA TurnOver ==
    ASSUME NEW i \in Instances, Finished(i) \/ Failed(i) \/ Ambiguous(i)
    PROVE  PassShape'
  BY NoneDriven DEF Finished, Failed, Ambiguous, NoDrive

LEMMA PassKept ==
    ASSUME PassShape, UNCHANGED <<at, intent, wire, issues, outside>>
    PROVE  PassShape'
  BY DEF PassShape, Driven, Outstanding, Terminal, Knows, IssuesOf

LEMMA CommitPass ==
    ASSUME IInv, NEW q \in wire, Commit(q)
    PROVE  PassShape'
  <1> USE DEF IInv, LedgerInv
  <1>0. UNCHANGED <<at, intent>> /\ q.fate = "sent"
        /\ wire' = (wire \ {q}) \cup {[q EXCEPT !.fate = "committed"]} /\ "committed" \in Fates
    BY DEF Commit, pass, Fates
  <1>1. PICK x : /\ issues' = issues \cup {x}
                 /\ x.repo = RepoOf[q.i] /\ x.by = q.i /\ x.n \in Nat
                 /\ \A y \in IssuesOf(RepoOf[q.i]) : y.n < x.n
                 /\ \A j \in Instances :
                       /\ outside[j] \subseteq outside'[j]
                       /\ outside'[j] \subseteq outside[j] \cup {x.n}
                       /\ j # q.i => outside'[j] = outside[j]
    BY CommitShape
  <1>2. q.i \in Instances /\ q.i # 0
    BY CommittedIsLast, <1>0, ConstantFacts
  <1>3. at.step = "record" => Knows(at.i, at.bot, at.found)'
    <2> SUFFICES ASSUME at.step = "record",
                        NEW y \in IssuesOf(RepoOf[at.i])', y.by = 0, y.author = at.bot
                 PROVE  y.n \in at.found \cup outside'[at.i]
      BY <1>0 DEF Knows
    <2>1. at.i \in Instances /\ Knows(at.i, at.bot, at.found)
      BY DEF PassShape, Driven
    <2>2. y \in IssuesOf(RepoOf[at.i])
      BY <1>0, <1>1, <1>2 DEF IssuesOf
    <2> QED BY <1>1, <2>1, <2>2 DEF Knows
  <1>4. at.step = "send" => \A p \in wire' : p.i = at.i => p.try # intent[at.i].tries
    <2>1. \A p \in wire' : \E r \in wire : r.i = p.i /\ r.try = p.try
      BY <1>0, DecidedRequest
    <2> QED BY <2>1 DEF PassShape
  <1>5. at.step = "adopt" => \A n \in at.found :
            \E y \in IssuesOf(RepoOf[at.i])' :
                y.n = n /\ y.author = intent[at.i].bot /\ n \notin outside'[at.i]
    <2> SUFFICES ASSUME at.step = "adopt", NEW n \in at.found
                 PROVE  \E y \in IssuesOf(RepoOf[at.i])' :
                          y.n = n /\ y.author = intent[at.i].bot /\ n \notin outside'[at.i]
      OBVIOUS
    <2>1. at.i \in Instances
      BY DEF PassShape, Driven
    <2>2. PICK y \in IssuesOf(RepoOf[at.i]) :
            y.n = n /\ y.author = intent[at.i].bot /\ n \notin outside[at.i]
      BY DEF PassShape
    <2>3. y \in IssuesOf(RepoOf[at.i])'
      BY <1>0, <1>1, <2>2 DEF IssuesOf
    <2>4. n \notin outside'[at.i]
      <3>1. CASE at.i = q.i
        <4>1. n < x.n
          BY <1>1, <2>2, <3>1
        <4>2. n \in Nat
          BY <2>2, TypeParts DEF IssuesOf, GoodGitHub, Issue
        <4> QED BY <1>1, <2>1, <2>2, <4>1, <4>2
      <3>2. CASE at.i # q.i
        BY <1>1, <2>1, <2>2, <3>2
      <3> QED BY <3>1, <3>2
    <2> QED BY <2>2, <2>3, <2>4
  <1> QED BY <1>0, <1>3, <1>4, <1>5 DEF PassShape, Driven, Outstanding, Terminal

LEMMA RejectPass ==
    ASSUME IInv, NEW q \in wire, NEW class \in {"definite", "transient"}, Reject(q, class)
    PROVE  PassShape'
  <1> USE DEF IInv, LedgerInv
  <1>0. /\ UNCHANGED <<at, issues, intent, outside>>
        /\ q.fate = "sent" /\ wire' = (wire \ {q}) \cup {[q EXCEPT !.fate = class]}
        /\ class \in Fates
    BY DEF Reject, ledger, pass, Fates
  <1>1. at.step = "send" => \A p \in wire' : p.i = at.i => p.try # intent[at.i].tries
    <2>1. \A p \in wire' : \E r \in wire : r.i = p.i /\ r.try = p.try
      BY <1>0, DecidedRequest
    <2> QED BY <2>1 DEF PassShape
  <1> QED BY <1>0, <1>1 DEF PassShape, Driven, Outstanding, Terminal, Knows, IssuesOf

\* A filing goes on from its durable state.
LEMMA ContinuePass ==
    ASSUME TypeOK, NEW i \in Instances, Continue(i), intent[i].open, UNCHANGED intent
    PROVE  PassShape'
  <1>1. CASE Finished(i)
    BY <1>1, TurnOver
  <1>2. CASE ~Terminal(i) /\ \E step \in {"check", "settle", "refuse"} :
                  at' = [NoDrive EXCEPT !.step = step, !.i = i]
    BY <1>2 DEF PassShape, Driven, NoDrive, Outstanding, Terminal
  <1> QED BY <1>1, <1>2, ContinueShape, TypeParts

\* A step of the filing keeps what the later steps rely on.
LEMMA DispatchPass ==
    ASSUME IInv, NEW i \in Instances, Dispatch(i)
    PROVE  PassShape'
  <1> USE DEF IInv, LedgerInv
  <1>0. at \in Position /\ registered[RepoOf[i]] \in Apps
        /\ intent \in [Instances -> Intent]
    BY TypeParts, ConstantFacts DEF GoodPass, GoodWorld, GoodLedger
  <1>x. ASSUME ExchangeFails(i) PROVE PassShape'
    BY <1>x, TurnOver DEF ExchangeFails
  <1>o. ASSUME Driven, at.i = i, at.step \notin {"open", "retire"} PROVE Outstanding(i)
    BY <1>o DEF PassShape
  <1>1. CASE Precheck(i)
    <2>1. Outstanding(i) /\ at.i = i
      BY <1>1, <1>o DEF Precheck, Driven
    <2>2. CASE Then("refuse") /\ UNCHANGED ledger
      BY <1>0, <2>1, <2>2 DEF Then, ledger, Position, PassShape, Driven, Outstanding, Terminal
    <2>3. CASE /\ intent[i].bot # "unknown"
               /\ at' = [at EXCEPT !.bot = registered[RepoOf[i]],
                            !.step = IF intent[i].bot = "none" THEN "list" ELSE "build"]
               /\ UNCHANGED ledger
      <3>1. intent[i].bot \in Apps \cup {"none", "unknown"}
        BY <1>0 DEF Intent, Identities
      <3> QED BY <1>0, <2>1, <2>3, <3>1
              DEF ledger, Position, PassShape, Driven, Outstanding, Terminal
    <2> QED BY <1>1, <1>x, <2>2, <2>3 DEF Precheck
  <1>2. CASE ListBefore(i)
    <2>1. ASSUME NEW listed \in Listing(RepoOf[i], at.bot, i),
                 at' = [at EXCEPT !.step = "record", !.found = Numbers(listed)],
                 UNCHANGED <<github, ledger>>
          PROVE  PassShape'
      <3>1. Outstanding(i) /\ at.i = i /\ intent[i].bot = "none" /\ at.bot \in Apps
        BY <1>2, <1>o DEF ListBefore, Driven, PassShape
      <3>2. Knows(i, at.bot, Numbers(listed))
        BY DEF Knows, Listing, Numbers
      <3>3. /\ at'.step = "record" /\ at'.i = i /\ at'.bot = at.bot
            /\ at'.found = Numbers(listed)
        BY <1>0, <2>1, <3>1 DEF Position
      <3>4. Knows(i, at.bot, Numbers(listed))'
        BY <2>1, <3>2, <3>3 DEF Knows, IssuesOf, github, ledger
      <3> QED BY <2>1, <3>1, <3>3, <3>4
              DEF ledger, PassShape, Driven, Outstanding, Terminal
    <2> QED BY <1>2, <1>x, <2>1 DEF ListBefore
  <1>3. CASE RecordPreDispatch(i)
    <2>1. Outstanding(i) /\ at.i = i /\ at.bot \in Apps
      BY <1>3, <1>o DEF RecordPreDispatch, Driven, PassShape
    <2>2. at'.step = "build" /\ at'.i = i
      BY <1>0, <1>3, <2>1 DEF RecordPreDispatch, Then, Position
    <2>3. /\ intent'[i].bot = at.bot /\ intent'[i].open = intent[i].open
          /\ intent'[i].outcome = intent[i].outcome
      BY <1>0, <1>3 DEF RecordPreDispatch, Intent
    <2> QED BY <2>1, <2>2, <2>3 DEF PassShape, Driven, Outstanding, Terminal
  <1>4. CASE BuildRequest(i)
    <2>1. ASSUME at' = [at EXCEPT !.step = "confirm", !.as = registered[RepoOf[i]]],
                 UNCHANGED ledger
          PROVE  PassShape'
      <3>1. Outstanding(i) /\ at.i = i /\ intent[i].bot \in Apps
        BY <1>4, <1>o DEF BuildRequest, Driven, PassShape
      <3>2. at'.step = "confirm" /\ at'.i = i /\ at'.as = registered[RepoOf[i]]
        BY <1>0, <2>1, <3>1 DEF Position
      <3> QED BY <1>0, <2>1, <3>1, <3>2 DEF ledger, PassShape, Driven, Outstanding, Terminal
    <2> QED BY <1>4, <1>x, <2>1 DEF BuildRequest
  <1>5. CASE ConfirmIdentity(i)
    <2>1. ASSUME at' = [at EXCEPT !.bot = registered[RepoOf[i]],
                    !.step = IF registered[RepoOf[i]] = intent[i].bot THEN "mark" ELSE "refuse"],
                 UNCHANGED ledger
          PROVE  PassShape'
      <3>1. Outstanding(i) /\ at.i = i /\ intent[i].bot \in Apps /\ at.as \in Apps
        BY <1>5, <1>o DEF ConfirmIdentity, Driven, PassShape
      <3>2. at'.step \in {"mark", "refuse"} /\ at'.i = i /\ at'.as = at.as
        BY <1>0, <2>1, <3>1 DEF Position
      <3> QED BY <2>1, <3>1, <3>2 DEF ledger, PassShape, Driven, Outstanding, Terminal
    <2> QED BY <1>5, <1>x, <2>1 DEF ConfirmIdentity
  <1>6. CASE StartAttempt(i)
    <2>1. CASE Finished(i) \/ Failed(i)
      BY <2>1, TurnOver
    <2>2. CASE /\ intent' = [intent EXCEPT ![i].tries = @ + 1, ![i].last = "sent"]
               /\ Then("send") /\ UNCHANGED github
      <3>1. Outstanding(i) /\ at.i = i /\ intent[i].bot \in Apps /\ at.as \in Apps
        BY <1>6, <1>o DEF StartAttempt, Driven, PassShape
      <3>2. at'.step = "send" /\ at'.i = i /\ at'.as = at.as
        BY <1>0, <2>2, <3>1 DEF Then, Position
      <3>3. /\ intent'[i].bot = intent[i].bot /\ intent'[i].open = intent[i].open
            /\ intent'[i].outcome = intent[i].outcome /\ intent'[i].last = "sent"
            /\ intent'[i].tries = intent[i].tries + 1 /\ intent[i].tries \in Nat
        BY <1>0, <2>2 DEF Intent
      <3>4. \A q \in wire' : q.i = i => q.try # intent'[i].tries
        <4>1. \A q \in wire : q.try \in Nat /\ (q.i = i => q.try <= intent[i].tries)
          BY TypeParts DEF GoodGitHub, Request, RequestShape
        <4> QED BY <2>2, <3>3, <4>1 DEF github
      <3> QED BY <3>1, <3>2, <3>3, <3>4 DEF PassShape, Driven, Outstanding, Terminal
    <2> QED BY <1>6, <2>1, <2>2 DEF StartAttempt
  <1>7. CASE Send(i)
    <2>1. Outstanding(i) /\ at.i = i /\ intent[i].bot \in Apps /\ at.as \in Apps
          /\ intent[i].last = "sent"
      BY <1>7, <1>o DEF Send, Driven, PassShape
    <2>2. at'.step = "await" /\ at'.i = i /\ at'.as = at.as
      BY <1>0, <1>7, <2>1 DEF Send, Then, Position
    <2>3. UNCHANGED intent
      BY <1>7 DEF Send, ledger
    <2> QED BY <2>1, <2>2, <2>3 DEF PassShape, Driven, Outstanding, Terminal
  <1>8. CASE Answer(i)
    BY <1>8, AnswerShape, TurnOver DEF Recorded
  <1> QED BY <1>1, <1>2, <1>3, <1>4, <1>5, <1>6, <1>7, <1>8 DEF Dispatch

LEMMA SettlingPass ==
    ASSUME IInv, NEW i \in Instances, Settling(i)
    PROVE  PassShape'
  <1> USE DEF IInv, LedgerInv
  <1>0. at \in Position
    BY TypeParts DEF GoodPass
  <1>f. ASSUME ListingFails(i) PROVE PassShape'
    BY <1>f, TurnOver DEF ListingFails
  <1>o. ASSUME Driven, at.i = i, at.step \notin {"open", "retire"} PROVE Outstanding(i)
    BY <1>o DEF PassShape
  <1>1. CASE Settle(i)
    <2>1. CASE Finished(i) \/ Ambiguous(i)
      BY <2>1, TurnOver
    <2>2. CASE Then("target") /\ UNCHANGED intent
      <3>1. Outstanding(i) /\ at.i = i
        BY <1>1, <1>o DEF Settle, Driven
      <3> QED BY <1>0, <2>2, <3>1 DEF Then, Position, PassShape, Driven, Outstanding, Terminal
    <2> QED BY <1>1, <2>1, <2>2 DEF Settle
  <1>2. CASE ResolveTarget(i)
    <2>1. CASE Ambiguous(i)
      BY <2>1, TurnOver
    <2>2. CASE /\ at' = [at EXCEPT !.bot = registered[RepoOf[i]], !.step = "candidates"]
               /\ registered[RepoOf[i]] = intent[i].bot
               /\ UNCHANGED intent
      <3>1. Outstanding(i) /\ at.i = i /\ registered[RepoOf[i]] \in Apps
        BY <1>2, <1>o, TypeParts, ConstantFacts DEF ResolveTarget, Driven, GoodWorld
      <3>2. at'.step = "candidates" /\ at'.i = i /\ at'.bot = intent[i].bot
        BY <1>0, <2>2, <3>1 DEF Position
      <3> QED BY <2>2, <3>1, <3>2 DEF PassShape, Driven, Outstanding, Terminal
    <2> QED BY <1>2, <1>f, <2>1, <2>2 DEF ResolveTarget
  <1>3. CASE ListCandidates(i)
    <2>1. ASSUME NEW listed \in Listing(RepoOf[i], at.bot, i),
                 at' = [at EXCEPT !.step = "adopt",
                    !.found = {x.n : x \in {y \in listed :
                        Admits(y, at.bot, i) /\ ~FiledIssue(RepoOf[i], y.n)}}],
                 UNCHANGED <<github, ledger>>
          PROVE  PassShape'
      <3> DEFINE found == {x.n : x \in {y \in listed :
                             Admits(y, at.bot, i) /\ ~FiledIssue(RepoOf[i], y.n)}}
      <3>1. /\ Outstanding(i) /\ at.i = i
            /\ intent[i].bot \in Apps /\ at.bot = intent[i].bot
        BY <1>3, <1>o DEF ListCandidates, Driven, PassShape
      <3>2. \A n \in found : \E x \in IssuesOf(RepoOf[i]) :
              x.n = n /\ x.author = intent[i].bot /\ n \notin outside[i]
        BY <3>1 DEF Listing, Admits
      <3>3. at' = [at EXCEPT !.step = "adopt", !.found = found]
        BY <2>1
      <3> HIDE DEF found
      <3>4. at'.step = "adopt" /\ at'.i = i /\ at'.found = found
        BY <1>0, <3>1, <3>3 DEF Position
      <3>5. UNCHANGED <<issues, intent, outside>>
        BY <2>1 DEF github, ledger
      <3> QED BY <3>1, <3>2, <3>4, <3>5 DEF PassShape, Driven, Outstanding, Terminal, IssuesOf
    <2> QED BY <1>3, <1>f, <2>1 DEF ListCandidates
  <1>4. CASE Adopt(i)
    BY <1>4, TurnOver DEF Adopt
  <1> QED BY <1>1, <1>2, <1>3, <1>4 DEF Settling

-----------------------------------------------------------------------------
(* The invariant.                                                          *)

LEMMA InitIInv == Init => IInv
  <1> SUFFICES ASSUME Init PROVE IInv
    OBVIOUS
  <1> USE ConstantFacts
  <1>1. PICK a \in Apps : registered = [r \in Repos |-> a]
    BY DEF Init
  <1>2. PICK last \in [Legacy -> {"none", "sent", "transient", "unproven"}] :
          /\ intent = [i \in Instances |->
                          IF i \in Legacy THEN LegacyIntent(last[i]) ELSE NoIntent]
          /\ wire = {[i |-> i, try |-> 1, as |-> registered[RepoOf[i]], fate |-> "sent"] :
                          i \in {j \in Legacy : last[j] \in {"sent", "unproven"}}}
    BY DEF Init
  <1>3. /\ registered \in [Repos -> Apps] /\ Legacy \subseteq Instances
        /\ \A r \in Repos : registered[r] \in Apps
    BY <1>1, LegacyIntents
  <1>4. ASSUME NEW i \in Instances
        PROVE  /\ intent[i] = NoIntent \/ (i \in Legacy /\ intent[i] = LegacyIntent(last[i]))
               /\ i \in Legacy => intent[i] = LegacyIntent(last[i])
    BY <1>2
  <1>5. ASSUME NEW l \in {"none", "sent", "transient", "unproven"}
        PROVE  /\ LegacyIntent(l) \in Intent /\ LegacyIntent(l).open
               /\ LegacyIntent(l).bot = "unknown" /\ LegacyIntent(l).last = l
               /\ LegacyIntent(l).tries = IF l = "none" THEN 0 ELSE 1
               /\ LegacyIntent(l).outcome = "none" /\ LegacyIntent(l).issue = 0
    <2> DEFINE k == IF l = "none" THEN 0 ELSE 1
    <2>1. LegacyIntent(l) = [NoIntent EXCEPT !.open = TRUE, !.bot = "unknown", !.last = l, !.tries = k]
      BY DEF LegacyIntent
    <2>2. k \in Nat
      OBVIOUS
    <2> HIDE DEF k
    <2>3. /\ LegacyIntent(l) \in Intent /\ LegacyIntent(l).open
          /\ LegacyIntent(l).bot = "unknown" /\ LegacyIntent(l).last = l
          /\ LegacyIntent(l).tries = k /\ LegacyIntent(l).outcome = NoIntent.outcome
          /\ LegacyIntent(l).issue = NoIntent.issue
      BY <2>1, <2>2, OpenedShape DEF Intent, Identities, Classes
    <2> QED BY <2>3, OpenedShape DEF k
  <1>a. ASSUME NEW i \in Instances
        PROVE  \/ intent[i] = NoIntent
               \/ /\ i \in Legacy /\ intent[i].open /\ intent[i].bot = "unknown"
                  /\ intent[i].outcome = "none"
    <2>1. CASE i \in Legacy
      <3>1. last[i] \in {"none", "sent", "transient", "unproven"} /\ intent[i] = LegacyIntent(last[i])
        BY <1>4, <2>1
      <3> QED BY <1>5, <2>1, <3>1
    <2>2. CASE i \notin Legacy
      BY <1>4, <2>2
    <2> QED BY <2>1, <2>2
  <1>6. ASSUME NEW q \in wire
        PROVE  /\ q \in Request /\ q.i \in Legacy /\ q.try = 1 /\ q.fate = "sent"
               /\ q = [i |-> q.i, try |-> 1, as |-> registered[RepoOf[q.i]], fate |-> "sent"]
               /\ last[q.i] \in {"sent", "unproven"}
    BY <1>2, <1>3 DEF Request, Fates
  <1>7. ASSUME NEW x \in issues
        PROVE  /\ x.repo \in Repos /\ x.n = 1 /\ x.by = 0 /\ x \in Issue
               /\ x = [repo |-> x.repo, n |-> 1, author |-> registered[x.repo], by |-> 0, try |-> 0]
    BY <1>3 DEF Init, Issue
  <1>8. GoodLedger
    <2>1. intent \in [Instances -> Intent]
      BY <1>2, <1>5, OpenedShape
    <2>2. ASSUME NEW i \in Instances PROVE GoodIntent(intent[i])
      <3>1. GoodIntent(NoIntent)
        BY OpenedShape DEF GoodIntent
      <3>2. \A l \in {"none", "sent", "transient", "unproven"} : GoodIntent(LegacyIntent(l))
        BY <1>5 DEF GoodIntent
      <3> QED BY <1>4, <3>1, <3>2
    <2> QED BY <2>1, <2>2 DEF GoodLedger
  <1>9. TypeOK
    <2>1. GoodPass
      BY DEF Init, GoodPass, NoDrive, Position, Steps
    <2>2. GoodWorld /\ GoodGitHub
      BY <1>3, <1>6, <1>7 DEF Init, GoodWorld, GoodGitHub
    <2>3. GoodRest
      BY DEF Init, GoodRest
    <2> QED BY <1>8, <2>1, <2>2, <2>3, TypeParts
  <1>10. IntentShape
    BY <1>a, OpenedShape DEF IntentShape
  <1>11. RequestShape
    <2>1. ASSUME NEW q \in wire
          PROVE  0 < q.try /\ q.try <= intent[q.i].tries /\ ~(q.try < intent[q.i].tries) /\ ~Rejected(q.i)
      <3>1. q.i \in Instances /\ intent[q.i] = LegacyIntent(last[q.i])
        BY <1>3, <1>4, <1>6
      <3>2. intent[q.i].tries = 1 /\ intent[q.i].last \in {"sent", "unproven"}
        BY <1>5, <1>6, <3>1
      <3> QED BY <1>6, <3>1, <3>2, LastDecides
    <2> QED BY <1>6, <2>1 DEF RequestShape
  <1>12. Numbering
    <2>1. ASSUME NEW r \in Repos
          PROVE  IsFiniteSet(IssuesOf(r)) /\ Cardinality(IssuesOf(r)) = 1
      <3>1. PICK e : IssuesOf(r) = {e}
        <4> DEFINE e == [repo |-> r, n |-> 1, author |-> registered[r], by |-> 0, try |-> 0]
        <4>1. e \in issues
          BY DEF Init
        <4>2. \A x \in issues : x.repo = r => x = e
          BY <1>7
        <4>3. e.repo = r
          OBVIOUS
        <4> HIDE DEF e
        <4>4. IssuesOf(r) = {e}
          BY <4>1, <4>2, <4>3 DEF IssuesOf
        <4> QED BY <4>4
      <3>2. IsFiniteSet({e}) /\ Cardinality({e}) = 1
        BY FS_Singleton
      <3> QED BY <3>1, <3>2
    <2> QED BY <1>7, <2>1 DEF Numbering
  <1>13. IssueShape
    BY <1>6, <1>7 DEF IssueShape
  <1>14. SeenShape
    BY <1>a, OpenedShape, ConstantFacts DEF SeenShape
  <1>15. OneOutstanding
    <2>1. \A i \in Instances : Outstanding(i) => i \in Legacy
      BY <1>4, OpenedShape DEF Outstanding
    <2> QED BY <2>1, LegacyIntents DEF OneOutstanding
  <1>16. LedgerNamesOwnIssue
    BY <1>a, OpenedShape DEF LedgerNamesOwnIssue
  <1>17. PassShape
    BY DEF Init, PassShape, Driven, NoDrive
  <1> QED BY <1>9, <1>10, <1>11, <1>12, <1>13, <1>14, <1>15, <1>16, <1>17 DEF IInv, LedgerInv

LEMMA DrivePreserves ==
    ASSUME IInv, NEW i \in Instances, Drive(i)
    PROVE  IInv'
  <1> USE DEF IInv
  <1>1. TypeOK'
    BY FilerTypes DEF Filer
  <1>o. ASSUME Driven, at.i = i, at.step \notin {"open", "retire"} PROVE Outstanding(i)
    BY <1>o DEF PassShape
  <1>2. LedgerInv' /\ PassShape'
    <2>x. ASSUME ExchangeFails(i) PROVE LedgerInv'
      BY <2>x, LedgerKept DEF ExchangeFails, github, ledger
    <2>1. CASE StartDrive(i)
      <3>1. UNCHANGED <<intent, wire, issues, outside>>
        BY <2>1 DEF StartDrive, github, ledger
      <3>2. LedgerInv'
        BY <3>1, LedgerKept
      <3>3. at \in Position
        BY TypeParts DEF GoodPass
      <3>4. CASE Finished(i)
        BY <3>2, <3>4, TurnOver
      <3>5. CASE at' = [at EXCEPT !.step = "retire", !.i = i] /\ intent[i].open
        BY <3>1, <3>2, <3>3, <3>5 DEF PassShape, Driven, Position
      <3>6. CASE at' = [at EXCEPT !.step = "open", !.i = i] /\ ~intent[i].open
        BY <3>1, <3>2, <3>3, <3>6 DEF PassShape, Driven, Position
      <3>7. CASE Continue(i) /\ intent[i].open
        BY <3>1, <3>2, <3>7, ContinuePass
      <3> QED BY <2>1, <3>4, <3>5, <3>6, <3>7 DEF StartDrive
    <2>2. CASE RetireClosed(i)
      <3>1. UNCHANGED <<wire, issues, outside>> /\ intent[i].open
        BY <2>2 DEF RetireClosed, github, PassShape
      <3>2. CASE MayRefuse(i)
        <4>1. Outstanding(i)
          BY <3>1, <3>2 DEF Outstanding, MayRefuse
        <4>2. intent' = [intent EXCEPT ![i].outcome = "refused"] /\ Finished(i)
          BY <2>2, <3>2 DEF RetireClosed
        <4> QED BY <3>1, <3>2, <4>1, <4>2, OutcomeKept, TurnOver
      <3>3. CASE ~MayRefuse(i)
        BY <2>2, <3>1, <3>3, LedgerKept, ContinuePass DEF RetireClosed
      <3> QED BY <3>2, <3>3
    <2>3. CASE OpenIntent(i)
      <3>1. LedgerInv'
        BY <2>3, OpenKept
      <3>2. CASE Finished(i)
        BY <3>1, <3>2, TurnOver
      <3>3. CASE Then("check") /\ intent' = [intent EXCEPT ![i] = Opened]
        <4>1. at'.step = "check" /\ at'.i = i
          BY <2>3, <3>3, TypeParts DEF OpenIntent, Then, GoodPass, Position
        <4>2. intent'[i] = Opened
          BY <3>3, TypeParts DEF GoodLedger
        <4>3. Outstanding(i)'
          BY <4>2, OpenedShape DEF Outstanding, Terminal
        <4> QED BY <3>1, <4>1, <4>3 DEF PassShape, Driven
      <3> QED BY <2>3, <3>2, <3>3 DEF OpenIntent, Opened
    <2>4. CASE Refuse(i)
      <3>0. Outstanding(i) /\ UNCHANGED <<wire, issues, outside>>
        BY <2>4, <1>o DEF Refuse, Driven, github
      <3>1. CASE MayRefuse(i)
        BY <2>4, <3>0, <3>1, OutcomeKept, TurnOver DEF Refuse
      <3>2. CASE ~MayRefuse(i)
        BY <2>4, <3>0, <3>2, LedgerKept, TurnOver DEF Refuse
      <3> QED BY <3>1, <3>2
    <2>5. CASE Dispatch(i)
      <3>1. PassShape'
        BY <2>5, DispatchPass
      <3>2. LedgerInv'
        <4>1. CASE Precheck(i) \/ ListBefore(i) \/ BuildRequest(i) \/ ConfirmIdentity(i)
          <5>1. ExchangeFails(i) \/ UNCHANGED <<github, ledger>>
            BY <4>1 DEF Precheck, ListBefore, BuildRequest, ConfirmIdentity
          <5> QED BY <2>x, <5>1, LedgerKept DEF github, ledger
        <4>2. CASE RecordPreDispatch(i)
          BY <4>2, PreDispatchKept
        <4>3. CASE StartAttempt(i)
          <5>1. Outstanding(i) /\ UNCHANGED <<wire, issues, outside>>
            BY <4>3, <1>o DEF StartAttempt, Driven, github
          <5>2. CASE UNCHANGED intent
            BY <5>1, <5>2, LedgerKept
          <5>3. CASE MayStart(i) /\ intent' = [intent EXCEPT ![i].tries = @ + 1, ![i].last = "sent"]
            BY <5>1, <5>3, StartKept
          <5> QED BY <4>3, <5>2, <5>3 DEF StartAttempt
        <4>4. CASE Send(i)
          BY <4>4, SendKept
        <4>5. CASE Answer(i)
          <5>1. Outstanding(i) /\ UNCHANGED <<wire, issues, outside>>
            BY <4>5, <1>o DEF Answer, Driven, github
          <5>2. CASE UNCHANGED intent
            BY <5>1, <5>2, LedgerKept
          <5> QED BY <4>5, <5>1, <5>2, AnswerShape, RecordedKept
        <4> QED BY <2>5, <4>1, <4>2, <4>3, <4>4, <4>5 DEF Dispatch
      <3> QED BY <3>1, <3>2
    <2>6. CASE Settling(i)
      <3>1. PassShape'
        BY <2>6, SettlingPass
      <3>2. Outstanding(i) /\ UNCHANGED <<wire, issues, outside>>
        BY <2>6, <1>o DEF Settling, Settle, ResolveTarget, ListCandidates, ListingFails, Adopt, Driven, github, ledger
      <3>3. CASE UNCHANGED intent
        BY <3>1, <3>2, <3>3, LedgerKept
      <3>4. CASE Ambiguous(i)
        BY <3>1, <3>2, <3>4, AmbiguousKept
      <3>5. CASE Adopt(i) /\ ~Ambiguous(i)
        <4>1. Cardinality(at.found) = 1
          BY <3>5 DEF Adopt
        <4>2. \E n : n \in at.found
          BY <4>1, FS_EmptySet
        <4>3. PICK n \in at.found :
                /\ ~RepositoryAmbiguous(RepoOf[i]) /\ n \notin intent[i].seen
                /\ ~FiledIssue(RepoOf[i], n) /\ Adopted(i, n)
          BY <3>5, <4>1, <4>2 DEF Adopt
        <4>4. \E x \in IssuesBy(i) : x.repo = RepoOf[i] /\ x.n = n
          BY <3>2, <3>5, <4>3, CandidateIsOwn DEF Adopt
        <4>5. n \in Nat
          BY TypeParts DEF GoodPass, Position
        <4> QED BY <3>1, <3>2, <4>3, <4>4, <4>5, AdoptedKept
      <3> QED BY <2>6, <3>3, <3>4, <3>5
              DEF Settling, Settle, ResolveTarget, ListCandidates, ListingFails, ledger
    <2> QED BY <2>1, <2>2, <2>3, <2>4, <2>5, <2>6 DEF Drive
  <1> QED BY <1>1, <1>2

LEMMA NextPreserves ==
    ASSUME IInv, [Next]_vars
    PROVE  IInv'
  <1> USE DEF IInv
  <1>1. ASSUME NEW i \in Instances, Drive(i) PROVE IInv'
    BY <1>1, DrivePreserves
  <1>2. CASE Start \/ BeginPass \/ EndPass \/ Crash
    <2>1. TypeOK'
      BY <1>2, FilerTypes DEF Filer
    <2>2. UNCHANGED <<intent, wire, issues, outside>>
      BY <1>2 DEF Start, BeginPass, EndPass, Crash, github, ledger
    <2>3. at'.step \in {"down", "idle", "drive"}
      BY <1>2 DEF Start, BeginPass, EndPass, Crash, NoDrive
    <2> QED BY <2>1, <2>2, <2>3, LedgerKept, NoneDriven
  <1>3. CASE GitHub
    <2>1. TypeOK'
      BY <1>3, OutsideTypes DEF LedgerInv
    <2>2. LedgerInv' /\ PassShape'
      BY <1>3, CommitKept, CommitPass, RejectKept, RejectPass DEF GitHub
    <2> QED BY <2>1, <2>2
  <1>4. CASE Environment
    <2>1. TypeOK'
      BY <1>4, OutsideTypes DEF LedgerInv
    <2>2. UNCHANGED <<at, intent, wire, issues, outside>>
      BY <1>4 DEF Environment, Approve, CloseWorkflow, Register, TimePasses, Elapse,
                  github, ledger, pass
    <2> QED BY <2>1, <2>2, LedgerKept, PassKept
  <1>5. CASE UNCHANGED vars
    <2>1. TypeOK'
      BY <1>5 DEF TypeOK, vars
    <2>2. UNCHANGED <<at, intent, wire, issues, outside>>
      BY <1>5 DEF vars
    <2> QED BY <2>1, <2>2, LedgerKept, PassKept
  <1> QED BY <1>1, <1>2, <1>3, <1>4, <1>5 DEF Next, Filer

-----------------------------------------------------------------------------
(* The theorems.                                                           *)

\* The ledger, GitHub and the pass agree in every reachable state.
THEOREM Invariance == Spec => []IInv
  <1>1. Init => IInv
    BY InitIInv
  <1>2. IInv /\ [Next]_vars => IInv'
    BY NextPreserves
  <1> QED BY <1>1, <1>2, PTL DEF Spec

\* Every row, request and process-local value keeps its declared shape.
THEOREM TypeCorrect == Spec => []TypeOK
  <1>1. IInv => TypeOK
    BY DEF IInv
  <1> QED BY <1>1, Invariance, PTL

\* No retry, crash or late execution makes a filing create two issues.
THEOREM CreatesAtMostOne == Spec => []AtMostOneIssue
  <1>1. IInv => AtMostOneIssue
    BY OnlyOneIssue DEF IInv, LedgerInv
  <1> QED BY <1>1, Invariance, PTL

\* A filing recorded as refused created nothing and can create nothing.
THEOREM RefusalIsTrue == Spec => []RefusedCreatedNothing
  <1>1. IInv => RefusedCreatedNothing
    BY RefusedNothing DEF IInv
  <1> QED BY <1>1, Invariance, PTL

\* An issue number in the ledger, returned or adopted, is that filing's own issue.
THEOREM LedgerIsTrue == Spec => []LedgerNamesOwnIssue
  <1>1. IInv => LedgerNamesOwnIssue
    BY DEF IInv, LedgerInv
  <1> QED BY <1>1, Invariance, PTL

\* One filing at a time holds a repository.
THEOREM HoldsAlone == Spec => []OneOutstanding
  <1>1. IInv => OneOutstanding
    BY DEF IInv, LedgerInv
  <1> QED BY <1>1, Invariance, PTL

-----------------------------------------------------------------------------
(* What a step may never do, and the promise.                              *)

\* A step of a filing touches its own intent alone; the outcome is decided once,
\* by adoption only while the repository has no ambiguity, and no attempt is
\* counted behind the fence.
Effect(i) ==
    /\ UNCHANGED issues
    /\ \A j \in Instances \ {i} : intent'[j] = intent[j]
    /\ intent[i].outcome # "none" => intent'[i].outcome = intent[i].outcome
    /\ RunOf[i] \in closed => intent'[i].tries = intent[i].tries
    /\ intent[i].outcome = "none" /\ intent'[i].outcome = "ledgered" /\ RepositoryAmbiguous(RepoOf[i])
          => intent'[i].last = "success"

LEMMA DriveEffect ==
    ASSUME IInv, NEW i \in Instances, Drive(i)
    PROVE  Effect(i)
  <1> USE DEF IInv, LedgerInv
  <1>0. intent \in [Instances -> Intent]
    BY TypeParts DEF GoodLedger
  <1>o. ASSUME Driven, at.i = i, at.step \notin {"open", "retire"} PROVE Outstanding(i)
    BY <1>o DEF PassShape
  <1>s. ASSUME UNCHANGED <<intent, issues>> PROVE Effect(i)
    BY <1>s DEF Effect
  <1>e. ASSUME UNCHANGED issues, ~Terminal(i), NEW o \in {"refused", "ambiguous"},
               intent' = [intent EXCEPT ![i].outcome = o]
        PROVE  Effect(i)
    BY <1>0, <1>e DEF Effect, Intent, Terminal
  <1>a. ASSUME UNCHANGED issues, Ambiguous(i) PROVE Effect(i)
    BY <1>a, <1>e DEF Ambiguous, MayConclude
  <1>1. CASE StartDrive(i)
    BY <1>1, <1>s DEF StartDrive, github, ledger
  <1>2. CASE RetireClosed(i)
    BY <1>2, <1>s, <1>e DEF RetireClosed, MayRefuse, github
  <1>3. CASE OpenIntent(i)
    <2>1. UNCHANGED issues
      BY <1>3 DEF OpenIntent, github
    <2>2. CASE UNCHANGED intent
      BY <1>s, <2>1, <2>2
    <2>3. CASE intent' = [intent EXCEPT ![i] = Opened]
      <3>1. intent[i] = NoIntent
        BY <1>3 DEF OpenIntent, PassShape, IntentShape
      <3>2. intent'[i] = Opened /\ \A j \in Instances \ {i} : intent'[j] = intent[j]
        BY <1>0, <2>3
      <3> QED BY <2>1, <3>1, <3>2, OpenedShape DEF Effect
    <2> QED BY <1>3, <2>2, <2>3 DEF OpenIntent, Opened
  <1>4. CASE Refuse(i)
    BY <1>4, <1>s, <1>e DEF Refuse, MayRefuse, github
  <1>5. CASE Dispatch(i)
    <2>1. CASE Precheck(i) \/ ListBefore(i) \/ BuildRequest(i) \/ ConfirmIdentity(i) \/ Send(i)
      BY <1>s, <2>1 DEF Precheck, ListBefore, BuildRequest, ConfirmIdentity, Send, ExchangeFails, github, ledger
    <2>2. CASE RecordPreDispatch(i)
      BY <1>0, <2>2 DEF RecordPreDispatch, Effect, Intent, github
    <2>3. CASE StartAttempt(i)
      <3>1. UNCHANGED issues
        BY <2>3 DEF StartAttempt, github
      <3>2. CASE UNCHANGED intent
        BY <1>s, <3>1, <3>2
      <3>3. CASE /\ RunOf[i] \notin closed
                 /\ intent' = [intent EXCEPT ![i].tries = @ + 1, ![i].last = "sent"]
        BY <1>0, <3>1, <3>3 DEF Effect, Intent
      <3> QED BY <2>3, <3>2, <3>3 DEF StartAttempt, Fenced
    <2>4. CASE Answer(i)
      <3>1. UNCHANGED issues /\ Outstanding(i)
        BY <2>4, <1>o DEF Answer, Driven, github
      <3>2. CASE UNCHANGED intent
        BY <1>s, <3>1, <3>2
      <3>3. ASSUME NEW q, NEW class, NEW n, NEW o, Recorded(i, q, class, n, o) PROVE Effect(i)
        <4>1. /\ intent' = [intent EXCEPT ![i].last = class, ![i].outcome = o, ![i].issue = n]
              /\ o = "ledgered" => class = "success"
          BY <3>3 DEF Recorded
        <4>2. /\ intent'[i].last = class /\ intent'[i].outcome = o /\ intent'[i].tries = intent[i].tries
              /\ \A j \in Instances \ {i} : intent'[j] = intent[j]
          BY <1>0, <4>1 DEF Intent
        <4> QED BY <3>1, <4>1, <4>2 DEF Effect, Outstanding, Terminal
      <3> QED BY <2>4, <3>2, <3>3, AnswerShape
    <2> QED BY <1>5, <2>1, <2>2, <2>3, <2>4 DEF Dispatch
  <1>6. CASE Settling(i)
    <2>1. UNCHANGED issues /\ Outstanding(i)
      BY <1>6, <1>o DEF Settling, Settle, ResolveTarget, ListCandidates, ListingFails, Adopt, Driven, github
    <2>2. CASE UNCHANGED intent \/ Ambiguous(i)
      BY <1>a, <1>s, <2>1, <2>2
    <2>3. CASE Adopt(i) /\ ~Ambiguous(i)
      <3>1. PICK n : ~RepositoryAmbiguous(RepoOf[i]) /\ Adopted(i, n)
        BY <2>3 DEF Adopt
      <3>2. /\ intent'[i].tries = intent[i].tries
            /\ \A j \in Instances \ {i} : intent'[j] = intent[j]
        BY <1>0, <3>1 DEF Adopted, Intent
      <3> QED BY <2>1, <3>1, <3>2 DEF Effect, Outstanding, Terminal
    <2> QED BY <1>6, <2>2, <2>3 DEF Settling, Settle, ResolveTarget, ListCandidates, ListingFails, ledger
  <1> QED BY <1>1, <1>2, <1>3, <1>4, <1>5, <1>6 DEF Drive

\* Every other step leaves the intents alone, and only GitHub makes issues.
LEMMA StepEffect ==
    ASSUME IInv, [Next]_vars
    PROVE  \/ \E i \in Instances : Effect(i)
           \/ UNCHANGED intent /\ (UNCHANGED issues \/ \E q \in wire : Commit(q))
  <1>1. CASE \E i \in Instances : Drive(i)
    BY <1>1, DriveEffect
  <1>2. CASE Start \/ BeginPass \/ EndPass \/ Crash
    BY <1>2 DEF Start, BeginPass, EndPass, Crash, github, ledger
  <1>3. CASE GitHub
    BY <1>3 DEF GitHub, Commit, Reject, ledger
  <1>4. CASE Environment
    BY <1>4 DEF Environment, Approve, CloseWorkflow, Register, TimePasses, Elapse, github, ledger
  <1>5. CASE UNCHANGED vars
    BY <1>5 DEF vars
  <1> QED BY <1>1, <1>2, <1>3, <1>4, <1>5 DEF Next, Filer

\* The closed fence: no create is claimed for a closed workflow.
THEOREM ClosedIsFenced == Spec => ClosedClaimsNothing
  <1>1. ASSUME IInv, [Next]_vars, NEW i \in Instances, RunOf[i] \in closed
        PROVE  intent'[i].tries = intent[i].tries
    BY <1>1, StepEffect DEF Effect
  <1>2. IInv /\ [Next]_vars =>
          [\A i \in Instances : RunOf[i] \in closed => intent'[i].tries = intent[i].tries]_vars
    BY <1>1
  <1> QED BY <1>2, Invariance, PTL DEF Spec, ClosedClaimsNothing

\* In a repository with an ambiguous filing nothing is adopted.
THEOREM AdoptsUnambiguously == Spec => NoAdoptionAfterAmbiguity
  <1>1. ASSUME IInv, [Next]_vars, NEW i \in Instances,
               intent'[i].outcome = "ledgered", intent[i].outcome = "none",
               \E j \in Instances : RepoOf[j] = RepoOf[i] /\ intent[j].outcome = "ambiguous"
        PROVE  intent'[i].last = "success"
    BY <1>1, StepEffect DEF Effect, RepositoryAmbiguous
  <1>2. IInv /\ [Next]_vars =>
          [\A i \in Instances :
             (/\ intent'[i].outcome = "ledgered" /\ intent[i].outcome = "none"
              /\ \E j \in Instances : RepoOf[j] = RepoOf[i] /\ intent[j].outcome = "ambiguous")
                => intent'[i].last = "success"]_vars
    BY <1>1
  <1> QED BY <1>2, Invariance, PTL DEF Spec, NoAdoptionAfterAmbiguity

\* A create executes for a filing that has no issue and was not refused.
LEMMA CommitMakes ==
    ASSUME IInv, NEW q \in wire, Commit(q)
    PROVE  Contract!Make(q.i) /\ q.i \in Instances
  <1> USE DEF IInv, LedgerInv
  <1> DEFINE made == {i \in Instances : IssuesBy(i) # {}}
  <1>0. q.fate = "sent" /\ q.i \in Instances /\ q.i # 0 /\ UNCHANGED intent
    BY CommittedIsLast, ConstantFacts DEF Commit
  <1>1. IssuesBy(q.i) = {}
    <2> SUFFICES ASSUME NEW y \in IssuesBy(q.i) PROVE FALSE
      OBVIOUS
    <2>1. PICK p \in wire : p.i = q.i /\ p.try = y.try /\ p.fate = "committed"
      BY <1>0 DEF IssuesBy, IssueShape
    <2>2. p.try = q.try
      BY <1>0, <2>1, CommittedIsLast
    <2> QED BY <1>0, <2>1, <2>2 DEF RequestShape
  <1>2. intent[q.i].outcome \in {"none", "ambiguous"}
    <2>1. intent[q.i].outcome \in Outcomes
      BY <1>0, TypeParts DEF GoodLedger, Intent
    <2>2. intent[q.i].outcome # "ledgered"
      BY <1>0, <1>1 DEF LedgerNamesOwnIssue
    <2>3. intent[q.i].outcome # "refused"
      BY <1>0, RefusedNothing DEF RefusedCreatedNothing
    <2> QED BY <2>1, <2>2, <2>3 DEF Outcomes
  <1>3. made' = made \cup {q.i}
    <2>1. PICK x : issues' = issues \cup {x} /\ x.by = q.i
      BY CommitShape
    <2> QED BY <1>0, <2>1 DEF IssuesBy
  <1> QED BY <1>0, <1>1, <1>2, <1>3 DEF Contract!Make

\* Every other step that decides an outcome tells the truth.
LEMMA EffectResolves ==
    ASSUME IInv, IInv', RefusedCreatedNothing', NEW i \in Instances, Effect(i)
    PROVE  [Contract!Next]_(Contract!vars)
  <1> USE DEF IInv, LedgerInv
  <1>1. /\ intent \in [Instances -> Intent] /\ intent' \in [Instances -> Intent]
    BY DEF TypeOK
  <1>2. \A j \in Instances : IssuesBy(j)' = IssuesBy(j)
    BY DEF Effect, IssuesBy
  <1>3. {j \in Instances : IssuesBy(j) # {}}' = {j \in Instances : IssuesBy(j) # {}}
    BY <1>2
  <1>4. \A j \in Instances \ {i} : intent'[j].outcome = intent[j].outcome
    BY DEF Effect
  <1>5. CASE intent'[i].outcome = intent[i].outcome
    <2>1. [j \in Instances |-> intent[j].outcome]' = [j \in Instances |-> intent[j].outcome]
      BY <1>4, <1>5
    <2> QED BY <1>3, <2>1 DEF Contract!vars
  <1>6. CASE intent'[i].outcome # intent[i].outcome
    <2>0. PICK o \in Outcomes : o = intent'[i].outcome
      BY <1>1 DEF Intent
    <2>1. intent[i].outcome = "none" /\ o # "none"
      BY <1>6, <2>0 DEF Effect
    <2>2. o \in Contract!Outcomes \ {"none"}
      BY <2>0, <2>1 DEF Outcomes, Contract!Outcomes
    <2>3. o = "ledgered" => IssuesBy(i) # {}
      BY <1>2, <2>0 DEF LedgerNamesOwnIssue
    <2>4. o = "refused" => IssuesBy(i) = {}
      BY <1>2, <2>0 DEF RefusedCreatedNothing
    <2>5. [j \in Instances |-> intent[j].outcome]' =
            [[j \in Instances |-> intent[j].outcome] EXCEPT ![i] = o]
      BY <1>4, <2>0
    <2>6. Contract!Resolve(i, o)
      BY <1>3, <2>1, <2>3, <2>4, <2>5 DEF Contract!Resolve
    <2> QED BY <2>2, <2>6 DEF Contract!Next
  <1> QED BY <1>5, <1>6

\* No intent starts with an outcome.
LEMMA InitOutcomes == Init => \A i \in Instances : intent[i].outcome = "none"
  <1>1. \A l : LegacyIntent(l).outcome = NoIntent.outcome
    BY OpenedShape DEF LegacyIntent, Intent
  <1> QED BY <1>1, OpenedShape DEF Init

\* The filer and GitHub together keep the promise of FilingContract.
THEOREM Refinement == Spec => ImplementsContract
  <1>1. Init => Contract!Init
    <2> SUFFICES ASSUME Init PROVE Contract!Init
      OBVIOUS
    <2>1. IInv
      BY InitIInv
    <2>2. \A i \in Instances : IssuesBy(i) = {}
      BY ConstantFacts DEF Init, IssuesBy
    <2>3. \A i \in Instances : intent[i].outcome = "none"
      BY InitOutcomes
    <2> QED BY <2>2, <2>3 DEF Contract!Init
  <1>2. IInv /\ IInv' /\ RefusedCreatedNothing' /\ [Next]_vars => [Contract!Next]_(Contract!vars)
    <2> SUFFICES ASSUME IInv, IInv', RefusedCreatedNothing', [Next]_vars
                 PROVE  [Contract!Next]_(Contract!vars)
      OBVIOUS
    <2>1. CASE \E i \in Instances : Effect(i)
      BY <2>1, EffectResolves
    <2>2. CASE UNCHANGED <<intent, issues>>
      BY <2>2 DEF Contract!vars, IssuesBy
    <2>3. CASE \E q \in wire : Commit(q)
      BY <2>3, CommitMakes DEF Contract!Next
    <2> QED BY <2>1, <2>2, <2>3, StepEffect
  <1> QED BY <1>1, <1>2, Invariance, RefusalIsTrue, PTL DEF Spec, ImplementsContract, Contract!Spec

-----------------------------------------------------------------------------
(* No silent end.                                                          *)

\* A step of a filing withdraws no notice, gives no other filing an outcome, and
\* gives its own a refusal or an ambiguity only with the notice.
Explains(i) ==
    /\ closed' = closed /\ notices \subseteq notices'
    /\ \A j \in Instances \ {i} : intent'[j].outcome = intent[j].outcome
    /\ \A o \in {"refused", "ambiguous"} :
        intent'[i].outcome = o =>
            intent[i].outcome = o \/ <<i, o>> \in notices' \/ RunOf[i] \in closed
    /\ at'.step = "retire" => RunOf[at'.i] \in closed

\* A notice raised stays with what was there, or its workflow is closed.
LEMMA RaisedAdds ==
    ASSUME NEW i, NEW code
    PROVE  /\ notices \subseteq Raised(i, code)
           /\ <<i, code>> \in Raised(i, code) \/ RunOf[i] \in closed
  BY DEF Raised

\* No turn ends or continues in retire.
LEMMA TurnLeavesRetire ==
    ASSUME NEW i \in Instances, at \in Position, GoodLedger
    PROVE  /\ Finished(i) \/ Failed(i) => at'.step = "drive"
           /\ \A step \in Steps : Then(step) => at'.step = step
           /\ Continue(i) => at'.step \in {"drive", "check", "settle", "refuse"}
  <1> USE DEF Position, NoDrive
  <1>1. Finished(i) \/ Failed(i) => at'.step = "drive"
    BY DEF Finished, Failed
  <1>2. \A step \in Steps : Then(step) => at'.step = step
    BY DEF Then
  <1>3. Continue(i) => at'.step \in {"drive", "check", "settle", "refuse"}
    <2>1. ASSUME NEW step, at' = [NoDrive EXCEPT !.step = step, !.i = i] PROVE at'.step = step
      BY <2>1
    <2> QED BY <1>1, <2>1, ContinueShape
  <1> QED BY <1>1, <1>2, <1>3

LEMMA DriveExplains ==
    ASSUME IInv, EndInv, NEW i \in Instances, Drive(i)
    PROVE  Explains(i)
  <1> USE DEF IInv
  <1>0. /\ intent \in [Instances -> Intent] /\ at \in Position /\ GoodLedger
        /\ {"drive", "check", "list", "record", "build", "confirm", "mark", "send",
            "await", "target", "candidates", "adopt", "refuse", "settle"} \subseteq Steps
    BY TypeParts DEF GoodLedger, GoodPass, Steps
  <1>t. /\ Finished(i) \/ Failed(i) => at'.step = "drive"
        /\ \A step \in Steps : Then(step) => at'.step = step
        /\ Continue(i) => at'.step \in {"drive", "check", "settle", "refuse"}
    BY <1>0, TurnLeavesRetire
  <1>s. ASSUME UNCHANGED <<closed, intent>>, notices \subseteq notices',
               at'.step = "retire" => RunOf[at'.i] \in closed
        PROVE  Explains(i)
    BY <1>s DEF Explains
  <1>e. ASSUME UNCHANGED closed, NEW o \in {"refused", "ambiguous"},
               intent' = [intent EXCEPT ![i].outcome = o],
               \/ notices' = Raised(i, o)
               \/ UNCHANGED notices /\ RunOf[i] \in closed,
               at'.step # "retire"
        PROVE  Explains(i)
    <2>1. intent'[i].outcome = o /\ \A j \in Instances \ {i} : intent'[j] = intent[j]
      BY <1>0, <1>e DEF Intent
    <2> QED BY <1>e, <2>1, RaisedAdds DEF Explains
  <1>f. ASSUME UNCHANGED <<closed, intent>>, Failed(i) PROVE Explains(i)
    <2>1. notices \subseteq notices'
      BY <1>f, RaisedAdds DEF Failed
    <2> QED BY <1>f, <1>t, <1>s, <2>1
  <1>x. ASSUME ExchangeFails(i) PROVE Explains(i)
    BY <1>x, <1>f DEF ExchangeFails, world, ledger
  <1>a. ASSUME UNCHANGED closed, Ambiguous(i) PROVE Explains(i)
    BY <1>a, <1>e, <1>t DEF Ambiguous
  <1>1. CASE StartDrive(i)
    <2>1. UNCHANGED <<closed, intent, notices>>
      BY <1>1 DEF StartDrive, world, ledger
    <2>2. CASE RunOf[i] \in closed
      BY <1>0, <1>1, <1>s, <1>t, <2>1, <2>2 DEF StartDrive, Position
    <2>3. CASE RunOf[i] \notin closed
      BY <1>0, <1>1, <1>s, <1>t, <2>1, <2>3 DEF StartDrive, Position
    <2> QED BY <2>2, <2>3
  <1>2. CASE RetireClosed(i)
    <2>1. UNCHANGED <<closed, notices>> /\ RunOf[i] \in closed
      BY <1>2 DEF RetireClosed, world, EndInv
    <2>2. CASE MayRefuse(i)
      BY <1>2, <1>e, <1>t, <2>1, <2>2 DEF RetireClosed
    <2>3. CASE ~MayRefuse(i)
      BY <1>2, <1>s, <1>t, <2>1, <2>3 DEF RetireClosed
    <2> QED BY <2>2, <2>3
  <1>3. CASE OpenIntent(i)
    <2>1. UNCHANGED closed /\ notices \subseteq notices'
      BY <1>3, RaisedAdds DEF OpenIntent, world
    <2>2. at'.step # "retire"
      BY <1>0, <1>3, <1>t DEF OpenIntent
    <2>3. CASE UNCHANGED intent
      BY <1>s, <2>1, <2>2, <2>3
    <2>4. CASE intent' = [intent EXCEPT ![i] = Opened]
      <3>1. intent'[i].outcome = "none" /\ \A j \in Instances \ {i} : intent'[j] = intent[j]
        BY <1>0, <2>4, OpenedShape
      <3> QED BY <2>1, <2>2, <3>1 DEF Explains
    <2> QED BY <1>3, <2>3, <2>4 DEF OpenIntent, Opened
  <1>4. CASE Refuse(i)
    <2>1. UNCHANGED closed
      BY <1>4 DEF Refuse, world
    <2>2. CASE MayRefuse(i)
      BY <1>4, <1>e, <1>t, <2>1, <2>2 DEF Refuse
    <2>3. CASE ~MayRefuse(i)
      BY <1>4, <1>f, <2>1, <2>3 DEF Refuse
    <2> QED BY <2>2, <2>3
  <1>5. CASE Dispatch(i)
    <2>1. CASE Precheck(i)
      BY <2>1, <1>0, <1>s, <1>t, <1>x DEF Precheck, world, ledger, Position
    <2>2. CASE ListBefore(i)
      BY <2>2, <1>0, <1>s, <1>x DEF ListBefore, world, ledger, Position
    <2>3. CASE BuildRequest(i)
      BY <2>3, <1>0, <1>s, <1>x DEF BuildRequest, world, ledger, Position
    <2>4. CASE ConfirmIdentity(i)
      BY <2>4, <1>0, <1>s, <1>x DEF ConfirmIdentity, world, ledger, Position
    <2>5. CASE Send(i)
      BY <2>5, <1>0, <1>s, <1>t DEF Send, world, ledger
    <2>6. CASE RecordPreDispatch(i)
      <3>1. \A j \in Instances : intent'[j].outcome = intent[j].outcome
        BY <1>0, <2>6 DEF RecordPreDispatch, Intent
      <3>2. UNCHANGED <<closed, notices>> /\ at'.step # "retire"
        BY <1>0, <1>t, <2>6 DEF RecordPreDispatch, world
      <3> QED BY <3>1, <3>2 DEF Explains
    <2>7. CASE StartAttempt(i)
      <3>0. UNCHANGED closed
        BY <2>7 DEF StartAttempt, world
      <3>1. CASE UNCHANGED <<intent, notices>> /\ Finished(i)
        BY <1>s, <1>t, <3>0, <3>1
      <3>2. CASE UNCHANGED intent /\ Failed(i)
        BY <1>f, <3>0, <3>2
      <3>3. CASE /\ intent' = [intent EXCEPT ![i].tries = @ + 1, ![i].last = "sent"]
                 /\ UNCHANGED notices /\ Then("send")
        <4>1. \A j \in Instances : intent'[j].outcome = intent[j].outcome
          BY <1>0, <3>3 DEF Intent
        <4> QED BY <1>0, <1>t, <3>0, <3>3, <4>1 DEF Explains
      <3> QED BY <2>7, <3>1, <3>2, <3>3 DEF StartAttempt
    <2>8. CASE Answer(i)
      <3>0. UNCHANGED closed
        BY <2>8 DEF Answer, world
      <3>1. CASE UNCHANGED intent /\ Failed(i)
        BY <1>f, <3>0, <3>1
      <3>2. ASSUME NEW q, NEW class, NEW n, NEW o \in {"none", "ledgered", "refused"},
                   Recorded(i, q, class, n, o)
            PROVE  Explains(i)
        <4>1. /\ intent' = [intent EXCEPT ![i].last = class, ![i].outcome = o, ![i].issue = n]
              /\ notices' = notices \/ notices' = Raised(i, "refused")
              /\ o = "refused" => notices' = Raised(i, "refused")
              /\ Finished(i)
          BY <3>2 DEF Recorded
        <4>2. intent'[i].outcome = o /\ \A j \in Instances \ {i} : intent'[j] = intent[j]
          BY <1>0, <4>1 DEF Intent
        <4>3. notices \subseteq notices' /\ at'.step # "retire"
          BY <1>t, <4>1, RaisedAdds
        <4> QED BY <3>0, <4>1, <4>2, <4>3, RaisedAdds DEF Explains
      <3> QED BY <2>8, <3>1, <3>2, AnswerShape
    <2> QED BY <1>5, <2>1, <2>2, <2>3, <2>4, <2>5, <2>6, <2>7, <2>8 DEF Dispatch
  <1>6. CASE Settling(i)
    <2>0. UNCHANGED closed
      BY <1>6 DEF Settling, Settle, ResolveTarget, ListCandidates, ListingFails, Adopt, world
    <2>1. ASSUME ListingFails(i) PROVE Explains(i)
      BY <2>0, <2>1, <1>f, <1>a DEF ListingFails
    <2>2. CASE Settle(i)
      BY <2>0, <2>2, <1>0, <1>a, <1>s, <1>t DEF Settle
    <2>3. CASE ResolveTarget(i)
      BY <2>0, <2>1, <2>3, <1>0, <1>a, <1>s DEF ResolveTarget, Position
    <2>4. CASE ListCandidates(i)
      BY <2>0, <2>1, <2>4, <1>0, <1>s DEF ListCandidates, Position, ledger
    <2>5. CASE Adopt(i)
      <3>1. CASE Ambiguous(i)
        BY <2>0, <3>1, <1>a
      <3>2. CASE ~Ambiguous(i)
        <4>1. PICK n : Adopted(i, n) /\ Finished(i) /\ UNCHANGED notices
          BY <2>5, <3>2 DEF Adopt
        <4>2. intent'[i].outcome = "ledgered" /\ \A j \in Instances \ {i} : intent'[j] = intent[j]
          BY <1>0, <4>1 DEF Adopted, Intent
        <4> QED BY <2>0, <1>t, <4>1, <4>2 DEF Explains
      <3> QED BY <3>1, <3>2
    <2> QED BY <1>6, <2>2, <2>3, <2>4, <2>5 DEF Settling
  <1> QED BY <1>1, <1>2, <1>3, <1>4, <1>5, <1>6 DEF Drive

LEMMA ExplanationsKept ==
    ASSUME IInv, EndInv, [Next]_vars
    PROVE  EndInv'
  <1>1. ASSUME NEW i \in Instances, Drive(i) PROVE EndInv'
    <2>1. Explains(i)
      BY <1>1, DriveExplains
    <2> QED BY <2>1 DEF Explains, EndInv, EndIsExplained
  <1>2. CASE Start \/ BeginPass \/ Crash
    <2>1. UNCHANGED <<intent, notices, closed>> /\ at'.step # "retire"
      BY <1>2 DEF Start, BeginPass, Crash, NoDrive, world, ledger
    <2> QED BY <2>1 DEF EndInv, EndIsExplained
  <1>3. CASE EndPass
    <2>1. /\ UNCHANGED <<intent, closed>> /\ at'.step # "retire"
          /\ \A i \in Instances : \A o \in {"refused", "ambiguous"} :
                <<i, o>> \in notices => <<i, o>> \in notices'
      BY <1>3 DEF EndPass, Cleared, Transient, NoDrive, world, ledger
    <2> QED BY <2>1 DEF EndInv, EndIsExplained
  <1>4. CASE GitHub
    <2>1. UNCHANGED <<intent, notices, closed, at>>
      BY <1>4 DEF GitHub, Commit, Reject, world, ledger, pass
    <2> QED BY <2>1 DEF EndInv, EndIsExplained
  <1>5. CASE Environment
    <2>1. UNCHANGED <<intent, notices, at>> /\ closed \subseteq closed'
      BY <1>5 DEF Environment, Approve, CloseWorkflow, Register, TimePasses, Elapse, world, ledger, pass
    <2> QED BY <2>1 DEF EndInv, EndIsExplained
  <1>6. CASE UNCHANGED vars
    BY <1>6 DEF vars, EndInv, EndIsExplained
  <1> QED BY <1>1, <1>2, <1>3, <1>4, <1>5, <1>6 DEF Next, Filer

\* A refusal or an ambiguity is never without its notice, unless the workflow is
\* closed: the outcome and the notice are one transaction, retireClosed alone
\* refuses silently, and resolveClearedNotices withdraws no such notice.
THEOREM EndsAreExplained == Spec => []EndIsExplained
  <1>1. Init => EndInv
    BY InitOutcomes DEF Init, NoDrive, EndInv, EndIsExplained
  <1>2. IInv /\ EndInv /\ [Next]_vars => EndInv'
    BY ExplanationsKept
  <1>3. EndInv => EndIsExplained
    BY DEF EndInv
  <1> QED BY <1>1, <1>2, <1>3, Invariance, PTL DEF Spec

-----------------------------------------------------------------------------
(* The caps.                                                               *)

\* A step after which no more filings count than before keeps every cap.
LEMMA CountsFall ==
    ASSUME CapInv,
           \A j \in Instances : MayHaveCreated(j)' => MayHaveCreated(j),
           \A j \in Instances : "day" \in elapsed[j] => "day" \in elapsed'[j]
    PROVE  /\ IsFiniteSet(Created') /\ CapsHold'
           /\ \A j \in Instances : ~DayCapped(j) => ~DayCapped(j)'
           /\ \A j \in Instances : ~RunCapped(j) => ~RunCapped(j)'
  <1>0. IsFiniteSet(Created) /\ {MaxPerDay, MaxPerRun} \subseteq Nat
    BY Bounds DEF CapInv
  <1>1. ASSUME NEW S \in SUBSET Created, NEW T \in SUBSET S
        PROVE  /\ IsFiniteSet(S) /\ IsFiniteSet(T) /\ Cardinality(S) \in Nat
               /\ Cardinality(T) \in Nat /\ Cardinality(T) <= Cardinality(S)
    BY <1>0, FS_Subset, FS_CardinalityType
  <1>2. IsFiniteSet(Created')
    <2>1. Created' \in SUBSET Created
      BY DEF Created
    <2> QED BY <1>1, <2>1
  <1>3. ASSUME NEW run \in Runs
        PROVE  OfRun(run)' \subseteq Legacy \/ Cardinality(OfRun(run)') <= MaxPerRun
    <2>1. OfRun(run)' \in SUBSET OfRun(run) /\ OfRun(run) \in SUBSET Created
      BY DEF OfRun, Created
    <2>2. OfRun(run) \subseteq Legacy \/ Cardinality(OfRun(run)) <= MaxPerRun
      BY DEF CapInv, CapsHold, OfRun
    <2> QED BY <1>0, <1>1, <2>1, <2>2
  <1>4. ASSUME NEW r \in Repos
        PROVE  Cardinality(OfDay(r)') <= MaxPerDay
    <2>1. OfDay(r)' \in SUBSET OfDay(r) /\ OfDay(r) \in SUBSET Created
      BY DEF OfDay, Created
    <2>2. Cardinality(OfDay(r)) <= MaxPerDay
      BY DEF CapInv, CapsHold, OfDay
    <2> QED BY <1>0, <1>1, <2>1, <2>2
  <1>5. CapsHold'
    BY <1>3, <1>4 DEF CapsHold, OfRun, OfDay
  <1>6. ASSUME NEW j \in Instances, ~DayCapped(j) PROVE ~DayCapped(j)'
    <2>1. RecentFilings(j)' \in SUBSET RecentFilings(j) /\ RecentFilings(j) \in SUBSET Created
      BY DEF RecentFilings, Created
    <2> QED BY <1>0, <1>1, <1>6, <2>1 DEF DayCapped
  <1>7. ASSUME NEW j \in Instances, ~RunCapped(j) PROVE ~RunCapped(j)'
    <2>1. RunFilings(j)' \in SUBSET RunFilings(j) /\ RunFilings(j) \in SUBSET Created
      BY DEF RunFilings, Created
    <2> QED BY <1>0, <1>1, <1>7, <2>1 DEF RunCapped
  <1> QED BY <1>2, <1>5, <1>6, <1>7

\* What a step of a filing does to the counts: it claims a create in the turn
\* that found the run under its cap, or it adds nothing to them.
Launches(i) ==
    /\ at.step = "mark" /\ at.i = i /\ at'.step = "send"
    /\ Outstanding(i) /\ intent[i].bot \in Apps /\ intent'[i].bot = intent[i].bot
Settles(i) ==
    /\ MayHaveCreated(i)' => MayHaveCreated(i)
    /\ "day" \in elapsed[i] => "day" \in elapsed'[i]
    /\ Outstanding(i)' => Outstanding(i) \/ ~DayCapped(i)
    /\ i \in Legacy => intent'[i].bot = "unknown"
    /\ at'.step \in {"list", "record", "build", "confirm", "mark"} =>
          at'.i = i /\ ~RunCapped(i)
    /\ at'.step \in {"settle", "target", "candidates", "adopt"} =>
          at'.i = i /\ MayHaveCreated(i)'
Counts(i) ==
    /\ \A j \in Instances \ {i} : intent'[j] = intent[j] /\ elapsed'[j] = elapsed[j]
    /\ Launches(i) \/ Settles(i)

\* A claimed create fits under both caps.
LEMMA LaunchFits ==
    ASSUME IInv, CapInv, NEW i \in Instances, Counts(i), Launches(i)
    PROVE  CapInv'
  <1> USE DEF IInv, LedgerInv
  <1>0. /\ {MaxPerDay, MaxPerRun} \subseteq Nat \ {0} /\ "unknown" \notin Apps
        /\ i \notin Legacy /\ IsFiniteSet(Created)
    BY Bounds, ConstantFacts DEF Launches, CapInv
  <1>1. \A j \in Instances \ {i} :
          /\ MayHaveCreated(j)' = MayHaveCreated(j) /\ Outstanding(j)' = Outstanding(j)
          /\ elapsed'[j] = elapsed[j] /\ intent'[j] = intent[j]
    BY DEF Counts, MayHaveCreated, Outstanding, Terminal, Rejected, Class
  <1>2. ASSUME NEW S \in SUBSET Created, i \notin S, NEW T \in SUBSET (S \cup {i})
        PROVE  /\ IsFiniteSet(S) /\ IsFiniteSet(T) /\ Cardinality(S) \in Nat
               /\ Cardinality(T) \in Nat /\ Cardinality(T) <= Cardinality(S) + 1
    <2>1. IsFiniteSet(S) /\ Cardinality(S) \in Nat
      BY <1>0, FS_Subset, FS_CardinalityType
    <2>2. IsFiniteSet(S \cup {i}) /\ Cardinality(S \cup {i}) = Cardinality(S) + 1
      BY <1>2, <2>1, FS_AddElement
    <2>3. IsFiniteSet(T) /\ Cardinality(T) \in Nat /\ Cardinality(T) <= Cardinality(S \cup {i})
      BY <2>2, FS_Subset, FS_CardinalityType
    <2> QED BY <2>1, <2>2, <2>3
  <1>3. IsFiniteSet(Created')
    <2>1. Created' \in SUBSET ((Created \ {i}) \cup {i}) /\ Created \ {i} \in SUBSET Created
      BY <1>1 DEF Created
    <2> QED BY <1>2, <2>1
  <1>4. ~RunCapped(i) /\ ~DayCapped(i)
    BY DEF Launches, CapInv
  <1>5. ASSUME NEW run \in Runs
        PROVE  OfRun(run)' \subseteq Legacy \/ Cardinality(OfRun(run)') <= MaxPerRun
    <2>1. CASE RunOf[i] = run
      <3>1. RunFilings(i) \in SUBSET Created /\ i \notin RunFilings(i)
            /\ OfRun(run)' \in SUBSET (RunFilings(i) \cup {i})
        BY <1>1, <2>1 DEF RunFilings, Created, OfRun
      <3> QED BY <1>0, <1>2, <1>4, <3>1 DEF RunCapped
    <2>2. CASE RunOf[i] # run
      <3>1. OfRun(run)' = OfRun(run)
        BY <1>1, <2>2 DEF OfRun
      <3> QED BY <3>1 DEF CapInv, CapsHold, OfRun
    <2> QED BY <2>1, <2>2
  <1>6. ASSUME NEW r \in Repos
        PROVE  Cardinality(OfDay(r)') <= MaxPerDay
    <2>1. CASE RepoOf[i] = r
      <3>1. RecentFilings(i) \in SUBSET Created /\ i \notin RecentFilings(i)
            /\ OfDay(r)' \in SUBSET (RecentFilings(i) \cup {i})
        BY <1>1, <2>1 DEF RecentFilings, Created, OfDay
      <3> QED BY <1>0, <1>2, <1>4, <3>1 DEF DayCapped
    <2>2. CASE RepoOf[i] # r
      <3>1. OfDay(r)' = OfDay(r)
        BY <1>1, <2>2 DEF OfDay
      <3> QED BY <3>1 DEF CapInv, CapsHold, OfDay
    <2> QED BY <2>1, <2>2
  <1>7. CapsHold'
    BY <1>5, <1>6 DEF CapsHold, OfRun, OfDay
  <1>8. ASSUME NEW j \in Instances, Outstanding(j)' PROVE ~DayCapped(j)'
    <2>1. CASE j = i
      <3>1. RecentFilings(i)' = RecentFilings(i)
        BY <1>1 DEF RecentFilings
      <3> QED BY <1>4, <2>1, <3>1 DEF DayCapped
    <2>2. CASE j # i
      <3>1. Outstanding(j) /\ RepoOf[j] # RepoOf[i]
        BY <1>1, <1>8, <2>2 DEF OneOutstanding, Launches
      <3>2. RecentFilings(j)' = RecentFilings(j)
        BY <1>1, <3>1 DEF RecentFilings
      <3> QED BY <3>1, <3>2 DEF DayCapped, CapInv
    <2> QED BY <2>1, <2>2
  <1>9. \A j \in Legacy : intent'[j].bot = "unknown"
    BY <1>0, <1>1, LegacyIntents DEF CapInv
  <1> QED BY <1>3, <1>7, <1>8, <1>9 DEF CapInv, Launches

LEMMA CountsKept ==
    ASSUME IInv, CapInv, NEW i \in Instances, Counts(i)
    PROVE  CapInv'
  <1>1. CASE Settles(i)
    <2>1. \A j \in Instances \ {i} :
            MayHaveCreated(j)' = MayHaveCreated(j) /\ Outstanding(j)' = Outstanding(j)
      BY DEF Counts, MayHaveCreated, Outstanding, Terminal, Rejected, Class
    <2>2. /\ \A j \in Instances : MayHaveCreated(j)' => MayHaveCreated(j)
          /\ \A j \in Instances : "day" \in elapsed[j] => "day" \in elapsed'[j]
          /\ \A j \in Instances : Outstanding(j)' => Outstanding(j) \/ ~DayCapped(j)
          /\ \A j \in Legacy : intent'[j].bot = "unknown"
      BY <1>1, <2>1, LegacyIntents DEF Counts, Settles, CapInv
    <2>3. /\ IsFiniteSet(Created') /\ CapsHold'
          /\ \A j \in Instances : ~DayCapped(j) => ~DayCapped(j)'
          /\ \A j \in Instances : ~RunCapped(j) => ~RunCapped(j)'
      BY <2>2, CountsFall
    <2>4. \A j \in Instances : Outstanding(j)' => ~DayCapped(j)'
      BY <2>2, <2>3 DEF CapInv
    <2>5. (at.step \in {"list", "record", "build", "confirm", "mark"} => ~RunCapped(at.i))'
      BY <1>1, <2>3 DEF Settles, RunCapped, RunFilings, MayHaveCreated, Rejected, Class
    <2>6. (at.step \in {"settle", "target", "candidates", "adopt"} => MayHaveCreated(at.i))'
      BY <1>1 DEF Settles, MayHaveCreated, Rejected, Class
    <2> QED BY <2>2, <2>3, <2>4, <2>5, <2>6 DEF CapInv
  <1>2. CASE Launches(i)
    BY <1>2, LaunchFits
  <1> QED BY <1>1, <1>2 DEF Counts

\* A filing continues to settle only what may have been created.
LEMMA SettlesCreated ==
    ASSUME NEW i \in Instances, GoodLedger, at \in Position, Continue(i)
    PROVE  \/ at'.step = "drive"
           \/ at'.i = i /\ at'.step \in {"check", "refuse"}
           \/ at'.i = i /\ at'.step = "settle" /\ MayHaveCreated(i)
  <1>1. CASE Finished(i)
    BY <1>1 DEF Finished, NoDrive
  <1>2. ASSUME NEW step \in {"check", "settle", "refuse"},
               at' = [NoDrive EXCEPT !.step = step, !.i = i], step = "settle" => MayHaveCreated(i)
        PROVE  \/ at'.i = i /\ at'.step \in {"check", "refuse"}
               \/ at'.i = i /\ at'.step = "settle" /\ MayHaveCreated(i)
    BY <1>2 DEF NoDrive
  <1>3. CASE Terminal(i)
    BY <1>1, <1>3 DEF Continue
  <1>4. CASE ~Terminal(i) /\ intent[i].tries = 0
    <2>1. Class(i) = "none"
      BY <1>4 DEF GoodLedger, GoodIntent, Class
    <2>2. at' = [NoDrive EXCEPT !.step = "check", !.i = i]
      BY <1>4, <2>1 DEF Continue
    <2> QED BY <1>2, <2>2
  <1>5. CASE ~Terminal(i) /\ intent[i].tries # 0
    <2>1. /\ Class(i) \in {"success", "unproven", "definite", "transient"}
          /\ intent[i].tries > 0
      BY <1>5 DEF GoodLedger, GoodIntent, Intent, Class, Classes
    <2>2. CASE Class(i) \in {"success", "unproven"}
      <3>1. MayHaveCreated(i)
        BY <2>1, <2>2 DEF MayHaveCreated, Rejected
      <3>2. at' = [NoDrive EXCEPT !.step = "settle", !.i = i]
        BY <1>5, <2>2 DEF Continue
      <3> QED BY <3>1, <3>2, <1>2
    <2>3. CASE Class(i) = "definite"
      BY <1>2, <1>5, <2>3 DEF Continue
    <2>4. CASE Class(i) = "transient"
      BY <1>1, <1>2, <1>5, <2>4 DEF Continue
    <2> QED BY <2>1, <2>2, <2>3, <2>4
  <1> QED BY <1>3, <1>4, <1>5

\* A filing ends refused, or with an outcome it may have created for.
LEMMA EndSettles ==
    ASSUME IInv, CapInv, NEW i \in Instances, NEW o \in {"refused", "ambiguous"},
           intent' = [intent EXCEPT ![i].outcome = o], UNCHANGED elapsed,
           o = "refused" => MayRefuse(i), o = "ambiguous" => MayHaveCreated(i),
           at'.step = "drive"
    PROVE  Counts(i)
  <1>1. intent \in [Instances -> Intent]
    BY TypeParts DEF IInv, GoodLedger
  <1>2. /\ intent'[i].outcome = o /\ intent'[i].bot = intent[i].bot
        /\ intent'[i].tries = intent[i].tries /\ intent'[i].last = intent[i].last
        /\ \A j \in Instances \ {i} : intent'[j] = intent[j]
    BY <1>1 DEF Intent
  <1>3. MayHaveCreated(i)' => MayHaveCreated(i)
    BY <1>1, <1>2 DEF MayHaveCreated, MayRefuse, Rejected, Class, Intent
  <1>4. ~Outstanding(i)'
    BY <1>2 DEF Outstanding, Terminal
  <1> QED BY <1>2, <1>3, <1>4 DEF Counts, Settles, CapInv

LEMMA DriveCounts ==
    ASSUME IInv, CapInv, NEW i \in Instances, Drive(i)
    PROVE  Counts(i)
  <1> USE DEF IInv
  <1>0. /\ intent \in [Instances -> Intent] /\ at \in Position /\ GoodLedger
        /\ elapsed \in [Instances -> SUBSET {"wait", "day"}]
    BY TypeParts DEF GoodLedger, GoodPass, GoodRest
  <1>o. ASSUME Driven, at.i = i, at.step \notin {"open", "retire"} PROVE Outstanding(i)
    BY <1>o DEF PassShape
  <1>t. /\ Finished(i) \/ Failed(i) \/ ExchangeFails(i) \/ Ambiguous(i) => at'.step = "drive"
        /\ \A step \in Steps : Then(step) => at'.step = step /\ at'.i = at.i
    BY <1>0 DEF Finished, Failed, ExchangeFails, Ambiguous, NoDrive, Then, Position
  <1>u. ASSUME UNCHANGED <<intent, elapsed>> PROVE MayHaveCreated(i)' = MayHaveCreated(i)
    BY <1>u DEF MayHaveCreated, Rejected, Class
  <1>s. ASSUME UNCHANGED <<intent, elapsed>>,
               at'.step \in {"list", "record", "build", "confirm", "mark"} => at'.i = i /\ ~RunCapped(i),
               at'.step \in {"settle", "target", "candidates", "adopt"} => at'.i = i /\ MayHaveCreated(i)
        PROVE  Counts(i)
    BY <1>s, <1>u DEF Counts, Settles, CapInv, Outstanding, Terminal
  <1>d. ASSUME UNCHANGED <<intent, elapsed>>, at'.step = "drive" PROVE Counts(i)
    BY <1>s, <1>d
  <1>x. ASSUME ExchangeFails(i) PROVE Counts(i)
    BY <1>x, <1>d, <1>t DEF ExchangeFails, ledger
  <1>a. ASSUME UNCHANGED elapsed, Ambiguous(i), MayHaveCreated(i) PROVE Counts(i)
    BY <1>a, <1>t, EndSettles DEF Ambiguous
  <1>1. CASE StartDrive(i)
    <2>1. UNCHANGED <<intent, elapsed>>
      BY <1>1 DEF StartDrive, ledger
    <2>2. CASE Finished(i)
      BY <1>d, <1>t, <2>1, <2>2
    <2>3. CASE \E step \in {"retire", "open"} : at' = [at EXCEPT !.step = step, !.i = i]
      BY <1>0, <1>s, <2>1, <2>3 DEF Position
    <2>4. CASE Continue(i)
      BY <1>0, <1>s, <2>1, <2>4, SettlesCreated
    <2> QED BY <1>1, <2>2, <2>3, <2>4 DEF StartDrive
  <1>2. CASE RetireClosed(i)
    <2>1. UNCHANGED elapsed
      BY <1>2 DEF RetireClosed
    <2>2. CASE MayRefuse(i)
      BY <1>2, <1>t, <2>1, <2>2, EndSettles DEF RetireClosed
    <2>3. CASE ~MayRefuse(i)
      BY <1>0, <1>2, <1>s, <2>1, <2>3, SettlesCreated DEF RetireClosed
    <2> QED BY <2>2, <2>3
  <1>3. CASE OpenIntent(i)
    <2>1. UNCHANGED elapsed
      BY <1>3 DEF OpenIntent
    <2>2. CASE UNCHANGED intent /\ Finished(i)
      BY <1>d, <1>t, <2>1, <2>2
    <2>3. CASE /\ ~DayCapped(i)
               /\ intent' = [intent EXCEPT ![i] = Opened] /\ Then("check")
      <3>1. ~intent[i].open
        BY <1>3 DEF OpenIntent, PassShape
      <3>2. intent[i].bot = "none" /\ i \notin Legacy
        BY <3>1, OpenedShape DEF LedgerInv, IntentShape, CapInv
      <3>3. /\ intent'[i] = Opened /\ \A j \in Instances \ {i} : intent'[j] = intent[j]
            /\ at'.step = "check"
        BY <1>0, <1>t, <2>3 DEF Steps
      <3>4. ~MayHaveCreated(i)'
        BY <3>3, OpenedShape DEF MayHaveCreated
      <3> QED BY <2>1, <2>3, <3>2, <3>3, <3>4 DEF Counts, Settles
    <2> QED BY <1>3, <2>2, <2>3 DEF OpenIntent, Opened
  <1>4. CASE Refuse(i)
    <2>1. UNCHANGED elapsed
      BY <1>4 DEF Refuse
    <2>2. CASE MayRefuse(i)
      BY <1>4, <1>t, <2>1, <2>2, EndSettles DEF Refuse
    <2>3. CASE ~MayRefuse(i)
      BY <1>4, <1>d, <1>t, <2>1, <2>3 DEF Refuse
    <2> QED BY <2>2, <2>3
  <1>5. CASE Dispatch(i)
    <2>0. ASSUME at.i = i, at.step \in {"list", "record", "build", "confirm", "mark"}
          PROVE  ~RunCapped(i)
      BY <2>0 DEF CapInv
    <2>1. CASE Precheck(i)
      <3>1. CASE Then("refuse") /\ UNCHANGED ledger
        BY <1>s, <1>t, <3>1 DEF Steps, ledger
      <3>2. CASE /\ ~RunCapped(i) /\ UNCHANGED ledger
                 /\ at' = [at EXCEPT !.bot = registered[RepoOf[i]],
                              !.step = IF intent[i].bot = "none" THEN "list" ELSE "build"]
        BY <1>0, <1>s, <2>1, <3>2 DEF Precheck, Position, ledger
      <3> QED BY <1>x, <2>1, <3>1, <3>2 DEF Precheck
    <2>2. CASE ListBefore(i)
      BY <2>0, <2>2, <1>0, <1>s, <1>x DEF ListBefore, ledger, Position
    <2>3. CASE BuildRequest(i)
      BY <2>0, <2>3, <1>0, <1>s, <1>x DEF BuildRequest, ledger, Position
    <2>4. CASE ConfirmIdentity(i)
      BY <2>0, <2>4, <1>0, <1>s, <1>x DEF ConfirmIdentity, ledger, Position
    <2>5. CASE Send(i)
      BY <2>5, <1>s, <1>t DEF Send, ledger, Steps
    <2>6. CASE RecordPreDispatch(i)
      <3>1. /\ intent'[i].outcome = intent[i].outcome /\ intent'[i].tries = intent[i].tries
            /\ intent'[i].last = intent[i].last /\ intent'[i].open = intent[i].open
            /\ \A j \in Instances \ {i} : intent'[j] = intent[j]
        BY <1>0, <2>6 DEF RecordPreDispatch, Intent
      <3>2. MayHaveCreated(i)' = MayHaveCreated(i) /\ Outstanding(i)' = Outstanding(i)
        BY <3>1 DEF MayHaveCreated, Rejected, Class, Outstanding, Terminal
      <3>3. UNCHANGED elapsed /\ at'.step = "build" /\ at'.i = i
        BY <1>t, <2>6 DEF RecordPreDispatch, Steps
      <3>4. i \notin Legacy
        BY <2>6 DEF RecordPreDispatch, PassShape, CapInv
      <3>5. ~RunCapped(i)
        BY <2>0, <2>6 DEF RecordPreDispatch
      <3> QED BY <3>1, <3>2, <3>3, <3>4, <3>5 DEF Counts, Settles
    <2>7. CASE StartAttempt(i)
      <3>1. CASE UNCHANGED <<intent, elapsed>> /\ (Finished(i) \/ Failed(i))
        BY <1>d, <1>t, <3>1
      <3>2. CASE /\ intent' = [intent EXCEPT ![i].tries = @ + 1, ![i].last = "sent"]
                 /\ elapsed' = [elapsed EXCEPT ![i] = {}] /\ Then("send")
        <4>1. /\ intent'[i].bot = intent[i].bot
              /\ \A j \in Instances \ {i} : intent'[j] = intent[j] /\ elapsed'[j] = elapsed[j]
          BY <1>0, <3>2 DEF Intent
        <4>2. Outstanding(i) /\ intent[i].bot \in Apps /\ at.step = "mark" /\ at.i = i
          BY <1>o, <2>7 DEF StartAttempt, PassShape, Driven
        <4>3. at'.step = "send"
          BY <1>t, <3>2 DEF Steps
        <4> QED BY <4>1, <4>2, <4>3 DEF Counts, Launches
      <3> QED BY <2>7, <3>1, <3>2 DEF StartAttempt
    <2>8. CASE Answer(i)
      <3>0. Outstanding(i) /\ intent[i].last = "sent" /\ intent[i].tries > 0
        <4>1. at.step = "await" /\ at.i = i
          BY <2>8 DEF Answer
        <4>2. Outstanding(i) /\ intent[i].last = "sent"
          BY <1>o, <4>1 DEF PassShape, Driven
        <4> QED BY <1>0, <4>2 DEF GoodLedger, GoodIntent, Intent
      <3>1. MayHaveCreated(i)
        BY <3>0 DEF MayHaveCreated, Rejected, Class
      <3>2. CASE UNCHANGED <<intent, elapsed>> /\ Failed(i)
        BY <1>d, <1>t, <3>2
      <3>3. ASSUME NEW q, NEW class, NEW n, NEW o, Recorded(i, q, class, n, o)
            PROVE  Counts(i)
        <4>1. /\ intent' = [intent EXCEPT ![i].last = class, ![i].outcome = o, ![i].issue = n]
              /\ elapsed' = [elapsed EXCEPT ![i] = @ \ {"wait"}]
              /\ at'.step = "drive"
          BY <1>t, <3>3 DEF Recorded
        <4>2. /\ intent'[i].bot = intent[i].bot
              /\ "day" \in elapsed[i] => "day" \in elapsed'[i]
              /\ \A j \in Instances \ {i} : intent'[j] = intent[j] /\ elapsed'[j] = elapsed[j]
          BY <1>0, <4>1 DEF Intent
        <4> QED BY <3>0, <3>1, <4>1, <4>2 DEF Counts, Settles, CapInv
      <3> QED BY <2>8, <3>2, <3>3, AnswerShape
    <2> QED BY <1>5, <2>1, <2>2, <2>3, <2>4, <2>5, <2>6, <2>7, <2>8 DEF Dispatch
  <1>6. CASE Settling(i)
    <2>0. MayHaveCreated(i) /\ UNCHANGED elapsed /\ at.i = i /\ Outstanding(i)
      BY <1>6, <1>o DEF Settling, Settle, ResolveTarget, ListCandidates, ListingFails, Adopt,
                        ledger, CapInv, Driven
    <2>1. ASSUME ListingFails(i) PROVE Counts(i)
      BY <2>0, <2>1, <1>d, <1>a, <1>t DEF ListingFails
    <2>2. CASE Settle(i)
      BY <2>0, <2>2, <1>a, <1>s, <1>t DEF Settle, Steps
    <2>3. CASE ResolveTarget(i)
      BY <2>0, <2>1, <2>3, <1>0, <1>a, <1>s DEF ResolveTarget, Position
    <2>4. CASE ListCandidates(i)
      BY <2>0, <2>1, <2>4, <1>0, <1>s DEF ListCandidates, Position, ledger
    <2>5. CASE Adopt(i)
      <3>1. CASE Ambiguous(i)
        BY <2>0, <3>1, <1>a
      <3>2. CASE ~Ambiguous(i)
        <4>1. PICK n : Adopted(i, n) /\ Finished(i)
          BY <2>5, <3>2 DEF Adopt
        <4>2. /\ intent'[i].outcome = "ledgered" /\ intent'[i].bot = intent[i].bot
              /\ \A j \in Instances \ {i} : intent'[j] = intent[j]
          BY <1>0, <4>1 DEF Adopted, Intent
        <4>3. ~Outstanding(i)'
          BY <4>2 DEF Outstanding, Terminal
        <4> QED BY <2>0, <1>t, <4>1, <4>2, <4>3 DEF Counts, Settles, CapInv
      <3> QED BY <3>1, <3>2
    <2> QED BY <1>6, <2>2, <2>3, <2>4, <2>5 DEF Settling
  <1> QED BY <1>1, <1>2, <1>3, <1>4, <1>5, <1>6 DEF Drive

LEMMA CapsKept ==
    ASSUME IInv, CapInv, [Next]_vars
    PROVE  CapInv'
  <1>f. ASSUME UNCHANGED intent,
               \A j \in Instances : elapsed[j] \subseteq elapsed'[j],
               UNCHANGED at \/ at'.step \in {"down", "idle", "drive"}
        PROVE  CapInv'
    <2>1. \A j \in Instances :
            MayHaveCreated(j)' = MayHaveCreated(j) /\ Outstanding(j)' = Outstanding(j)
      BY <1>f DEF MayHaveCreated, Outstanding, Terminal, Rejected, Class
    <2>2. /\ IsFiniteSet(Created') /\ CapsHold'
          /\ \A j \in Instances : ~DayCapped(j) => ~DayCapped(j)'
          /\ \A j \in Instances : ~RunCapped(j) => ~RunCapped(j)'
      BY <1>f, <2>1, CountsFall
    <2>3. Driven => at.i \in Instances
      BY DEF IInv, PassShape
    <2>4. (at.step \in {"list", "record", "build", "confirm", "mark"} => ~RunCapped(at.i))'
      <3>1. CASE UNCHANGED at
        BY <1>f, <2>2, <2>3, <3>1
           DEF CapInv, Driven, RunCapped, RunFilings, MayHaveCreated, Rejected, Class
      <3> QED BY <1>f, <3>1
    <2>5. (at.step \in {"settle", "target", "candidates", "adopt"} => MayHaveCreated(at.i))'
      BY <1>f DEF CapInv, MayHaveCreated, Rejected, Class
    <2> QED BY <1>f, <2>1, <2>2, <2>4, <2>5 DEF CapInv
  <1>1. ASSUME NEW i \in Instances, Drive(i) PROVE CapInv'
    BY <1>1, DriveCounts, CountsKept
  <1>2. CASE Start \/ BeginPass \/ EndPass \/ Crash
    <2>1. UNCHANGED <<intent, elapsed>> /\ at'.step \in {"down", "idle", "drive"}
      BY <1>2 DEF Start, BeginPass, EndPass, Crash, NoDrive, ledger
    <2> QED BY <1>f, <2>1
  <1>3. CASE GitHub
    BY <1>3, <1>f DEF GitHub, Commit, Reject, ledger, pass
  <1>4. CASE Environment
    <2>1. CASE TimePasses
      <3>1. PICK j \in Instances, wait \in {"wait", "day"} : Elapse(j, wait)
        BY <2>1 DEF TimePasses
      <3>2. elapsed \in [Instances -> SUBSET {"wait", "day"}]
        BY TypeParts DEF IInv, GoodRest
      <3> QED BY <1>f, <3>1, <3>2 DEF Elapse, pass
    <2> QED BY <1>4, <1>f, <2>1 DEF Environment, Approve, CloseWorkflow, Register, ledger, pass
  <1>5. CASE UNCHANGED vars
    BY <1>5, <1>f DEF vars
  <1> QED BY <1>1, <1>2, <1>3, <1>4, <1>5 DEF Next, Filer

\* Before the first pass only legacy intents count, one to a repository.
LEMMA InitCaps == Init => CapInv
  <1> SUFFICES ASSUME Init PROVE CapInv
    OBVIOUS
  <1>1. PICK last \in [Legacy -> {"none", "sent", "transient", "unproven"}] :
          intent = [i \in Instances |->
                      IF i \in Legacy THEN LegacyIntent(last[i]) ELSE NoIntent]
    BY DEF Init
  <1>2. \A l : LegacyIntent(l).bot = "unknown" /\ LegacyIntent(l).outcome = "none"
    BY OpenedShape DEF LegacyIntent, Intent
  <1>3. Created \subseteq Legacy /\ \A i \in Legacy : intent[i].bot = "unknown"
    BY <1>1, <1>2, LegacyIntents, OpenedShape DEF Created, MayHaveCreated
  <1>4. IsFiniteSet(Created)
    BY <1>3, LegacyIntents, FS_Subset
  <1>5. ASSUME NEW S \in SUBSET Legacy, \A i, j \in S : i = j
        PROVE  Cardinality(S) \in Nat /\ Cardinality(S) <= 1
    <2>1. CASE S = {}
      BY <2>1, FS_EmptySet
    <2>2. ASSUME NEW i \in S PROVE Cardinality(S) = 1
      <3>1. S = {i}
        BY <1>5
      <3> QED BY <3>1, FS_Singleton
    <2> QED BY <2>1, <2>2
  <1>6. ASSUME NEW r \in Repos PROVE Cardinality(OfDay(r)) <= MaxPerDay
    <2>1. OfDay(r) \in SUBSET Legacy /\ \A i, j \in OfDay(r) : i = j
      BY <1>3, LegacyIntents DEF OfDay, Created
    <2> QED BY <1>5, <2>1, Bounds
  <1>7. CapsHold
    <2>1. ASSUME NEW run \in Runs PROVE OfRun(run) \subseteq Legacy
      BY <1>3 DEF OfRun, Created
    <2> QED BY <1>6, <2>1 DEF CapsHold, OfRun, OfDay
  <1>8. ASSUME NEW i \in Instances, Outstanding(i) PROVE ~DayCapped(i)
    <2>1. i \in Legacy
      BY <1>1, <1>8, OpenedShape DEF Outstanding
    <2>2. RecentFilings(i) = {}
      BY <1>3, <2>1, LegacyIntents DEF RecentFilings, Created
    <2> QED BY <2>2, Bounds, FS_EmptySet DEF DayCapped
  <1>9. at.step = "down"
    BY DEF Init, NoDrive
  <1> QED BY <1>3, <1>4, <1>7, <1>8, <1>9 DEF CapInv

\* The caps of the policy bound what may exist on GitHub: the count and the claim
\* it admits are separate transactions, but a filing holds its repository from one
\* to the other and its turn keeps every other filing from claiming.
THEOREM CapsAreKept == Spec => []CapsHold
  <1>1. Init => CapInv
    BY InitCaps
  <1>2. IInv /\ CapInv /\ [Next]_vars => CapInv'
    BY CapsKept
  <1>3. CapInv => CapsHold
    BY DEF CapInv
  <1> QED BY <1>1, <1>2, <1>3, Invariance, PTL DEF Spec
=============================================================================
