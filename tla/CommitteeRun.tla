----------------------------- MODULE CommitteeRun -----------------------------
(***************************************************************************)
(* One committee run of tradehub_research/committee: the router that       *)
(* issues work to model roles, records their attempts and assessments,     *)
(* routes the run through red team and arbiter, and scores it.             *)
(*                                                                         *)
(* The API's endpoints are served by a thread pool, so requests overlap.   *)
(* A connection of db.py begins a transaction with its first write: what   *)
(* was read before may be stale when the write is done. So an action here  *)
(* is a write with the reads of its own transaction, or the reads that     *)
(* follow each other without a write of the request in between. The        *)
(* artifact contents are abstracted to what routes the run; ids are hashes *)
(* of the contents, so a row is identified by its value.                   *)
(***************************************************************************)
EXTENDS Integers, Sequences, SequencesExt

CONSTANTS
  Requests,  \* HTTP requests that may be in progress together
  Providers, \* model providers
  Failures,  \* ways a model call fails that are told apart
  None

ASSUME NoneAssumption ==
  None \notin Providers \cup {"resolved", "unresolved"}
               \cup {"RED_TEAM_REQUIRED", "READY_TO_SCORE"}
ASSUME FailureAssumption == Failures \subseteq {"malformed", "unavailable"}

MaxAttempts == 2
MaxCalls == 8

Neutrals == {"neutral_analyst_a", "neutral_analyst_b"}
Reviewers == {"red_team", "arbiter"}
Roles == Neutrals \cup Reviewers

Final == {"SCORED", "ESCALATE", "BLOCKED"}
States == {"PENDING_NEUTRALS", "RED_TEAM_REQUIRED", "ARBITER_REQUIRED",
           "READY_TO_SCORE"} \cup Final
Routes == {"RED_TEAM_REQUIRED", "READY_TO_SCORE"}
Causes == {"CREATED", "NEUTRALS_COMPARED", "SCORE_SNAPSHOT", "REVIEWED"}
            \cup Roles
Rows == [from : States \cup {"none"}, to : States, cause : Causes]
Row(from, to, cause) == [from |-> from, to |-> to, cause |-> cause]

Outcomes == {"accepted", "malformed", "unavailable"}
Verdicts == {"resolved", "unresolved"}

\* What an attempt's envelope says. A reviewer's verdict is "unresolved" when
\* it leaves a material item open.
Answers == [outcome : Outcomes, provider : Providers \cup {None},
            verdict : Verdicts \cup {None}]
Offers(role) ==
  [outcome : {"accepted"}, provider : Providers,
   verdict : IF role \in Neutrals THEN {None} ELSE Verdicts]
  \cup [outcome : Failures, provider : {None}, verdict : {None}]

VARIABLES
  log,        \* committee_transition of the run, in rowid order
  issued,     \* role |-> rows of committee_work, numbered from 1
  attempts,   \* role |-> outcomes in model_call_attempt, by attempt number
  assessed,   \* role |-> provider of its row in model_assessment, or None
  verdict,    \* reviewer |-> its dispute_resolution, or None
  comparison, \* the comparison report's routing decision, or None
  scored,     \* is there a score snapshot?
  req         \* request |-> program point and locals

vars == <<log, issued, attempts, assessed, verdict, comparison, scored, req>>

assessments == <<attempts, assessed, verdict>>
reports == <<comparison, scored>>

\* The points of a request, named for what comes next: "recover" begins
\* status(), "base" is its second half; "attempt" and "judge" are submit().
Points == {"idle", "recover", "compare", "route", "insert", "snapshot", "base",
           "issue", "work", "attempt", "judge"}
NoRow == Row("none", "PENDING_NEUTRALS", "CREATED")
Request == [pc : Points, then : Points, row : Rows, todo : SUBSET Roles,
            role : Roles, number : 1..MaxAttempts, answer : Answers \cup {None}]
Idle == [pc |-> "idle", then |-> "idle", row |-> NoRow, todo |-> {},
         role |-> "arbiter", number |-> 1, answer |-> None]

At(r, p) == req[r].pc = p
Become(r, q) == req' = [req EXCEPT ![r] = q]
Goto(r, p) == Become(r, [req[r] EXCEPT !.pc = p])
Enter(r, p) == Become(r, [Idle EXCEPT !.pc = p])
Done(r) == Enter(r, "idle")

\* record_transition in a transaction of its own: checked, then inserted.
Propose(r, row, then, todo) ==
  Become(r, [Idle EXCEPT !.pc = "insert", !.row = row, !.then = then,
                         !.todo = todo])

-----------------------------------------------------------------------------
State == IF log = <<>> THEN "none" ELSE Last(log).to
RowsOf == {log[i] : i \in 1..Len(log)}

Required(role) ==
  /\ assessed[role] = None
  /\ \/ State = "PENDING_NEUTRALS" /\ role \in Neutrals
     \/ State = "RED_TEAM_REQUIRED" /\ role = "red_team"
     \/ State = "ARBITER_REQUIRED" /\ role = "arbiter"

Open(role) == Len(attempts[role]) < issued[role]
Calls == issued["neutral_analyst_a"] + issued["neutral_analyst_b"]
           + issued["red_team"] + issued["arbiter"]

Exhausted(role) == Len(attempts[role]) >= MaxAttempts \/ Calls >= MaxCalls

\* Mutant: a role can only be exhausted in the first stage.
ExhaustionRowFromStart(role, last) ==
  Row("PENDING_NEUTRALS",
      IF last = "unavailable" THEN "BLOCKED" ELSE "ESCALATE", role)

\* record_exhaustion: from whatever state the run is in by now.
ExhaustionRow(role, last) ==
  Row(State, IF last = "unavailable" THEN "BLOCKED" ELSE "ESCALATE", role)

-----------------------------------------------------------------------------
(* status(): recover, then issue what is required. GET work is a status    *)
(* that ends after the first envelope, which Stop allows for.              *)

\* POST /committee-runs: the run's row is there already, or is written now.
Create(r) ==
  /\ At(r, "idle")
  /\ IF State = "none"
       THEN Propose(r, Row("none", "PENDING_NEUTRALS", "CREATED"), "recover", {})
       ELSE Goto(r, "recover")
  /\ UNCHANGED <<log, issued, assessments, reports>>

Poll(r) ==
  /\ At(r, "idle")
  /\ Goto(r, "recover")
  /\ UNCHANGED <<log, issued, assessments, reports>>

BothNeutrals == \A role \in Neutrals : assessed[role] # None
RouteRow == Row("PENDING_NEUTRALS", comparison, "NEUTRALS_COMPARED")

Recover(r) ==
  /\ At(r, "recover")
  /\ CASE State = "PENDING_NEUTRALS" /\ BothNeutrals /\ comparison = None
            -> Goto(r, "compare")
       [] State = "PENDING_NEUTRALS" /\ BothNeutrals /\ comparison # None
            -> Propose(r, RouteRow, "recover", {})
       [] State = "READY_TO_SCORE" -> Goto(r, "snapshot")
       [] OTHER -> Goto(r, "base")
  /\ UNCHANGED <<log, issued, assessments, reports>>

\* The comparison is a function of the two assessments: it is written once.
Compare(r) ==
  /\ At(r, "compare")
  /\ IF comparison = None THEN comparison' \in Routes ELSE UNCHANGED comparison
  /\ Goto(r, "route")
  /\ UNCHANGED <<log, issued, assessments, scored>>

Route(r) ==
  /\ At(r, "route")
  /\ IF State = "PENDING_NEUTRALS" THEN Propose(r, RouteRow, "recover", {})
                                   ELSE Goto(r, "recover")
  /\ UNCHANGED <<log, issued, assessments, reports>>

\* The same row twice violates the primary key and fails the request.
InsertTransition(r) ==
  /\ At(r, "insert")
  /\ IF req[r].row \in RowsOf
       THEN Done(r) /\ UNCHANGED log
       ELSE /\ log' = Append(log, req[r].row)
            /\ Become(r, [Idle EXCEPT !.pc = req[r].then,
                                      !.todo = req[r].todo])
  /\ UNCHANGED <<issued, assessments, reports>>

\* create_snapshot: READY_TO_SCORE was read before; INSERT OR IGNORE.
ScoreRow == Row("READY_TO_SCORE", "SCORED", "SCORE_SNAPSHOT")

Snapshot(r) ==
  /\ At(r, "snapshot")
  /\ scored' = TRUE
  /\ log' = IF ScoreRow \in RowsOf THEN log ELSE Append(log, ScoreRow)
  /\ Goto(r, "base")
  /\ UNCHANGED <<issued, assessments, comparison>>

Base(r) ==
  /\ At(r, "base")
  /\ Become(r, [req[r] EXCEPT !.pc = "issue",
                              !.todo = {role \in Roles : Required(role)}])
  /\ UNCHANGED <<log, issued, assessments, reports>>

\* Analyst A comes before analyst B; no other two roles are required together.
First(r, role) ==
  /\ role \in req[r].todo
  /\ "neutral_analyst_a" \in req[r].todo => role = "neutral_analyst_a"

Rest(r, role) == req[r].todo \ {role}
Proceed(r, role) ==
  Become(r, [Idle EXCEPT !.pc = "issue", !.todo = Rest(r, role)])

LastOutcome(role) ==
  IF attempts[role] = <<>> THEN "accepted" ELSE Last(attempts[role])

Answered(r) ==
  /\ At(r, "issue") /\ req[r].todo = {}
  /\ Done(r)
  /\ UNCHANGED <<log, issued, assessments, reports>>

\* Nothing to issue: not required any more, or work is open.
Keep(r) ==
  /\ At(r, "issue")
  /\ \E role \in Roles :
       /\ First(r, role) /\ Proceed(r, role)
       /\ ~Required(role) \/ Open(role)
  /\ UNCHANGED <<log, issued, assessments, reports>>

Wanted(r, role) ==
  At(r, "issue") /\ First(r, role) /\ Required(role) /\ ~Open(role)

\* Mutant: exhaustion is not derived from the attempts.
DeriveNoExhaustion(r) ==
  /\ \E role \in Roles : Wanted(r, role) /\ Exhausted(role) /\ Proceed(r, role)
  /\ UNCHANGED <<log, issued, assessments, reports>>

\* A request that died after the last attempt left this to do.
DeriveExhaustion(r) ==
  /\ \E role \in Roles :
       /\ Wanted(r, role) /\ Exhausted(role)
       /\ Propose(r, ExhaustionRow(role, LastOutcome(role)), "issue",
                  Rest(r, role))
  /\ UNCHANGED <<log, issued, assessments, reports>>

ChooseWork(r) ==
  /\ \E role \in Roles :
       /\ Wanted(r, role) /\ ~Exhausted(role)
       /\ Become(r, [req[r] EXCEPT !.pc = "work", !.role = role,
                                   !.number = Len(attempts[role]) + 1])
  /\ UNCHANGED <<log, issued, assessments, reports>>

\* Mutant: the slot is not looked at.
InsertWorkAfresh(r) ==
  /\ At(r, "work")
  /\ issued' = [issued EXCEPT ![req[r].role] = @ + 1]
  /\ Proceed(r, req[r].role)
  /\ UNCHANGED <<log, assessments, reports>>

\* The slot (role, attempt number) is unique, and its row is a function of it.
InsertWork(r) ==
  /\ At(r, "work")
  /\ issued' = [issued EXCEPT ![req[r].role] =
                  IF req[r].number > @ THEN req[r].number ELSE @]
  /\ Proceed(r, req[r].role)
  /\ UNCHANGED <<log, assessments, reports>>

-----------------------------------------------------------------------------
(* submit(). A raw assessment is a GET work for its role followed by this. *)

\* Work that is open and authorized; else nothing happens but, when it is the
\* retry of completed work, a status.
Submit(r, role, a) ==
  /\ At(r, "idle")
  /\ Open(role) /\ Required(role)
  /\ Become(r, [req[r] EXCEPT !.pc = "attempt", !.role = role,
                              !.number = issued[role], !.answer = a])
  /\ UNCHANGED <<log, issued, assessments, reports>>

Independent(role, p) ==
  /\ role = "arbiter" => assessed["red_team"] # p
  /\ role \in Neutrals => \A other \in Neutrals \ {role} : assessed[other] # p

\* The UNIQUE slot of the attempt is free.
Free(r) == Len(attempts[req[r].role]) < req[r].number
Recorded(r, outcome) ==
  attempts' = [attempts EXCEPT ![req[r].role] = Append(@, outcome)]

Valid(r) == /\ req[r].answer.outcome = "accepted"
            /\ Independent(req[r].role, req[r].answer.provider)

\* A failure, or an acceptance that does not validate: recorded as malformed.
RecordFailure(r) ==
  LET a == req[r].answer
      outcome == IF a.outcome = "accepted" THEN "malformed" ELSE a.outcome
  IN
  /\ At(r, "attempt") /\ Free(r)
  /\ a.outcome # "accepted" \/ ~Independent(req[r].role, a.provider)
  /\ Recorded(r, outcome)
  /\ Become(r, [req[r] EXCEPT !.pc = "judge", !.answer.outcome = outcome])
  /\ UNCHANGED <<log, issued, assessed, verdict, reports>>

StageOf(role) ==
  IF role = "red_team" THEN "RED_TEAM_REQUIRED" ELSE "ARBITER_REQUIRED"

\* Mutant: an open dispute is left to the score.
TargetUndisputed(role, v) == "READY_TO_SCORE"

Target(role, v) == IF v = "resolved" THEN "READY_TO_SCORE"
                   ELSE IF role = "red_team" THEN "ARBITER_REQUIRED"
                   ELSE "ESCALATE"

\* A neutral's transaction: the attempt and the assessment. What follows, the
\* comparison when it was the second, is what status() recovers.
AcceptNeutral(r) ==
  LET role == req[r].role a == req[r].answer IN
  /\ At(r, "attempt") /\ Free(r) /\ Valid(r) /\ role \in Neutrals
  /\ Recorded(r, "accepted")
  /\ assessed' = [assessed EXCEPT ![role] = a.provider]
  /\ Enter(r, "recover")
  /\ UNCHANGED <<log, issued, verdict, reports>>

\* Mutant: the resolution is not in the transaction.
AcceptReviewInPart(r) ==
  LET role == req[r].role a == req[r].answer IN
  /\ At(r, "attempt") /\ Free(r) /\ Valid(r) /\ role \in Reviewers
  /\ Recorded(r, "accepted")
  /\ assessed' = [assessed EXCEPT ![role] = a.provider]
  /\ Enter(r, "recover")
  /\ UNCHANGED <<log, issued, verdict, reports>>

\* A reviewer's transaction: resolution and transition as well. It is rolled
\* back when the run is no longer in the reviewer's stage.
AcceptReview(r) ==
  LET role == req[r].role a == req[r].answer IN
  /\ At(r, "attempt") /\ Free(r) /\ Valid(r) /\ role \in Reviewers
  /\ State = StageOf(role)
  /\ Recorded(r, "accepted")
  /\ assessed' = [assessed EXCEPT ![role] = a.provider]
  /\ verdict' = [verdict EXCEPT ![role] = a.verdict]
  /\ log' = Append(log, Row(State, Target(role, a.verdict), "REVIEWED"))
  /\ Enter(r, "recover")
  /\ UNCHANGED <<issued, reports>>

\* _advance_exhaustion_if_needed.
Judge(r) ==
  LET role == req[r].role IN
  /\ At(r, "judge")
  /\ IF Exhausted(role) /\ State \notin Final
       THEN Propose(r, ExhaustionRow(role, req[r].answer.outcome), "recover",
                    {})
       ELSE Enter(r, "recover")
  /\ UNCHANGED <<log, issued, assessments, reports>>

\* The slot was taken meanwhile, or the stage left: rolled back, an error.
Refused(r) ==
  /\ At(r, "attempt")
  /\ \/ ~Free(r)
     \/ /\ Valid(r) /\ req[r].role \in Reviewers
        /\ State # StageOf(req[r].role)
  /\ Done(r)
  /\ UNCHANGED <<log, issued, assessments, reports>>

\* The process stops, or the request ends in another error: a locked
\* database, a document that does not validate.
Stop(r) ==
  /\ ~At(r, "idle")
  /\ Done(r)
  /\ UNCHANGED <<log, issued, assessments, reports>>

-----------------------------------------------------------------------------
Init == /\ log = <<>>
        /\ issued = [role \in Roles |-> 0]
        /\ attempts = [role \in Roles |-> <<>>]
        /\ assessed = [role \in Roles |-> None]
        /\ verdict = [role \in Reviewers |-> None]
        /\ comparison = None
        /\ scored = FALSE
        /\ req = [r \in Requests |-> Idle]

Advance(r) ==
  \/ Recover(r) \/ Compare(r) \/ Route(r) \/ InsertTransition(r)
  \/ Snapshot(r) \/ Base(r) \/ Answered(r) \/ Keep(r) \/ DeriveExhaustion(r)
  \/ ChooseWork(r) \/ InsertWork(r) \/ RecordFailure(r) \/ AcceptNeutral(r)
  \/ AcceptReview(r) \/ Refused(r) \/ Judge(r)

Answer(r) == \E role \in Roles : \E a \in Offers(role) : Submit(r, role, a)

Next == \E r \in Requests :
          Create(r) \/ Poll(r) \/ Answer(r) \/ Advance(r) \/ Stop(r)

Spec == Init /\ [][Next]_vars

\* The run is created, polled and its open work answered again and again, a
\* request in progress goes on, and requests stop only finitely often.
FairSpec ==
  /\ Spec
  /\ \A r \in Requests :
       /\ SF_vars(State = "none" /\ Create(r)) /\ SF_vars(Poll(r))
       /\ SF_vars(Answer(r)) /\ WF_vars(Advance(r))
  /\ <>[][\A r \in Requests : Stop(r) => Advance(r)]_vars

-----------------------------------------------------------------------------
(* Properties.                                                             *)

\* Every variable keeps its type.
TypeOK == /\ log \in Seq(Rows)
          /\ issued \in [Roles -> 0..MaxAttempts]
          /\ attempts \in [Roles -> Seq(Outcomes)]
          /\ assessed \in [Roles -> Providers \cup {None}]
          /\ verdict \in [Reviewers -> {"resolved", "unresolved", None}]
          /\ comparison \in Routes \cup {None}
          /\ scored \in BOOLEAN
          /\ req \in [Requests -> Request]

\* A snapshot, on which the portfolio engine acts, exists only for a run whose
\* neutrals agreed or whose material disputes a reviewer resolved.
ScoredAfterReview ==
  scored => /\ BothNeutrals
            /\ \/ comparison = "READY_TO_SCORE"
               \/ \E role \in Reviewers : verdict[role] = "resolved"

\* Model calls are paid for: at most one is open per role, a second one is
\* issued only after the first failed, and none after an acceptance.
OneCallAtATime ==
  \A role \in Roles :
    /\ Len(attempts[role]) <= issued[role]
    /\ issued[role] <= Len(attempts[role]) + 1
    /\ \A i \in 1..Len(attempts[role]) :
         attempts[role][i] = "accepted" => i = issued[role]

\* An accepted attempt comes with its assessment, and a reviewer's with its
\* resolution and transition, all or none.
AcceptanceIsWhole ==
  /\ \A role \in Roles :
       (\E i \in 1..Len(attempts[role]) : attempts[role][i] = "accepted")
         <=> assessed[role] # None
  /\ \A role \in Reviewers :
       /\ verdict[role] # None <=> assessed[role] # None
       /\ verdict[role] # None =>
            Row(StageOf(role), Target(role, verdict[role]), "REVIEWED")
              \in RowsOf

\* The two neutrals differ in provider, and the arbiter from the red team.
ProvidersIndependent ==
  /\ assessed["neutral_analyst_a"] # None =>
       assessed["neutral_analyst_a"] # assessed["neutral_analyst_b"]
  /\ assessed["arbiter"] # None => assessed["arbiter"] # assessed["red_team"]

\* What is accepted is whole and comes from providers that cannot collude.
AcceptanceIsSound == AcceptanceIsWhole /\ ProvidersIndependent

\* A role counts as exhausted only if all its attempts failed.
ExhaustedRoleFailed ==
  \A role \in Roles : \A row \in RowsOf :
    row.cause = role => /\ assessed[role] = None
                        /\ Len(attempts[role]) = MaxAttempts

\* record_transition: "transition expected ..., current state is ...".
TransitionsChain ==
  \A i \in 1..Len(log) :
    log[i].from = IF i = 1 THEN "none" ELSE log[i - 1].to

\* Requests that do not overlap leave a chain of transitions, and only a role whose
\* attempts failed exhausts the run.
AloneRunIsSound == TransitionsChain /\ ExhaustedRoleFailed

\* Every run is scored, escalated or blocked in the end.
RunIsOver == State \in Final
=============================================================================
