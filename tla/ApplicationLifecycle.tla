------------------------- MODULE ApplicationLifecycle -------------------------
(***************************************************************************)
(* The application engine of Career OS: the job-agent commands prepare,    *)
(* approve, submit, run, verify, target-add and allowlist, and the service *)
(* functions under them, over one SQLite database and one platform that    *)
(* receives applications, for one candidate.                               *)
(*                                                                         *)
(* A command is a process of its own.  It loads the rows it works on into  *)
(* a session that never refreshes them (expire_on_commit=False), decides   *)
(* on what it loaded, and writes in one transaction; between two steps of  *)
(* it another process may run, and it may die.  SQLite has one writer at a *)
(* time, so that the steps of a transaction after its first write are one  *)
(* step here.                                                              *)
(*                                                                         *)
(* A definition named Mutant... is a deliberately wrong version of the one *)
(* that follows it, kept to show that a property can tell the two apart.   *)
(***************************************************************************)
EXTENDS Integers, Sequences, FiniteSets

CONSTANTS
  Procs,        \* the job-agent processes that may run at one time
  Jobs,         \* the rows of the jobs table
  Postings,     \* what a job row can say: content and application_url
  Fingerprint,  \* Fingerprint[q]: compute_job_fingerprint of posting q
  Company,      \* Company[j]: company_name of job j
  Source,       \* Source[j]: source_id of job j
  AnswerSets,   \* what one preparation can answer to the questions of a form
  Open,         \* the answer sets with an answer that requires a human
  NoJob, NoPosting,   \* what an idle process works on
  MaxPerDay, MaxPerHour, MaxPerCompany, MaxPerSource,  \* config.automation.applications
  Level4,       \* config.automation.automation.level is 4
  MaxPreparations, \* bound: times an application is given the same answer set
  MaxApprovals,    \* bound: approvals ever given
  MaxListings,     \* bound: allowlist entries ever added
  MaxRescans,      \* bound: rescans that change a job row
  MaxDeaths        \* bound: processes that die in a command

ASSUME LifecycleAssumption ==
  /\ Fingerprint \in [Postings -> Postings]
  /\ DOMAIN Company = Jobs /\ DOMAIN Source = Jobs
  /\ Open \subseteq AnswerSets
  /\ IsFiniteSet(Jobs)
  /\ NoJob \notin Jobs /\ NoPosting \notin Postings
  /\ Level4 \in BOOLEAN
  /\ {MaxPerDay, MaxPerHour, MaxPerCompany, MaxPerSource} \subseteq Nat
  /\ {MaxPreparations, MaxApprovals, MaxListings, MaxRescans, MaxDeaths} \subseteq Nat

VARIABLES
  status,     \* status[j]: Application.status of the application to job j, or "none"
  submitted,  \* submitted[j]: how long ago submitted_at is
  answers,    \* answers[j]: how often each answer set was stored for it
  posting,    \* posting[j]: what the row of job j says now
  decision,   \* decision[j]: JobMatch.decision of the latest match of job j
  approvals,  \* the rows of application_approvals, by id
  listings,   \* the rows of application_allowlist_entries, by id
  cli,        \* cli[p]: the command process p runs, with the rows it loaded
  attempts,   \* attempts[j]: calls of submit of the provider that can submit
  received,   \* received[j]: applications to job j that the platform took
  unrecorded, \* unrecorded[j]: processes that died between submit and its record
  rescans, deaths   \* what the bounds count

rows     == <<status, submitted, answers>>
grants   == <<approvals, listings>>
platform == <<attempts, received>>
jobs     == <<posting, decision>>
bounds   == <<rescans, deaths>>
vars     == <<rows, jobs, grants, cli, platform, unrecorded, bounds>>

-----------------------------------------------------------------------------

Statuses == {"DISCOVERED", "MATCHED", "HUMAN_REQUIRED", "PREPARED", "SUBMITTED",
             "SUBMISSION_UNCERTAIN", "VERIFIED", "FAILED", "SKIPPED"}

\* What a match decides: APPLY or REVIEW, HUMAN_REQUIRED, SAVE or SKIP.
Decisions == {"APPLY", "HUMAN_REQUIRED", "SKIP"}

\* _ALLOWED_TRANSITIONS.
Transitions ==
  [DISCOVERED           |-> {"MATCHED", "HUMAN_REQUIRED", "SKIPPED", "FAILED"},
   MATCHED              |-> {"PREPARED", "HUMAN_REQUIRED", "SKIPPED", "FAILED"},
   HUMAN_REQUIRED       |-> {"PREPARED", "HUMAN_REQUIRED", "SKIPPED", "FAILED"},
   PREPARED             |-> {"SUBMITTED", "SUBMISSION_UNCERTAIN", "HUMAN_REQUIRED", "SKIPPED", "FAILED"},
   SUBMITTED            |-> {"VERIFIED", "FAILED"},
   SUBMISSION_UNCERTAIN |-> {"VERIFIED", "FAILED", "HUMAN_REQUIRED"},
   VERIFIED             |-> {},
   FAILED               |-> {"MATCHED"},
   SKIPPED              |-> {}]

\* How long ago a submission was: the windows of the rate limits.
PastHour == {"hour"}
PastDay  == {"hour", "day"}
Ever     == {"hour", "day", "earlier"}

Places == {"idle", "discover", "inspect", "generate", "confirm", "gates", "consume",
           "post", "record", "run", "verify", "retry"}

NoAnswers == [v \in AnswerSets |-> 0]
HasOpen(a) == \E v \in Open : a[v] > 0

Idle == [pc |-> "idle", job |-> NoJob, seen |-> "none", posting |-> NoPosting,
         decision |-> "none", answers |-> NoAnswers, ticket |-> 0, outcome |-> "none"]

\* A new command of process p, with the application, job and match rows it loads.
Begin(p, place, j) ==
  /\ cli[p].pc = "idle"
  /\ cli' = [cli EXCEPT ![p] = [Idle EXCEPT !.pc = place, !.job = j, !.seen = status[j],
                                            !.posting = posting[j], !.decision = decision[j]]]

MutantFinish(p) == cli' = [cli EXCEPT ![p].job = NoJob]

Finish(p) == cli' = [cli EXCEPT ![p] = Idle]

\* transition_status: the move is checked against the status this session
\* loaded, and the column is written only if it differs from that.
SetStatus(p, target) ==
  /\ target \in Transitions[cli[p].seen]
  /\ status' = [status EXCEPT ![cli[p].job] = IF target = cli[p].seen THEN @ ELSE target]

-----------------------------------------------------------------------------
(* applications prepare: discover_application and prepare_application. *)

\* The application of a job that has none is created, that of a job with one
\* is prepared if it is MATCHED or HUMAN_REQUIRED.
Prepare(p, j) ==
  /\ \/ status[j] = "none" /\ Begin(p, "discover", j)
     \/ status[j] \in {"MATCHED", "HUMAN_REQUIRED"} /\ Begin(p, "inspect", j)
  /\ UNCHANGED <<rows, jobs, grants, platform, unrecorded, bounds>>

MutantTwin(p) == FALSE

\* find_cross_source_duplicate_application.
Twin(p) ==
  \E k \in Jobs \ {cli[p].job} :
     Fingerprint[posting[k]] = Fingerprint[cli[p].posting] /\ status[k] # "none"

\* The unique constraint refuses a second row for the job.
DiscoverRaced(p) ==
  /\ cli[p].pc = "discover" /\ status[cli[p].job] # "none"
  /\ Finish(p)
  /\ UNCHANGED <<rows, jobs, grants, platform, unrecorded, bounds>>

\* The row is inserted, and leaves DISCOVERED in the same transaction: a
\* duplicate and a match that says SAVE or SKIP are skipped ...
DiscoverSkips(p) ==
  /\ cli[p].pc = "discover" /\ status[cli[p].job] = "none"
  /\ Twin(p) \/ cli[p].decision = "SKIP"
  /\ status' = [status EXCEPT ![cli[p].job] = "SKIPPED"]
  /\ Finish(p)
  /\ UNCHANGED <<submitted, answers, jobs, grants, platform, unrecorded, bounds>>

\* ... any other goes on to be prepared, also if the match asks for a human.
DiscoverMatches(p) ==
  LET target == IF cli[p].decision = "HUMAN_REQUIRED" THEN "HUMAN_REQUIRED" ELSE "MATCHED" IN
  /\ cli[p].pc = "discover" /\ status[cli[p].job] = "none"
  /\ ~Twin(p) /\ cli[p].decision # "SKIP"
  /\ status' = [status EXCEPT ![cli[p].job] = target]
  /\ cli' = [cli EXCEPT ![p].pc = "inspect", ![p].seen = target]
  /\ UNCHANGED <<submitted, answers, jobs, grants, platform, unrecorded, bounds>>

\* The form raises nothing that stops_on_... in rules.yaml asks a human for.
InspectionPasses(p) ==
  /\ cli[p].pc = "inspect"
  /\ cli' = [cli EXCEPT ![p].pc = "generate"]
  /\ UNCHANGED <<rows, jobs, grants, platform, unrecorded, bounds>>

\* handle_application_inspection: a captcha, MFA, a consent or an unknown form.
InspectionStops(p) ==
  /\ cli[p].pc = "inspect"
  /\ SetStatus(p, "HUMAN_REQUIRED")
  /\ Finish(p)
  /\ UNCHANGED <<submitted, answers, jobs, grants, platform, unrecorded, bounds>>

\* The provider cannot inspect the form, or cannot name its questions.
PreparationFails(p) ==
  /\ cli[p].pc \in {"inspect", "generate"}
  /\ SetStatus(p, "FAILED")
  /\ Finish(p)
  /\ UNCHANGED <<submitted, answers, jobs, grants, platform, unrecorded, bounds>>

MutantGenerate(p, v) ==
  /\ cli[p].pc = "generate"
  /\ answers' = [answers EXCEPT ![cli[p].job] = [NoAnswers EXCEPT ![v] = 1]]
  /\ SetStatus(p, IF v \in Open THEN "HUMAN_REQUIRED" ELSE "PREPARED")
  /\ Finish(p)
  /\ UNCHANGED <<submitted, jobs, grants, platform, unrecorded, bounds>>

\* The answers are added to those stored before.
Generate(p, v) ==
  /\ cli[p].pc = "generate"
  /\ answers[cli[p].job][v] < MaxPreparations
  /\ answers' = [answers EXCEPT ![cli[p].job][v] = @ + 1]
  /\ SetStatus(p, IF v \in Open THEN "HUMAN_REQUIRED" ELSE "PREPARED")
  /\ Finish(p)
  /\ UNCHANGED <<submitted, jobs, grants, platform, unrecorded, bounds>>

-----------------------------------------------------------------------------
(* applications approve, allowlist add and revoke. *)

\* What a human is shown: the posting, and every answer stored so far.
ReviewForApproval(p, j) ==
  /\ cli[p].pc = "idle"
  /\ status[j] = "PREPARED"
  /\ ~HasOpen(answers[j])
  /\ cli' = [cli EXCEPT ![p] = [Idle EXCEPT !.pc = "confirm", !.job = j, !.seen = status[j],
                                            !.posting = posting[j], !.answers = answers[j]]]
  /\ UNCHANGED <<rows, jobs, grants, platform, unrecorded, bounds>>

\* create_approval, once the human has confirmed.
Approve(p) ==
  /\ cli[p].pc = "confirm"
  /\ Len(approvals) < MaxApprovals
  /\ approvals' = Append(approvals, [job |-> cli[p].job, answers |-> cli[p].answers, state |-> "live",
                                     fingerprint |-> Fingerprint[cli[p].posting]])
  /\ Finish(p)
  /\ UNCHANGED <<rows, jobs, listings, platform, unrecorded, bounds>>

Decline(p) ==
  /\ cli[p].pc = "confirm"
  /\ Finish(p)
  /\ UNCHANGED <<rows, jobs, grants, platform, unrecorded, bounds>>

\* expires_at passes, or revoke_approval.
ApprovalLapses(i) ==
  /\ approvals[i].state = "live"
  /\ approvals' = [approvals EXCEPT ![i].state = "void"]
  /\ UNCHANGED <<rows, jobs, listings, cli, platform, unrecorded, bounds>>

AllowlistAdd(j) ==
  /\ Len(listings) < MaxListings
  /\ listings' = Append(listings, [posting |-> posting[j], live |-> TRUE])
  /\ UNCHANGED <<rows, jobs, approvals, cli, platform, unrecorded, bounds>>

\* allowlist revoke, or expires_at passes.
ListingLapses(i) ==
  /\ listings[i].live
  /\ listings' = [listings EXCEPT ![i].live = FALSE]
  /\ UNCHANGED <<rows, jobs, approvals, cli, platform, unrecorded, bounds>>

-----------------------------------------------------------------------------
(* applications submit: submit_application, for a provider with            *)
(* requires_persisted_approval.                                            *)

Active(i, q) == listings[i].live /\ Fingerprint[listings[i].posting] = Fingerprint[q]

\* The newest entry for the posting, which must name the very URL the job has.
Allowlisted(q) ==
  \E i \in DOMAIN listings :
     /\ Active(i, q) /\ \A k \in DOMAIN listings : k > i => ~Active(k, q)
     /\ listings[i].posting = q

MutantValid(i, j, q, a) ==
  /\ approvals[i].state = "live"
  /\ approvals[i].job = j
  /\ approvals[i].fingerprint = Fingerprint[q]

\* get_valid_approval: neither expired, revoked nor consumed, and bound to this
\* posting and these answers.
Valid(i, j, q, a) ==
  /\ approvals[i].state = "live"
  /\ approvals[i].job = j
  /\ approvals[i].fingerprint = Fingerprint[q]
  /\ approvals[i].answers = a

Submissions(S, window) == Cardinality({k \in S : submitted[k] \in window})

MutantWithinLimits(j) ==
  /\ Submissions(Jobs, PastDay) < MaxPerDay
  /\ Submissions(Jobs, PastHour) < MaxPerHour
  /\ Submissions({k \in Jobs : Company[k] = Company[j]}, PastDay) < MaxPerCompany
  /\ Submissions({k \in Jobs : Source[k] = Source[j]}, PastDay) < MaxPerSource

\* check_rate_limits.
WithinLimits(j) ==
  /\ Submissions(Jobs, PastDay) < MaxPerDay
  /\ Submissions(Jobs, PastHour) < MaxPerHour
  /\ Submissions({k \in Jobs : Company[k] = Company[j]}, Ever) < MaxPerCompany
  /\ Submissions({k \in Jobs : Source[k] = Source[j]}, PastDay) < MaxPerSource

MutantSubmit(p, j) ==
  /\ status[j] \in {"PREPARED", "SUBMISSION_UNCERTAIN"}
  /\ Begin(p, "gates", j)
  /\ UNCHANGED <<rows, jobs, grants, platform, unrecorded, bounds>>

Submit(p, j) ==
  /\ status[j] = "PREPARED"
  /\ Begin(p, "gates", j)
  /\ UNCHANGED <<rows, jobs, grants, platform, unrecorded, bounds>>

\* dry_run or not live_mode, no allowlist entry, or no approval: an event
\* tells which, and nothing else changes.
GateCloses(p) ==
  /\ cli[p].pc = "gates"
  /\ Finish(p)
  /\ UNCHANGED <<rows, jobs, grants, platform, unrecorded, bounds>>

\* RATE_LIMIT_EXCEEDED.
SubmitLimited(p) ==
  LET j == cli[p].job  q == cli[p].posting IN
  /\ cli[p].pc = "gates"
  /\ Allowlisted(q)
  /\ \E i \in DOMAIN approvals : Valid(i, j, q, answers[j])
  /\ ~WithinLimits(j)
  /\ SetStatus(p, "SKIPPED")
  /\ Finish(p)
  /\ UNCHANGED <<submitted, answers, jobs, grants, platform, unrecorded, bounds>>

\* The newest valid approval is the one to be consumed.
GatesOpen(p, i) ==
  LET j == cli[p].job  q == cli[p].posting IN
  /\ cli[p].pc = "gates"
  /\ Allowlisted(q)
  /\ Valid(i, j, q, answers[j])
  /\ \A k \in DOMAIN approvals : k > i => ~Valid(k, j, q, answers[j])
  /\ WithinLimits(j)
  /\ cli' = [cli EXCEPT ![p].pc = "consume", ![p].answers = answers[j], ![p].ticket = i]
  /\ UNCHANGED <<rows, jobs, grants, platform, unrecorded, bounds>>

MutantConsume(p) ==
  /\ cli[p].pc = "consume"
  /\ cli' = [cli EXCEPT ![p].pc = "post"]
  /\ UNCHANGED <<rows, jobs, grants, platform, unrecorded, bounds>>

\* consume_approval, committed before the provider is called.
Consume(p) ==
  /\ cli[p].pc = "consume"
  /\ approvals' = [approvals EXCEPT ![cli[p].ticket].state = "consumed"]
  /\ cli' = [cli EXCEPT ![p].pc = "post"]
  /\ UNCHANGED <<rows, jobs, listings, platform, unrecorded, bounds>>

\* A call of provider.submit, with what the session holds of it afterwards and
\* how many applications the platform took.
Post(p, outcome, taken) ==
  LET j == cli[p].job IN
  /\ cli[p].pc = "post"
  /\ attempts' = [attempts EXCEPT ![j] = @ + 1]
  /\ received' = [received EXCEPT ![j] = @ + taken]
  /\ cli' = [cli EXCEPT ![p].pc = "record", ![p].outcome = outcome]
  /\ UNCHANGED <<rows, jobs, grants, unrecorded, bounds>>

\* The provider refuses, the connection fails, or the platform says no.
PostRefused(p) == Post(p, "refused", 0)

\* The platform says yes, and gives a confirmation_id.
PostAccepted(p) == ~HasOpen(cli[p].answers) /\ Post(p, "accepted", 1)

\* SubmissionOutcomeUnknownError: the platform may or may not have taken it.
PostUnknown(p) == ~HasOpen(cli[p].answers) /\ \E taken \in {0, 1} : Post(p, "unknown", taken)

MutantOutcome(o) ==
  CASE o = "accepted" -> "SUBMITTED"
    [] o = "unknown"  -> "FAILED"
    [] o = "refused"  -> "FAILED"

MutantOutcomeClaims(o) == IF o = "refused" THEN "FAILED" ELSE "SUBMITTED"

\* The status for what provider.submit returned or raised.
Outcome(o) ==
  CASE o = "accepted" -> "SUBMITTED"
    [] o = "unknown"  -> "SUBMISSION_UNCERTAIN"
    [] o = "refused"  -> "FAILED"

Record(p) ==
  /\ cli[p].pc = "record"
  /\ SetStatus(p, Outcome(cli[p].outcome))
  /\ submitted' = IF cli[p].outcome = "accepted" THEN [submitted EXCEPT ![cli[p].job] = "hour"]
                                                ELSE submitted
  /\ Finish(p)
  /\ UNCHANGED <<answers, jobs, grants, platform, unrecorded, bounds>>

-----------------------------------------------------------------------------
(* applications run, verify and target-add, and retry_application. *)

\* run takes every PREPARED application to ManualReviewProvider, as submit does
\* the one of a job no provider can submit.
Run(p, j) ==
  /\ status[j] = "PREPARED"
  /\ Begin(p, "run", j)
  /\ UNCHANGED <<rows, jobs, grants, platform, unrecorded, bounds>>

\* dry_run or not live_mode, or a level under 4: nothing happens.
RunBlocked(p) ==
  /\ cli[p].pc = "run"
  /\ Finish(p)
  /\ UNCHANGED <<rows, jobs, grants, platform, unrecorded, bounds>>

\* The rate limits skip the application, or the provider refuses it.
RunRefused(p) ==
  /\ cli[p].pc = "run" /\ Level4
  /\ SetStatus(p, IF WithinLimits(cli[p].job) THEN "FAILED" ELSE "SKIPPED")
  /\ Finish(p)
  /\ UNCHANGED <<submitted, answers, jobs, grants, platform, unrecorded, bounds>>

Verify(p, j) ==
  /\ status[j] = "SUBMITTED"
  /\ Begin(p, "verify", j)
  /\ UNCHANGED <<rows, jobs, grants, platform, unrecorded, bounds>>

\* The platform confirms the application it took, with plausible evidence.
Verified(p) ==
  /\ cli[p].pc = "verify"
  /\ received[cli[p].job] > 0
  /\ SetStatus(p, "VERIFIED")
  /\ Finish(p)
  /\ UNCHANGED <<submitted, answers, jobs, grants, platform, unrecorded, bounds>>

\* VERIFICATION_ERROR or VERIFICATION_INCONCLUSIVE.
Inconclusive(p) ==
  /\ cli[p].pc = "verify"
  /\ Finish(p)
  /\ UNCHANGED <<rows, jobs, grants, platform, unrecorded, bounds>>

Retry(p, j) ==
  /\ status[j] = "FAILED"
  /\ Begin(p, "retry", j)
  /\ UNCHANGED <<rows, jobs, grants, platform, unrecorded, bounds>>

RetryInitiated(p) ==
  /\ cli[p].pc = "retry"
  /\ SetStatus(p, "MATCHED")
  /\ Finish(p)
  /\ UNCHANGED <<submitted, answers, jobs, grants, platform, unrecorded, bounds>>

\* A job given by hand: its application stays at DISCOVERED.
TargetAdd(j) ==
  /\ status[j] = "none"
  /\ status' = [status EXCEPT ![j] = "DISCOVERED"]
  /\ UNCHANGED <<submitted, answers, jobs, grants, cli, platform, unrecorded, bounds>>

-----------------------------------------------------------------------------
(* What happens around the commands. *)

\* jobs scan or target-add finds that a posting has changed: upsert_job.
Rescan(j, q) ==
  /\ rescans < MaxRescans
  /\ q # posting[j]
  /\ posting' = [posting EXCEPT ![j] = q]
  /\ rescans' = rescans + 1
  /\ UNCHANGED <<rows, decision, grants, cli, platform, unrecorded, deaths>>

\* jobs match scores the job anew, and decides differently.
Rematch(j, d) ==
  /\ rescans < MaxRescans
  /\ d # decision[j]
  /\ decision' = [decision EXCEPT ![j] = d]
  /\ rescans' = rescans + 1
  /\ UNCHANGED <<rows, posting, grants, cli, platform, unrecorded, deaths>>

HourPasses ==
  /\ submitted' = [j \in Jobs |-> IF submitted[j] = "hour" THEN "day" ELSE submitted[j]]
  /\ UNCHANGED <<status, answers, jobs, grants, cli, platform, unrecorded, bounds>>

DayPasses ==
  /\ submitted' = [j \in Jobs |-> IF submitted[j] = "never" THEN "never" ELSE "earlier"]
  /\ UNCHANGED <<status, answers, jobs, grants, cli, platform, unrecorded, bounds>>

\* A process is killed, an exception that nothing catches ends its command, or
\* SQLite refuses its write (database is locked) and the batch rolls back.
Dies(p) ==
  /\ cli[p].pc # "idle"
  /\ deaths < MaxDeaths
  /\ deaths' = deaths + 1
  /\ unrecorded' = IF cli[p].pc = "record" THEN [unrecorded EXCEPT ![cli[p].job] = @ + 1]
                                           ELSE unrecorded
  /\ Finish(p)
  /\ UNCHANGED <<rows, jobs, grants, platform, rescans>>

-----------------------------------------------------------------------------

Init ==
  /\ status = [j \in Jobs |-> "none"]
  /\ submitted = [j \in Jobs |-> "never"]
  /\ answers = [j \in Jobs |-> NoAnswers]
  /\ posting \in [Jobs -> Postings]
  /\ decision \in [Jobs -> Decisions]
  /\ approvals = <<>> /\ listings = <<>>
  /\ cli = [p \in Procs |-> Idle]
  /\ attempts = [j \in Jobs |-> 0]
  /\ received = [j \in Jobs |-> 0]
  /\ unrecorded = [j \in Jobs |-> 0]
  /\ rescans = 0 /\ deaths = 0

\* A command is started ...
Starts(p, j) ==
  \/ Prepare(p, j) \/ ReviewForApproval(p, j) \/ Submit(p, j)
  \/ Run(p, j) \/ Verify(p, j) \/ Retry(p, j)

\* ... or the one that runs takes its next step.
Preparation(p) ==
  \/ DiscoverRaced(p) \/ DiscoverSkips(p) \/ DiscoverMatches(p)
  \/ InspectionPasses(p) \/ InspectionStops(p) \/ PreparationFails(p)
  \/ \E v \in AnswerSets : Generate(p, v)

Submission(p) ==
  \/ GateCloses(p) \/ SubmitLimited(p) \/ \E i \in DOMAIN approvals : GatesOpen(p, i)
  \/ Consume(p) \/ PostRefused(p) \/ PostAccepted(p) \/ PostUnknown(p) \/ Record(p)

OtherStep(p) ==
  \/ Approve(p) \/ Decline(p) \/ RunBlocked(p) \/ RunRefused(p)
  \/ Verified(p) \/ Inconclusive(p) \/ RetryInitiated(p) \/ Dies(p)

Around ==
  \/ \E j \in Jobs : TargetAdd(j) \/ AllowlistAdd(j) \/ (\E q \in Postings : Rescan(j, q)) \/ \E d \in Decisions : Rematch(j, d)
  \/ \E i \in DOMAIN approvals : ApprovalLapses(i)
  \/ \E i \in DOMAIN listings : ListingLapses(i)
  \/ HourPasses \/ DayPasses

Next ==
  \/ \E p \in Procs : (\E j \in Jobs : Starts(p, j)) \/ Preparation(p) \/ Submission(p) \/ OtherStep(p)
  \/ Around

Spec == Init /\ [][Next]_vars
=============================================================================
