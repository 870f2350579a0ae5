-------------------- MODULE ApplicationLifecycleProperties --------------------
(* What the application engine promises about ApplicationLifecycle. *)
EXTENDS ApplicationLifecycle

\* Every variable holds what its column, or the memory of a process, can hold.
Sessions == [pc : Places, job : Jobs \cup {NoJob}, seen : Statuses \cup {"none"},
             posting : Postings \cup {NoPosting}, decision : Decisions \cup {"none"}, answers : [AnswerSets -> Nat],
             ticket : Nat, outcome : {"none", "accepted", "unknown", "refused"}]

Sound(s) ==
  /\ s.pc = "idle" \/ (s.job \in Jobs /\ s.posting \in Postings)
  /\ s.pc = "record" => s.outcome # "none"

Approvals == [job : Jobs, answers : [AnswerSets -> Nat], state : {"live", "consumed", "void"},
              fingerprint : Postings]

Listings == [posting : Postings, live : BOOLEAN]

TypeOK ==
  /\ status \in [Jobs -> Statuses \cup {"none"}]
  /\ submitted \in [Jobs -> Ever \cup {"never"}]
  /\ answers \in [Jobs -> [AnswerSets -> Nat]]
  /\ posting \in [Jobs -> Postings]
  /\ decision \in [Jobs -> Decisions]
  /\ approvals \in Seq(Approvals)
  /\ listings \in Seq(Listings)
  /\ cli \in [Procs -> Sessions]
  /\ \A p \in Procs : Sound(cli[p])
  /\ attempts \in [Jobs -> Nat] /\ received \in [Jobs -> Nat] /\ unrecorded \in [Jobs -> Nat]
  /\ rescans \in Nat /\ deaths \in Nat

\* An application moves along the edges of _ALLOWED_TRANSITIONS only, whatever
\* the order of the commands and wherever one dies (state_machine.py: "every
\* status change in this codebase must go through transition()").  The check in
\* transition_status is against the status the session loaded.
LegalMoves ==
  [][\A j \in Jobs : status[j] # "none" /\ status'[j] # status[j]
                       => status'[j] \in Transitions[status[j]]]_vars

\* An approval pays for one call of provider.submit (approvals.py: "authorizes
\* exactly ONE real submission attempt"), also when a process dies.
SingleUse ==
  \A j \in Jobs :
     attempts[j] <= Cardinality({i \in DOMAIN approvals :
                                   approvals[i].job = j /\ approvals[i].state = "consumed"})

\* The platform takes a second application for a job only if a process died
\* before it could record what became of the first: SUBMISSION_UNCERTAIN and
\* retry_application never lead there.
NoUnexplainedDuplicate ==
  \A j \in Jobs : received[j] <= 1 + unrecorded[j]

\* Nothing is sent for an application that is not PREPARED at that moment, and
\* an uncertain one is never tried again.
SendsOnlyPrepared ==
  [][\A j \in Jobs : attempts'[j] > attempts[j] => status[j] = "PREPARED"]_vars

\* The recorded submissions of each window stay within the limits.
LimitsHold ==
  /\ Submissions(Jobs, PastDay) <= MaxPerDay
  /\ Submissions(Jobs, PastHour) <= MaxPerHour
  /\ \A j \in Jobs :
       /\ Submissions({k \in Jobs : Company[k] = Company[j]}, Ever) <= MaxPerCompany
       /\ Submissions({k \in Jobs : Source[k] = Source[j]}, PastDay) <= MaxPerSource

\* What is about to be sent, or has just been sent, was approved by a human in
\* these very words and for this very posting, and the approval is spent.
SendsOnlyApproved ==
  \A p \in Procs :
     cli[p].pc \in {"post", "record"} =>
        LET a == approvals[cli[p].ticket] IN
        /\ cli[p].ticket \in DOMAIN approvals
        /\ a.state = "consumed"
        /\ a.job = cli[p].job
        /\ a.answers = cli[p].answers
        /\ a.fingerprint = Fingerprint[cli[p].posting]

\* An application that says SUBMITTED or VERIFIED is one the platform has, also
\* when two processes overwrite each other's status ("an application marked
\* successful incorrectly" is what state_machine.py is the defense against).
SubmittedIsReal ==
  \A j \in Jobs : status[j] \in {"SUBMITTED", "VERIFIED"} => received[j] > 0

\* Of two jobs with one fingerprint one is applied to at most, also when two
\* prepare commands run at once.  (Where no rescan changes a posting.)
AppliedTo == Statuses \ {"DISCOVERED", "SKIPPED"}
NoTwins ==
  \A j, k \in Jobs :
     Fingerprint[posting[j]] = Fingerprint[posting[k]] /\ status[j] \in AppliedTo /\ status[k] \in AppliedTo
       => j = k

\* Storing new answers leaves no approval valid (approve: re-running prepare
\* "invalidates any outstanding approval"), whoever else is at work.
NewAnswersVoidApprovals ==
  [][\A j \in Jobs : answers'[j] # answers[j] =>
        \A i \in DOMAIN approvals' : ~Valid(i, j, posting[j], answers[j])']_vars

-----------------------------------------------------------------------------
\* Where one command runs at a time, the engine implements the contract.

\* A command has chosen approval i and not yet called the provider.
Chosen(i) == \E p \in Procs : cli[p].pc \in {"consume", "post"} /\ cli[p].ticket = i

\* An approval stands while it is live and of the answers that are stored; the
\* command that has chosen it spends it in a step before the call, and does not
\* look again whether it has lapsed.
Stands(i) ==
  \/ Chosen(i)
  \/ approvals[i].state = "live" /\ approvals[i].answers = answers[approvals[i].job]

Consents ==
  [i \in DOMAIN approvals |->
     [job |-> approvals[i].job, state |-> IF Stands(i) THEN "live" ELSE "void"]]

\* The commands that know what the platform answered about job j.
Told(j) == {p \in Procs : cli[p].pc = "record" /\ cli[p].job = j}

Pending ==
  [j \in Jobs |-> IF Told(j) = {} THEN "none" ELSE cli[CHOOSE p \in Told(j) : TRUE].outcome]

Contract == INSTANCE ApplicationContract
  WITH letter <- answers, consents <- Consents, calls <- attempts, taken <- received,
       pending <- Pending, lost <- unrecorded

\* The commands of one process, their stale sessions, the two steps of choosing
\* and spending an approval, and a death at any of them, come to what
\* ApplicationContract says: an application is sent with a consent to the very
\* answers stored, while it is PREPARED, once for each consent.
AppliesAsPromised == Contract!Spec

-----------------------------------------------------------------------------
\* What the documentation says and the code does not do.

\* service.py, retry_application: answers are regenerated "from scratch (never
\* reusing a failed attempt's stale/partial data)".
FreshAnswers ==
  \A j \in Jobs : status[j] = "PREPARED" =>
     \E v \in AnswerSets : answers[j] = [NoAnswers EXCEPT ![v] = 1]

\* main.py, applications prepare: "HUMAN_REQUIRED/SAVE/SKIP land in the matching
\* states directly", only APPLY and REVIEW proceed toward PREPARED.
HardStopHolds ==
  \A j \in Jobs : decision[j] = "HUMAN_REQUIRED" => status[j] # "PREPARED"
=============================================================================
