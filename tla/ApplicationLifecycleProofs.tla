---------------------- MODULE ApplicationLifecycleProofs ----------------------
(* Type correctness of ApplicationLifecycle, and what holds for any number of  *)
(* processes that interleave in any way: what is sent was approved, new        *)
(* answers leave no approval valid, what is called submitted was taken, and no *)
(* two jobs of one posting are applied to.                                     *)
EXTENDS ApplicationLifecycleProperties, SequenceTheorems, TLAPS

\* A session at rest, one that has just loaded its rows, and one that moves on.
LEMMA IdleSession == NoAnswers \in [AnswerSets -> Nat] /\ Idle \in Sessions
BY DEF Idle, Sessions, NoAnswers, Places

\* What a running command holds.
LEMMA Loaded ==
  ASSUME TypeOK, NEW p \in Procs, cli[p].pc # "idle"
  PROVE  cli[p] \in Sessions /\ cli[p].job \in Jobs /\ cli[p].posting \in Postings
BY DEF TypeOK, Sound

LEMMA FinishType ==
  ASSUME TypeOK, NEW p \in Procs, Finish(p)
  PROVE  /\ cli' \in [Procs -> Sessions]
         /\ \A s \in Procs : Sound(cli'[s])
<1> DEFINE idle == Idle
<1>1. idle \in Sessions /\ Sound(idle)
  BY IdleSession DEF Idle, Sound
<1>2. cli' = [cli EXCEPT ![p] = idle]
  BY DEF Finish
<1> HIDE DEF idle
<1> QED  BY <1>1, <1>2 DEF TypeOK

LEMMA BeginType ==
  ASSUME TypeOK, NEW p \in Procs, NEW j \in Jobs, NEW place \in Places \ {"record"}, Begin(p, place, j)
  PROVE  /\ cli' \in [Procs -> Sessions]
         /\ \A s \in Procs : Sound(cli'[s])
<1> DEFINE new == [Idle EXCEPT !.pc = place, !.job = j, !.seen = status[j], !.posting = posting[j],
                                !.decision = decision[j]]
<1>1. status[j] \in Statuses \cup {"none"} /\ posting[j] \in Postings /\ decision[j] \in Decisions
  BY DEF TypeOK
<1>2. new \in Sessions /\ Sound(new)
  BY <1>1, IdleSession DEF Idle, Sessions, Sound
<1>3. cli' = [cli EXCEPT ![p] = new]
  BY DEF Begin
<1> HIDE DEF new
<1> QED  BY <1>2, <1>3 DEF TypeOK

\* A session that takes a step other than its first and its last.
LEMMA MoveType ==
  ASSUME TypeOK, NEW p \in Procs, NEW new \in Sessions, Sound(new),
         cli' = [cli EXCEPT ![p] = new]
  PROVE  /\ cli' \in [Procs -> Sessions]
         /\ \A s \in Procs : Sound(cli'[s])
BY DEF TypeOK

\* The legal moves lead to statuses.
LEMMA StatusType ==
  ASSUME TypeOK, NEW p \in Procs, cli[p].pc # "idle", NEW target \in Statuses, SetStatus(p, target)
  PROVE  status' \in [Jobs -> Statuses \cup {"none"}]
BY DEF TypeOK, SetStatus

\* What the loaded rows allow a command to do next.
LEMMA StartsType ==
  ASSUME TypeOK, NEW p \in Procs, NEW j \in Jobs, Starts(p, j)
  PROVE  TypeOK'
<1>a. ASSUME NEW place \in Places \ {"record"}, Begin(p, place, j),
             UNCHANGED <<rows, jobs, grants, platform, unrecorded, bounds>>
      PROVE  TypeOK'
  BY <1>a, BeginType DEF TypeOK, rows, jobs, grants, platform, bounds
<1>1. CASE ReviewForApproval(p, j)
  <2> DEFINE new == [Idle EXCEPT !.pc = "confirm", !.job = j, !.seen = status[j],
                                 !.posting = posting[j], !.answers = answers[j]]
  <2>1. status[j] \in Statuses \cup {"none"} /\ posting[j] \in Postings /\ answers[j] \in [AnswerSets -> Nat]
    BY DEF TypeOK
  <2>2. new \in Sessions /\ Sound(new)
    BY <2>1, IdleSession DEF Idle, Sessions, Places, Sound
  <2>3. cli' = [cli EXCEPT ![p] = new] /\ UNCHANGED <<rows, jobs, grants, platform, unrecorded, bounds>>
    BY <1>1 DEF ReviewForApproval
  <2> HIDE DEF new
  <2> QED  BY <2>2, <2>3 DEF TypeOK, rows, jobs, grants, platform, bounds
<1>2. CASE Prepare(p, j)
  BY <1>a, <1>2 DEF Prepare, Places
<1>3. CASE Submit(p, j)
  BY <1>a, <1>3 DEF Submit, Places
<1>4. CASE Run(p, j)
  BY <1>a, <1>4 DEF Run, Places
<1>5. CASE Verify(p, j)
  BY <1>a, <1>5 DEF Verify, Places
<1>6. CASE Retry(p, j)
  BY <1>a, <1>6 DEF Retry, Places
<1> QED  BY <1>1, <1>2, <1>3, <1>4, <1>5, <1>6 DEF Starts

\* A command that ends, with or without a change of status.
LEMMA EndsType ==
  ASSUME TypeOK, NEW p \in Procs, Finish(p), status' \in [Jobs -> Statuses \cup {"none"}],
         UNCHANGED <<submitted, answers, jobs, grants, platform, unrecorded, bounds>>
  PROVE  TypeOK'
BY FinishType DEF TypeOK, jobs, grants, platform, bounds

LEMMA PreparationType ==
  ASSUME TypeOK, NEW p \in Procs, Preparation(p)
  PROVE  TypeOK'
<1>0. status \in [Jobs -> Statuses \cup {"none"}]
  BY DEF TypeOK
<1>1. CASE DiscoverRaced(p)
  BY <1>0, <1>1, EndsType DEF DiscoverRaced, rows
<1>2. CASE DiscoverSkips(p)
  <2>1. status' \in [Jobs -> Statuses \cup {"none"}]
    BY <1>0, <1>2 DEF DiscoverSkips, Statuses
  <2> QED  BY <1>2, <2>1, EndsType DEF DiscoverSkips
<1>3. CASE DiscoverMatches(p)
  <2> DEFINE target == IF cli[p].decision = "HUMAN_REQUIRED" THEN "HUMAN_REQUIRED" ELSE "MATCHED"
             new == [cli[p] EXCEPT !.pc = "inspect", !.seen = target]
  <2>0. cli[p] \in Sessions /\ cli[p].job \in Jobs /\ cli[p].posting \in Postings
    BY <1>3, Loaded DEF DiscoverMatches
  <2>1. target \in Statuses
    BY DEF Statuses
  <2>2. /\ status' = [status EXCEPT ![cli[p].job] = target]
        /\ cli' = [cli EXCEPT ![p].pc = "inspect", ![p].seen = target]
        /\ cli[p].pc # "idle"
        /\ UNCHANGED <<submitted, answers, jobs, grants, platform, unrecorded, bounds>>
    BY <1>3 DEF DiscoverMatches
  <2> HIDE DEF target
  <2>3. new \in Sessions /\ Sound(new)
    BY <2>0, <2>1 DEF Sessions, Places, Sound
  <2>4. cli' = [cli EXCEPT ![p] = new]
    BY <2>2
  <2> HIDE DEF new
  <2>5. status' \in [Jobs -> Statuses \cup {"none"}]
    BY <1>0, <2>1, <2>2
  <2> QED  BY <2>2, <2>3, <2>4, <2>5, MoveType DEF TypeOK, jobs, grants, platform, bounds
<1>4. CASE InspectionPasses(p)
  <2> DEFINE new == [cli[p] EXCEPT !.pc = "generate"]
  <2>0. cli[p] \in Sessions /\ cli[p].job \in Jobs /\ cli[p].posting \in Postings
    BY <1>4, Loaded DEF InspectionPasses
  <2>1. new \in Sessions /\ Sound(new)
    BY <2>0 DEF Sessions, Places, Sound
  <2>2. cli' = [cli EXCEPT ![p] = new] /\ cli[p].pc # "idle" /\ UNCHANGED <<rows, jobs, grants, platform, unrecorded, bounds>>
    BY <1>4 DEF InspectionPasses
  <2> HIDE DEF new
  <2> QED  BY <2>1, <2>2, MoveType DEF TypeOK, rows, jobs, grants, platform, bounds
<1>5. CASE InspectionStops(p)
  <2>1. status' \in [Jobs -> Statuses \cup {"none"}]
    BY <1>5, StatusType DEF InspectionStops, Statuses
  <2> QED  BY <1>5, <2>1, EndsType DEF InspectionStops
<1>6. CASE PreparationFails(p)
  <2>1. status' \in [Jobs -> Statuses \cup {"none"}]
    BY <1>6, StatusType DEF PreparationFails, Statuses
  <2> QED  BY <1>6, <2>1, EndsType DEF PreparationFails
<1>7. ASSUME NEW v \in AnswerSets, Generate(p, v) PROVE TypeOK'
  <2>1. status' \in [Jobs -> Statuses \cup {"none"}]
    BY <1>7, StatusType DEF Generate, Statuses
  <2>2. answers' \in [Jobs -> [AnswerSets -> Nat]]
    <3>1. cli[p].job \in Jobs /\ answers \in [Jobs -> [AnswerSets -> Nat]]
      BY <1>7, Loaded DEF Generate, TypeOK
    <3>2. answers' = [answers EXCEPT ![cli[p].job][v] = @ + 1]
      BY <1>7 DEF Generate
    <3> QED  BY <3>1, <3>2
  <2> QED  BY <1>7, <2>1, <2>2, FinishType DEF Generate, TypeOK, jobs, grants, platform, bounds
<1> QED  BY <1>1, <1>2, <1>3, <1>4, <1>5, <1>6, <1>7 DEF Preparation

\* An approval that is consumed or lapses keeps everything but its state.
LEMMA ApprovalStates ==
  ASSUME TypeOK, NEW t, NEW state \in {"live", "consumed", "void"},
         approvals' = [approvals EXCEPT ![t].state = state]
  PROVE  /\ approvals' \in Seq(Approvals)
         /\ DOMAIN approvals' = DOMAIN approvals
         /\ \A i \in DOMAIN approvals :
              approvals'[i] = IF i = t THEN [approvals[i] EXCEPT !.state = state] ELSE approvals[i]
<1>1. approvals \in Seq(Approvals)
  BY DEF TypeOK
<1>2. /\ DOMAIN approvals' = DOMAIN approvals
      /\ \A i \in DOMAIN approvals :
           approvals'[i] = IF i = t THEN [approvals[i] EXCEPT !.state = state] ELSE approvals[i]
  BY <1>1
<1>3. \A i \in DOMAIN approvals : approvals[i] \in Approvals
  BY <1>1
<1>4. \A i \in DOMAIN approvals : [approvals[i] EXCEPT !.state = state] \in Approvals
  BY <1>3 DEF Approvals
<1>5. \A i \in DOMAIN approvals : approvals'[i] \in Approvals
  BY <1>2, <1>3, <1>4
<1>6. DOMAIN approvals = 1..Len(approvals) /\ Len(approvals) \in Nat
  BY <1>1
<1>7. approvals' \in [1..Len(approvals) -> Approvals]
  <2>1. approvals' = [i \in 1..Len(approvals) |-> approvals'[i]]
    BY <1>1, <1>6
  <2> QED  BY <1>5, <1>6, <2>1
<1>8. approvals' \in Seq(Approvals)
  BY <1>6, <1>7, SeqDef
<1> QED  BY <1>2, <1>8

LEMMA PostType ==
  ASSUME TypeOK, NEW p \in Procs, NEW outcome \in {"accepted", "unknown", "refused"},
         NEW taken \in {0, 1}, Post(p, outcome, taken)
  PROVE  TypeOK'
<1> DEFINE new == [cli[p] EXCEPT !.pc = "record", !.outcome = outcome]
<1>0. cli[p] \in Sessions /\ cli[p].job \in Jobs /\ cli[p].posting \in Postings
  BY Loaded DEF Post
<1>1. new \in Sessions /\ Sound(new)
  BY <1>0 DEF Sessions, Places, Sound
<1>2. cli' = [cli EXCEPT ![p] = new] /\ UNCHANGED <<rows, jobs, grants, unrecorded, bounds>>
  BY DEF Post
<1> HIDE DEF new
<1>3. /\ cli' \in [Procs -> Sessions]
      /\ \A s \in Procs : Sound(cli'[s])
  BY <1>0, <1>1, <1>2, MoveType
<1>4. attempts' \in [Jobs -> Nat] /\ received' \in [Jobs -> Nat]
  <2>1. attempts \in [Jobs -> Nat] /\ received \in [Jobs -> Nat]
    BY DEF TypeOK
  <2>2. attempts[cli[p].job] + 1 \in Nat /\ received[cli[p].job] + taken \in Nat
    BY <1>0, <2>1
  <2>3. /\ attempts' = [attempts EXCEPT ![cli[p].job] = attempts[cli[p].job] + 1]
        /\ received' = [received EXCEPT ![cli[p].job] = received[cli[p].job] + taken]
    BY DEF Post
  <2> QED  BY <1>0, <2>1, <2>2, <2>3
<1> QED  BY <1>2, <1>3, <1>4 DEF TypeOK, rows, jobs, grants, bounds

LEMMA SubmissionType ==
  ASSUME TypeOK, NEW p \in Procs, Submission(p)
  PROVE  TypeOK'
<1>0. status \in [Jobs -> Statuses \cup {"none"}] /\ cli[p] \in Sessions
  BY DEF TypeOK
<1>1. CASE GateCloses(p)
  BY <1>0, <1>1, EndsType DEF GateCloses, rows
<1>2. CASE SubmitLimited(p)
  <2>1. status' \in [Jobs -> Statuses \cup {"none"}]
    BY <1>2, StatusType DEF SubmitLimited, Statuses
  <2> QED  BY <1>2, <2>1, EndsType DEF SubmitLimited
<1>3. ASSUME NEW i \in DOMAIN approvals, GatesOpen(p, i) PROVE TypeOK'
  <2> DEFINE mine == answers[cli[p].job]
             new == [cli[p] EXCEPT !.pc = "consume", !.answers = mine, !.ticket = i]
  <2>0. cli[p].job \in Jobs /\ cli[p].posting \in Postings
    BY <1>3, Loaded DEF GatesOpen
  <2>1. mine \in [AnswerSets -> Nat] /\ i \in Nat
    BY <2>0 DEF TypeOK
  <2>2. cli' = [cli EXCEPT ![p].pc = "consume", ![p].answers = mine, ![p].ticket = i]
    BY <1>3 DEF GatesOpen
  <2> HIDE DEF mine
  <2>3. new \in Sessions /\ Sound(new)
    BY <1>0, <2>0, <2>1 DEF Sessions, Places, Sound
  <2>4. cli' = [cli EXCEPT ![p] = new] /\ UNCHANGED <<rows, jobs, grants, platform, unrecorded, bounds>>
    BY <1>3, <2>2 DEF GatesOpen
  <2> HIDE DEF new
  <2> QED  BY <2>1, <2>3, <2>4, MoveType DEF TypeOK, rows, jobs, grants, platform, bounds
<1>4. CASE Consume(p)
  <2> DEFINE new == [cli[p] EXCEPT !.pc = "post"]
  <2>0. cli[p].job \in Jobs /\ cli[p].posting \in Postings
    BY <1>4, Loaded DEF Consume
  <2>1. new \in Sessions /\ Sound(new)
    BY <1>0, <2>0 DEF Sessions, Places, Sound
  <2>2. /\ cli[p].pc # "idle" /\ cli' = [cli EXCEPT ![p] = new]
        /\ UNCHANGED <<rows, jobs, listings, platform, unrecorded, bounds>>
    BY <1>4 DEF Consume
  <2> HIDE DEF new
  <2>3. approvals' \in Seq(Approvals)
    BY <1>4, ApprovalStates DEF Consume
  <2> QED  BY <2>1, <2>2, <2>3, MoveType DEF TypeOK, rows, jobs, platform, bounds
<1>5. CASE PostRefused(p)
  BY <1>5, PostType DEF PostRefused
<1>6. CASE PostAccepted(p)
  BY <1>6, PostType DEF PostAccepted
<1>7. CASE PostUnknown(p)
  BY <1>7, PostType DEF PostUnknown
<1>8. CASE Record(p)
  <2>1. cli[p].job \in Jobs /\ cli[p].outcome \in {"none", "accepted", "unknown", "refused"}
    BY <1>8, Loaded DEF Record, Sessions
  <2>2. status' \in [Jobs -> Statuses \cup {"none"}]
    <3>1. cli[p].outcome \in {"accepted", "unknown", "refused"}
      BY <1>8, <2>1 DEF Record, TypeOK, Sound
    <3>2. Outcome(cli[p].outcome) \in Statuses
      BY <3>1 DEF Outcome, Statuses
    <3> QED  BY <1>8, <3>2, StatusType DEF Record
  <2>3. submitted' \in [Jobs -> Ever \cup {"never"}]
    BY <1>8, <2>1 DEF Record, TypeOK, Ever
  <2> QED  BY <1>8, <2>2, <2>3, FinishType DEF Record, TypeOK, jobs, grants, platform, bounds
<1> QED  BY <1>1, <1>2, <1>3, <1>4, <1>5, <1>6, <1>7, <1>8 DEF Submission

LEMMA OtherStepType ==
  ASSUME TypeOK, NEW p \in Procs, OtherStep(p)
  PROVE  TypeOK'
<1>0. status \in [Jobs -> Statuses \cup {"none"}] /\ cli[p] \in Sessions
  BY DEF TypeOK
<1>1. CASE Approve(p)
  <2> DEFINE new == [job |-> cli[p].job, answers |-> cli[p].answers, state |-> "live",
                     fingerprint |-> Fingerprint[cli[p].posting]]
  <2>1. new \in Approvals
    <3>1. /\ cli[p].job \in Jobs /\ cli[p].posting \in Postings
          /\ cli[p].answers \in [AnswerSets -> Nat]
      BY <1>1, Loaded DEF Approve, Sessions
    <3>2. Fingerprint[cli[p].posting] \in Postings
      BY <3>1, LifecycleAssumption
    <3> QED  BY <3>1, <3>2 DEF Approvals
  <2>2. approvals' = Append(approvals, new)
    BY <1>1 DEF Approve
  <2> HIDE DEF new
  <2>3. approvals' \in Seq(Approvals)
    BY <2>1, <2>2 DEF TypeOK
  <2> QED  BY <1>1, <2>3, FinishType DEF Approve, TypeOK, rows, jobs, platform, bounds
<1>2. CASE Decline(p)
  BY <1>0, <1>2, EndsType DEF Decline, rows
<1>3. CASE RunBlocked(p)
  BY <1>0, <1>3, EndsType DEF RunBlocked, rows
<1>4. CASE RunRefused(p)
  <2>1. status' \in [Jobs -> Statuses \cup {"none"}]
    BY <1>4, StatusType DEF RunRefused, Statuses
  <2> QED  BY <1>4, <2>1, EndsType DEF RunRefused
<1>5. CASE Verified(p)
  <2>1. status' \in [Jobs -> Statuses \cup {"none"}]
    BY <1>5, StatusType DEF Verified, Statuses
  <2> QED  BY <1>5, <2>1, EndsType DEF Verified
<1>6. CASE Inconclusive(p)
  BY <1>0, <1>6, EndsType DEF Inconclusive, rows
<1>7. CASE RetryInitiated(p)
  <2>1. status' \in [Jobs -> Statuses \cup {"none"}]
    BY <1>7, StatusType DEF RetryInitiated, Statuses
  <2> QED  BY <1>7, <2>1, EndsType DEF RetryInitiated
<1>8. CASE Dies(p)
  <2>1. unrecorded' \in [Jobs -> Nat] /\ deaths' \in Nat
    BY <1>8, Loaded DEF Dies, TypeOK
  <2> QED  BY <1>8, <2>1, FinishType DEF Dies, TypeOK, rows, jobs, grants, platform
<1> QED  BY <1>1, <1>2, <1>3, <1>4, <1>5, <1>6, <1>7, <1>8 DEF OtherStep

LEMMA AroundType ==
  ASSUME TypeOK, Around
  PROVE  TypeOK'
<1>1. ASSUME NEW j \in Jobs, TargetAdd(j) PROVE TypeOK'
  BY <1>1 DEF TargetAdd, TypeOK, Statuses, jobs, grants, platform, bounds
<1>2. ASSUME NEW j \in Jobs, AllowlistAdd(j) PROVE TypeOK'
  BY <1>2 DEF AllowlistAdd, TypeOK, Listings, rows, jobs, platform, bounds
<1>3. ASSUME NEW j \in Jobs, NEW q \in Postings, Rescan(j, q) PROVE TypeOK'
  BY <1>3 DEF Rescan, TypeOK, rows, grants, platform
<1>4. ASSUME NEW j \in Jobs, NEW d \in Decisions, Rematch(j, d) PROVE TypeOK'
  BY <1>4 DEF Rematch, TypeOK, rows, grants, platform
<1>5. ASSUME NEW i \in DOMAIN approvals, ApprovalLapses(i) PROVE TypeOK'
  BY <1>5, ApprovalStates DEF ApprovalLapses, TypeOK, rows, jobs, platform, bounds
<1>6. ASSUME NEW i \in DOMAIN listings, ListingLapses(i) PROVE TypeOK'
  <2> DEFINE new == [listings[i] EXCEPT !.live = FALSE]
  <2>1. listings \in Seq(Listings) /\ i \in 1..Len(listings)
    BY DEF TypeOK
  <2>2. listings[i] \in Listings
    BY <2>1, ElementOfSeq
  <2>3. new \in Listings
    BY <2>2 DEF Listings
  <2>4. listings' = [listings EXCEPT ![i] = new]
    BY <1>6 DEF ListingLapses
  <2> HIDE DEF new
  <2>5. listings' \in Seq(Listings)
    BY <2>1, <2>3, <2>4, ExceptSeq
  <2> QED  BY <1>6, <2>5 DEF ListingLapses, TypeOK, rows, jobs, platform, bounds
<1>7. CASE HourPasses
  BY <1>7 DEF HourPasses, TypeOK, Ever, jobs, grants, platform, bounds
<1>8. CASE DayPasses
  BY <1>8 DEF DayPasses, TypeOK, Ever, jobs, grants, platform, bounds
<1> QED  BY <1>1, <1>2, <1>3, <1>4, <1>5, <1>6, <1>7, <1>8 DEF Around

LEMMA TypeStep == TypeOK /\ [Next]_vars => TypeOK'
<1> SUFFICES ASSUME TypeOK, [Next]_vars PROVE TypeOK'
  OBVIOUS
<1>1. ASSUME NEW p \in Procs, NEW j \in Jobs, Starts(p, j) PROVE TypeOK'
  BY <1>1, StartsType
<1>2. ASSUME NEW p \in Procs, Preparation(p) PROVE TypeOK'
  BY <1>2, PreparationType
<1>3. ASSUME NEW p \in Procs, Submission(p) PROVE TypeOK'
  BY <1>3, SubmissionType
<1>4. ASSUME NEW p \in Procs, OtherStep(p) PROVE TypeOK'
  BY <1>4, OtherStepType
<1>5. CASE Around
  BY <1>5, AroundType
<1>6. CASE UNCHANGED vars
  BY <1>6 DEF TypeOK, vars, rows, jobs, grants, platform, bounds
<1> QED  BY <1>1, <1>2, <1>3, <1>4, <1>5, <1>6 DEF Next

LEMMA InitType == Init => TypeOK
<1> SUFFICES ASSUME Init PROVE TypeOK
  OBVIOUS
<1>1. cli = [p \in Procs |-> Idle] /\ Idle.pc = "idle"
  BY DEF Init, Idle
<1>2. cli \in [Procs -> Sessions] /\ \A p \in Procs : cli[p].pc = "idle"
  BY <1>1, IdleSession
<1>3. NoAnswers \in [AnswerSets -> Nat]
  BY IdleSession
<1> QED  BY <1>2, <1>3 DEF Init, TypeOK, Ever, Sound

\* Every reachable state has the types of TypeOK, for any number of processes,
\* jobs and answer sets: no command ends with an application left in memory.
THEOREM TypeCorrect == Spec => []TypeOK
<1> QED  BY InitType, TypeStep, PTL DEF Spec

-----------------------------------------------------------------------------
(* What any number of processes keep. *)

\* The steps that take a command further, and those that end it.
Moves(p) ==
  \/ DiscoverMatches(p) \/ InspectionPasses(p)
  \/ \E i \in DOMAIN approvals : GatesOpen(p, i)
  \/ Consume(p) \/ PostRefused(p) \/ PostAccepted(p) \/ PostUnknown(p)

\* A new command works on a job as the database has it, and on an application
\* that is there unless it is prepare.
LEMMA Started ==
  ASSUME TypeOK, NEW p \in Procs, NEW j \in Jobs, Starts(p, j)
  PROVE  /\ cli'[p].pc \notin {"idle", "consume", "post", "record"}
         /\ cli'[p].job = j /\ cli'[p].posting = posting[j]
         /\ cli'[p].pc = "discover" \/ status[j] \in {"MATCHED", "HUMAN_REQUIRED", "PREPARED", "SUBMITTED", "FAILED"}
<1>0. cli \in [Procs -> Sessions]
  BY DEF TypeOK
<1>1. ASSUME NEW place, Begin(p, place, j)
      PROVE  cli'[p].pc = place /\ cli'[p].job = j /\ cli'[p].posting = posting[j]
  BY <1>0, <1>1 DEF Begin, Idle
<1>2. CASE Prepare(p, j)
  BY <1>1, <1>2 DEF Prepare
<1>3. CASE ReviewForApproval(p, j)
  BY <1>0, <1>3 DEF ReviewForApproval, Idle
<1>4. CASE Submit(p, j)
  BY <1>1, <1>4 DEF Submit
<1>5. CASE Run(p, j)
  BY <1>1, <1>5 DEF Run
<1>6. CASE Verify(p, j)
  BY <1>1, <1>6 DEF Verify
<1>7. CASE Retry(p, j)
  BY <1>1, <1>7 DEF Retry
<1> QED  BY <1>2, <1>3, <1>4, <1>5, <1>6, <1>7 DEF Starts

\* A command that runs goes on, or ends.
LEMMA CommandStep ==
  ASSUME NEW q \in Procs, Preparation(q) \/ Submission(q) \/ OtherStep(q)
  PROVE  Finish(q) \/ Moves(q)
<1>1. CASE Preparation(q)
  BY <1>1 DEF Preparation, Moves, DiscoverRaced, DiscoverSkips, InspectionStops, PreparationFails, Generate
<1>2. CASE Submission(q)
  BY <1>2 DEF Submission, Moves, GateCloses, SubmitLimited, Record
<1>3. CASE OtherStep(q)
  BY <1>3 DEF OtherStep, Approve, Decline, RunBlocked, RunRefused, Verified, Inconclusive,
              RetryInitiated, Dies
<1> QED  BY <1>1, <1>2, <1>3

\* What a step does to the session of a process.
LEMMA SessionStep ==
  ASSUME TypeOK, [Next]_vars, NEW p \in Procs
  PROVE  \/ cli'[p] = cli[p] \/ cli'[p] = Idle
         \/ (\E j \in Jobs : Starts(p, j)) \/ Moves(p)
<1>0. cli \in [Procs -> Sessions]
  BY DEF TypeOK
<1>1. ASSUME NEW q \in Procs, NEW j \in Jobs, Starts(q, j)
      PROVE  cli'[p] = cli[p] \/ \E k \in Jobs : Starts(p, k)
  <2>1. CASE q = p
    BY <1>1, <2>1
  <2>2. CASE q # p
    BY <1>0, <1>1, <2>2 DEF Starts, Prepare, ReviewForApproval, Submit, Run, Verify, Retry, Begin
  <2> QED  BY <2>1, <2>2
<1>2. ASSUME NEW q \in Procs, Finish(q) PROVE cli'[p] = cli[p] \/ cli'[p] = Idle
  BY <1>0, <1>2 DEF Finish
<1>3. ASSUME NEW q \in Procs, Moves(q) PROVE cli'[p] = cli[p] \/ Moves(p)
  <2>1. CASE q = p
    BY <1>3, <2>1
  <2>2. CASE q # p
    BY <1>0, <1>3, <2>2 DEF Moves, DiscoverMatches, InspectionPasses, GatesOpen, Consume,
                          PostRefused, PostAccepted, PostUnknown, Post
  <2> QED  BY <2>1, <2>2
<1>4. CASE Around
  <2>1. cli' = cli
    BY <1>4 DEF Around, TargetAdd, AllowlistAdd, Rescan, Rematch, ApprovalLapses, ListingLapses,
                HourPasses, DayPasses
  <2> QED  BY <2>1
<1>5. CASE UNCHANGED vars
  BY <1>5 DEF vars
<1> QED  BY <1>1, <1>2, <1>3, <1>4, <1>5, CommandStep DEF Next

\* What a step does to the approvals: one is given, or one is spent or lapses.
LEMMA ApprovalChange ==
  ASSUME TypeOK, [Next]_vars
  PROVE  \/ approvals' = approvals
         \/ \E q \in Procs : Approve(q)
         \/ \E t : approvals' = [approvals EXCEPT ![t].state = "consumed"]
         \/ \E t : approvals' = [approvals EXCEPT ![t].state = "void"] /\ approvals[t].state = "live"
<1>1. ASSUME NEW q \in Procs, NEW j \in Jobs, Starts(q, j) PROVE approvals' = approvals
  BY <1>1 DEF Starts, Prepare, ReviewForApproval, Submit, Run, Verify, Retry, grants
<1>2. ASSUME NEW q \in Procs, Preparation(q) PROVE approvals' = approvals
  BY <1>2 DEF Preparation, DiscoverRaced, DiscoverSkips, DiscoverMatches, InspectionPasses,
              InspectionStops, PreparationFails, Generate, grants
<1>3. ASSUME NEW q \in Procs, Submission(q)
      PROVE  approvals' = approvals \/ approvals' = [approvals EXCEPT ![cli[q].ticket].state = "consumed"]
  BY <1>3 DEF Submission, GateCloses, SubmitLimited, GatesOpen, Consume, PostRefused, PostAccepted,
              PostUnknown, Post, Record, grants
<1>4. ASSUME NEW q \in Procs, OtherStep(q) PROVE approvals' = approvals \/ Approve(q)
  BY <1>4 DEF OtherStep, Decline, RunBlocked, RunRefused, Verified, Inconclusive, RetryInitiated,
              Dies, grants
<1>5. CASE Around
  <2>1. approvals' = approvals \/ \E t \in DOMAIN approvals : ApprovalLapses(t)
    BY <1>5 DEF Around, TargetAdd, AllowlistAdd, Rescan, Rematch, ListingLapses, HourPasses, DayPasses, grants
  <2> QED  BY <2>1 DEF ApprovalLapses
<1>6. CASE UNCHANGED vars
  BY <1>6 DEF vars, grants
<1> QED  BY <1>1, <1>2, <1>3, <1>4, <1>5, <1>6 DEF Next

\* A new approval says what the human was shown.
LEMMA NewApproval ==
  ASSUME TypeOK, NEW q \in Procs, Approve(q), NEW i \in DOMAIN approvals'
  PROVE  \/ i \in DOMAIN approvals /\ approvals'[i] = approvals[i]
         \/ /\ i \notin DOMAIN approvals
            /\ approvals'[i].job = cli[q].job /\ approvals'[i].answers = cli[q].answers
<1> DEFINE new == [job |-> cli[q].job, answers |-> cli[q].answers, state |-> "live",
                   fingerprint |-> Fingerprint[cli[q].posting]]
<1>1. approvals \in Seq(Approvals) /\ approvals' = Append(approvals, new)
  BY DEF TypeOK, Approve
<1>2. new.job = cli[q].job /\ new.answers = cli[q].answers
  OBVIOUS
<1> HIDE DEF new
<1> QED  BY <1>1, <1>2

\* An approval never says anything else later, and once spent it stays so.
LEMMA ApprovalStep ==
  ASSUME TypeOK, [Next]_vars, NEW i \in DOMAIN approvals
  PROVE  /\ i \in DOMAIN approvals'
         /\ approvals'[i].job = approvals[i].job
         /\ approvals'[i].answers = approvals[i].answers
         /\ approvals'[i].fingerprint = approvals[i].fingerprint
         /\ approvals[i].state = "consumed" => approvals'[i].state = "consumed"
<1>0. approvals \in Seq(Approvals) /\ approvals[i] \in Approvals
  BY DEF TypeOK
<1>1. ASSUME NEW q \in Procs, Approve(q)
      PROVE  i \in DOMAIN approvals' /\ approvals'[i] = approvals[i]
  <2>1. i \in DOMAIN approvals'
    BY <1>0, <1>1, LenProperties, AppendProperties DEF Approve
  <2> QED  BY <1>1, <2>1, NewApproval
<1>2. ASSUME NEW t, NEW state \in {"consumed", "void"},
             approvals' = [approvals EXCEPT ![t].state = state],
             state = "consumed" \/ approvals[t].state = "live"
      PROVE  /\ i \in DOMAIN approvals'
             /\ approvals'[i].job = approvals[i].job
             /\ approvals'[i].answers = approvals[i].answers
             /\ approvals'[i].fingerprint = approvals[i].fingerprint
             /\ approvals[i].state = "consumed" => approvals'[i].state = "consumed"
  <2>1. i \in DOMAIN approvals' /\ approvals'[i] = IF i = t THEN [approvals[i] EXCEPT !.state = state] ELSE approvals[i]
    BY <1>2, ApprovalStates
  <2> QED  BY <1>0, <1>2, <2>1 DEF Approvals
<1> QED  BY <1>1, <1>2, ApprovalChange

-----------------------------------------------------------------------------

\* From the open gates on, a session holds an approval of what it sends, which
\* is spent before the provider is called.
Holds(p) ==
  LET s == cli[p]  a == approvals[s.ticket] IN
  /\ s.pc \in {"consume", "post", "record"} =>
       /\ s.ticket \in DOMAIN approvals
       /\ a.job = s.job /\ a.answers = s.answers /\ a.fingerprint = Fingerprint[s.posting]
  /\ s.pc \in {"post", "record"} => a.state = "consumed"

LEMMA HoldsStep ==
  ASSUME TypeOK, [Next]_vars, NEW p \in Procs, Holds(p)
  PROVE  Holds(p)'
<1>0. cli \in [Procs -> Sessions] /\ cli[p] \in Sessions
  BY DEF TypeOK
<1>a. ASSUME cli'[p].ticket = cli[p].ticket, cli'[p].job = cli[p].job, cli'[p].answers = cli[p].answers,
             cli'[p].posting = cli[p].posting, cli[p].pc \in {"consume", "post", "record"},
             cli'[p].pc \in {"post", "record"} => approvals'[cli'[p].ticket].state = "consumed"
      PROVE  Holds(p)'
  BY <1>a, ApprovalStep DEF Holds
<1>b. ASSUME cli'[p].pc \notin {"consume", "post", "record"} PROVE Holds(p)'
  BY <1>b DEF Holds
<1>1. CASE cli'[p] = cli[p]
  <2>1. CASE cli[p].pc \in {"consume", "post", "record"}
    BY <1>1, <1>a, <2>1, ApprovalStep DEF Holds
  <2> QED  BY <1>1, <1>b, <2>1
<1>2. CASE cli'[p] = Idle
  BY <1>2, <1>b DEF Idle
<1>3. ASSUME NEW j \in Jobs, Starts(p, j) PROVE Holds(p)'
  <2>1. cli'[p].pc \notin {"consume", "post", "record"}
    BY <1>3, Started
  <2> QED  BY <1>b, <2>1
<1>4. CASE DiscoverMatches(p)
  <2>1. cli'[p].pc = "inspect"
    BY <1>0, <1>4 DEF DiscoverMatches, Sessions
  <2> QED  BY <1>b, <2>1
<1>5. CASE InspectionPasses(p)
  <2>1. cli'[p].pc = "generate"
    BY <1>0, <1>5 DEF InspectionPasses, Sessions
  <2> QED  BY <1>b, <2>1
<1>6. ASSUME NEW i \in DOMAIN approvals, GatesOpen(p, i) PROVE Holds(p)'
  <2> DEFINE mine == answers[cli[p].job]
  <2>1. cli' = [cli EXCEPT ![p].pc = "consume", ![p].answers = mine, ![p].ticket = i] /\ approvals' = approvals
    BY <1>6 DEF GatesOpen, grants
  <2>2. Valid(i, cli[p].job, cli[p].posting, mine)
    BY <1>6 DEF GatesOpen
  <2> HIDE DEF mine
  <2>3. /\ cli'[p].pc = "consume" /\ cli'[p].ticket = i /\ cli'[p].answers = mine
        /\ cli'[p].job = cli[p].job /\ cli'[p].posting = cli[p].posting
    BY <1>0, <2>1 DEF Sessions
  <2> QED  BY <2>1, <2>2, <2>3 DEF Holds, Valid
<1>7. CASE Consume(p)
  <2>1. /\ cli'[p].pc = "post" /\ cli'[p].ticket = cli[p].ticket /\ cli'[p].answers = cli[p].answers
        /\ cli'[p].job = cli[p].job /\ cli'[p].posting = cli[p].posting
    BY <1>0, <1>7 DEF Consume, Sessions
  <2>2. cli[p].pc = "consume" /\ cli[p].ticket \in DOMAIN approvals
    BY <1>7 DEF Consume, Holds
  <2>3. approvals'[cli[p].ticket] = [approvals[cli[p].ticket] EXCEPT !.state = "consumed"]
    BY <1>7, <2>2, ApprovalStates DEF Consume
  <2>4. approvals[cli[p].ticket] \in Approvals
    BY <2>2, ElementOfSeq DEF TypeOK
  <2>5. approvals'[cli[p].ticket].state = "consumed"
    BY <2>3, <2>4 DEF Approvals
  <2> QED  BY <1>a, <2>1, <2>2, <2>5
<1>8. ASSUME NEW outcome, NEW taken, Post(p, outcome, taken) PROVE Holds(p)'
  <2>1. /\ cli'[p].pc = "record" /\ cli'[p].ticket = cli[p].ticket /\ cli'[p].answers = cli[p].answers
        /\ cli'[p].job = cli[p].job /\ cli'[p].posting = cli[p].posting
    BY <1>0, <1>8 DEF Post, Sessions
  <2>2. cli[p].pc = "post" /\ approvals' = approvals
    BY <1>8 DEF Post, grants
  <2> QED  BY <1>a, <2>1, <2>2 DEF Holds
<1> QED  BY <1>1, <1>2, <1>3, <1>4, <1>5, <1>6, <1>7, <1>8, SessionStep
         DEF Moves, PostRefused, PostAccepted, PostUnknown

LEMMA HoldsAlways == Spec => [](\A p \in Procs : Holds(p))
<1> DEFINE Approved == \A p \in Procs : Holds(p)
<1>1. Init => Approved
  BY DEF Init, Holds, Idle
<1>2. TypeOK /\ Approved /\ [Next]_vars => Approved'
  BY HoldsStep
<1> HIDE DEF Approved
<1>3. Spec => []Approved
  BY <1>1, <1>2, TypeCorrect, PTL DEF Spec
<1> QED  BY <1>3 DEF Approved

\* Whatever is sent was approved by a human for that job, that posting and
\* those answers, and the approval is spent before the provider is called.
THEOREM OnlyApprovedIsSent == Spec => []SendsOnlyApproved
<1>1. (\A p \in Procs : Holds(p)) => SendsOnlyApproved
  BY DEF Holds, SendsOnlyApproved
<1> QED  BY <1>1, HoldsAlways, PTL

-----------------------------------------------------------------------------

\* Answers are only ever added to an application.
LEMMA AnswersStep ==
  ASSUME TypeOK, [Next]_vars
  PROVE  \/ answers' = answers
         \/ /\ approvals' = approvals
            /\ \E p \in Procs, v \in AnswerSets :
                 /\ cli[p].job \in Jobs
                 /\ answers' = [answers EXCEPT ![cli[p].job][v] = @ + 1]
<1>1. ASSUME NEW p \in Procs, NEW v \in AnswerSets, Generate(p, v)
      PROVE  /\ approvals' = approvals /\ cli[p].job \in Jobs
             /\ answers' = [answers EXCEPT ![cli[p].job][v] = @ + 1]
  BY <1>1, Loaded DEF Generate, grants
<1>2. ASSUME NEW p \in Procs, NEW j \in Jobs, Starts(p, j) PROVE answers' = answers
  BY <1>2 DEF Starts, Prepare, ReviewForApproval, Submit, Run, Verify, Retry, rows
<1>3. ASSUME NEW p \in Procs, Preparation(p) PROVE answers' = answers \/ \E v \in AnswerSets : Generate(p, v)
  BY <1>3 DEF Preparation, DiscoverRaced, DiscoverSkips, DiscoverMatches, InspectionPasses,
              InspectionStops, PreparationFails, rows
<1>4. ASSUME NEW p \in Procs, Submission(p) PROVE answers' = answers
  BY <1>4 DEF Submission, GateCloses, SubmitLimited, GatesOpen, Consume, PostRefused, PostAccepted,
              PostUnknown, Post, Record, rows
<1>5. ASSUME NEW p \in Procs, OtherStep(p) PROVE answers' = answers
  BY <1>5 DEF OtherStep, Approve, Decline, RunBlocked, RunRefused, Verified, Inconclusive,
              RetryInitiated, Dies, rows
<1>6. CASE Around
  BY <1>6 DEF Around, TargetAdd, AllowlistAdd, Rescan, Rematch, ApprovalLapses, ListingLapses,
              HourPasses, DayPasses, rows
<1>7. CASE UNCHANGED vars
  BY <1>7 DEF vars, rows
<1> QED  BY <1>1, <1>2, <1>3, <1>4, <1>5, <1>6, <1>7 DEF Next

\* What is stored now includes a, what was stored or shown at some time before.
Includes(j, a) == \A v \in AnswerSets : a[v] <= answers[j][v]

LEMMA IncludesStep ==
  ASSUME TypeOK, [Next]_vars, NEW j \in Jobs, NEW a \in [AnswerSets -> Nat], Includes(j, a)
  PROVE  Includes(j, a)'
<1>0. answers \in [Jobs -> [AnswerSets -> Nat]]
  BY DEF TypeOK
<1>1. CASE answers' = answers
  BY <1>1 DEF Includes
<1>2. ASSUME NEW k \in Jobs, NEW w \in AnswerSets, answers' = [answers EXCEPT ![k][w] = @ + 1]
      PROVE  Includes(j, a)'
  <2>1. \A v \in AnswerSets : answers[j][v] \in Nat /\ answers'[j][v] \in {answers[j][v], answers[j][v] + 1}
    BY <1>0, <1>2
  <2> QED  BY <2>1 DEF Includes
<1> QED  BY <1>1, <1>2, AnswersStep

\* The answers that were approved, and those a human looks at to approve them,
\* are still stored.
Remembered ==
  /\ \A i \in DOMAIN approvals : Includes(approvals[i].job, approvals[i].answers)
  /\ \A p \in Procs : cli[p].pc = "confirm" => Includes(cli[p].job, cli[p].answers)

LEMMA RememberedStep ==
  ASSUME TypeOK, [Next]_vars, Remembered
  PROVE  Remembered'
<1>0. /\ cli \in [Procs -> Sessions] /\ approvals \in Seq(Approvals)
      /\ \A j \in Jobs : answers[j] \in [AnswerSets -> Nat]
  BY DEF TypeOK
<1> DEFINE Later(j, a) == \A v \in AnswerSets : a[v] <= answers'[j][v]
<1>1. \A j \in Jobs, a \in [AnswerSets -> Nat] : Includes(j, a) => Later(j, a)
  BY IncludesStep DEF Includes
<1>2. \A i \in DOMAIN approvals : Later(approvals[i].job, approvals[i].answers)
  <2>1. \A i \in DOMAIN approvals : approvals[i].job \in Jobs /\ approvals[i].answers \in [AnswerSets -> Nat]
    <3>1. \A i \in DOMAIN approvals : approvals[i] \in Approvals
      BY <1>0
    <3> QED  BY <3>1 DEF Approvals
  <2> HIDE DEF Later
  <2> QED  BY <1>1, <2>1 DEF Remembered
<1>3. \A p \in Procs : cli[p].pc = "confirm" => Later(cli[p].job, cli[p].answers)
  <2>1. \A p \in Procs : cli[p].pc = "confirm" => cli[p].job \in Jobs /\ cli[p].answers \in [AnswerSets -> Nat]
    BY Loaded DEF Sessions
  <2> HIDE DEF Later
  <2> QED  BY <1>1, <2>1 DEF Remembered
<1> HIDE DEF Later
<1>4. ASSUME NEW i \in DOMAIN approvals'
      PROVE  Later(approvals'[i].job, approvals'[i].answers)
  <2>1. CASE i \in DOMAIN approvals
    BY <1>2, <2>1, ApprovalStep
  <2>2. CASE i \notin DOMAIN approvals
    <3>1. DOMAIN approvals' # DOMAIN approvals
      BY <2>2
    <3>2. PICK q \in Procs : Approve(q)
      BY <3>1, ApprovalChange
    <3>3. cli[q].pc = "confirm"
      BY <3>2 DEF Approve
    <3>4. approvals'[i].job = cli[q].job /\ approvals'[i].answers = cli[q].answers
      BY <2>2, <3>2, NewApproval
    <3> QED  BY <1>3, <3>3, <3>4
  <2> QED  BY <2>1, <2>2
<1>5. ASSUME NEW p \in Procs, cli'[p].pc = "confirm"
      PROVE  Later(cli'[p].job, cli'[p].answers)
  <2>1. CASE cli'[p] = cli[p]
    BY <1>3, <1>5, <2>1
  <2>2. CASE cli'[p] = Idle
    BY <1>5, <2>2 DEF Idle
  <2>3. ASSUME NEW j \in Jobs, Starts(p, j) PROVE Later(cli'[p].job, cli'[p].answers)
    <3>1. ReviewForApproval(p, j)
      BY <1>0, <1>5, <2>3 DEF Starts, Prepare, Submit, Run, Verify, Retry, Begin, Idle
    <3>2. cli'[p].job = j /\ cli'[p].answers = answers[j] /\ answers' = answers
      BY <1>0, <3>1 DEF ReviewForApproval, Idle, rows
    <3> QED  BY <1>0, <3>2 DEF Later
  <2>4. CASE Moves(p)
    BY <1>0, <1>5, <2>4 DEF Moves, DiscoverMatches, InspectionPasses, GatesOpen, Consume,
                            PostRefused, PostAccepted, PostUnknown, Post, Sessions
  <2> QED  BY <2>1, <2>2, <2>3, <2>4, SessionStep
<1> QED  BY <1>4, <1>5 DEF Remembered, Includes, Later

\* No approval given before an application is prepared again is worth anything
\* afterwards, whoever was reading, approving or submitting meanwhile.
THEOREM OldApprovalsAreVoid == Spec => NewAnswersVoidApprovals
<1>1. Init => Remembered
  BY DEF Init, Remembered, Idle
<1>2. ASSUME TypeOK, Remembered, [Next]_vars, NEW j \in Jobs, answers'[j] # answers[j],
             NEW i \in DOMAIN approvals'
      PROVE  ~Valid(i, j, posting[j], answers[j])'
  <2>1. /\ approvals' = approvals
        /\ \E p \in Procs, v \in AnswerSets :
             /\ cli[p].job \in Jobs
             /\ answers' = [answers EXCEPT ![cli[p].job][v] = @ + 1]
    BY <1>2, AnswersStep
  <2>2. answers \in [Jobs -> [AnswerSets -> Nat]]
    BY <1>2 DEF TypeOK
  <2>3. PICK v \in AnswerSets : answers'[j][v] = answers[j][v] + 1 /\ answers[j][v] \in Nat
    BY <1>2, <2>1, <2>2
  <2>4. SUFFICES ASSUME approvals[i].job = j, approvals[i].answers = answers'[j]
                 PROVE  FALSE
    BY <2>1 DEF Valid
  <2>5. approvals[i].answers[v] <= answers[j][v]
    BY <1>2, <2>1, <2>4 DEF Remembered, Includes
  <2> QED  BY <2>3, <2>4, <2>5
<1>3. TypeOK /\ Remembered /\ [Next]_vars =>
        [\A j \in Jobs : answers'[j] # answers[j] =>
           \A i \in DOMAIN approvals' : ~Valid(i, j, posting[j], answers[j])']_vars
  BY <1>2
<1>4. TypeOK /\ Remembered /\ [Next]_vars => Remembered'
  BY RememberedStep
<1> QED  BY <1>1, <1>3, <1>4, TypeCorrect, PTL DEF Spec, NewAnswersVoidApprovals

-----------------------------------------------------------------------------

\* A process works on an application once it has one.
Works(p, j) == cli[p].pc \notin {"idle", "discover"} /\ cli[p].job = j

\* What a step does to the status of an application: target-add and prepare
\* create it, and only a command that works on it changes it.
Changes(j) ==
  \/ status'[j] = status[j]
  \/ status[j] = "none" /\ status'[j] \in {"DISCOVERED", "SKIPPED"}
  \/ \E p \in Procs : cli[p].job = j /\ DiscoverMatches(p)
  \/ \E p \in Procs :
       /\ Works(p, j)
       /\ status'[j] # "none"
       /\ status'[j] \in {"SUBMITTED", "VERIFIED"} =>
            received[j] > 0 \/ (cli[p].pc = "record" /\ cli[p].outcome = "accepted")

LEMMA SetStatusChanges ==
  ASSUME TypeOK, NEW p \in Procs, NEW target \in Statuses, SetStatus(p, target),
         cli[p].pc \notin {"idle", "discover"},
         target \in {"SUBMITTED", "VERIFIED"} =>
           received[cli[p].job] > 0 \/ (cli[p].pc = "record" /\ cli[p].outcome = "accepted"),
         NEW j \in Jobs
  PROVE  Changes(j)
<1>1. cli[p].job \in Jobs /\ status \in [Jobs -> Statuses \cup {"none"}]
  BY Loaded DEF TypeOK
<1>2. status'[j] = status[j] \/ (cli[p].job = j /\ status'[j] = target)
  BY <1>1 DEF SetStatus
<1>3. target # "none"
  BY DEF Statuses
<1> QED  BY <1>2, <1>3 DEF Changes, Works

LEMMA StatusStep ==
  ASSUME TypeOK, [Next]_vars, NEW j \in Jobs
  PROVE  Changes(j)
<1>a. ASSUME status' = status PROVE Changes(j)
  BY <1>a DEF Changes
<1>1. ASSUME NEW p \in Procs, NEW k \in Jobs, Starts(p, k) PROVE Changes(j)
  <2>1. status' = status
    BY <1>1 DEF Starts, Prepare, ReviewForApproval, Submit, Run, Verify, Retry, rows
  <2> QED  BY <1>a, <2>1
<1>2. ASSUME NEW p \in Procs, Preparation(p) PROVE Changes(j)
  <2>1. CASE DiscoverRaced(p) \/ InspectionPasses(p)
    BY <1>a, <2>1 DEF DiscoverRaced, InspectionPasses, rows
  <2>2. CASE DiscoverSkips(p)
    BY <2>2 DEF DiscoverSkips, Changes, TypeOK
  <2>3. CASE DiscoverMatches(p)
    <3>1. status'[j] = status[j] \/ cli[p].job = j
      BY <2>3 DEF DiscoverMatches, TypeOK
    <3> QED  BY <2>3, <3>1 DEF Changes
  <2>4. CASE InspectionStops(p)
    BY <2>4, SetStatusChanges DEF InspectionStops, Statuses
  <2>5. CASE PreparationFails(p)
    BY <2>5, SetStatusChanges DEF PreparationFails, Statuses
  <2>6. ASSUME NEW v \in AnswerSets, Generate(p, v) PROVE Changes(j)
    BY <2>6, SetStatusChanges DEF Generate, Statuses
  <2> QED  BY <1>2, <2>1, <2>2, <2>3, <2>4, <2>5, <2>6 DEF Preparation
<1>3. ASSUME NEW p \in Procs, Submission(p) PROVE Changes(j)
  <2>1. CASE status' = status
    BY <1>a, <2>1
  <2>2. CASE SubmitLimited(p)
    BY <2>2, SetStatusChanges DEF SubmitLimited, Statuses
  <2>3. CASE Record(p)
    <3>1. cli[p].outcome \in {"accepted", "unknown", "refused"}
      BY <2>3, Loaded DEF Record, Sessions, TypeOK, Sound
    <3>2. /\ Outcome(cli[p].outcome) \in Statuses
          /\ Outcome(cli[p].outcome) \in {"SUBMITTED", "VERIFIED"} => cli[p].outcome = "accepted"
      BY <3>1 DEF Outcome, Statuses
    <3> QED  BY <2>3, <3>2, SetStatusChanges DEF Record
  <2> QED  BY <1>3, <2>1, <2>2, <2>3 DEF Submission, GateCloses, GatesOpen, Consume, PostRefused,
                                       PostAccepted, PostUnknown, Post, rows
<1>4. ASSUME NEW p \in Procs, OtherStep(p) PROVE Changes(j)
  <2>1. CASE status' = status
    BY <1>a, <2>1
  <2>2. CASE RunRefused(p)
    BY <2>2, SetStatusChanges DEF RunRefused, Statuses
  <2>3. CASE Verified(p)
    BY <2>3, SetStatusChanges DEF Verified, Statuses
  <2>4. CASE RetryInitiated(p)
    BY <2>4, SetStatusChanges DEF RetryInitiated, Statuses
  <2> QED  BY <1>4, <2>1, <2>2, <2>3, <2>4 DEF OtherStep, Approve, Decline, RunBlocked, Inconclusive, Dies, rows
<1>5. CASE Around
  <2>1. ASSUME NEW k \in Jobs, TargetAdd(k) PROVE Changes(j)
    BY <2>1 DEF TargetAdd, TypeOK, Changes
  <2>2. CASE status' = status
    BY <1>a, <2>2
  <2> QED  BY <1>5, <2>1, <2>2 DEF Around, AllowlistAdd, Rescan, Rematch, ApprovalLapses, ListingLapses,
                                  HourPasses, DayPasses, rows
<1>6. CASE UNCHANGED vars
  BY <1>a, <1>6 DEF vars, rows
<1> QED  BY <1>1, <1>2, <1>3, <1>4, <1>5, <1>6 DEF Next

\* The platform never gives an application back, and takes one when it says so.
LEMMA ReceivedStep ==
  ASSUME TypeOK, [Next]_vars
  PROVE  \A j \in Jobs : received'[j] >= received[j]
<1>0. received \in [Jobs -> Nat]
  BY DEF TypeOK
<1>1. ASSUME NEW p \in Procs, NEW outcome, NEW taken \in {0, 1}, Post(p, outcome, taken)
      PROVE  \A j \in Jobs : received'[j] >= received[j]
  BY <1>0, <1>1 DEF Post
<1>2. CASE received' = received
  BY <1>0, <1>2
<1>3. ASSUME NEW p \in Procs, NEW j \in Jobs, Starts(p, j) PROVE received' = received
  BY <1>3 DEF Starts, Prepare, ReviewForApproval, Submit, Run, Verify, Retry, platform
<1>4. ASSUME NEW p \in Procs, Preparation(p) PROVE received' = received
  BY <1>4 DEF Preparation, DiscoverRaced, DiscoverSkips, DiscoverMatches, InspectionPasses,
              InspectionStops, PreparationFails, Generate, platform
<1>5. ASSUME NEW p \in Procs, Submission(p)
      PROVE  received' = received \/ PostRefused(p) \/ PostAccepted(p) \/ PostUnknown(p)
  BY <1>5 DEF Submission, GateCloses, SubmitLimited, GatesOpen, Consume, Record, platform
<1>6. ASSUME NEW p \in Procs, OtherStep(p) PROVE received' = received
  BY <1>6 DEF OtherStep, Approve, Decline, RunBlocked, RunRefused, Verified, Inconclusive,
              RetryInitiated, Dies, platform
<1>7. CASE Around
  BY <1>2, <1>7 DEF Around, TargetAdd, AllowlistAdd, Rescan, Rematch, ApprovalLapses, ListingLapses,
                    HourPasses, DayPasses, platform
<1>8. CASE UNCHANGED vars
  BY <1>2, <1>8 DEF vars, platform
<1>9. ASSUME NEW p \in Procs, PostRefused(p) \/ PostAccepted(p) \/ PostUnknown(p)
      PROVE  \A j \in Jobs : received'[j] >= received[j]
  BY <1>1, <1>9 DEF PostRefused, PostAccepted, PostUnknown
<1> QED  BY <1>2, <1>3, <1>4, <1>5, <1>6, <1>7, <1>8, <1>9 DEF Next

\* A command that knows of a confirmation, and an application that says so, are
\* of an application the platform has.
Confirmed ==
  /\ \A p \in Procs : cli[p].pc = "record" /\ cli[p].outcome = "accepted" => received[cli[p].job] > 0
  /\ SubmittedIsReal

LEMMA ConfirmedStep ==
  ASSUME TypeOK, [Next]_vars, Confirmed
  PROVE  Confirmed'
<1>0. received \in [Jobs -> Nat] /\ received' \in [Jobs -> Nat] /\ cli \in [Procs -> Sessions]
  BY TypeStep DEF TypeOK
<1>1. ASSUME NEW p \in Procs, cli'[p].pc = "record", cli'[p].outcome = "accepted"
      PROVE  received'[cli'[p].job] > 0
  <2>1. CASE cli'[p] = cli[p]
    <3>1. cli[p].job \in Jobs
      BY <1>1, <2>1, Loaded
    <3> QED  BY <1>0, <1>1, <2>1, <3>1, ReceivedStep DEF Confirmed
  <2>2. CASE cli'[p] = Idle
    BY <1>1, <2>2 DEF Idle
  <2>3. ASSUME NEW j \in Jobs, Starts(p, j) PROVE FALSE
    BY <1>1, <2>3, Started
  <2>4. CASE Moves(p)
    <3>1. PostRefused(p) \/ PostAccepted(p) \/ PostUnknown(p)
      BY <1>0, <1>1, <2>4 DEF Moves, DiscoverMatches, InspectionPasses, GatesOpen, Consume, Sessions
    <3>2. PostAccepted(p)
      BY <1>0, <1>1, <3>1 DEF PostRefused, PostUnknown, Post, Sessions
    <3>3. cli[p].job \in Jobs /\ cli'[p].job = cli[p].job
      BY <1>0, <3>2, Loaded DEF PostAccepted, Post, Sessions
    <3>4. received' = [received EXCEPT ![cli[p].job] = @ + 1]
      BY <3>2 DEF PostAccepted, Post
    <3> QED  BY <1>0, <3>3, <3>4
  <2> QED  BY <2>1, <2>2, <2>3, <2>4, SessionStep
<1>2. ASSUME NEW j \in Jobs, status'[j] \in {"SUBMITTED", "VERIFIED"}
      PROVE  received'[j] > 0
  <2>1. status[j] \in {"SUBMITTED", "VERIFIED"} => received[j] > 0
    BY DEF Confirmed, SubmittedIsReal
  <2>2. ASSUME NEW p \in Procs, cli[p].job = j, DiscoverMatches(p) PROVE status'[j] \in {"HUMAN_REQUIRED", "MATCHED"}
    BY <2>2 DEF DiscoverMatches, TypeOK
  <2>3. received[j] > 0
    BY <1>2, <2>1, <2>2, StatusStep DEF Changes, Works, Confirmed
  <2> QED  BY <1>0, <2>3, ReceivedStep
<1> QED  BY <1>1, <1>2 DEF Confirmed, SubmittedIsReal

\* An application marked SUBMITTED or VERIFIED is one the platform has, however
\* the commands of several processes overwrite each other's status.
THEOREM SubmittedWasReceived == Spec => []SubmittedIsReal
<1>1. Init => Confirmed
  BY DEF Init, Confirmed, SubmittedIsReal, Idle
<1>2. TypeOK /\ Confirmed /\ [Next]_vars => Confirmed'
  BY ConfirmedStep
<1>3. Confirmed => SubmittedIsReal
  BY DEF Confirmed
<1> QED  BY <1>1, <1>2, <1>3, TypeCorrect, PTL DEF Spec

-----------------------------------------------------------------------------

\* A job is taken once its application has left DISCOVERED other than for
\* SKIPPED, and while a command works on that application.
Taken(j) == status[j] \in AppliedTo \/ \E p \in Procs : Works(p, j)

OneTaken ==
  /\ \A j \in Jobs : Taken(j) => status[j] # "none"
  /\ \A j, k \in Jobs :
       Fingerprint[posting[j]] = Fingerprint[posting[k]] /\ Taken(j) /\ Taken(k) => j = k
  /\ \A p \in Procs : cli[p].pc # "idle" => cli[p].posting = posting[cli[p].job]

\* The content of a job changes in a rescan only.
LEMMA PostingStep ==
  ASSUME TypeOK, [Next]_vars, MaxRescans = 0
  PROVE  posting' = posting
<1>1. ASSUME NEW p \in Procs, NEW j \in Jobs, Starts(p, j) PROVE posting' = posting
  BY <1>1 DEF Starts, Prepare, ReviewForApproval, Submit, Run, Verify, Retry, jobs
<1>2. ASSUME NEW p \in Procs, Preparation(p) PROVE posting' = posting
  BY <1>2 DEF Preparation, DiscoverRaced, DiscoverSkips, DiscoverMatches, InspectionPasses,
              InspectionStops, PreparationFails, Generate, jobs
<1>3. ASSUME NEW p \in Procs, Submission(p) PROVE posting' = posting
  BY <1>3 DEF Submission, GateCloses, SubmitLimited, GatesOpen, Consume, PostRefused, PostAccepted,
              PostUnknown, Post, Record, jobs
<1>4. ASSUME NEW p \in Procs, OtherStep(p) PROVE posting' = posting
  BY <1>4 DEF OtherStep, Approve, Decline, RunBlocked, RunRefused, Verified, Inconclusive,
              RetryInitiated, Dies, jobs
<1>5. CASE Around
  <2>1. ASSUME NEW j \in Jobs, NEW q \in Postings, Rescan(j, q) PROVE FALSE
    BY <2>1 DEF Rescan, TypeOK
  <2> QED  BY <1>5, <2>1 DEF Around, TargetAdd, AllowlistAdd, Rematch, ApprovalLapses, ListingLapses,
                             HourPasses, DayPasses, jobs
<1>6. CASE UNCHANGED vars
  BY <1>6 DEF vars, jobs
<1> QED  BY <1>1, <1>2, <1>3, <1>4, <1>5, <1>6 DEF Next

\* A job is taken by prepare alone, and only if no other job of its posting has
\* an application.
LEMMA TakenStep ==
  ASSUME TypeOK, OneTaken, [Next]_vars, NEW j \in Jobs, Taken(j)'
  PROVE  \/ Taken(j)
         \/ /\ status'[j] # "none" /\ \A k \in Jobs \ {j} : status'[k] = status[k]
            /\ \A k \in Jobs \ {j} : Fingerprint[posting[k]] = Fingerprint[posting[j]] => status[k] = "none"
<1>0. cli \in [Procs -> Sessions]
  BY DEF TypeOK
<1>a. ASSUME NEW p \in Procs, cli[p].job = j, DiscoverMatches(p)
      PROVE  /\ status'[j] # "none" /\ \A k \in Jobs \ {j} : status'[k] = status[k]
             /\ \A k \in Jobs \ {j} : Fingerprint[posting[k]] = Fingerprint[posting[j]] => status[k] = "none"
  <2>1. cli[p].posting = posting[j] /\ ~Twin(p)
    BY <1>a DEF DiscoverMatches, OneTaken
  <2>2. /\ status'[j] \in {"HUMAN_REQUIRED", "MATCHED"}
        /\ \A k \in Jobs \ {j} : status'[k] = status[k]
    BY <1>a DEF DiscoverMatches, TypeOK
  <2> QED  BY <1>a, <2>1, <2>2 DEF Twin
<1>1. CASE status'[j] \in AppliedTo
  <2>1. CASE status'[j] = status[j]
    BY <1>1, <2>1 DEF Taken
  <2>2. CASE status[j] = "none" /\ status'[j] \in {"DISCOVERED", "SKIPPED"}
    BY <1>1, <2>2 DEF AppliedTo
  <2>3. CASE \E p \in Procs : Works(p, j)
    BY <2>3 DEF Taken
  <2> QED  BY <1>a, <2>1, <2>2, <2>3, StatusStep DEF Changes
<1>2. ASSUME NEW p \in Procs, cli'[p].pc \notin {"idle", "discover"}, cli'[p].job = j
      PROVE  Taken(j) \/ (cli[p].job = j /\ DiscoverMatches(p))
  <2>1. CASE cli'[p] = cli[p]
    BY <1>2, <2>1 DEF Taken, Works
  <2>2. CASE cli'[p] = Idle
    BY <1>2, <2>2 DEF Idle
  <2>3. ASSUME NEW k \in Jobs, Starts(p, k) PROVE Taken(j)
    <3>1. k = j /\ status[j] \in {"MATCHED", "HUMAN_REQUIRED", "PREPARED", "SUBMITTED", "FAILED"}
      BY <1>2, <2>3, Started
    <3> QED  BY <3>1 DEF Taken, AppliedTo, Statuses
  <2>4. CASE Moves(p)
    <3>1. cli[p].job = cli'[p].job
      BY <1>0, <2>4 DEF Moves, DiscoverMatches, InspectionPasses, GatesOpen, Consume, PostRefused,
                        PostAccepted, PostUnknown, Post, Sessions
    <3>2. DiscoverMatches(p) \/ cli[p].pc \notin {"idle", "discover"}
      BY <2>4 DEF Moves, InspectionPasses, GatesOpen, Consume, PostRefused, PostAccepted, PostUnknown, Post
    <3> QED  BY <1>2, <3>1, <3>2 DEF Taken, Works
  <2> QED  BY <2>1, <2>2, <2>3, <2>4, SessionStep
<1> QED  BY <1>a, <1>1, <1>2 DEF Taken, Works

LEMMA OneTakenStep ==
  ASSUME TypeOK, OneTaken, [Next]_vars, MaxRescans = 0
  PROVE  OneTaken'
<1>0. posting' = posting
  BY PostingStep
<1>1. ASSUME NEW j \in Jobs, status[j] # "none" PROVE status'[j] # "none"
  <2>1. ASSUME NEW p \in Procs, cli[p].job = j, DiscoverMatches(p) PROVE FALSE
    BY <1>1, <2>1 DEF DiscoverMatches
  <2> QED  BY <1>1, <2>1, StatusStep DEF Changes
<1>2. ASSUME NEW j \in Jobs, Taken(j)' PROVE status'[j] # "none"
  BY <1>1, <1>2, TakenStep DEF OneTaken
<1>3. ASSUME NEW j \in Jobs, NEW k \in Jobs, j # k, Taken(j)', Taken(k)',
             Fingerprint[posting[j]] = Fingerprint[posting[k]]
      PROVE  FALSE
  <2>1. CASE Taken(j) /\ Taken(k)
    BY <1>3, <2>1 DEF OneTaken
  <2>2. CASE Taken(j) /\ ~Taken(k)
    BY <1>3, <2>2, TakenStep DEF OneTaken
  <2>3. CASE ~Taken(j) /\ Taken(k)
    BY <1>3, <2>3, TakenStep DEF OneTaken
  <2>4. CASE ~Taken(j) /\ ~Taken(k)
    BY <1>3, <2>4, TakenStep
  <2> QED  BY <2>1, <2>2, <2>3, <2>4
<1>4. ASSUME NEW p \in Procs, cli'[p].pc # "idle"
      PROVE  cli'[p].posting = posting[cli'[p].job]
  <2>1. CASE cli'[p] = cli[p]
    BY <1>4, <2>1 DEF OneTaken
  <2>2. CASE cli'[p] = Idle
    BY <1>4, <2>2 DEF Idle
  <2>3. ASSUME NEW j \in Jobs, Starts(p, j) PROVE cli'[p].posting = posting[cli'[p].job]
    BY <2>3, Started
  <2>4. CASE Moves(p)
    <3>1. cli \in [Procs -> Sessions]
      BY DEF TypeOK
    <3>2. cli[p].pc # "idle" /\ cli'[p].job = cli[p].job /\ cli'[p].posting = cli[p].posting
      BY <2>4, <3>1 DEF Moves, DiscoverMatches, InspectionPasses, GatesOpen, Consume, PostRefused,
                        PostAccepted, PostUnknown, Post, Sessions
    <3> QED  BY <3>2 DEF OneTaken
  <2> QED  BY <2>1, <2>2, <2>3, <2>4, SessionStep
<1> QED  BY <1>0, <1>2, <1>3, <1>4 DEF OneTaken, Taken

\* Of the jobs with one fingerprint one is applied to at most, however many
\* prepare commands run at a time, as long as no rescan changes a posting.
THEOREM NoTwinIsAppliedTo ==
  ASSUME MaxRescans = 0
  PROVE  Spec => []NoTwins
<1>1. Init => OneTaken
  BY DEF Init, OneTaken, Taken, Works, Idle, AppliedTo, Statuses
<1>2. TypeOK /\ OneTaken /\ [Next]_vars => OneTaken'
  BY OneTakenStep
<1>3. OneTaken => NoTwins
  BY DEF OneTaken, Taken, NoTwins
<1> QED  BY <1>1, <1>2, <1>3, TypeCorrect, PTL DEF Spec
=============================================================================
