---------------------- MODULE ApplicationSequentialProofs ----------------------
(* What ApplicationLifecycle promises where one command runs at a time: what a *)
(* command has loaded is what the database says, so that every change of a     *)
(* status is a legal one, an application is sent while it is PREPARED only,    *)
(* every call of the provider has an approval of its own, the platform takes   *)
(* a second application only if a command died with the first unknown, and the *)
(* recorded submissions stay within the limits.                                *)
EXTENDS ApplicationLifecycleProofs, FiniteSetTheorems

\* The statuses a command can have loaded, by where it is.
Expected(pc) ==
  CASE pc \in {"inspect", "generate"} -> {"MATCHED", "HUMAN_REQUIRED"}
    [] pc \in {"confirm", "gates", "consume", "post", "record", "run"} -> {"PREPARED"}
    [] pc = "verify" -> {"SUBMITTED"}
    [] pc = "retry" -> {"FAILED"}

InCommand(s) == s.pc \notin {"idle", "discover"}

\* The only command works on the status that the database has.
Current ==
  \A p \in Procs :
     InCommand(cli[p]) => cli[p].seen = status[cli[p].job] /\ cli[p].seen \in Expected(cli[p].pc)

LEMMA ExpectedStatuses ==
  ASSUME NEW pc \in Places \ {"idle", "discover"}
  PROVE  "none" \notin Expected(pc)
BY DEF Places, Expected

\* The steps of one process: it starts a command, goes on or ends it.
LEMMA OneProcess ==
  ASSUME NEW only, Procs = {only}, TypeOK, [Next]_vars
  PROVE  \/ \E j \in Jobs : Starts(only, j)
         \/ Preparation(only) \/ Submission(only) \/ OtherStep(only)
         \/ Around \/ UNCHANGED vars
BY DEF Next

LEMMA AroundStep ==
  ASSUME TypeOK, Around \/ UNCHANGED vars
  PROVE  /\ cli' = cli /\ UNCHANGED <<answers, platform, unrecorded>>
         /\ \A j \in Jobs : status'[j] = status[j] \/ (status[j] = "none" /\ status'[j] = "DISCOVERED")
<1>1. ASSUME NEW j \in Jobs, TargetAdd(j)
      PROVE  \A k \in Jobs : status'[k] = status[k] \/ (status[k] = "none" /\ status'[k] = "DISCOVERED")
  BY <1>1 DEF TargetAdd, TypeOK
<1>2. (\E j \in Jobs : TargetAdd(j)) \/ status' = status
  BY DEF Around, AllowlistAdd, Rescan, Rematch, ApprovalLapses, ListingLapses, HourPasses, DayPasses,
         vars, rows
<1>3. cli' = cli /\ UNCHANGED <<answers, platform, unrecorded>>
  BY DEF Around, TargetAdd, AllowlistAdd, Rescan, Rematch, ApprovalLapses, ListingLapses, HourPasses,
         DayPasses, vars, rows, platform
<1> QED  BY <1>1, <1>2, <1>3

\* A new command has loaded the status of its application.
LEMMA StartedCurrent ==
  ASSUME TypeOK, NEW p \in Procs, NEW j \in Jobs, Starts(p, j)
  PROVE  /\ UNCHANGED <<rows, platform, approvals, unrecorded>>
         /\ cli'[p].seen = status[j]
         /\ InCommand(cli'[p]) => status[j] \in Expected(cli'[p].pc)
<1>0. cli \in [Procs -> Sessions]
  BY DEF TypeOK
<1>1. ASSUME NEW place, Begin(p, place, j)
      PROVE  cli'[p].pc = place /\ cli'[p].seen = status[j]
  BY <1>0, <1>1 DEF Begin, Idle
<1>2. CASE Prepare(p, j)
  BY <1>1, <1>2 DEF Prepare, Expected, InCommand, grants
<1>3. CASE ReviewForApproval(p, j)
  BY <1>0, <1>3 DEF ReviewForApproval, Idle, Expected, InCommand, grants
<1>4. CASE Submit(p, j)
  BY <1>1, <1>4 DEF Submit, Expected, InCommand, grants
<1>5. CASE Run(p, j)
  BY <1>1, <1>5 DEF Run, Expected, InCommand, grants
<1>6. CASE Verify(p, j)
  BY <1>1, <1>6 DEF Verify, Expected, InCommand, grants
<1>7. CASE Retry(p, j)
  BY <1>1, <1>7 DEF Retry, Expected, InCommand, grants
<1> QED  BY <1>2, <1>3, <1>4, <1>5, <1>6, <1>7 DEF Starts

\* A command that goes on keeps its application, and changes its status only
\* together with what it has loaded.
LEMMA MovedCurrent ==
  ASSUME TypeOK, Current, NEW p \in Procs, Moves(p)
  PROVE  /\ cli'[p].job = cli[p].job /\ cli'[p].seen = status'[cli[p].job]
         /\ cli'[p].seen \in Expected(cli'[p].pc)
<1>0. cli \in [Procs -> Sessions] /\ cli[p].pc # "idle"
  BY DEF TypeOK, Moves, DiscoverMatches, InspectionPasses, GatesOpen, Consume, PostRefused,
         PostAccepted, PostUnknown, Post
<1>1. cli[p].job \in Jobs /\ status \in [Jobs -> Statuses \cup {"none"}]
  BY <1>0, Loaded DEF TypeOK
<1>2. CASE DiscoverMatches(p)
  <2>1. /\ cli'[p].job = cli[p].job /\ cli'[p].pc = "inspect" /\ cli'[p].seen = status'[cli[p].job]
        /\ cli'[p].seen \in {"MATCHED", "HUMAN_REQUIRED"}
    BY <1>0, <1>1, <1>2 DEF DiscoverMatches, Sessions
  <2> QED  BY <2>1 DEF Expected
<1>3. CASE ~DiscoverMatches(p)
  <2>1. status' = status /\ InCommand(cli[p])
    BY <1>3 DEF Moves, InspectionPasses, GatesOpen, Consume, PostRefused, PostAccepted, PostUnknown,
                Post, rows, InCommand
  <2>2. cli'[p].job = cli[p].job /\ cli'[p].seen = cli[p].seen
    BY <1>0, <1>3 DEF Moves, InspectionPasses, GatesOpen, Consume, PostRefused, PostAccepted,
                      PostUnknown, Post, Sessions
  <2>3. \/ cli[p].pc = "inspect" /\ cli'[p].pc = "generate"
        \/ cli[p].pc \in {"gates", "consume", "post"} /\ cli'[p].pc \in {"consume", "post", "record"}
    BY <1>0, <1>3 DEF Moves, InspectionPasses, GatesOpen, Consume, PostRefused, PostAccepted,
                      PostUnknown, Post, Sessions
  <2>4. Expected(cli'[p].pc) = Expected(cli[p].pc)
    BY <2>3 DEF Expected
  <2> QED  BY <2>1, <2>2, <2>4 DEF Current
<1> QED  BY <1>2, <1>3

LEMMA CurrentStep ==
  ASSUME NEW only, Procs = {only}, TypeOK, Current, [Next]_vars
  PROVE  Current'
<1>0. cli[only] \in Sessions /\ cli \in [Procs -> Sessions]
  BY DEF TypeOK
<1> SUFFICES ASSUME InCommand(cli'[only])
             PROVE  /\ cli'[only].seen = status'[cli'[only].job]
                    /\ cli'[only].seen \in Expected(cli'[only].pc)
  BY DEF Current, InCommand
<1>1. CASE Around \/ UNCHANGED vars
  <2>1. cli' = cli /\ \A j \in Jobs : status'[j] = status[j] \/ status[j] = "none"
    BY <1>1, AroundStep
  <2>2. cli[only].job \in Jobs /\ status[cli[only].job] # "none"
    BY <1>0, <2>1, Loaded, ExpectedStatuses DEF Current, InCommand, Sessions
  <2> QED  BY <2>1, <2>2 DEF Current
<1>2. ASSUME NEW j \in Jobs, Starts(only, j)
      PROVE  /\ cli'[only].seen = status'[cli'[only].job]
             /\ cli'[only].seen \in Expected(cli'[only].pc)
  BY <1>2, Started, StartedCurrent DEF rows
<1>3. CASE Preparation(only) \/ Submission(only) \/ OtherStep(only)
  <2>1. CASE Finish(only)
    BY <1>0, <2>1 DEF Finish, Idle, InCommand
  <2>2. CASE Moves(only)
    BY <2>2, MovedCurrent
  <2> QED  BY <1>3, <2>1, <2>2, CommandStep
<1> QED  BY <1>1, <1>2, <1>3, OneProcess

LEMMA CurrentAlways ==
  ASSUME NEW only, Procs = {only}
  PROVE  Spec => []Current
<1>1. Init => Current
  BY DEF Init, Current, InCommand, Idle
<1>2. TypeOK /\ Current /\ [Next]_vars => Current'
  BY CurrentStep
<1> QED  BY <1>1, <1>2, TypeCorrect, PTL DEF Spec

-----------------------------------------------------------------------------

\* A command changes the status of its own application only, by a legal move
\* from the status it has loaded, or creates it.
Writes(p) ==
  \/ status' = status
  \/ cli[p].pc = "discover" /\ \A j \in Jobs : status'[j] = status[j] \/ status[j] = "none"
  \/ /\ cli[p].pc \in {"inspect", "generate", "gates", "record", "run", "verify", "retry"}
     /\ \E target : /\ SetStatus(p, target)
                    /\ cli[p].pc = "verify" => target = "VERIFIED"
                    /\ cli[p].pc = "record" => target = Outcome(cli[p].outcome)

LEMMA CommandWrites ==
  ASSUME TypeOK, NEW p \in Procs, Preparation(p) \/ Submission(p) \/ OtherStep(p)
  PROVE  Writes(p)
<1>1. CASE Preparation(p)
  <2>1. CASE DiscoverSkips(p) \/ DiscoverMatches(p)
    BY <2>1 DEF DiscoverSkips, DiscoverMatches, TypeOK, Writes
  <2>2. CASE DiscoverRaced(p) \/ InspectionPasses(p)
    BY <2>2 DEF DiscoverRaced, InspectionPasses, rows, Writes
  <2>3. CASE InspectionStops(p)
    BY <2>3 DEF InspectionStops, Writes
  <2>4. CASE PreparationFails(p)
    BY <2>4 DEF PreparationFails, Writes
  <2>5. ASSUME NEW v \in AnswerSets, Generate(p, v) PROVE Writes(p)
    BY <2>5 DEF Generate, Writes
  <2> QED  BY <1>1, <2>1, <2>2, <2>3, <2>4, <2>5 DEF Preparation
<1>2. CASE Submission(p)
  <2>1. CASE SubmitLimited(p)
    BY <2>1 DEF SubmitLimited, Writes
  <2>2. CASE Record(p)
    BY <2>2 DEF Record, Writes
  <2>3. CASE status' = status
    BY <2>3 DEF Writes
  <2> QED  BY <1>2, <2>1, <2>2, <2>3 DEF Submission, GateCloses, GatesOpen, Consume, PostRefused,
                                       PostAccepted, PostUnknown, Post, rows
<1>3. CASE OtherStep(p)
  <2>1. CASE RunRefused(p)
    BY <2>1 DEF RunRefused, Writes
  <2>2. CASE Verified(p)
    BY <2>2 DEF Verified, Writes
  <2>3. CASE RetryInitiated(p)
    BY <2>3 DEF RetryInitiated, Writes
  <2>4. CASE status' = status
    BY <2>4 DEF Writes
  <2> QED  BY <1>3, <2>1, <2>2, <2>3, <2>4 DEF OtherStep, Approve, Decline, RunBlocked, Inconclusive, Dies, rows
<1> QED  BY <1>1, <1>2, <1>3

\* How the status of an application changes.
LEMMA StatusMoves ==
  ASSUME NEW only, Procs = {only}, TypeOK, Current, [Next]_vars,
         NEW j \in Jobs, status[j] # "none", status'[j] # status[j]
  PROVE  /\ InCommand(cli[only]) /\ cli[only].job = j
         /\ status'[j] \in Transitions[status[j]]
         /\ cli[only].pc = "verify" => status'[j] = "VERIFIED"
         /\ cli[only].pc = "record" => status'[j] = Outcome(cli[only].outcome)
<1>1. Preparation(only) \/ Submission(only) \/ OtherStep(only)
  <2>1. ~(Around \/ UNCHANGED vars)
    BY AroundStep
  <2>2. ASSUME NEW k \in Jobs, Starts(only, k) PROVE FALSE
    BY <2>2, StartedCurrent DEF rows
  <2> QED  BY <2>1, <2>2, OneProcess
<1>2. Writes(only)
  BY <1>1, CommandWrites
<1>3. PICK target : /\ SetStatus(only, target) /\ InCommand(cli[only])
                    /\ cli[only].pc = "verify" => target = "VERIFIED"
                    /\ cli[only].pc = "record" => target = Outcome(cli[only].outcome)
  BY <1>2 DEF Writes, InCommand
<1>4. cli[only].job \in Jobs /\ status \in [Jobs -> Statuses \cup {"none"}]
  BY <1>3, Loaded DEF InCommand, TypeOK
<1>5. cli[only].job = j /\ status'[j] = target
  BY <1>3, <1>4 DEF SetStatus
<1>6. cli[only].seen = status[j] /\ target \in Transitions[cli[only].seen]
  BY <1>3, <1>5 DEF Current, SetStatus
<1> QED  BY <1>3, <1>5, <1>6

\* Where one command runs at a time, every change of the status of an
\* application is an edge of _ALLOWED_TRANSITIONS, also after one has died.
THEOREM EveryMoveIsLegal ==
  ASSUME NEW only, Procs = {only}
  PROVE  Spec => LegalMoves
<1>1. TypeOK /\ Current /\ [Next]_vars =>
        [\A j \in Jobs : status[j] # "none" /\ status'[j] # status[j]
                           => status'[j] \in Transitions[status[j]]]_vars
  BY StatusMoves
<1> QED  BY <1>1, TypeCorrect, CurrentAlways, PTL DEF LegalMoves, Spec

-----------------------------------------------------------------------------

\* The calls of the provider.
LEMMA PlatformStep ==
  ASSUME NEW only, Procs = {only}, TypeOK, [Next]_vars
  PROVE  UNCHANGED platform \/ PostRefused(only) \/ PostAccepted(only) \/ PostUnknown(only)
<1>1. ASSUME NEW j \in Jobs, Starts(only, j) PROVE UNCHANGED platform
  BY <1>1, StartedCurrent
<1>2. CASE Preparation(only)
  BY <1>2 DEF Preparation, DiscoverRaced, DiscoverSkips, DiscoverMatches, InspectionPasses,
              InspectionStops, PreparationFails, Generate
<1>3. CASE Submission(only)
  BY <1>3 DEF Submission, GateCloses, SubmitLimited, GatesOpen, Consume, Record
<1>4. CASE OtherStep(only)
  BY <1>4 DEF OtherStep, Approve, Decline, RunBlocked, RunRefused, Verified, Inconclusive,
              RetryInitiated, Dies
<1>5. CASE Around \/ UNCHANGED vars
  BY <1>5, AroundStep
<1> QED  BY <1>1, <1>2, <1>3, <1>4, <1>5, OneProcess

\* Where one command runs at a time, the provider is called for an application
\* that is PREPARED in the database at that moment.
THEOREM OnlyPreparedIsSent ==
  ASSUME NEW only, Procs = {only}
  PROVE  Spec => SendsOnlyPrepared
<1>1. ASSUME TypeOK, Current, [Next]_vars, NEW j \in Jobs, attempts'[j] > attempts[j]
      PROVE  status[j] = "PREPARED"
  <2>1. attempts \in [Jobs -> Nat]
    BY <1>1 DEF TypeOK
  <2>2. PostRefused(only) \/ PostAccepted(only) \/ PostUnknown(only)
    BY <1>1, <2>1, PlatformStep DEF platform
  <2>3. /\ cli[only].pc = "post"
        /\ attempts' = [attempts EXCEPT ![cli[only].job] = @ + 1]
    BY <2>2 DEF PostRefused, PostAccepted, PostUnknown, Post
  <2>4. cli[only].job = j
    BY <1>1, <2>1, <2>3
  <2> QED  BY <1>1, <2>3, <2>4 DEF Current, InCommand, Expected
<1>2. TypeOK /\ Current /\ [Next]_vars =>
        [\A j \in Jobs : attempts'[j] > attempts[j] => status[j] = "PREPARED"]_vars
  BY <1>1
<1> QED  BY <1>2, TypeCorrect, CurrentAlways, PTL DEF SendsOnlyPrepared, Spec

-----------------------------------------------------------------------------

\* The statuses that say the platform has the application, or may have it.
Settled == {"SUBMITTED", "SUBMISSION_UNCERTAIN", "VERIFIED"}

\* The only command holds an answer of the provider, other than no, for job j.
Answered(j) ==
  \E p \in Procs : cli[p].pc = "record" /\ cli[p].job = j /\ cli[p].outcome # "refused"

\* What the platform has beyond the deaths is known to the status or a command.
Explained ==
  \A j \in Jobs :
     /\ received[j] <= 1 + unrecorded[j]
     /\ status[j] \in Settled \/ Answered(j) \/ received[j] <= unrecorded[j]

\* A settled application is never unsettled.
LEMMA SettledStays ==
  ASSUME NEW only, Procs = {only}, TypeOK, Current, [Next]_vars,
         NEW j \in Jobs, status[j] \in Settled
  PROVE  status'[j] \in Settled
<1> SUFFICES ASSUME status'[j] # status[j] PROVE status'[j] \in Settled
  OBVIOUS
<1>1. InCommand(cli[only]) /\ cli[only].job = j /\ (cli[only].pc = "verify" => status'[j] = "VERIFIED")
  BY StatusMoves DEF Settled
<1>2. status[j] \in Expected(cli[only].pc) /\ cli[only].pc \in Places
  BY <1>1, Loaded DEF Current, InCommand, Sessions
<1>3. cli[only].pc = "verify"
  BY <1>1, <1>2 DEF Expected, Settled, Places, InCommand
<1> QED  BY <1>1, <1>3 DEF Settled

\* A command that holds an answer records it, or dies.
LEMMA AnswerStep ==
  ASSUME NEW only, Procs = {only}, TypeOK, Current, [Next]_vars, NEW j \in Jobs, Answered(j)
  PROVE  \/ UNCHANGED unrecorded /\ (Answered(j)' \/ status'[j] \in Settled)
         \/ unrecorded' = [unrecorded EXCEPT ![j] = @ + 1]
<1>1. cli[only].pc = "record" /\ cli[only].job = j /\ cli[only].outcome \in {"accepted", "unknown"}
  BY Loaded DEF Answered, Sessions, TypeOK, Sound
<1>2. CASE Around \/ UNCHANGED vars
  BY <1>2, AroundStep DEF Answered
<1>3. ASSUME NEW k \in Jobs, Starts(only, k) PROVE FALSE
  BY <1>1, <1>3 DEF Starts, Prepare, ReviewForApproval, Submit, Run, Verify, Retry, Begin
<1>4. CASE Preparation(only)
  BY <1>1, <1>4 DEF Preparation, DiscoverRaced, DiscoverSkips, DiscoverMatches, InspectionPasses,
                    InspectionStops, PreparationFails, Generate
<1>5. CASE Submission(only)
  <2>1. Record(only)
    BY <1>1, <1>5 DEF Submission, GateCloses, SubmitLimited, GatesOpen, Consume, PostRefused,
                      PostAccepted, PostUnknown, Post
  <2>2. Outcome(cli[only].outcome) \in Settled
    BY <1>1 DEF Outcome, Settled
  <2>3. status \in [Jobs -> Statuses \cup {"none"}] /\ cli[only].seen = status[j]
    BY <1>1 DEF TypeOK, Current, InCommand
  <2>4. SetStatus(only, Outcome(cli[only].outcome)) /\ UNCHANGED unrecorded
    BY <2>1 DEF Record
  <2>5. status'[j] \in Settled
    BY <1>1, <2>2, <2>3, <2>4 DEF SetStatus
  <2> QED  BY <2>4, <2>5
<1>6. CASE OtherStep(only)
  <2>1. Dies(only)
    BY <1>1, <1>6 DEF OtherStep, Approve, Decline, RunBlocked, RunRefused, Verified, Inconclusive,
                      RetryInitiated
  <2> QED  BY <1>1, <2>1 DEF Dies
<1> QED  BY <1>2, <1>3, <1>4, <1>5, <1>6, OneProcess

LEMMA UnrecordedStep ==
  ASSUME NEW only, Procs = {only}, TypeOK, [Next]_vars, NEW j \in Jobs
  PROVE  unrecorded'[j] >= unrecorded[j]
<1>0. unrecorded \in [Jobs -> Nat]
  BY DEF TypeOK
<1>1. CASE UNCHANGED unrecorded
  BY <1>0, <1>1
<1>2. ASSUME NEW k \in Jobs, Starts(only, k) PROVE UNCHANGED unrecorded
  BY <1>2, StartedCurrent
<1>3. CASE Preparation(only)
  BY <1>1, <1>3 DEF Preparation, DiscoverRaced, DiscoverSkips, DiscoverMatches, InspectionPasses,
              InspectionStops, PreparationFails, Generate
<1>4. CASE Submission(only)
  BY <1>1, <1>4 DEF Submission, GateCloses, SubmitLimited, GatesOpen, Consume, PostRefused,
                    PostAccepted, PostUnknown, Post, Record
<1>5. CASE OtherStep(only)
  <2>1. CASE Dies(only)
    BY <1>0, <2>1 DEF Dies
  <2>2. CASE ~Dies(only)
    BY <1>1, <1>5, <2>2 DEF OtherStep, Approve, Decline, RunBlocked, RunRefused, Verified, Inconclusive,
                            RetryInitiated
  <2> QED  BY <2>1, <2>2
<1>6. CASE Around \/ UNCHANGED vars
  BY <1>1, <1>6, AroundStep
<1> QED  BY <1>1, <1>2, <1>3, <1>4, <1>5, <1>6, OneProcess

\* What the platform takes, it takes of the application that is being sent.
LEMMA TakesStep ==
  ASSUME NEW only, Procs = {only}, TypeOK, Current, [Next]_vars, NEW j \in Jobs
  PROVE  \/ received'[j] = received[j]
         \/ /\ received'[j] = received[j] + 1 /\ unrecorded'[j] = unrecorded[j]
            /\ status[j] = "PREPARED" /\ ~Answered(j) /\ Answered(j)'
<1>0. received \in [Jobs -> Nat] /\ cli \in [Procs -> Sessions]
  BY DEF TypeOK
<1>1. ASSUME NEW outcome, NEW taken \in {0, 1}, Post(only, outcome, taken), taken = 0 \/ outcome # "refused"
      PROVE  \/ received'[j] = received[j]
             \/ /\ received'[j] = received[j] + 1 /\ unrecorded'[j] = unrecorded[j]
                /\ status[j] = "PREPARED" /\ ~Answered(j) /\ Answered(j)'
  <2>1. CASE j # cli[only].job \/ taken = 0
    BY <1>0, <1>1, <2>1 DEF Post
  <2>2. CASE j = cli[only].job /\ taken = 1
    <3>1. received'[j] = received[j] + 1 /\ unrecorded' = unrecorded /\ cli[only].pc = "post"
      BY <1>0, <1>1, <2>2 DEF Post
    <3>2. cli'[only].pc = "record" /\ cli'[only].job = j /\ cli'[only].outcome = outcome
      BY <1>0, <1>1, <2>2 DEF Post, Sessions
    <3>3. status[j] = "PREPARED"
      BY <2>2, <3>1 DEF Current, InCommand, Expected
    <3> QED  BY <1>1, <2>2, <3>1, <3>2, <3>3 DEF Answered
  <2> QED  BY <2>1, <2>2
<1>2. CASE UNCHANGED platform
  BY <1>2 DEF platform
<1> QED  BY <1>1, <1>2, PlatformStep DEF PostRefused, PostAccepted, PostUnknown

LEMMA ExplainedStep ==
  ASSUME NEW only, Procs = {only}, TypeOK, Current, Explained, [Next]_vars
  PROVE  Explained'
<1> SUFFICES ASSUME NEW j \in Jobs
             PROVE  /\ received'[j] <= 1 + unrecorded'[j]
                    /\ status'[j] \in Settled \/ Answered(j)' \/ received'[j] <= unrecorded'[j]
  BY DEF Explained
<1>0. /\ received[j] \in Nat /\ unrecorded[j] \in Nat
      /\ received'[j] \in Nat /\ unrecorded'[j] \in Nat
      /\ received[j] <= 1 + unrecorded[j]
      /\ status[j] \in Settled \/ Answered(j) \/ received[j] <= unrecorded[j]
      /\ unrecorded'[j] >= unrecorded[j]
  BY TypeStep, UnrecordedStep DEF TypeOK, Explained
<1>1. CASE received'[j] = received[j]
  <2>1. CASE status[j] \in Settled
    BY <1>0, <1>1, <2>1, SettledStays
  <2>2. CASE Answered(j)
    <3>1. CASE Answered(j)' \/ status'[j] \in Settled
      BY <1>0, <1>1, <3>1
    <3>2. CASE unrecorded' = [unrecorded EXCEPT ![j] = @ + 1]
      <4>1. unrecorded'[j] = unrecorded[j] + 1
        BY <3>2 DEF TypeOK
      <4> QED  BY <1>0, <1>1, <4>1
    <3> QED  BY <2>2, <3>1, <3>2, AnswerStep
  <2>3. CASE received[j] <= unrecorded[j]
    BY <1>0, <1>1, <2>3
  <2> QED  BY <1>0, <2>1, <2>2, <2>3
<1>2. CASE /\ received'[j] = received[j] + 1 /\ unrecorded'[j] = unrecorded[j]
           /\ status[j] = "PREPARED" /\ ~Answered(j) /\ Answered(j)'
  BY <1>0, <1>2 DEF Settled
<1> QED  BY <1>1, <1>2, TakesStep

\* Where one command runs at a time, the platform takes an application twice
\* only if a command died between the call of the provider and its record.
THEOREM NoDuplicateUnexplained ==
  ASSUME NEW only, Procs = {only}
  PROVE  Spec => []NoUnexplainedDuplicate
<1>1. Init => Explained
  BY DEF Init, Explained
<1>2. TypeOK /\ Current /\ Explained /\ [Next]_vars => Explained'
  BY ExplainedStep
<1>3. Explained => NoUnexplainedDuplicate
  BY DEF Explained, NoUnexplainedDuplicate
<1> QED  BY <1>1, <1>2, <1>3, TypeCorrect, CurrentAlways, PTL DEF Spec

-----------------------------------------------------------------------------

\* The approvals that were spent on job j.
Spent(j) == {i \in DOMAIN approvals : approvals[i].job = j /\ approvals[i].state = "consumed"}

\* The only command has spent an approval on job j, and not called the provider.
Paying(j) == \E p \in Procs : cli[p].pc = "post" /\ cli[p].job = j

Paid ==
  /\ \A j \in Jobs : attempts[j] + (IF Paying(j) THEN 1 ELSE 0) <= Cardinality(Spent(j))
  /\ \A p \in Procs : cli[p].pc = "consume" => approvals[cli[p].ticket].state # "consumed"

LEMMA RowsFinite ==
  ASSUME NEW s \in Seq(Approvals), NEW T \in SUBSET DOMAIN s
  PROVE  IsFiniteSet(T) /\ Cardinality(T) \in Nat
<1>1. DOMAIN s = 1..Len(s) /\ Len(s) \in Nat
  OBVIOUS
<1>2. IsFiniteSet(1..Len(s))
  BY <1>1, FS_Interval
<1>3. IsFiniteSet(T)
  BY <1>1, <1>2, FS_Subset
<1> QED  BY <1>3, FS_CardinalityType

\* No approval is unspent.
LEMMA SpentStep ==
  ASSUME TypeOK, [Next]_vars, NEW j \in Jobs
  PROVE  /\ IsFiniteSet(Spent(j)) /\ Cardinality(Spent(j)) \in Nat /\ Cardinality(Spent(j)') \in Nat
         /\ Cardinality(Spent(j)) <= Cardinality(Spent(j)')
<1>1. Spent(j) \subseteq Spent(j)'
  BY ApprovalStep DEF Spent
<1>2. approvals \in Seq(Approvals) /\ approvals' \in Seq(Approvals)
  BY TypeStep DEF TypeOK
<1>3. Spent(j) \in SUBSET DOMAIN approvals /\ Spent(j)' \in SUBSET DOMAIN approvals'
  BY DEF Spent
<1>4. /\ IsFiniteSet(Spent(j)) /\ Cardinality(Spent(j)) \in Nat
      /\ IsFiniteSet(Spent(j)') /\ Cardinality(Spent(j)') \in Nat
  BY <1>2, <1>3, RowsFinite
<1> QED  BY <1>1, <1>4, FS_Subset

\* Consume spends an approval that was not, on the application it is for.
LEMMA ConsumeSpends ==
  ASSUME TypeOK, [Next]_vars, Paid, NEW p \in Procs, Holds(p), Consume(p),
         NEW j \in Jobs, cli[p].job = j
  PROVE  Cardinality(Spent(j)') = Cardinality(Spent(j)) + 1
<1>0. PICK t : t = cli[p].ticket
  OBVIOUS
<1>1. /\ t \in DOMAIN approvals /\ approvals[t].job = j /\ approvals[t].state # "consumed"
  BY <1>0 DEF Consume, Holds, Paid
<1>2. approvals \in Seq(Approvals) /\ \A i \in DOMAIN approvals : approvals[i] \in Approvals
  BY DEF TypeOK
<1>3. /\ DOMAIN approvals' = DOMAIN approvals
      /\ \A i \in DOMAIN approvals :
           approvals'[i] = IF i = t THEN [approvals[i] EXCEPT !.state = "consumed"] ELSE approvals[i]
  BY <1>0, ApprovalStates DEF Consume
<1>4. Spent(j)' = Spent(j) \cup {t} /\ t \notin Spent(j)
  <2>1. approvals'[t].job = j /\ approvals'[t].state = "consumed"
    BY <1>1, <1>2, <1>3 DEF Approvals
  <2>2. Spent(j)' = {i \in DOMAIN approvals : approvals'[i].job = j /\ approvals'[i].state = "consumed"}
    BY <1>3 DEF Spent
  <2> QED  BY <1>1, <1>3, <2>1, <2>2 DEF Spent
<1>5. IsFiniteSet(Spent(j))
  BY SpentStep
<1> QED  BY <1>4, <1>5, FS_AddElement

\* Where a command that is about to call the provider comes from.
LEMMA PayingStep ==
  ASSUME NEW only, Procs = {only}, TypeOK, [Next]_vars, NEW j \in Jobs
  PROVE  \/ /\ Paying(j) /\ attempts'[j] = attempts[j] + 1 /\ ~Paying(j)'
         \/ /\ cli[only].job = j /\ Consume(only) /\ ~Paying(j) /\ attempts'[j] = attempts[j]
         \/ /\ Paying(j)' => Paying(j)
            /\ attempts'[j] = attempts[j]
<1>0. attempts \in [Jobs -> Nat] /\ cli \in [Procs -> Sessions]
  BY DEF TypeOK
<1>1. CASE UNCHANGED platform
  <2>1. attempts'[j] = attempts[j]
    BY <1>1 DEF platform
  <2>2. ASSUME Paying(j)', ~Paying(j) PROVE cli[only].job = j /\ Consume(only)
    <3>1. cli'[only].pc = "post" /\ cli'[only].job = j /\ cli'[only] # cli[only]
      BY <2>2 DEF Paying
    <3>2. cli'[only] # Idle
      BY <3>1 DEF Idle
    <3>3. ASSUME NEW k \in Jobs, Starts(only, k) PROVE FALSE
      BY <3>1, <3>3, Started
    <3>4. Moves(only)
      BY <3>1, <3>2, <3>3, SessionStep
    <3>5. Consume(only)
      BY <1>0, <3>1, <3>4 DEF Moves, DiscoverMatches, InspectionPasses, GatesOpen, PostRefused,
                              PostAccepted, PostUnknown, Post, Sessions
    <3> QED  BY <1>0, <3>1, <3>5 DEF Consume, Sessions
  <2> QED  BY <2>1, <2>2
<1>2. ASSUME NEW outcome, NEW taken, Post(only, outcome, taken)
      PROVE  \/ /\ Paying(j) /\ attempts'[j] = attempts[j] + 1 /\ ~Paying(j)'
             \/ /\ Paying(j)' => Paying(j)
                /\ attempts'[j] = attempts[j]
  <2>1. cli[only].pc = "post" /\ cli'[only].pc = "record"
    BY <1>0, <1>2 DEF Post, Sessions
  <2>2. ~Paying(j)'
    BY <2>1 DEF Paying
  <2>3. attempts'[j] = IF cli[only].job = j THEN attempts[j] + 1 ELSE attempts[j]
    BY <1>0, <1>2 DEF Post
  <2> QED  BY <2>1, <2>2, <2>3 DEF Paying
<1> QED  BY <1>1, <1>2, PlatformStep DEF PostRefused, PostAccepted, PostUnknown

LEMMA PaidStep ==
  ASSUME NEW only, Procs = {only}, TypeOK, Holds(only), Paid, [Next]_vars
  PROVE  Paid'
<1>1. ASSUME NEW j \in Jobs
      PROVE  attempts'[j] + (IF Paying(j)' THEN 1 ELSE 0) <= Cardinality(Spent(j)')
  <2>0. /\ attempts[j] \in Nat
        /\ attempts[j] + (IF Paying(j) THEN 1 ELSE 0) <= Cardinality(Spent(j))
        /\ Cardinality(Spent(j)) \in Nat /\ Cardinality(Spent(j)') \in Nat
        /\ Cardinality(Spent(j)) <= Cardinality(Spent(j)')
    BY SpentStep DEF TypeOK, Paid
  <2>1. CASE Paying(j) /\ attempts'[j] = attempts[j] + 1 /\ ~Paying(j)'
    BY <2>0, <2>1
  <2>2. CASE cli[only].job = j /\ Consume(only) /\ ~Paying(j) /\ attempts'[j] = attempts[j]
    <3>1. Cardinality(Spent(j)') = Cardinality(Spent(j)) + 1
      BY <2>2, ConsumeSpends
    <3> QED  BY <2>0, <2>2, <3>1
  <2>3. CASE (Paying(j)' => Paying(j)) /\ attempts'[j] = attempts[j]
    BY <2>0, <2>3
  <2> QED  BY <2>1, <2>2, <2>3, PayingStep
<1>2. ASSUME cli'[only].pc = "consume" PROVE approvals'[cli'[only].ticket].state # "consumed"
  <2>0. cli \in [Procs -> Sessions] /\ approvals \in Seq(Approvals)
    BY DEF TypeOK
  <2>3. ASSUME NEW j \in Jobs, Starts(only, j) PROVE FALSE
    BY <1>2, <2>3, Started
  <2>2. CASE cli'[only] = Idle
    BY <1>2, <2>2 DEF Idle
  <2>1. CASE cli'[only] = cli[only]
    <3> DEFINE t == cli[only].ticket
    <3>1. t \in DOMAIN approvals /\ approvals[t].state # "consumed"
      BY <1>2, <2>1 DEF Holds, Paid
    <3>2. ~Finish(only)
      BY <1>2, <2>0 DEF Finish, Idle
    <3>3. ~Moves(only)
      BY <1>2, <2>0, <2>1 DEF Moves, DiscoverMatches, InspectionPasses, GatesOpen, Consume,
                              PostRefused, PostAccepted, PostUnknown, Post, Sessions
    <3>4. Around \/ UNCHANGED vars
      BY <2>3, <3>2, <3>3, CommandStep, OneProcess
    <3>5. approvals' = approvals \/ \E i \in DOMAIN approvals : ApprovalLapses(i)
      BY <3>4 DEF Around, TargetAdd, AllowlistAdd, Rescan, Rematch, ListingLapses, HourPasses,
                  DayPasses, vars, grants
    <3>6. ASSUME NEW i \in DOMAIN approvals, ApprovalLapses(i) PROVE approvals'[t].state # "consumed"
      <4>1. approvals'[t] = IF t = i THEN [approvals[t] EXCEPT !.state = "void"] ELSE approvals[t]
        BY <3>1, <3>6, ApprovalStates DEF ApprovalLapses
      <4>2. approvals[t] \in Approvals
        BY <2>0, <3>1
      <4> HIDE DEF t
      <4> QED  BY <3>1, <4>1, <4>2 DEF Approvals
    <3> QED  BY <2>1, <3>1, <3>5, <3>6
  <2>4. CASE Moves(only)
    <3>1. PICK i \in DOMAIN approvals : GatesOpen(only, i)
      BY <1>2, <2>0, <2>4 DEF Moves, DiscoverMatches, InspectionPasses, Consume, PostRefused,
                              PostAccepted, PostUnknown, Post, Sessions
    <3>2. cli'[only].ticket = i /\ approvals' = approvals /\ approvals[i].state = "live"
      BY <2>0, <3>1 DEF GatesOpen, Valid, grants, Sessions
    <3> QED  BY <3>2
  <2> QED  BY <2>1, <2>2, <2>3, <2>4, SessionStep
<1> QED  BY <1>1, <1>2 DEF Paid

\* Where one command runs at a time, every call of the provider has spent an
\* approval of its own.
THEOREM ApprovalsAreSingleUse ==
  ASSUME NEW only, Procs = {only}
  PROVE  Spec => []SingleUse
<1>1. Init => Paid
  <2> SUFFICES ASSUME Init PROVE Paid
    OBVIOUS
  <2>1. \A p \in Procs : cli[p].pc = "idle"
    BY DEF Init, Idle
  <2>2. \A j \in Jobs : Spent(j) = {} /\ attempts[j] = 0 /\ ~Paying(j)
    BY <2>1 DEF Init, Spent, Paying
  <2> QED  BY <2>1, <2>2, FS_EmptySet DEF Paid
<1>2. TypeOK /\ (\A p \in Procs : Holds(p)) /\ Paid /\ [Next]_vars => Paid'
  BY PaidStep
<1>3. TypeOK /\ Paid => SingleUse
  <2> SUFFICES ASSUME TypeOK, Paid, NEW j \in Jobs PROVE attempts[j] <= Cardinality(Spent(j))
    BY DEF SingleUse, Spent
  <2>1. Spent(j) \in SUBSET DOMAIN approvals /\ approvals \in Seq(Approvals) /\ attempts[j] \in Nat
    BY DEF Spent, TypeOK
  <2>2. Cardinality(Spent(j)) \in Nat
    BY <2>1, RowsFinite
  <2>3. attempts[j] + (IF Paying(j) THEN 1 ELSE 0) <= Cardinality(Spent(j))
    BY DEF Paid
  <2> QED  BY <2>1, <2>2, <2>3
<1> QED  BY <1>1, <1>2, <1>3, TypeCorrect, HoldsAlways, PTL DEF Spec

-----------------------------------------------------------------------------

\* There is room for one submission more from the gates to the record.
Room ==
  \A p \in Procs : cli[p].pc \in {"consume", "post", "record"} => WithinLimits(cli[p].job)

Windows == {PastHour, PastDay, Ever}

\* The submissions of a window can be counted.
LEMMA SubmissionsFinite ==
  ASSUME NEW S \in SUBSET Jobs, NEW window
  PROVE  /\ IsFiniteSet({k \in S : submitted[k] \in window}) /\ Submissions(S, window) \in Nat
         /\ IsFiniteSet({k \in S : submitted'[k] \in window}) /\ Submissions(S, window)' \in Nat
<1>1. IsFiniteSet(S)
  BY LifecycleAssumption, FS_Subset
<1>2. IsFiniteSet({k \in S : submitted[k] \in window}) /\ IsFiniteSet({k \in S : submitted'[k] \in window})
  BY <1>1, FS_Subset
<1> QED  BY <1>2, FS_CardinalityType DEF Submissions

\* Submissions grow older; there are never more in a window than before.
Ages == \A window \in Windows : \A k \in Jobs : submitted'[k] \in window => submitted[k] \in window

LEMMA TimePasses ==
  ASSUME TypeOK, HourPasses \/ DayPasses \/ UNCHANGED submitted
  PROVE  Ages
<1>1. \A k \in Jobs : submitted[k] \in Ever \cup {"never"}
  BY DEF TypeOK
<1>2. ASSUME NEW k \in Jobs
      PROVE  \/ submitted'[k] = submitted[k]
             \/ submitted[k] = "hour" /\ submitted'[k] \in {"day", "earlier"}
             \/ submitted[k] = "day" /\ submitted'[k] = "earlier"
  BY <1>1 DEF HourPasses, DayPasses, Ever
<1> QED  BY <1>2 DEF Ages, Windows, PastHour, PastDay, Ever

LEMMA AgesCount ==
  ASSUME Ages, NEW window \in Windows, NEW S \in SUBSET Jobs
  PROVE  Submissions(S, window)' <= Submissions(S, window)
<1>1. {k \in S : submitted'[k] \in window} \subseteq {k \in S : submitted[k] \in window}
  BY DEF Ages
<1> QED  BY <1>1, SubmissionsFinite, FS_Subset DEF Submissions

\* A submission that is recorded is counted once, where its application is.
LEMMA RecordCounts ==
  ASSUME TypeOK, NEW j \in Jobs, submitted' = [submitted EXCEPT ![j] = "hour"],
         NEW window \in Windows, NEW S \in SUBSET Jobs
  PROVE  /\ Submissions(S, window)' <= Submissions(S, window) + 1
         /\ j \notin S => Submissions(S, window)' = Submissions(S, window)
<1> DEFINE before == {k \in S : submitted[k] \in window}
           after  == {k \in S : submitted'[k] \in window}
<1>1. \A k \in S : k # j => submitted'[k] = submitted[k]
  BY DEF TypeOK
<1>2. after \subseteq before \cup {j} /\ (j \notin S => after = before)
  BY <1>1
<1>3. IsFiniteSet(before) /\ IsFiniteSet(before \cup {j})
  BY SubmissionsFinite, FS_AddElement, ZenonT(40)
<1>4. /\ Cardinality(after) <= Cardinality(before \cup {j})
      /\ Cardinality(before \cup {j}) <= Cardinality(before) + 1
      /\ Cardinality(before) \in Nat /\ Cardinality(after) \in Nat
      /\ Cardinality(before \cup {j}) \in Nat
  <2>1. IsFiniteSet(after) /\ Cardinality(after) <= Cardinality(before \cup {j})
    BY <1>2, <1>3, FS_Subset
  <2>2. /\ Cardinality(before) \in Nat /\ Cardinality(after) \in Nat
        /\ Cardinality(before \cup {j}) \in Nat
    BY <1>3, <2>1, FS_CardinalityType
  <2>3. Cardinality(before \cup {j}) \in {Cardinality(before), Cardinality(before) + 1}
    BY <1>3, FS_AddElement
  <2> QED  BY <2>1, <2>2, <2>3
<1>5. Submissions(S, window) = Cardinality(before) /\ Submissions(S, window)' = Cardinality(after)
  BY DEF Submissions
<1> HIDE DEF before, after
<1> QED  BY <1>2, <1>4, <1>5

\* The sets that the limits are about.
AtCompany(j)  == {k \in Jobs : Company[k] = Company[j]}
FromSource(j) == {k \in Jobs : Source[k] = Source[j]}

\* As submissions grow older the limits hold, and what room there was stays.
LEMMA AgesKeepLimits ==
  ASSUME Ages
  PROVE  /\ LimitsHold => LimitsHold'
         /\ \A j \in Jobs : WithinLimits(j) => WithinLimits(j)'
<1>1. ASSUME NEW S \in SUBSET Jobs, NEW window \in Windows
      PROVE  /\ Submissions(S, window)' <= Submissions(S, window)
             /\ Submissions(S, window) \in Nat /\ Submissions(S, window)' \in Nat
  BY <1>1, AgesCount, SubmissionsFinite
<1>2. /\ PastHour \in Windows /\ PastDay \in Windows /\ Ever \in Windows
      /\ Jobs \in SUBSET Jobs
      /\ \A j \in Jobs : AtCompany(j) \in SUBSET Jobs /\ FromSource(j) \in SUBSET Jobs
  BY DEF Windows, AtCompany, FromSource
<1>3. MaxPerDay \in Nat /\ MaxPerHour \in Nat /\ MaxPerCompany \in Nat /\ MaxPerSource \in Nat
  BY LifecycleAssumption
<1>4. /\ Submissions(Jobs, PastDay)' <= Submissions(Jobs, PastDay)
      /\ Submissions(Jobs, PastDay) \in Nat /\ Submissions(Jobs, PastDay)' \in Nat
      /\ Submissions(Jobs, PastHour)' <= Submissions(Jobs, PastHour)
      /\ Submissions(Jobs, PastHour) \in Nat /\ Submissions(Jobs, PastHour)' \in Nat
  BY <1>1, <1>2
<1>5. ASSUME NEW j \in Jobs
      PROVE  /\ Submissions(AtCompany(j), Ever)' <= Submissions(AtCompany(j), Ever)
             /\ Submissions(AtCompany(j), Ever) \in Nat /\ Submissions(AtCompany(j), Ever)' \in Nat
             /\ Submissions(FromSource(j), PastDay)' <= Submissions(FromSource(j), PastDay)
             /\ Submissions(FromSource(j), PastDay) \in Nat /\ Submissions(FromSource(j), PastDay)' \in Nat
  BY <1>1, <1>2
<1>6. LimitsHold => LimitsHold'
  BY <1>3, <1>4, <1>5 DEF LimitsHold, AtCompany, FromSource
<1>7. \A j \in Jobs : WithinLimits(j) => WithinLimits(j)'
  BY <1>3, <1>4, <1>5 DEF WithinLimits, AtCompany, FromSource
<1> QED  BY <1>6, <1>7

\* A submission is recorded by the only command, or grows older.
LEMMA SubmittedStep ==
  ASSUME NEW only, Procs = {only}, TypeOK, [Next]_vars
  PROVE  \/ HourPasses \/ DayPasses \/ UNCHANGED submitted
         \/ /\ cli[only].pc = "record" /\ Finish(only)
            /\ submitted' = [submitted EXCEPT ![cli[only].job] = "hour"]
<1>1. ASSUME NEW j \in Jobs, Starts(only, j) PROVE UNCHANGED submitted
  BY <1>1, StartedCurrent DEF rows
<1>2. CASE Preparation(only)
  BY <1>2 DEF Preparation, DiscoverRaced, DiscoverSkips, DiscoverMatches, InspectionPasses,
              InspectionStops, PreparationFails, Generate, rows
<1>3. CASE Submission(only)
  BY <1>3 DEF Submission, GateCloses, SubmitLimited, GatesOpen, Consume, PostRefused, PostAccepted,
              PostUnknown, Post, Record, rows
<1>4. CASE OtherStep(only)
  BY <1>4 DEF OtherStep, Approve, Decline, RunBlocked, RunRefused, Verified, Inconclusive,
              RetryInitiated, Dies, rows
<1>5. CASE Around \/ UNCHANGED vars
  BY <1>5 DEF Around, TargetAdd, AllowlistAdd, Rescan, Rematch, ApprovalLapses, ListingLapses,
              vars, rows
<1> QED  BY <1>1, <1>2, <1>3, <1>4, <1>5, OneProcess

\* Where there is room for one more, one more is recorded within the limits.
LEMMA RecordKeepsLimits ==
  ASSUME TypeOK, LimitsHold, NEW j \in Jobs, WithinLimits(j),
         submitted' = [submitted EXCEPT ![j] = "hour"]
  PROVE  LimitsHold'
<1>1. ASSUME NEW S \in SUBSET Jobs, NEW window \in Windows
      PROVE  /\ Submissions(S, window)' <= Submissions(S, window) + 1
             /\ j \notin S => Submissions(S, window)' = Submissions(S, window)
             /\ Submissions(S, window) \in Nat /\ Submissions(S, window)' \in Nat
  BY <1>1, RecordCounts, SubmissionsFinite
<1>2. /\ PastHour \in Windows /\ PastDay \in Windows /\ Ever \in Windows
      /\ Jobs \in SUBSET Jobs
      /\ \A k \in Jobs : AtCompany(k) \in SUBSET Jobs /\ FromSource(k) \in SUBSET Jobs
  BY DEF Windows, AtCompany, FromSource
<1>3. MaxPerDay \in Nat /\ MaxPerHour \in Nat /\ MaxPerCompany \in Nat /\ MaxPerSource \in Nat
  BY LifecycleAssumption
<1>4. /\ Submissions(Jobs, PastDay)' <= MaxPerDay /\ Submissions(Jobs, PastHour)' <= MaxPerHour
  <2>1. Submissions(Jobs, PastDay) < MaxPerDay /\ Submissions(Jobs, PastHour) < MaxPerHour
    BY DEF WithinLimits
  <2>2. /\ Submissions(Jobs, PastDay)' <= Submissions(Jobs, PastDay) + 1
        /\ Submissions(Jobs, PastDay) \in Nat /\ Submissions(Jobs, PastDay)' \in Nat
        /\ Submissions(Jobs, PastHour)' <= Submissions(Jobs, PastHour) + 1
        /\ Submissions(Jobs, PastHour) \in Nat /\ Submissions(Jobs, PastHour)' \in Nat
    BY <1>1, <1>2
  <2> QED  BY <1>3, <2>1, <2>2
<1>5. ASSUME NEW k \in Jobs PROVE Submissions(AtCompany(k), Ever)' <= MaxPerCompany
  <2>1. /\ Submissions(AtCompany(k), Ever)' <= Submissions(AtCompany(k), Ever) + 1
        /\ j \notin AtCompany(k) => Submissions(AtCompany(k), Ever)' = Submissions(AtCompany(k), Ever)
        /\ Submissions(AtCompany(k), Ever) \in Nat /\ Submissions(AtCompany(k), Ever)' \in Nat
    BY <1>1, <1>2
  <2>2. Submissions(AtCompany(k), Ever) <= MaxPerCompany
    BY DEF LimitsHold, AtCompany
  <2>3. CASE j \in AtCompany(k)
    <3>1. AtCompany(k) = AtCompany(j)
      BY <2>3 DEF AtCompany
    <3>2. Submissions(AtCompany(j), Ever) < MaxPerCompany
      BY DEF WithinLimits, AtCompany
    <3> QED  BY <1>3, <2>1, <3>1, <3>2
  <2>4. CASE j \notin AtCompany(k)
    BY <2>1, <2>2, <2>4
  <2> QED  BY <2>3, <2>4
<1>6. ASSUME NEW k \in Jobs PROVE Submissions(FromSource(k), PastDay)' <= MaxPerSource
  <2>1. /\ Submissions(FromSource(k), PastDay)' <= Submissions(FromSource(k), PastDay) + 1
        /\ j \notin FromSource(k) => Submissions(FromSource(k), PastDay)' = Submissions(FromSource(k), PastDay)
        /\ Submissions(FromSource(k), PastDay) \in Nat /\ Submissions(FromSource(k), PastDay)' \in Nat
    BY <1>1, <1>2
  <2>2. Submissions(FromSource(k), PastDay) <= MaxPerSource
    BY DEF LimitsHold, FromSource
  <2>3. CASE j \in FromSource(k)
    <3>1. FromSource(k) = FromSource(j)
      BY <2>3 DEF FromSource
    <3>2. Submissions(FromSource(j), PastDay) < MaxPerSource
      BY DEF WithinLimits, FromSource
    <3> QED  BY <1>3, <2>1, <3>1, <3>2
  <2>4. CASE j \notin FromSource(k)
    BY <2>1, <2>2, <2>4
  <2> QED  BY <2>3, <2>4
<1> QED  BY <1>4, <1>5, <1>6 DEF LimitsHold, AtCompany, FromSource

\* The room a command found is there until it records or ends.
LEMMA RoomStep ==
  ASSUME NEW only, Procs = {only}, TypeOK, LimitsHold, Room, [Next]_vars
  PROVE  LimitsHold' /\ Room'
<1>0. cli \in [Procs -> Sessions]
  BY DEF TypeOK
<1>1. CASE HourPasses \/ DayPasses \/ UNCHANGED submitted
  <2>1. /\ LimitsHold'
        /\ \A j \in Jobs : WithinLimits(j) => WithinLimits(j)'
    BY <1>1, TimePasses, AgesKeepLimits
  <2> SUFFICES ASSUME cli'[only].pc \in {"consume", "post", "record"}
               PROVE  WithinLimits(cli[only].job)'
    BY <2>1 DEF Room
  <2>2. \/ cli'[only].pc = cli[only].pc /\ cli'[only].job = cli[only].job
        \/ Moves(only)
    BY SessionStep, Started DEF Idle
  <2>3. cli[only].pc # "idle"
    BY <2>2 DEF Moves, DiscoverMatches, InspectionPasses, GatesOpen, Consume, PostRefused,
                PostAccepted, PostUnknown, Post
  <2>4. cli[only].job \in Jobs
    BY <2>3, Loaded
  <2>5. cli'[only].job = cli[only].job /\ WithinLimits(cli[only].job)
    <3>1. CASE cli'[only].pc = cli[only].pc /\ cli'[only].job = cli[only].job
      BY <3>1 DEF Room
    <3>2. CASE Moves(only)
      <4>1. ~DiscoverMatches(only) /\ ~InspectionPasses(only)
        BY <1>0 DEF DiscoverMatches, InspectionPasses, Sessions
      <4>2. ASSUME NEW i \in DOMAIN approvals, GatesOpen(only, i)
            PROVE  cli'[only].job = cli[only].job /\ WithinLimits(cli[only].job)
        BY <1>0, <4>2 DEF GatesOpen, Sessions
      <4>3. CASE Consume(only) \/ PostRefused(only) \/ PostAccepted(only) \/ PostUnknown(only)
        <5>1. cli'[only].job = cli[only].job /\ cli[only].pc \in {"consume", "post"}
          BY <1>0, <4>3 DEF Consume, PostRefused, PostAccepted, PostUnknown, Post, Sessions
        <5> QED  BY <5>1 DEF Room
      <4> QED  BY <3>2, <4>1, <4>2, <4>3 DEF Moves
    <3> QED  BY <2>2, <3>1, <3>2
  <2>6. WithinLimits(cli[only].job)'
    <3>1. PICK j \in Jobs : j = cli'[only].job
      BY <2>4, <2>5
    <3>2. WithinLimits(j)
      BY <2>5, <3>1
    <3>3. WithinLimits(j)'
      BY <2>1, <3>2
    <3> QED  BY <3>1, <3>3 DEF WithinLimits
  <2> QED  BY <2>6
<1>2. CASE /\ cli[only].pc = "record" /\ Finish(only)
           /\ submitted' = [submitted EXCEPT ![cli[only].job] = "hour"]
  <2>1. cli[only].job \in Jobs /\ WithinLimits(cli[only].job)
    BY <1>2, Loaded DEF Room
  <2>2. LimitsHold'
    BY <1>2, <2>1, RecordKeepsLimits
  <2>3. Room'
    BY <1>0, <1>2 DEF Finish, Idle, Room
  <2> QED  BY <2>2, <2>3
<1> QED  BY <1>1, <1>2, SubmittedStep

\* Where one command runs at a time, the recorded submissions of each window
\* stay within the limits: what check_rate_limits counted is what Record adds to.
THEOREM SubmissionsAreLimited ==
  ASSUME NEW only, Procs = {only}
  PROVE  Spec => []LimitsHold
<1>1. Init => LimitsHold /\ Room
  <2> SUFFICES ASSUME Init PROVE LimitsHold /\ Room
    OBVIOUS
  <2>1. Room
    BY DEF Init, Room, Idle
  <2>2. \A S \in SUBSET Jobs, window \in Windows : {k \in S : submitted[k] \in window} = {}
    BY DEF Init, Windows, PastHour, PastDay, Ever
  <2>3. \A S \in SUBSET Jobs, window \in Windows : Submissions(S, window) = 0
    BY <2>2, FS_EmptySet DEF Submissions
  <2>4. MaxPerDay \in Nat /\ MaxPerHour \in Nat /\ MaxPerCompany \in Nat /\ MaxPerSource \in Nat
    BY LifecycleAssumption
  <2>5. PastHour \in Windows /\ PastDay \in Windows /\ Ever \in Windows
    BY DEF Windows
  <2>6. /\ Submissions(Jobs, PastDay) = 0 /\ Submissions(Jobs, PastHour) = 0
        /\ \A j \in Jobs : /\ Submissions({k \in Jobs : Company[k] = Company[j]}, Ever) = 0
                           /\ Submissions({k \in Jobs : Source[k] = Source[j]}, PastDay) = 0
    BY <2>3, <2>5
  <2> QED  BY <2>1, <2>4, <2>6 DEF LimitsHold
<1>2. TypeOK /\ LimitsHold /\ Room /\ [Next]_vars => LimitsHold' /\ Room'
  BY RoomStep
<1> QED  BY <1>1, <1>2, TypeCorrect, PTL DEF Spec

-----------------------------------------------------------------------------
(* The engine implements ApplicationContract. *)

\* The answers that the human looks at, and those the gates have let through,
\* are the ones stored.
AsShown ==
  \A p \in Procs :
    /\ cli[p].pc \in {"confirm", "consume", "post"} => cli[p].answers = answers[cli[p].job]
    /\ cli[p].pc = "confirm" => ~HasOpen(cli[p].answers)

LEMMA AsShownStep ==
  ASSUME NEW only, Procs = {only}, TypeOK, AsShown, [Next]_vars
  PROVE  AsShown'
<1>0. cli \in [Procs -> Sessions] /\ only \in Procs
  BY DEF TypeOK
<1> DEFINE Shown(s, a) == /\ s.pc \in {"confirm", "consume", "post"} => s.answers = a[s.job]
                          /\ s.pc = "confirm" => ~HasOpen(s.answers)
<1> SUFFICES Shown(cli'[only], answers')
  BY DEF AsShown
<1>1. Shown(cli[only], answers)
  BY DEF AsShown
<1>2. ASSUME cli'[only].pc \notin {"confirm", "consume", "post"} PROVE Shown(cli'[only], answers')
  BY <1>2
<1>3. CASE Around \/ UNCHANGED vars
  <2>1. cli' = cli /\ answers' = answers
    BY <1>3, AroundStep
  <2> QED  BY <1>1, <2>1
<1>4. ASSUME NEW j \in Jobs, Starts(only, j) PROVE Shown(cli'[only], answers')
  <2>1. CASE ReviewForApproval(only, j)
    BY <1>0, <2>1 DEF ReviewForApproval, Idle, rows
  <2>2. CASE ~ReviewForApproval(only, j)
    <3>1. cli'[only].pc \in {"discover", "inspect", "gates", "run", "verify", "retry"}
      BY <1>0, <1>4, <2>2 DEF Starts, Prepare, Submit, Run, Verify, Retry, Begin, Idle
    <3> QED  BY <1>2, <3>1
  <2> QED  BY <2>1, <2>2
<1>5. CASE Preparation(only) \/ Submission(only) \/ OtherStep(only)
  <2>1. CASE Finish(only)
    BY <1>0, <1>2, <2>1 DEF Finish, Idle
  <2>2. CASE DiscoverMatches(only) \/ InspectionPasses(only)
    BY <1>0, <1>2, <2>2 DEF DiscoverMatches, InspectionPasses, Sessions
  <2>3. ASSUME NEW i \in DOMAIN approvals, GatesOpen(only, i) PROVE Shown(cli'[only], answers')
    BY <1>0, <2>3 DEF GatesOpen, Sessions, rows
  <2>4. CASE Consume(only)
    BY <1>0, <1>1, <2>4 DEF Consume, Sessions, rows
  <2>5. CASE PostRefused(only) \/ PostAccepted(only) \/ PostUnknown(only)
    BY <1>0, <1>2, <2>5 DEF PostRefused, PostAccepted, PostUnknown, Post, Sessions
  <2> QED  BY <1>5, <2>1, <2>2, <2>3, <2>4, <2>5, CommandStep DEF Moves
<1> QED  BY <1>3, <1>4, <1>5, OneProcess

\* What the mapping comes to where there is one process, whose session is s.
Sending(s, i) == s.pc \in {"consume", "post"} /\ s.ticket = i
Given(s, given, stored) ==
  [i \in DOMAIN given |->
     [job   |-> given[i].job,
      state |-> IF Sending(s, i) \/ (given[i].state = "live" /\ given[i].answers = stored[given[i].job])
                THEN "live" ELSE "void"]]
Owed(s) == [j \in Jobs |-> IF s.pc = "record" /\ s.job = j THEN s.outcome ELSE "none"]

LEMMA ConsentsMapped ==
  ASSUME NEW only, Procs = {only}
  PROVE  /\ Consents = Given(cli[only], approvals, answers)
         /\ Consents' = Given(cli'[only], approvals', answers')
<1>1. /\ \A i : Chosen(i) <=> Sending(cli[only], i)
      /\ \A i : Chosen(i)' <=> Sending(cli'[only], i)
  BY DEF Chosen, Sending
<1>2. /\ \A i : Stands(i) <=> \/ Sending(cli[only], i)
                              \/ approvals[i].state = "live" /\ approvals[i].answers = answers[approvals[i].job]
      /\ \A i : Stands(i)' <=> \/ Sending(cli'[only], i)
                               \/ approvals'[i].state = "live" /\ approvals'[i].answers = answers'[approvals'[i].job]
  BY <1>1 DEF Stands
<1> QED  BY <1>2 DEF Consents, Given

LEMMA PendingMapped ==
  ASSUME NEW only, Procs = {only}
  PROVE  Pending = Owed(cli[only]) /\ Pending' = Owed(cli'[only])
<1>1. ASSUME NEW j \in Jobs
      PROVE  /\ Told(j) = IF cli[only].pc = "record" /\ cli[only].job = j THEN {only} ELSE {}
             /\ Told(j)' = IF cli'[only].pc = "record" /\ cli'[only].job = j THEN {only} ELSE {}
  BY DEF Told
<1>2. (CHOOSE p \in {only} : TRUE) = only
  OBVIOUS
<1>3. \A j \in Jobs : (IF Told(j) = {} THEN "none" ELSE cli[CHOOSE p \in Told(j) : TRUE].outcome)
                        = Owed(cli[only])[j]
  BY <1>1, <1>2 DEF Owed
<1>4. \A j \in Jobs : (IF Told(j)' = {} THEN "none" ELSE cli'[CHOOSE p \in Told(j)' : TRUE].outcome)
                        = Owed(cli'[only])[j]
  BY <1>1, <1>2 DEF Owed
<1> QED  BY <1>3, <1>4 DEF Pending, Owed

\* Away from the call of the provider a session is no part of the mapping.
Resting(s) == s.pc \notin {"consume", "post", "record"}

LEMMA RestingStep ==
  ASSUME NEW only, Procs = {only}, UNCHANGED <<approvals, answers>>,
         cli'[only] = cli[only] \/ (Resting(cli[only]) /\ Resting(cli'[only]))
  PROVE  Consents' = Consents /\ Pending' = Pending
<1>1. Consents' = Consents
  BY ConsentsMapped DEF Given, Sending, Resting
<1>2. Pending' = Pending
  BY PendingMapped DEF Owed, Resting
<1> QED  BY <1>1, <1>2

\* A step that changes nothing the contract knows of.
LEMMA NothingSeen ==
  ASSUME NEW only, Procs = {only}, UNCHANGED <<status, approvals, answers, platform, unrecorded>>,
         cli'[only] = cli[only] \/ (Resting(cli[only]) /\ Resting(cli'[only]))
  PROVE  UNCHANGED Contract!vars
BY RestingStep DEF Contract!vars, platform

\* A new application.
LEMMA CreateRefines ==
  ASSUME NEW only, Procs = {only}, NEW j \in Jobs, status[j] = "none",
         NEW first \in {"DISCOVERED", "MATCHED", "HUMAN_REQUIRED", "SKIPPED"},
         status' = [status EXCEPT ![j] = first],
         UNCHANGED <<approvals, answers, platform, unrecorded>>,
         cli'[only] = cli[only] \/ (Resting(cli[only]) /\ Resting(cli'[only]))
  PROVE  Contract!Next
<1>1. Consents' = Consents /\ Pending' = Pending
  BY RestingStep
<1>2. Contract!Create(j, first)
  BY <1>1 DEF Contract!Create, platform
<1>3. first \in DOMAIN Transitions
  BY DEF Transitions
<1> QED  BY <1>2, <1>3 DEF Contract!Next

\* A command that ends by moving its application, away from the call.
LEMMA MoveRefines ==
  ASSUME NEW only, Procs = {only}, TypeOK, Current, InCommand(cli[only]), Resting(cli[only]),
         NEW target, SetStatus(only, target), Finish(only),
         target \notin {"PREPARED", "SUBMITTED", "SUBMISSION_UNCERTAIN"},
         target = "VERIFIED" => received[cli[only].job] > 0,
         UNCHANGED <<approvals, answers, platform, unrecorded>>
  PROVE  Contract!Next \/ UNCHANGED Contract!vars
<1> DEFINE j == cli[only].job
<1>0. /\ cli \in [Procs -> Sessions] /\ status \in [Jobs -> Statuses \cup {"none"}]
      /\ j \in Jobs /\ cli[only].pc \in Places \ {"idle", "discover"}
  BY Loaded DEF TypeOK, InCommand, Sessions
<1>1. cli'[only] = Idle /\ Resting(cli'[only])
  BY <1>0 DEF Finish, Idle, Resting
<1>2. Consents' = Consents /\ Pending' = Pending
  BY <1>1, RestingStep
<1>3. cli[only].seen = status[j] /\ status[j] # "none"
  BY <1>0, ExpectedStatuses DEF Current
<1>4. CASE target = status[j]
  <2>1. status' = status
    BY <1>0, <1>3, <1>4 DEF SetStatus
  <2> QED  BY <1>1, <2>1, NothingSeen
<1>5. CASE target # status[j]
  <2>1. status' = [status EXCEPT ![j] = target] /\ target \in Transitions[status[j]]
    BY <1>0, <1>3, <1>5 DEF SetStatus
  <2>2. target \in DOMAIN Transitions
    BY <1>0, <1>3, <2>1 DEF Transitions, Statuses
  <2>3. Pending[j] = "none"
    BY <1>0, PendingMapped DEF Owed, Resting
  <2> HIDE DEF j
  <2>4. Contract!Move(j, target)
    BY <1>2, <1>3, <2>1, <2>3 DEF Contract!Move, platform, j
  <2> QED  BY <1>0, <2>2, <2>4 DEF Contract!Next
<1> QED  BY <1>4, <1>5

\* A command is started: the contract knows nothing of it.
LEMMA StartRefines ==
  ASSUME NEW only, Procs = {only}, TypeOK, NEW k \in Jobs, Starts(only, k)
  PROVE  UNCHANGED Contract!vars
<1>1. cli[only].pc = "idle" /\ Resting(cli[only])
  BY DEF Starts, Prepare, ReviewForApproval, Submit, Run, Verify, Retry, Begin, Resting
<1>2. Resting(cli'[only])
  BY Started DEF Resting
<1>3. UNCHANGED <<status, approvals, answers, platform, unrecorded>>
  BY StartedCurrent DEF rows
<1> QED  BY <1>1, <1>2, <1>3, NothingSeen

\* The new answers are those of no approval.
LEMMA GenerateRefines ==
  ASSUME NEW only, Procs = {only}, TypeOK, Current, Remembered, NEW v \in AnswerSets, Generate(only, v)
  PROVE  Contract!Next
<1> DEFINE j == cli[only].job
           target == IF v \in Open THEN "HUMAN_REQUIRED" ELSE "PREPARED"
<1>0. /\ cli \in [Procs -> Sessions] /\ status \in [Jobs -> Statuses \cup {"none"}]
      /\ answers \in [Jobs -> [AnswerSets -> Nat]]
      /\ \A i \in DOMAIN approvals : approvals[i] \in Approvals
  BY DEF TypeOK
<1>1. cli[only].pc = "generate" /\ j \in Jobs
  BY Loaded DEF Generate
<1>2. /\ cli[only].seen = status[j] /\ status[j] \in {"MATCHED", "HUMAN_REQUIRED"}
  BY <1>1 DEF Current, InCommand, Expected
<1>3. /\ answers' = [answers EXCEPT ![j][v] = @ + 1]
      /\ SetStatus(only, target) /\ Finish(only)
      /\ approvals' = approvals /\ UNCHANGED <<platform, unrecorded>>
  BY DEF Generate, grants
<1>4. Resting(cli[only]) /\ Resting(cli'[only])
  BY <1>0, <1>1, <1>3 DEF Finish, Idle, Resting
<1>5. status' = [status EXCEPT ![j] = target]
  BY <1>0, <1>1, <1>2, <1>3 DEF SetStatus
<1> HIDE DEF j, target
<1>6. /\ answers'[j][v] = answers[j][v] + 1 /\ answers[j][v] \in Nat
      /\ \A k \in Jobs : k # j => answers'[k] = answers[k]
      /\ answers' = [answers EXCEPT ![j] = answers'[j]]
  BY <1>0, <1>1, <1>3
<1>7. Pending' = Pending /\ Pending[j] = "none"
  BY <1>1, <1>4, PendingMapped DEF Owed, Resting
<1>8. ASSUME NEW i \in DOMAIN approvals
      PROVE  /\ approvals[i].job = j => approvals[i].answers # answers'[j]
             /\ approvals[i].job # j => answers'[approvals[i].job] = answers[approvals[i].job]
  <2>1. approvals[i].job \in Jobs /\ approvals[i].answers \in [AnswerSets -> Nat]
    BY <1>0 DEF Approvals
  <2>2. approvals[i].answers[v] <= answers[approvals[i].job][v] /\ approvals[i].answers[v] \in Nat
    BY <2>1 DEF Remembered, Includes
  <2>3. approvals[i].job = j => approvals[i].answers # answers'[j]
    BY <1>6, <2>2
  <2> QED  BY <1>6, <2>1, <2>3
<1>9. Consents' = [i \in DOMAIN Consents |->
                     IF Consents[i].job = j THEN [Consents[i] EXCEPT !.state = "void"] ELSE Consents[i]]
  BY <1>3, <1>4, <1>8, ConsentsMapped DEF Given, Sending, Resting
<1>10. target \in {"PREPARED", "HUMAN_REQUIRED"} /\ target \in DOMAIN Transitions
  BY DEF target, Transitions
<1>11. answers'[j] # answers[j]
  BY <1>6
<1>12. Contract!Write(j, target)
  BY <1>2, <1>3, <1>5, <1>6, <1>7, <1>9, <1>10, <1>11 DEF Contract!Write, platform
<1> QED  BY <1>1, <1>10, <1>12 DEF Contract!Next

LEMMA PreparationRefines ==
  ASSUME NEW only, Procs = {only}, TypeOK, Current, Remembered, Preparation(only)
  PROVE  Contract!Next \/ UNCHANGED Contract!vars
<1>0. cli \in [Procs -> Sessions] /\ only \in Procs
  BY DEF TypeOK
<1>1. CASE DiscoverRaced(only)
  <2>1. Resting(cli[only]) /\ Resting(cli'[only]) /\ UNCHANGED <<status, approvals, answers, platform, unrecorded>>
    BY <1>0, <1>1 DEF DiscoverRaced, Finish, Idle, Resting, rows, grants
  <2> QED  BY <2>1, NothingSeen
<1>2. CASE DiscoverSkips(only)
  <2>1. /\ cli[only].pc = "discover" /\ status[cli[only].job] = "none"
        /\ status' = [status EXCEPT ![cli[only].job] = "SKIPPED"]
        /\ Resting(cli[only]) /\ Resting(cli'[only]) /\ UNCHANGED <<approvals, answers, platform, unrecorded>>
    BY <1>0, <1>2 DEF DiscoverSkips, Finish, Idle, Resting, grants
  <2> QED  BY <2>1, Loaded, CreateRefines
<1>3. CASE DiscoverMatches(only)
  <2> DEFINE first == IF cli[only].decision = "HUMAN_REQUIRED" THEN "HUMAN_REQUIRED" ELSE "MATCHED"
  <2>1. /\ cli[only].pc = "discover" /\ status[cli[only].job] = "none"
        /\ status' = [status EXCEPT ![cli[only].job] = first]
        /\ UNCHANGED <<approvals, answers, platform, unrecorded>>
    BY <1>3 DEF DiscoverMatches, grants
  <2>2. Resting(cli[only]) /\ Resting(cli'[only])
    BY <1>0, <1>3 DEF DiscoverMatches, Resting, Sessions
  <2>3. first \in {"DISCOVERED", "MATCHED", "HUMAN_REQUIRED", "SKIPPED"}
    OBVIOUS
  <2> HIDE DEF first
  <2> QED  BY <2>1, <2>2, <2>3, Loaded, CreateRefines
<1>4. CASE InspectionPasses(only)
  <2>1. Resting(cli[only]) /\ Resting(cli'[only]) /\ UNCHANGED <<status, approvals, answers, platform, unrecorded>>
    BY <1>0, <1>4 DEF InspectionPasses, Resting, Sessions, rows, grants
  <2> QED  BY <2>1, NothingSeen
<1>5. CASE InspectionStops(only)
  BY <1>5, MoveRefines DEF InspectionStops, InCommand, Resting, grants
<1>6. CASE PreparationFails(only)
  <2>1. cli[only].pc \in {"inspect", "generate"}
    BY <1>6 DEF PreparationFails
  <2>2. InCommand(cli[only]) /\ Resting(cli[only])
    BY <2>1 DEF InCommand, Resting
  <2> QED  BY <1>6, <2>2, MoveRefines DEF PreparationFails, grants
<1>7. ASSUME NEW v \in AnswerSets, Generate(only, v) PROVE Contract!Next
  BY <1>7, GenerateRefines
<1> QED  BY <1>1, <1>2, <1>3, <1>4, <1>5, <1>6, <1>7 DEF Preparation

\* The call of the provider uses the approval that the command has spent.
LEMMA PostRefines ==
  ASSUME NEW only, Procs = {only}, TypeOK, Current, Holds(only),
         NEW outcome \in {"accepted", "unknown", "refused"}, NEW took \in {0, 1},
         outcome = "accepted" => took = 1, outcome = "refused" => took = 0,
         Post(only, outcome, took)
  PROVE  Contract!Next
<1> DEFINE j == cli[only].job
           t == cli[only].ticket
<1>0. cli \in [Procs -> Sessions] /\ only \in Procs
  BY DEF TypeOK
<1>1. cli[only].pc = "post" /\ j \in Jobs
  BY Loaded DEF Post
<1>2. /\ t \in DOMAIN approvals /\ approvals[t].job = j /\ approvals[t].state = "consumed"
  BY <1>1 DEF Holds
<1>3. status[j] = "PREPARED"
  BY <1>1 DEF Current, InCommand, Expected
<1>4. /\ attempts' = [attempts EXCEPT ![j] = @ + 1]
      /\ received' = [received EXCEPT ![j] = @ + took]
      /\ UNCHANGED <<status, answers, approvals, unrecorded>>
  BY DEF Post, rows, grants
<1>5. cli'[only].pc = "record" /\ cli'[only].job = j /\ cli'[only].outcome = outcome
  BY <1>0 DEF Post, Sessions
<1> HIDE DEF j, t
<1>6. Pending[j] = "none" /\ Pending' = [Pending EXCEPT ![j] = outcome]
  BY <1>1, <1>5, PendingMapped DEF Owed, j
<1>7. /\ t \in DOMAIN Consents /\ Consents[t].job = j /\ Consents[t].state = "live"
  BY <1>1, <1>2, ConsentsMapped DEF Given, Sending, t
<1>8. Consents' = [Consents EXCEPT ![t].state = "void"]
  <2>1. \A i \in DOMAIN approvals : Sending(cli[only], i) <=> i = t
    BY <1>1 DEF Sending, t
  <2>2. \A i \in DOMAIN approvals : ~Sending(cli'[only], i)
    BY <1>5 DEF Sending
  <2> QED  BY <1>2, <1>4, <2>1, <2>2, ConsentsMapped DEF Given
<1>9. Contract!Send(t, outcome, took)
  BY <1>3, <1>4, <1>6, <1>7, <1>8 DEF Contract!Send
<1>10. outcome \in DOMAIN Contract!Recorded
  BY DEF Contract!Recorded
<1> QED  BY <1>7, <1>9, <1>10 DEF Contract!Next

LEMMA RecordRefines ==
  ASSUME NEW only, Procs = {only}, TypeOK, Current, Record(only)
  PROVE  Contract!Next
<1> DEFINE j == cli[only].job
           o == cli[only].outcome
<1>0. cli \in [Procs -> Sessions] /\ status \in [Jobs -> Statuses \cup {"none"}]
  BY DEF TypeOK
<1>1. cli[only].pc = "record" /\ j \in Jobs /\ o \in {"accepted", "unknown", "refused"}
  BY Loaded DEF Record, TypeOK, Sound, Sessions
<1>2. status[j] = "PREPARED" /\ cli[only].seen = "PREPARED"
  BY <1>1 DEF Current, InCommand, Expected
<1>3. /\ SetStatus(only, Outcome(o)) /\ Finish(only)
      /\ UNCHANGED <<answers, approvals, platform, unrecorded>>
  BY DEF Record, grants
<1>4. cli'[only] = Idle
  BY <1>0, <1>3 DEF Finish
<1>5. Outcome(o) = Contract!Recorded[o] /\ Outcome(o) # "PREPARED"
  BY <1>1 DEF Outcome, Contract!Recorded
<1>6. status' = [status EXCEPT ![j] = Contract!Recorded[o]]
  BY <1>0, <1>1, <1>2, <1>3, <1>5 DEF SetStatus
<1> HIDE DEF j, o
<1>7. Pending[j] = o /\ Pending' = [Pending EXCEPT ![j] = "none"]
  BY <1>1, <1>4, PendingMapped DEF Owed, Idle, j, o
<1>8. Consents' = Consents
  BY <1>1, <1>3, <1>4, ConsentsMapped DEF Given, Sending, Idle
<1>9. o # "none"
  BY <1>1
<1>10. Contract!Record(j)
  BY <1>3, <1>6, <1>7, <1>8, <1>9 DEF Contract!Record, platform
<1> QED  BY <1>1, <1>10 DEF Contract!Next

\* The approval that is chosen stands, and goes on standing when it is spent.
LEMMA ChosenRefines ==
  ASSUME NEW only, Procs = {only}, TypeOK, Holds(only),
         Consume(only) \/ \E i \in DOMAIN approvals : GatesOpen(only, i)
  PROVE  UNCHANGED Contract!vars
<1>0. cli \in [Procs -> Sessions] /\ only \in Procs
  BY DEF TypeOK
<1>1. CASE Consume(only)
  <2> DEFINE t == cli[only].ticket
  <2>1. /\ cli[only].pc = "consume" /\ cli'[only].pc = "post" /\ cli'[only].ticket = t
        /\ UNCHANGED <<status, answers, platform, unrecorded>>
    BY <1>0, <1>1 DEF Consume, Sessions, rows
  <2>2. t \in DOMAIN approvals
    BY <2>1 DEF Holds
  <2>3. /\ DOMAIN approvals' = DOMAIN approvals
        /\ \A i \in DOMAIN approvals :
             approvals'[i] = IF i = t THEN [approvals[i] EXCEPT !.state = "consumed"] ELSE approvals[i]
    BY <1>1, ApprovalStates DEF Consume
  <2>4. \A i \in DOMAIN approvals : approvals[i] \in Approvals
    BY DEF TypeOK
  <2>5. /\ \A i \in DOMAIN approvals : Sending(cli[only], i) <=> i = t
        /\ \A i \in DOMAIN approvals : Sending(cli'[only], i) <=> i = t
    BY <2>1 DEF Sending
  <2> HIDE DEF t
  <2>6. \A i \in DOMAIN approvals : approvals'[i].job = approvals[i].job /\ (i # t => approvals'[i] = approvals[i])
    BY <2>3, <2>4 DEF Approvals
  <2>7. Consents' = Consents
    BY <2>1, <2>3, <2>5, <2>6, ConsentsMapped DEF Given
  <2>8. Pending' = Pending
    BY <2>1, PendingMapped DEF Owed
  <2> QED  BY <2>1, <2>7, <2>8 DEF Contract!vars, platform
<1>2. ASSUME NEW i \in DOMAIN approvals, GatesOpen(only, i) PROVE UNCHANGED Contract!vars
  <2> DEFINE mine == answers[cli[only].job]
  <2>1. /\ cli[only].pc = "gates" /\ UNCHANGED <<status, answers, approvals, platform, unrecorded>>
        /\ cli' = [cli EXCEPT ![only].pc = "consume", ![only].answers = mine, ![only].ticket = i]
    BY <1>2 DEF GatesOpen, rows, grants
  <2>2. /\ approvals[i].state = "live" /\ approvals[i].job = cli[only].job /\ approvals[i].answers = mine
    BY <1>2 DEF GatesOpen, Valid
  <2>3. cli[only].pc = "gates" /\ cli'[only].pc = "consume" /\ cli'[only].ticket = i
    BY <1>0, <2>1 DEF Sessions
  <2>4. \A k \in DOMAIN approvals : ~Sending(cli[only], k) /\ (Sending(cli'[only], k) <=> k = i)
    BY <2>1, <2>3 DEF Sending
  <2>5. approvals[i].answers = answers[approvals[i].job]
    BY <2>2
  <2>6. Given(cli'[only], approvals, answers) = Given(cli[only], approvals, answers)
    BY <2>2, <2>4, <2>5 DEF Given
  <2>7. Consents' = Consents
    <3>1. approvals' = approvals /\ answers' = answers
      BY <2>1
    <3> QED  BY <2>6, <3>1, ConsentsMapped
  <2>8. Pending' = Pending
    <3>1. Owed(cli'[only]) = Owed(cli[only])
      BY <2>3 DEF Owed
    <3> QED  BY <3>1, PendingMapped
  <2> QED  BY <2>1, <2>7, <2>8 DEF Contract!vars, platform
<1> QED  BY <1>1, <1>2

LEMMA SubmissionRefines ==
  ASSUME NEW only, Procs = {only}, TypeOK, Current, Holds(only), Submission(only)
  PROVE  Contract!Next \/ UNCHANGED Contract!vars
<1>0. cli \in [Procs -> Sessions] /\ only \in Procs
  BY DEF TypeOK
<1>1. CASE GateCloses(only)
  <2>1. Resting(cli[only]) /\ Resting(cli'[only]) /\ UNCHANGED <<status, approvals, answers, platform, unrecorded>>
    BY <1>0, <1>1 DEF GateCloses, Finish, Idle, Resting, rows, grants
  <2> QED  BY <2>1, NothingSeen
<1>2. CASE SubmitLimited(only)
  BY <1>2, MoveRefines DEF SubmitLimited, InCommand, Resting, grants
<1>3. CASE Consume(only) \/ \E i \in DOMAIN approvals : GatesOpen(only, i)
  BY <1>3, ChosenRefines
<1>4. CASE PostRefused(only)
  BY <1>4, PostRefines DEF PostRefused
<1>5. CASE PostAccepted(only)
  BY <1>5, PostRefines DEF PostAccepted
<1>6. CASE PostUnknown(only)
  BY <1>6, PostRefines DEF PostUnknown
<1>7. CASE Record(only)
  BY <1>7, RecordRefines
<1> QED  BY <1>1, <1>2, <1>3, <1>4, <1>5, <1>6, <1>7 DEF Submission

\* A human consents to what is stored.
LEMMA ApproveRefines ==
  ASSUME NEW only, Procs = {only}, TypeOK, Current, AsShown, Approve(only)
  PROVE  Contract!Next
<1> DEFINE j == cli[only].job
           new == [job |-> j, answers |-> cli[only].answers, state |-> "live",
                   fingerprint |-> Fingerprint[cli[only].posting]]
<1>0. /\ cli \in [Procs -> Sessions] /\ approvals \in Seq(Approvals)
      /\ answers \in [Jobs -> [AnswerSets -> Nat]]
  BY DEF TypeOK
<1>1. cli[only].pc = "confirm" /\ j \in Jobs
  BY Loaded DEF Approve
<1>2. /\ status[j] = "PREPARED" /\ cli[only].answers = answers[j] /\ ~HasOpen(answers[j])
  BY <1>1 DEF Current, InCommand, Expected, AsShown
<1>3. /\ approvals' = Append(approvals, new) /\ Finish(only)
      /\ UNCHANGED <<status, answers, platform, unrecorded>>
  BY DEF Approve, rows
<1>4. cli'[only] = Idle
  BY <1>0, <1>3 DEF Finish
<1>5. Contract!Complete(answers[j])
  <2>1. \A v \in Open : answers[j][v] \in Nat
    BY <1>0, <1>1, LifecycleAssumption
  <2> QED  BY <1>2, <2>1 DEF Contract!Complete, HasOpen
<1>6. new.job = j /\ new.answers = answers[j] /\ new.state = "live"
  BY <1>2
<1> HIDE DEF j, new
<1>7. /\ DOMAIN approvals = 1..Len(approvals) /\ DOMAIN approvals' = 1..(Len(approvals) + 1)
      /\ Len(approvals) \in Nat
      /\ \A i \in 1..Len(approvals) : approvals'[i] = approvals[i]
      /\ approvals'[Len(approvals) + 1] = new
  BY <1>0, <1>3
<1>8. \A i : ~Sending(cli[only], i) /\ ~Sending(cli'[only], i)
  BY <1>1, <1>4 DEF Sending, Idle
<1>9. DOMAIN Consents = 1..Len(approvals) /\ Len(Consents) = Len(approvals)
  <2>1. DOMAIN Consents = 1..Len(approvals)
    BY <1>7, ConsentsMapped DEF Given
  <2>2. Consents \in Seq([job : Jobs, state : {"live", "void"}])
    <3>1. \A i \in DOMAIN approvals : approvals[i].job \in Jobs
      <4>1. \A i \in DOMAIN approvals : approvals[i] \in Approvals
        BY <1>0
      <4> QED  BY <4>1 DEF Approvals
    <3>2. ASSUME NEW i \in 1..Len(approvals) PROVE Consents[i] \in [job : Jobs, state : {"live", "void"}]
      <4>1. i \in DOMAIN approvals
        BY <1>7
      <4>2. /\ Given(cli[only], approvals, answers)[i].job = approvals[i].job
            /\ Given(cli[only], approvals, answers)[i].state \in {"live", "void"}
            /\ Given(cli[only], approvals, answers)[i]
                 = [job |-> Given(cli[only], approvals, answers)[i].job,
                    state |-> Given(cli[only], approvals, answers)[i].state]
        BY <4>1 DEF Given
      <4> QED  BY <3>1, <4>1, <4>2, ConsentsMapped
    <3>3. Consents = [i \in 1..Len(approvals) |-> Consents[i]]
      BY <1>7, ConsentsMapped DEF Given
    <3>4. Consents \in [1..Len(approvals) -> [job : Jobs, state : {"live", "void"}]]
      BY <3>2, <3>3
    <3>5. Consents \in UNION {[1..n -> [job : Jobs, state : {"live", "void"}]] : n \in Nat}
      BY <1>7, <3>4
    <3> QED  BY <3>5, SeqDef, Zenon
  <2> QED  BY <1>7, <2>1, <2>2, LenProperties
<1>10. Consents' = Append(Consents, [job |-> j, state |-> "live"])
  <2> DEFINE n == Len(approvals)
             c == [job |-> j, state |-> "live"]
  <2>1. Append(Consents, c) = [i \in 1..(n + 1) |-> IF i \in 1..n THEN Consents[i] ELSE c]
    BY <1>7, <1>9
  <2>2. DOMAIN Consents' = 1..(n + 1) /\ Consents' = [i \in 1..(n + 1) |-> Consents'[i]]
    BY <1>7, ConsentsMapped DEF Given
  <2>3. ASSUME NEW i \in 1..n PROVE Consents'[i] = Consents[i]
    <3>1. i \in DOMAIN approvals /\ i \in DOMAIN approvals' /\ approvals'[i] = approvals[i] /\ answers' = answers
      BY <1>3, <1>7, <2>3
    <3>2. Consents[i] = Given(cli[only], approvals, answers)[i] /\ Consents'[i] = Given(cli'[only], approvals', answers)[i]
      BY <3>1, ConsentsMapped
    <3> QED  BY <1>8, <3>1, <3>2 DEF Given
  <2>4. Consents'[n + 1] = c
    <3>1. n + 1 \in DOMAIN approvals' /\ approvals'[n + 1] = new /\ answers' = answers
      BY <1>3, <1>7
    <3>2. Consents'[n + 1] = Given(cli'[only], approvals', answers)[n + 1]
      BY <3>1, ConsentsMapped
    <3> QED  BY <1>6, <3>1, <3>2 DEF Given
  <2>5. \A i \in 1..(n + 1) : i \notin 1..n => i = n + 1
    BY <1>7
  <2> HIDE DEF n, c
  <2>6. \A i \in 1..(n + 1) : Consents'[i] = IF i \in 1..n THEN Consents[i] ELSE c
    BY <2>3, <2>4, <2>5
  <2>7. Consents' = Append(Consents, c)
    BY <2>1, <2>2, <2>6
  <2> QED  BY <2>7 DEF c
<1>11. Pending' = Pending
  BY <1>1, <1>4, PendingMapped DEF Owed, Idle
<1>12. Contract!Consent(j)
  BY <1>2, <1>3, <1>5, <1>10, <1>11 DEF Contract!Consent, platform
<1> QED  BY <1>1, <1>12 DEF Contract!Next

\* An approval that stands is withdrawn.
LEMMA WithdrawRefines ==
  ASSUME NEW t \in DOMAIN Consents, Consents[t].state = "live",
         Consents' = [Consents EXCEPT ![t].state = "void"],
         Pending' = Pending, UNCHANGED <<status, answers, platform, unrecorded>>
  PROVE  Contract!Next
<1>1. Contract!Withdraw(t)
  BY DEF Contract!Withdraw, platform
<1> QED  BY <1>1 DEF Contract!Next

\* Only an approval that no command has chosen can lapse to any effect.
LEMMA LapseRefines ==
  ASSUME NEW only, Procs = {only}, TypeOK, NEW t \in DOMAIN approvals, ApprovalLapses(t)
  PROVE  Contract!Next \/ UNCHANGED Contract!vars
<1>0. \A i \in DOMAIN approvals : approvals[i] \in Approvals
  BY DEF TypeOK
<1>1. /\ DOMAIN approvals' = DOMAIN approvals
      /\ \A i \in DOMAIN approvals :
           approvals'[i] = IF i = t THEN [approvals[i] EXCEPT !.state = "void"] ELSE approvals[i]
  BY ApprovalStates DEF ApprovalLapses
<1>2. /\ approvals[t].state = "live" /\ cli' = cli
      /\ UNCHANGED <<status, answers, platform, unrecorded>>
  BY DEF ApprovalLapses, rows
<1>3. /\ \A i \in DOMAIN approvals : approvals'[i].job = approvals[i].job /\ (i # t => approvals'[i] = approvals[i])
      /\ approvals'[t].state = "void"
  BY <1>0, <1>1 DEF Approvals
<1>4. Pending' = Pending
  BY <1>2, PendingMapped
<1>5. CASE Consents[t].state = "live" /\ ~Sending(cli[only], t)
  <2>1. Consents' = [Consents EXCEPT ![t].state = "void"]
    <3> DEFINE now(i)  == Given(cli[only], approvals, answers)[i]
               then(i) == Given(cli'[only], approvals', answers')[i]
    <3>1. ASSUME NEW i \in DOMAIN approvals, i # t PROVE then(i) = now(i)
      <4>1. i \in DOMAIN approvals' /\ approvals'[i] = approvals[i] /\ cli' = cli /\ answers' = answers
        BY <1>1, <1>2, <1>3, <3>1
      <4> HIDE DEF now, then
      <4> QED  BY <4>1 DEF now, then, Given
    <3>2. then(t) = [now(t) EXCEPT !.state = "void"]
      <4>1. t \in DOMAIN approvals' /\ approvals'[t].job = approvals[t].job /\ approvals'[t].state = "void" /\ cli' = cli
        BY <1>1, <1>2, <1>3
      <4> HIDE DEF now, then
      <4>2. then(t) = [job |-> approvals[t].job, state |-> "void"]
        BY <1>5, <4>1 DEF then, Given
      <4>3. \/ now(t) = [job |-> approvals[t].job, state |-> "live"]
            \/ now(t) = [job |-> approvals[t].job, state |-> "void"]
        BY DEF now, Given
      <4> QED  BY <4>2, <4>3
    <3>3. /\ DOMAIN Consents = DOMAIN approvals /\ DOMAIN Consents' = DOMAIN approvals
          /\ \A i \in DOMAIN approvals : Consents[i] = now(i) /\ Consents'[i] = then(i)
          /\ Consents' = [i \in DOMAIN approvals |-> Consents'[i]]
      BY <1>1, ConsentsMapped DEF Given
    <3> HIDE DEF now, then
    <3> QED  BY <3>1, <3>2, <3>3
  <2>2. t \in DOMAIN Consents
    BY ConsentsMapped DEF Given
  <2> QED  BY <1>2, <1>4, <1>5, <2>1, <2>2, WithdrawRefines
<1>6. CASE ~(Consents[t].state = "live" /\ ~Sending(cli[only], t))
  <2>1. \/ Sending(cli[only], t)
        \/ approvals[t].answers # answers[approvals[t].job]
    BY <1>2, <1>6, ConsentsMapped DEF Given
  <2>2. Consents' = Consents
    BY <1>1, <1>2, <1>3, <2>1, ConsentsMapped DEF Given
  <2> QED  BY <1>2, <1>4, <2>2 DEF Contract!vars, platform
<1> QED  BY <1>5, <1>6

LEMMA AroundRefines ==
  ASSUME NEW only, Procs = {only}, TypeOK, Around \/ UNCHANGED vars
  PROVE  Contract!Next \/ UNCHANGED Contract!vars
<1>1. ASSUME NEW j \in Jobs, TargetAdd(j) PROVE Contract!Next
  BY <1>1, CreateRefines DEF TargetAdd, grants
<1>2. ASSUME NEW i \in DOMAIN approvals, ApprovalLapses(i) PROVE Contract!Next \/ UNCHANGED Contract!vars
  BY <1>2, LapseRefines
<1>3. CASE UNCHANGED <<status, approvals, answers, platform, unrecorded, cli>>
  BY <1>3, NothingSeen
<1> QED  BY <1>1, <1>2, <1>3 DEF Around, AllowlistAdd, Rescan, Rematch, ListingLapses, HourPasses,
                                 DayPasses, vars, rows, grants

\* A command that dies takes the answer of the platform with it, or the
\* approval it has chosen, unless that one is still good for another.
LEMMA DeathRefines ==
  ASSUME NEW only, Procs = {only}, TypeOK, Holds(only), Dies(only)
  PROVE  Contract!Next \/ UNCHANGED Contract!vars
<1> DEFINE j == cli[only].job
           t == cli[only].ticket
<1>0. cli \in [Procs -> Sessions] /\ cli'[only] = Idle
  BY DEF TypeOK, Dies, Finish
<1>1. cli[only].pc # "idle" /\ j \in Jobs
  BY Loaded DEF Dies
<1>2. UNCHANGED <<status, answers, approvals, platform>>
  BY DEF Dies, rows, grants
<1>3. CASE cli[only].pc = "record"
  <2>1. unrecorded' = [unrecorded EXCEPT ![j] = @ + 1] /\ cli[only].outcome # "none"
    BY <1>3 DEF Dies, TypeOK, Sound
  <2> HIDE DEF j, t
  <2>2. Pending[j] # "none" /\ Pending' = [Pending EXCEPT ![j] = "none"]
    BY <1>0, <1>1, <1>3, <2>1, PendingMapped DEF Owed, Idle, j
  <2>3. Consents' = Consents
    BY <1>0, <1>2, <1>3, ConsentsMapped DEF Given, Sending, Idle
  <2>4. Contract!Lose(j)
    BY <1>2, <2>1, <2>2, <2>3 DEF Contract!Lose, platform
  <2> QED  BY <1>1, <2>4 DEF Contract!Next
<1>4. CASE cli[only].pc \in {"consume", "post"}
  <2>1. unrecorded' = unrecorded /\ t \in DOMAIN approvals
    BY <1>4 DEF Dies, Holds
  <2>2. Pending' = Pending
    BY <1>0, <1>4, PendingMapped DEF Owed, Idle
  <2>3. \A i \in DOMAIN approvals : ~Sending(cli'[only], i) /\ (Sending(cli[only], i) <=> i = t)
    BY <1>0, <1>4 DEF Sending, Idle
  <2> HIDE DEF j, t
  <2>4. Consents[t].state = "live" /\ t \in DOMAIN Consents
    BY <2>1, <2>3, ConsentsMapped DEF Given
  <2>5. CASE approvals[t].state = "live" /\ approvals[t].answers = answers[approvals[t].job]
    <3>1. Consents' = Consents
      BY <1>2, <2>1, <2>3, <2>5, ConsentsMapped DEF Given
    <3> QED  BY <1>2, <2>1, <2>2, <3>1 DEF Contract!vars, platform
  <2>6. CASE ~(approvals[t].state = "live" /\ approvals[t].answers = answers[approvals[t].job])
    <3>1. Consents' = [Consents EXCEPT ![t].state = "void"]
      BY <1>2, <2>1, <2>3, <2>6, ConsentsMapped DEF Given
    <3> QED  BY <1>2, <2>1, <2>2, <2>4, <3>1, WithdrawRefines
  <2> QED  BY <2>5, <2>6
<1>5. CASE Resting(cli[only])
  <2>1. unrecorded' = unrecorded /\ Resting(cli'[only])
    BY <1>0, <1>5 DEF Dies, Resting, Idle
  <2> QED  BY <1>2, <1>5, <2>1, NothingSeen
<1> QED  BY <1>3, <1>4, <1>5 DEF Resting

LEMMA OtherStepRefines ==
  ASSUME NEW only, Procs = {only}, TypeOK, Current, Holds(only), AsShown, OtherStep(only)
  PROVE  Contract!Next \/ UNCHANGED Contract!vars
<1>0. cli \in [Procs -> Sessions] /\ only \in Procs
  BY DEF TypeOK
<1>1. CASE Approve(only)
  BY <1>1, ApproveRefines
<1>2. CASE Decline(only) \/ RunBlocked(only) \/ Inconclusive(only)
  <2>1. Resting(cli[only]) /\ Resting(cli'[only]) /\ UNCHANGED <<status, approvals, answers, platform, unrecorded>>
    BY <1>0, <1>2 DEF Decline, RunBlocked, Inconclusive, Finish, Idle, Resting, rows, grants
  <2> QED  BY <2>1, NothingSeen
<1>3. CASE RunRefused(only)
  <2> DEFINE target == IF WithinLimits(cli[only].job) THEN "FAILED" ELSE "SKIPPED"
  <2>1. /\ cli[only].pc = "run" /\ SetStatus(only, target) /\ Finish(only)
        /\ UNCHANGED <<approvals, answers, platform, unrecorded>>
    BY <1>3 DEF RunRefused, grants
  <2>2. target \in {"FAILED", "SKIPPED"}
    OBVIOUS
  <2>3. InCommand(cli[only]) /\ Resting(cli[only])
    BY <2>1 DEF InCommand, Resting
  <2> HIDE DEF target
  <2> QED  BY <2>1, <2>2, <2>3, MoveRefines
<1>4. CASE Verified(only)
  BY <1>4, MoveRefines DEF Verified, InCommand, Resting, grants
<1>5. CASE RetryInitiated(only)
  BY <1>5, MoveRefines DEF RetryInitiated, InCommand, Resting, grants
<1>6. CASE Dies(only)
  BY <1>6, DeathRefines
<1> QED  BY <1>1, <1>2, <1>3, <1>4, <1>5, <1>6 DEF OtherStep

\* Where one command runs at a time, the engine implements ApplicationContract:
\* every step of a command, and a death at any of them, is a step of the
\* contract or nothing it knows of.
THEOREM EngineKeepsContract ==
  ASSUME NEW only, Procs = {only}
  PROVE  Spec => AppliesAsPromised
<1> DEFINE Approved == \A p \in Procs : Holds(p)
<1>1. Init => AsShown /\ Remembered
  BY DEF Init, AsShown, Remembered, Idle
<1>2. TypeOK /\ AsShown /\ Remembered /\ [Next]_vars => AsShown' /\ Remembered'
  BY AsShownStep, RememberedStep
<1>3. Init => Contract!Init
  <2> SUFFICES ASSUME Init PROVE Contract!Init
    OBVIOUS
  <2>1. cli[only] = Idle /\ approvals = <<>>
    BY DEF Init
  <2>2. Consents = <<>>
    BY <2>1, ConsentsMapped DEF Given
  <2>3. Pending = [j \in Jobs |-> "none"]
    BY <2>1, PendingMapped DEF Owed, Idle
  <2> QED  BY <2>2, <2>3 DEF Init, Contract!Init, Contract!Blank, NoAnswers
<1>4. ASSUME TypeOK, Current, Approved, AsShown, Remembered, [Next]_vars
      PROVE  Contract!Next \/ UNCHANGED Contract!vars
  <2>1. Holds(only)
    BY <1>4
  <2>2. ASSUME NEW k \in Jobs, Starts(only, k) PROVE UNCHANGED Contract!vars
    BY <1>4, <2>2, StartRefines
  <2> QED  BY <1>4, <2>1, <2>2, OneProcess, PreparationRefines, SubmissionRefines, OtherStepRefines, AroundRefines
<1>5. Spec => []Approved
  BY HoldsAlways
<1> HIDE DEF Approved
<1>6. TypeOK /\ Current /\ Approved /\ AsShown /\ Remembered /\ [Next]_vars => [Contract!Next]_(Contract!vars)
  BY <1>4
<1>7. Spec => []AsShown /\ []Remembered
  BY <1>1, <1>2, TypeCorrect, PTL DEF Spec
<1> QED  BY <1>3, <1>5, <1>6, <1>7, TypeCorrect, CurrentAlways, PTL DEF Spec, AppliesAsPromised, Contract!Spec
=============================================================================
