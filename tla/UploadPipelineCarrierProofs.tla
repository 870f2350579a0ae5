--------------------- MODULE UploadPipelineCarrierProofs ---------------------
(***************************************************************************)
(* Nothing is forgotten: a claim has a holder that will release it         *)
(* (NoLeakedClaim), an active row has an object that carries it            *)
(* (ActiveHasCarrier), and a worker that dies takes one such object with   *)
(* it at most (DeadWorkerStrandsOne).  Then the worker pool: pausing       *)
(* drains it (PauseDrains), and no worker is lost from sight or counted    *)
(* twice (WorkersAccountedFor).                                            *)
(***************************************************************************)
EXTENDS UploadPipelineProofs, FiniteSetTheorems

-----------------------------------------------------------------------------
\* Claims.

Claims(o) ==
  /\ pc'[o] \in {"remote", "claim"} => mem'[o].hashed
  /\ \/ claims' = claims /\ (pc[o] \in Holding => pc'[o] \in Holding)
     \/ claims' = claims \cup {Digest(o)} /\ pc'[o] \in Holding /\ mem'[o].hashed
     \/ claims' = IF mem[o].hashed THEN claims \ {Digest(o)} ELSE claims

\* A step of an attempt takes a claim, keeps it, or releases it.
LEMMA AttemptClaims ==
  ASSUME TypeInv, ClaimsReleasable, NEW o \in Objects, Attempt(o)
  PROVE  Claims(o)
<1>a. pc[o] \in {"remote", "claim"} => mem[o].hashed
  BY DEF ClaimsReleasable
<1>b. mem[o].hashed => mem'[o].hashed
  BY AttemptResult DEF TypeInv, Result, Becomes
<1>c. [mem[o] EXCEPT !.hashed = TRUE].hashed
  BY DEF TypeInv, TypeOK, Rows
<1> USE DEF Claims, TypeInv, TypeOK
<1>1. CASE Stabilize(o)
  BY <1>1, <1>a, <1>b DEF Stabilize, Goto, Holding
<1>2. CASE HashFile(o)
  BY <1>2, <1>c DEF HashFile, Goto, Holding
<1>3. CASE HashUnchecked(o)
  BY <1>3, <1>a, <1>b DEF HashUnchecked, BeginExtraction, Save, Goto, Holding
<1>4. CASE FindOnDrive(o)
  BY <1>4, <1>a, <1>b DEF FindOnDrive, Goto, Holding
<1>5. CASE NotFoundOnDrive(o)
  BY <1>5, <1>a, <1>b DEF NotFoundOnDrive, Goto, Holding
<1>6. CASE SkipDuplicate(o)
  BY <1>6, <1>a, <1>b DEF SkipDuplicate, Move, Goto, Holding
<1>7. CASE ClaimHash(o)
  BY <1>7, <1>a, <1>b DEF ClaimHash, BeginExtraction, Save, Goto, Holding
<1>8. CASE LoseClaim(o)
  BY <1>8, <1>a, <1>b DEF LoseClaim, Goto, Holding
<1>9. CASE ReadDeviceId(o)
  BY <1>9, <1>a, <1>b DEF ReadDeviceId, Goto, Holding
<1>10. CASE SendToReview(o)
  BY <1>10, <1>a, <1>b DEF SendToReview, Move, Goto, Holding
<1>11. CASE CannotReadVideo(o)
  BY <1>11, <1>a, <1>b DEF CannotReadVideo, Goto, Holding
<1>12. CASE UploadFile(o)
  BY <1>12, <1>a, <1>b DEF UploadFile, Goto, Holding
<1>13. CASE RecordUpload(o)
  BY <1>13, <1>a, <1>b DEF RecordUpload, Goto, Holding
<1>14. CASE UpdateSheet(o)
  BY <1>14, <1>a, <1>b DEF UpdateSheet, Goto, Holding
<1>15. CASE Complete(o)
  BY <1>15, <1>a, <1>b DEF Complete, Move, Goto, Holding
<1>16. CASE StepFails(o)
  BY <1>16, <1>a, <1>b DEF StepFails, Goto, Holding
<1>17. CASE AnswerLost(o)
  BY <1>17, <1>a, <1>b DEF AnswerLost, Goto, Holding
<1>18. CASE MoveAside(o)
  BY <1>18, <1>a, <1>b DEF MoveAside, Move, Goto, Holding
<1>19. CASE Finalize(o)
  BY <1>19, <1>a, <1>b DEF Finalize, Goto, Holding
<1>20. CASE AppendLog(o)
  BY <1>20, <1>a, <1>b DEF AppendLog, Release, Goto, Holding
<1> QED  BY <1>1, <1>2, <1>3, <1>4, <1>5, <1>6, <1>7, <1>8, <1>9, <1>10,
             <1>11, <1>12, <1>13, <1>14, <1>15, <1>16, <1>17, <1>18, <1>19,
             <1>20 DEF Attempt

\* Hence an attempt leaves no claim behind.
LEMMA AttemptReleasable ==
  ASSUME TypeInv, ClaimsReleasable, NEW o \in Objects, Attempt(o)
  PROVE  ClaimsReleasable'
<1>1. /\ Claims(o) /\ job' = job
      /\ mem[o].hashed => mem'[o].hashed
      /\ \A p \in Objects \ {o} : pc'[p] = pc[p] /\ mem'[p] = mem[p]
  BY AttemptClaims, AttemptFrame, AttemptResult DEF Frame, Result, Becomes, TypeInv, TypeOK
<1>2. \A p \in Objects : Digest(p)' = Digest(p)
  BY <1>1 DEF Digest
<1>3. \A p \in Objects : pc'[p] \in {"remote", "claim"} => mem'[p].hashed
  BY <1>1 DEF Claims, ClaimsReleasable
<1>4. ASSUME NEW c \in claims'
      PROVE  \E p \in Objects : pc'[p] \in Holding /\ Digest(p) = c /\ mem'[p].hashed
  <2>1. CASE c \in claims
    <3>1. PICK p \in Objects : pc[p] \in Holding /\ Digest(p) = c /\ mem[p].hashed
      BY <2>1 DEF ClaimsReleasable
    <3> QED  BY <1>1, <1>4, <3>1 DEF Claims
  <2>2. CASE c \notin claims
    BY <1>1, <1>4, <2>2 DEF Claims
  <2> QED  BY <2>1, <2>2
<1> QED  BY <1>2, <1>3, <1>4 DEF ClaimsReleasable

Idle ==
  /\ claims' \subseteq claims
  /\ \A p \in Objects : pc'[p] \in {"remote", "claim"} => pc[p] = pc'[p] /\ mem'[p] = mem[p]
  /\ \A p \in Objects : pc[p] \in Holding /\ mem[p].hashed /\ Digest(p) \in claims' =>
       pc'[p] \in Holding /\ job'[p] = job[p] /\ mem'[p].hashed

\* Every other step leaves the holders alone, or releases what they hold.
LEMMA OthersIdle ==
  ASSUME TypeInv, Next, \A o \in Objects : ~Attempt(o)
  PROVE  Idle
<1>a. ASSUME claims' \in {claims, {}}, NEW o \in Objects, pc[o] \notin Holding,
             pc'[o] \notin {"remote", "claim"},
             \A p \in Objects \ {o} : pc'[p] = pc[p] /\ mem'[p] = mem[p] /\ job'[p] = job[p]
      PROVE  Idle
  BY <1>a DEF Idle
<1>b. ASSUME NEW o \in Objects, NEW j \in Jobs, NEW row, EnqueueNew(o, j, row), claims' = claims
      PROVE  Idle
  <2>1. /\ pc[o] = "free" /\ pc'[o] = "queued"
        /\ \A p \in Objects \ {o} : pc'[p] = pc[p] /\ mem'[p] = mem[p] /\ job'[p] = job[p]
    BY <1>b DEF EnqueueNew, TypeInv, TypeOK
  <2> QED  BY <1>a, <1>b, <2>1 DEF Holding
<1>c. ASSUME claims' = claims, object' = object PROVE Idle
  BY <1>c DEF Idle, object
<1>1. ASSUME NEW j \in Jobs, Discover(j) PROVE Idle
  <2>1. PICK o \in Objects : /\ pc[o] = "free"
                             /\ Goto(o, "sched")
                             /\ job' = [job EXCEPT ![o] = j]
                             /\ mem' = [mem EXCEPT ![o] = Blank("DISCOVERED")]
    BY <1>1 DEF Discover
  <2>2. /\ pc'[o] = "sched" /\ claims' = claims
        /\ \A p \in Objects \ {o} : pc'[p] = pc[p] /\ mem'[p] = mem[p] /\ job'[p] = job[p]
    BY <1>1, <2>1 DEF Discover, Goto, TypeInv, TypeOK
  <2> QED  BY <1>a, <2>1, <2>2 DEF Holding
<1>2. ASSUME NEW o \in Objects, Loop(o) PROVE Idle
  <2>1. claims' = claims /\ pc[o] \notin Holding /\ pc'[o] \notin {"remote", "claim"}
    BY <1>2 DEF Loop, Enqueue, TakeJob, Report, ScheduleRetry, Requeue, Abandon, Goto, Drop, Holding,
       TypeInv, TypeOK
  <2>2. \A p \in Objects \ {o} : pc'[p] = pc[p] /\ mem'[p] = mem[p] /\ job'[p] = job[p]
    BY <1>2 DEF Loop, Enqueue, TakeJob, Report, ScheduleRetry, Requeue, Abandon, Goto, Save, Drop,
       TypeInv, TypeOK
  <2> QED  BY <1>a, <2>1, <2>2
<1>3. ASSUME NEW o \in Objects, DbWriteFails(o) PROVE Idle
  <2>1. CASE pc[o] \in {"finalize", "log"}
    <3>1. /\ mem' = [mem EXCEPT ![o] = Status(o, "FAILED")] /\ Goto(o, "failing")
          /\ UNCHANGED <<job, claims>>
      BY <1>3, <2>1 DEF DbWriteFails
    <3>2. Status(o, "FAILED").hashed = mem[o].hashed
      BY DEF Status, TypeInv, TypeOK, Rows
    <3>3. /\ pc'[o] = "failing" /\ mem'[o].hashed = mem[o].hashed
          /\ \A p \in Objects \ {o} : pc'[p] = pc[p] /\ mem'[p] = mem[p]
      BY <3>1, <3>2 DEF Goto, TypeInv, TypeOK
    <3> QED  BY <3>1, <3>3 DEF Idle, Holding
  <2>2. CASE pc[o] \in {"failsave", "faillog", "returned"}
    <3>1. Drop(o)
      BY <1>3, <2>2 DEF DbWriteFails
    <3>2. /\ pc'[o] = "free"
          /\ \A p \in Objects \ {o} : pc'[p] = pc[p] /\ mem'[p] = mem[p] /\ job'[p] = job[p]
      BY <3>1 DEF Drop, TypeInv, TypeOK
    <3>3. \/ pc[o] = "returned" /\ claims' = claims
          \/ claims' = IF mem[o].hashed THEN claims \ {Digest(o)} ELSE claims
      BY <1>3, <2>2 DEF DbWriteFails, Release
    <3> QED  BY <3>2, <3>3 DEF Idle, Holding
  <2> QED  BY <1>3, <2>1, <2>2 DEF DbWriteFails
<1>4. CASE Operator
  BY <1>4, <1>b, <1>c DEF Operator, RetryJob, ResolveNeedsReview, ToggleDuplicateCheck, Pause, Resume
<1>5. CASE Lifecycle
  <2>1. CASE Boot \/ LoadBacklog \/ StartPool
    BY <1>c, <2>1 DEF Boot, LoadBacklog, StartPool
  <2>2. ASSUME NEW j \in Jobs, RequeueIncomplete(j) PROVE Idle
    BY <1>b, <1>c, <2>2 DEF RequeueIncomplete
  <2>3. CASE Stop
    <3>1. /\ claims' = claims
          /\ \A p \in Objects : \/ pc[p] \in Waiting /\ pc'[p] = "free"
                                \/ pc'[p] = pc[p] /\ mem'[p] = mem[p] /\ job'[p] = job[p]
      BY <2>3 DEF Stop, Discard, TypeInv, TypeOK
    <3> QED  BY <3>1 DEF Idle, Holding, Waiting
  <2>4. CASE Exit
    BY <2>4 DEF Exit, Idle, object
  <2>5. CASE Crash
    <3>1. claims' = {} /\ \A p \in Objects : pc'[p] = "free"
      BY <2>5 DEF Crash, Discard
    <3> QED  BY <3>1 DEF Idle
  <2> QED  BY <1>5, <2>1, <2>2, <2>3, <2>4, <2>5 DEF Lifecycle
<1> QED  BY <1>1, <1>2, <1>3, <1>4, <1>5 DEF Next

\* Every claim stays releasable.
LEMMA ReleasableStep == TypeInv /\ ClaimsReleasable /\ [Next]_vars => ClaimsReleasable'
<1> SUFFICES ASSUME TypeInv, ClaimsReleasable, [Next]_vars PROVE ClaimsReleasable'
  OBVIOUS
<1>1. CASE UNCHANGED vars
  BY <1>1 DEF vars, object, ClaimsReleasable, Digest
<1>2. ASSUME NEW o \in Objects, Attempt(o) PROVE ClaimsReleasable'
  BY <1>2, AttemptReleasable
<1>3. CASE Next /\ \A o \in Objects : ~Attempt(o)
  <2>1. Idle
    BY <1>3, OthersIdle
  <2>2. \A p \in Objects : pc'[p] \in {"remote", "claim"} => mem'[p].hashed
    BY <2>1 DEF Idle, ClaimsReleasable
  <2>3. ASSUME NEW c \in claims'
        PROVE  \E p \in Objects : pc'[p] \in Holding /\ Digest(p)' = c /\ mem'[p].hashed
    <3>1. PICK p \in Objects : pc[p] \in Holding /\ Digest(p) = c /\ mem[p].hashed
      BY <2>1 DEF Idle, ClaimsReleasable
    <3> QED  BY <2>1, <3>1 DEF Idle, Digest
  <2> QED  BY <2>2, <2>3 DEF ClaimsReleasable
<1> QED  BY <1>1, <1>2, <1>3

\* No claim outlives its attempt.  (video_processor.py, finally; dedup_service.py)
THEOREM NoClaimLeaks == Spec => []NoLeakedClaim
<1>1. Init => ClaimsReleasable
  BY DEF Init, ClaimsReleasable
<1>2. Spec => [](TypeInv /\ ClaimsReleasable)
  BY <1>1, TypeInit, TypeStep, ReleasableStep, PTL DEF Spec
<1>3. ClaimsReleasable => NoLeakedClaim
  BY DEF ClaimsReleasable, NoLeakedClaim
<1> QED  BY <1>2, <1>3, PTL

-----------------------------------------------------------------------------
\* Carriers.

Carried(j) == \E o \in Objects : job[o] = j /\ pc[o] \in Carrying

\* A step of an attempt strands nobody: it carries its job on, or settles its row.
LEMMA AttemptStrands ==
  ASSUME TypeInv, NEW o \in Objects, Attempt(o)
  PROVE  Stranded' \subseteq Stranded
<1>1. Frame(o) /\ RowWrite(o) /\ Result(o)
  BY AttemptFrame, AttemptRow, AttemptResult DEF TypeInv
<1>2. UNCHANGED job /\ \A p \in Objects \ {o} : pc'[p] = pc[p]
  BY <1>1 DEF Frame, TypeInv, TypeOK
<1>3. job[o] \in Jobs
  BY <1>1 DEF Result, Attempting, Settling, Settled, TypeInv, ObjectsOK, Live
<1>4. ASSUME NEW j \in Jobs, db'[j].status \in Active, ~Carried(j)'
      PROVE  db[j].status \in Active /\ ~Carried(j)
  <2>1. CASE j # job[o]
    BY <1>1, <1>2, <1>3, <1>4, <2>1 DEF Carried, RowWrite, TypeInv, TypeOK
  <2>2. CASE j = job[o]
    <3>1. pc'[o] \notin Carrying
      BY <1>2, <1>4, <2>2 DEF Carried
    <3>2. mem'[o].status \in Terminal => mem'[o].status \notin Active
      BY DEF Terminal, Done, Active
    <3>3. pc[o] \notin Carrying /\ db' = db
      BY <1>1, <1>3, <1>4, <2>2, <3>1, <3>2 DEF RowWrite, TypeInv, TypeOK
    <3> QED  BY <1>2, <1>4, <2>2, <3>3 DEF Carried
  <2> QED  BY <2>1, <2>2
<1> QED  BY <1>4 DEF Stranded, Carriers, Carried

\* A step of an attempt carries its job on, or settles its row.
LEMMA AttemptCarries ==
  ASSUME TypeInv, RowsCarried, NEW o \in Objects, Attempt(o)
  PROVE  RowsCarried'
<1>1. Frame(o) /\ Result(o)
  BY AttemptFrame, AttemptResult DEF TypeInv
<1>2. UNCHANGED <<up, lost>> /\ pc[o] \notin {"free", "queued"}
  BY <1>1 DEF Frame, Result, Attempting, Settling, Settled, pool
<1>3. up # "down" /\ up \notin {"starting", "requeueing"}
  BY <1>2 DEF RowsCarried, Live
<1>4. up = "running" /\ lost = 0 => Stranded = {}
  BY DEF RowsCarried, Stranded
<1>5. up = "running" /\ lost = 0 => Stranded' = {}
  BY <1>4, AttemptStrands
<1> QED  BY <1>2, <1>3, <1>5 DEF RowsCarried, Stranded

\* Object o comes to carry a job, or goes on carrying it.
Carries(o) ==
  /\ up' = up /\ lost' = lost /\ up # "down"
  /\ up \in {"starting", "requeueing"} => pc'[o] = "queued"
  /\ pc'[o] \in Carrying
  /\ pc[o] # "free" => job'[o] = job[o]
  /\ \A p \in Objects \ {o} : pc'[p] = pc[p] /\ job'[p] = job[p]
  /\ \A j \in Jobs \ {job'[o]} : db'[j] = db[j]
  /\ backlog \ {job'[o]} \subseteq backlog'

\* ... which keeps every row carried.
LEMMA CarriesStep ==
  ASSUME TypeInv, RowsCarried, NEW o \in Objects, Carries(o)
  PROVE  RowsCarried'
<1>1. up' = "down" => \A p \in Objects : ~Live(p)'
  BY DEF Carries
<1>2. up' \in {"starting", "requeueing"} => \A p \in Objects : pc'[p] \in {"free", "queued"}
  BY DEF Carries, RowsCarried
<1>3. ASSUME NEW j \in Jobs, db'[j].status \in Active,
             up = "requeueing" \/ (up = "running" /\ lost = 0)
      PROVE  Carried(j)' \/ (up = "requeueing" /\ j \in backlog')
  <2>1. CASE j = job'[o]
    BY <2>1 DEF Carries, Carried
  <2>2. CASE j # job'[o]
    <3>1. Carried(j) \/ (up = "requeueing" /\ j \in backlog)
      BY <1>3, <2>2 DEF Carries, RowsCarried, Carriers, Carried
    <3>2. Carried(j) => Carried(j)'
      BY <2>2 DEF Carries, Carried, Carrying, Waiting, Attempting, Settling
    <3> QED  BY <2>2, <3>1, <3>2 DEF Carries
  <2> QED  BY <2>1, <2>2
<1>4. up' = up /\ lost' = lost
  BY DEF Carries
<1> QED  BY <1>1, <1>2, <1>3, <1>4 DEF RowsCarried, Carriers, Carried

\* Nobody who carries a job is let go.
Steady ==
  /\ up' = up /\ up # "down"
  /\ lost' = 0 => lost = 0
  /\ \A p \in Objects : pc'[p] = pc[p] \/ pc'[p] = "free" \/ up \notin {"starting", "requeueing"}
  /\ (up = "requeueing" \/ (up = "running" /\ lost' = 0)) =>
       \A p \in Objects : pc[p] \in Carrying => pc'[p] \in Carrying /\ job'[p] = job[p]
  /\ \A j \in Jobs : db'[j].status \in Active => db[j] = db'[j] /\ (j \in backlog => j \in backlog')

\* ... which keeps every row carried, too.
LEMMA SteadyStep ==
  ASSUME TypeInv, RowsCarried, Steady
  PROVE  RowsCarried'
<1>1. lost \in Nat
  BY DEF TypeInv, TypeOK
<1>2. up' \in {"starting", "requeueing"} => \A p \in Objects : pc'[p] \in {"free", "queued"}
  BY DEF Steady, RowsCarried
<1>3. ASSUME NEW j \in Jobs, db'[j].status \in Active,
             up = "requeueing" \/ (up = "running" /\ lost' = 0)
      PROVE  Carried(j)' \/ (up = "requeueing" /\ j \in backlog')
  <2>1. Carried(j) \/ (up = "requeueing" /\ j \in backlog)
    BY <1>3 DEF Steady, RowsCarried, Carriers, Carried
  <2>2. Carried(j) => Carried(j)'
    BY <1>3 DEF Steady, Carried
  <2> QED  BY <1>3, <2>1, <2>2 DEF Steady
<1>4. up' = up /\ up # "down"
  BY DEF Steady
<1> QED  BY <1>2, <1>3, <1>4 DEF RowsCarried, Carriers, Carried

\* Every other step keeps every row carried.
LEMMA OthersCarry ==
  ASSUME TypeInv, TypeInv', RowsCarried, Next, \A o \in Objects : ~Attempt(o)
  PROVE  RowsCarried'
<1>a. \A p \in Objects : Live(p) => up # "down" /\ job[p] \in Jobs
  BY DEF RowsCarried, TypeInv, ObjectsOK
<1>b. up \in {"starting", "requeueing"} => \A p \in Objects : pc[p] \in {"free", "queued"}
  BY DEF RowsCarried
<1>c. ASSUME NEW o \in Objects, NEW j \in Jobs, NEW row, EnqueueNew(o, j, row),
             up # "down", up' = up, lost' = lost, backlog \ {j} \subseteq backlog'
      PROVE  RowsCarried'
  <2>1. /\ pc[o] = "free" /\ pc'[o] = "queued" /\ job'[o] = j
        /\ \A p \in Objects \ {o} : pc'[p] = pc[p] /\ job'[p] = job[p]
        /\ \A k \in Jobs \ {j} : db'[k] = db[k]
    BY <1>c DEF EnqueueNew, TypeInv, TypeOK
  <2>2. Carries(o)
    BY <1>c, <2>1 DEF Carries, Carrying, Waiting
  <2> QED  BY <2>2, CarriesStep
<1>d. ASSUME NEW o \in Objects, Drop(o), pc[o] \notin Carrying, pc[o] # "free",
             UNCHANGED <<up, lost, backlog, db>>
      PROVE  RowsCarried'
  <2>1. /\ pc'[o] = "free"
        /\ \A p \in Objects \ {o} : pc'[p] = pc[p] /\ job'[p] = job[p]
    BY <1>d DEF Drop, TypeInv, TypeOK
  <2>2. Steady
    BY <1>a, <1>d, <2>1 DEF Steady, Live
  <2> QED  BY <2>2, SteadyStep
<1>e. ASSUME up' = up, UNCHANGED <<lost, backlog, pc, job, db>> PROVE RowsCarried'
  BY <1>e DEF RowsCarried, Live, Carriers
<1>1. ASSUME NEW j \in Jobs, Discover(j) PROVE RowsCarried'
  <2>1. PICK o \in Objects : /\ pc[o] = "free"
                             /\ Goto(o, "sched")
                             /\ job' = [job EXCEPT ![o] = j]
    BY <1>1 DEF Discover
  <2>2. /\ pc'[o] = "sched" /\ job'[o] = j
        /\ \A p \in Objects \ {o} : pc'[p] = pc[p] /\ job'[p] = job[p]
    BY <2>1 DEF Goto, TypeInv, TypeOK
  <2>3. /\ up = "running" /\ UNCHANGED <<up, lost, backlog>>
        /\ \A k \in Jobs \ {j} : db'[k] = db[k]
    BY <1>1 DEF Discover, TypeInv, TypeOK, pool
  <2>4. Carries(o)
    BY <2>1, <2>2, <2>3 DEF Carries, Carrying, Waiting
  <2> QED  BY <2>4, CarriesStep
<1>2. ASSUME NEW o \in Objects, Loop(o) PROVE RowsCarried'
  <2>1. CASE Enqueue(o) \/ TakeJob(o) \/ ScheduleRetry(o) \/ Requeue(o)
    <3>1. Live(o) /\ UNCHANGED <<up, lost, backlog, job>>
      BY <2>1 DEF Enqueue, TakeJob, ScheduleRetry, Requeue, WorkerIdle, Live, pool
    <3>2. pc'[o] \in {"queued", "stabilize", "backoff"} /\ \A p \in Objects \ {o} : pc'[p] = pc[p]
      BY <2>1 DEF Enqueue, TakeJob, ScheduleRetry, Requeue, Goto, TypeInv, TypeOK
    <3>3. \A j \in Jobs \ {job[o]} : db'[j] = db[j]
      BY <2>1, <3>1, <1>a DEF Enqueue, TakeJob, ScheduleRetry, Requeue, Save, TypeInv, TypeOK
    <3>4. up \in {"starting", "requeueing"} => pc'[o] = "queued"
      BY <1>b, <2>1, <3>2 DEF Enqueue, TakeJob, ScheduleRetry, Requeue
    <3>5. Carries(o)
      BY <1>a, <3>1, <3>2, <3>3, <3>4 DEF Carries, Carrying, Waiting, Attempting
    <3> QED  BY <3>5, CarriesStep
  <2>2. CASE Report(o) \/ Abandon(o)
    BY <1>d, <2>2 DEF Report, Abandon, WorkerIdle, pool, Carrying, Waiting, Attempting, Settling
  <2> QED  BY <1>2, <2>1, <2>2 DEF Loop
<1>3. ASSUME NEW o \in Objects, DbWriteFails(o) PROVE RowsCarried'
  <2>a. Live(o) /\ up # "down" /\ up \notin {"starting", "requeueing"} /\ UNCHANGED <<up, backlog, db>>
    BY <1>3, <1>a, <1>b DEF DbWriteFails, Live
  <2>1. CASE pc[o] \in {"finalize", "log"}
    <3>1. Goto(o, "failing") /\ UNCHANGED <<lost, job>>
      BY <1>3, <2>1 DEF DbWriteFails
    <3>2. pc'[o] = "failing" /\ \A p \in Objects \ {o} : pc'[p] = pc[p]
      BY <3>1 DEF Goto, TypeInv, TypeOK
    <3>3. Carries(o)
      BY <2>a, <2>1, <3>1, <3>2 DEF Carries, Carrying, Settling
    <3> QED  BY <3>3, CarriesStep
  <2>2. CASE pc[o] \in {"failsave", "faillog", "returned"}
    <3>1. Drop(o) /\ (up = "running" => lost' = lost + 1) /\ (lost' = lost \/ lost' = lost + 1)
      BY <1>3, <2>2 DEF DbWriteFails
    <3>2. up = "running" => lost' # 0
      BY <3>1 DEF TypeInv, TypeOK
    <3>3. lost' = 0 => lost = 0
      BY <3>1 DEF TypeInv, TypeOK
    <3>4. Steady
      BY <2>a, <3>2, <3>3 DEF Steady
    <3> QED  BY <3>4, SteadyStep
  <2> QED  BY <1>3, <2>1, <2>2 DEF DbWriteFails
<1>4. CASE Operator
  <2>1. ASSUME NEW j \in Jobs, RetryJob(j) PROVE RowsCarried'
    BY <1>c, <2>1 DEF RetryJob, LoopListens, pool
  <2>2. ASSUME NEW j \in Jobs, ResolveNeedsReview(j) PROVE RowsCarried'
    BY <1>c, <2>2 DEF ResolveNeedsReview, LoopListens, pool
  <2>3. CASE ToggleDuplicateCheck \/ Pause \/ Resume
    BY <1>e, <2>3 DEF ToggleDuplicateCheck, Pause, Resume, pool, object
  <2> QED  BY <1>4, <2>1, <2>2, <2>3 DEF Operator
<1>5. CASE Lifecycle
  <2>1. CASE Boot
    <3>1. up' = "starting" /\ \A p \in Objects : pc'[p] = "free"
      BY <1>a, <2>1 DEF Boot, object, Live
    <3> QED  BY <3>1 DEF RowsCarried
  <2>2. CASE LoadBacklog
    <3>1. /\ up' = "requeueing" /\ UNCHANGED <<pc, job, db>>
          /\ \A j \in Jobs : db[j].status \in Active => j \in backlog'
          /\ \A p \in Objects : pc'[p] \in {"free", "queued"}
      BY <1>b, <2>2 DEF LoadBacklog, ListActive, object
    <3> QED  BY <3>1 DEF RowsCarried
  <2>3. CASE StartPool
    <3>1. /\ up = "requeueing" /\ backlog = {} /\ up' = "running" /\ UNCHANGED <<lost, pc, job>>
      BY <2>3 DEF StartPool, object
    <3>2. \A j \in Jobs : db'[j].status \in Active => db'[j] = db[j]
      <4>1. Blank("PRUNED").status \notin Active
        BY BlankRow DEF NoRow, Active
      <4> QED  BY <2>3, <4>1 DEF StartPool
    <3>3. \A j \in Jobs : db[j].status \in Active => Carriers(j) # {}
      BY <3>1 DEF RowsCarried
    <3> QED  BY <3>1, <3>2, <3>3 DEF RowsCarried, Carriers
  <2>4. ASSUME NEW j \in Jobs, RequeueIncomplete(j) PROVE RowsCarried'
    <3>1. up = "requeueing" /\ up' = up /\ lost' = lost /\ backlog' = backlog \ {j}
      BY <2>4 DEF RequeueIncomplete
    <3>2. CASE disk[j] = db[j].path
      BY <1>c, <2>4, <3>1, <3>2 DEF RequeueIncomplete
    <3>3. CASE disk[j] # db[j].path
      <4>1. db' = [db EXCEPT ![j] = [db[j] EXCEPT !.status = "FAILED"]] /\ UNCHANGED <<pc, job>>
        BY <2>4, <3>3 DEF RequeueIncomplete, object
      <4>2. [db[j] EXCEPT !.status = "FAILED"].status \notin Active
        BY DEF TypeInv, TypeOK, Rows, Active
      <4>3. \A k \in Jobs : db'[k].status \in Active => k # j /\ db'[k] = db[k]
        BY <4>1, <4>2 DEF TypeInv, TypeOK
      <4>4. Steady
        BY <3>1, <4>1, <4>3 DEF Steady
      <4> QED  BY <4>4, SteadyStep
    <3> QED  BY <3>2, <3>3
  <2>5. CASE Stop
    <3>1. up' = "stopping"
      BY <2>5 DEF Stop
    <3> QED  BY <3>1 DEF RowsCarried
  <2>6. CASE Exit \/ Crash
    <3>1. up' = "down" /\ \A p \in Objects : pc'[p] = "free"
      BY <2>6 DEF Exit, Crash, Discard, object
    <3> QED  BY <3>1 DEF RowsCarried, Live
  <2> QED  BY <1>5, <2>1, <2>2, <2>3, <2>4, <2>5, <2>6 DEF Lifecycle
<1> QED  BY <1>1, <1>2, <1>3, <1>4, <1>5 DEF Next

\* Every step keeps the rows carried.
LEMMA CarriedInvariant == Spec => [](TypeInv /\ RowsCarried)
<1>1. Init => RowsCarried
  BY DEF Init, RowsCarried, Live
<1>2. TypeInv /\ TypeInv' /\ RowsCarried /\ [Next]_vars => RowsCarried'
  <2> SUFFICES ASSUME TypeInv, TypeInv', RowsCarried, [Next]_vars PROVE RowsCarried'
    OBVIOUS
  <2>1. CASE UNCHANGED vars
    BY <2>1 DEF vars, pool, object, RowsCarried, Live, Carriers
  <2>2. ASSUME NEW o \in Objects, Attempt(o) PROVE RowsCarried'
    BY <2>2, AttemptCarries
  <2>3. CASE Next /\ \A o \in Objects : ~Attempt(o)
    BY <2>3, OthersCarry
  <2> QED  BY <2>1, <2>2, <2>3
<1> QED  BY <1>1, <1>2, TypeInit, TypeStep, PTL DEF Spec

\* Every active row is carried while the application runs and no worker has
\* died.  (pipeline_orchestrator.py, upload_worker_pool.py)
THEOREM ActiveIsCarried == Spec => []ActiveHasCarrier
<1>1. RowsCarried => ActiveHasCarrier
  BY DEF RowsCarried, ActiveHasCarrier
<1> QED  BY <1>1, CarriedInvariant, PTL

-----------------------------------------------------------------------------
\* Dead workers.

\* The count of the stranded rows, with what makes it a count.
StrandedInv == up = "running" => IsFiniteSet(Stranded) /\ Cardinality(Stranded) <= lost

\* An object that comes to carry a job strands nobody either.
LEMMA CarriesStrands ==
  ASSUME TypeInv, NEW o \in Objects, Carries(o)
  PROVE  Stranded' \subseteq Stranded
<1>1. ASSUME NEW j \in Jobs, db'[j].status \in Active, ~Carried(j)'
      PROVE  db[j].status \in Active /\ ~Carried(j)
  <2>1. j # job'[o]
    BY <1>1 DEF Carries, Carried
  <2>2. Carried(j) => Carried(j)'
    BY <2>1 DEF Carries, Carried, Carrying, Waiting, Attempting, Settling
  <2> QED  BY <1>1, <2>1, <2>2 DEF Carries
<1> QED  BY <1>1 DEF Stranded, Carriers, Carried

\* Letting an object go strands its job at most.
LEMMA DropStrands ==
  ASSUME TypeInv, NEW o \in Objects, Drop(o), db' = db
  PROVE  /\ Stranded' \subseteq Stranded \cup {job[o]}
         /\ pc[o] \notin Carrying => Stranded' \subseteq Stranded
<1>1. /\ pc'[o] = "free" /\ pc'[o] \notin Carrying
      /\ \A p \in Objects \ {o} : pc'[p] = pc[p] /\ job'[p] = job[p]
  BY DEF Drop, TypeInv, TypeOK, Carrying, Waiting, Attempting, Settling
<1>2. ASSUME NEW j \in Jobs, j # job[o] \/ pc[o] \notin Carrying, Carried(j)
      PROVE  Carried(j)'
  BY <1>1, <1>2 DEF Carried
<1> QED  BY <1>2 DEF Stranded, Carriers, Carried

\* Fewer stranded, and none of the dead come back.
LEMMA StrandedFewer ==
  ASSUME TypeInv, StrandedInv, up = "running", Stranded' \subseteq Stranded, lost' = lost
  PROVE  StrandedInv'
<1>1. IsFiniteSet(Stranded') /\ Cardinality(Stranded') <= Cardinality(Stranded)
  BY FS_Subset DEF StrandedInv
<1>2. Cardinality(Stranded) \in Nat /\ Cardinality(Stranded') \in Nat /\ lost \in Nat
  BY <1>1, FS_CardinalityType DEF StrandedInv, TypeInv, TypeOK
<1> QED  BY <1>1, <1>2 DEF StrandedInv

\* A dead worker more, and a stranded job more.
LEMMA StrandedOneMore ==
  ASSUME TypeInv, StrandedInv, up = "running", NEW j, Stranded' \subseteq Stranded \cup {j},
         lost' = lost + 1
  PROVE  StrandedInv'
<1>1. /\ IsFiniteSet(Stranded \cup {j})
      /\ Cardinality(Stranded \cup {j}) \in {Cardinality(Stranded), Cardinality(Stranded) + 1}
  BY FS_AddElement DEF StrandedInv
<1>2. IsFiniteSet(Stranded') /\ Cardinality(Stranded') <= Cardinality(Stranded \cup {j})
  BY <1>1, FS_Subset
<1>3. Cardinality(Stranded) \in Nat /\ Cardinality(Stranded') \in Nat /\ lost \in Nat
  BY <1>2, FS_CardinalityType DEF StrandedInv, TypeInv, TypeOK
<1> QED  BY <1>1, <1>2, <1>3 DEF StrandedInv

\* A step of the loop strands nobody.
LEMMA LoopStrands ==
  ASSUME TypeInv, StrandedInv, up = "running", NEW o \in Objects, Loop(o)
  PROVE  StrandedInv'
<1>1. CASE Enqueue(o) \/ TakeJob(o) \/ ScheduleRetry(o) \/ Requeue(o)
  <2>1. Live(o) /\ UNCHANGED <<up, lost, backlog, job>>
    BY <1>1 DEF Enqueue, TakeJob, ScheduleRetry, Requeue, WorkerIdle, Live, pool
  <2>2. pc'[o] \in {"queued", "stabilize", "backoff"} /\ \A p \in Objects \ {o} : pc'[p] = pc[p]
    BY <1>1 DEF Enqueue, TakeJob, ScheduleRetry, Requeue, Goto, TypeInv, TypeOK
  <2>3. job[o] \in Jobs
    BY <2>1 DEF TypeInv, ObjectsOK
  <2>4. \A j \in Jobs \ {job[o]} : db'[j] = db[j]
    BY <1>1, <2>3 DEF Enqueue, TakeJob, ScheduleRetry, Requeue, Save, TypeInv, TypeOK
  <2>5. Carries(o)
    BY <2>1, <2>2, <2>4 DEF Carries, Carrying, Waiting, Attempting
  <2> QED  BY <2>1, <2>5, CarriesStrands, StrandedFewer
<1>2. CASE Report(o) \/ Abandon(o)
  <2>1. Drop(o) /\ db' = db /\ lost' = lost /\ pc[o] \notin Carrying
    BY <1>2 DEF Report, Abandon, WorkerIdle, pool, Carrying, Waiting, Attempting, Settling
  <2> QED  BY <2>1, DropStrands, StrandedFewer
<1> QED  BY <1>1, <1>2 DEF Loop

\* A refused write that escapes kills a worker, and strands the job it had.
LEMMA DbWriteFailsStrands ==
  ASSUME TypeInv, StrandedInv, up = "running", NEW o \in Objects, DbWriteFails(o)
  PROVE  StrandedInv'
<1>a. UNCHANGED <<up, backlog, db>>
  BY DEF DbWriteFails
<1>1. CASE pc[o] \in {"finalize", "log"}
  <2>1. Goto(o, "failing") /\ UNCHANGED <<lost, job>>
    BY <1>1 DEF DbWriteFails
  <2>2. pc'[o] = "failing" /\ \A p \in Objects \ {o} : pc'[p] = pc[p]
    BY <2>1 DEF Goto, TypeInv, TypeOK
  <2>3. Carries(o)
    BY <1>a, <2>1, <2>2 DEF Carries, Carrying, Settling
  <2> QED  BY <2>1, <2>3, CarriesStrands, StrandedFewer
<1>2. CASE pc[o] \in {"failsave", "faillog", "returned"}
  <2>1. Drop(o) /\ lost' = lost + 1
    BY <1>2 DEF DbWriteFails
  <2> QED  BY <1>a, <2>1, DropStrands, StrandedOneMore
<1> QED  BY <1>1, <1>2 DEF DbWriteFails

\* A new object carries the job it is about.
LEMMA EnqueueNewStrands ==
  ASSUME TypeInv, StrandedInv, up = "running", NEW o \in Objects, NEW j \in Jobs, NEW row,
         EnqueueNew(o, j, row), UNCHANGED pool
  PROVE  StrandedInv'
<1>1. /\ pc[o] = "free" /\ pc'[o] = "queued" /\ job'[o] = j
      /\ \A p \in Objects \ {o} : pc'[p] = pc[p] /\ job'[p] = job[p]
      /\ \A k \in Jobs \ {j} : db'[k] = db[k]
  BY DEF EnqueueNew, TypeInv, TypeOK
<1>2. Carries(o) /\ lost' = lost
  BY <1>1 DEF Carries, Carrying, Waiting, pool
<1> QED  BY <1>2, CarriesStrands, StrandedFewer

\* Every step keeps the count; only a worker that dies adds to it.
LEMMA StrandedStep == TypeInv /\ RowsCarried /\ StrandedInv /\ [Next]_vars => StrandedInv'
<1> SUFFICES ASSUME TypeInv, RowsCarried, StrandedInv, [Next]_vars PROVE StrandedInv'
  OBVIOUS
<1>a. ASSUME UNCHANGED <<up, lost, pc, job, db>> PROVE StrandedInv'
  BY <1>a DEF StrandedInv, Stranded, Carriers
<1>b. ASSUME up' # "running" PROVE StrandedInv'
  BY <1>b DEF StrandedInv
<1>1. CASE UNCHANGED vars
  BY <1>1, <1>a DEF vars, pool, object
<1>2. ASSUME NEW j \in Jobs, Discover(j) PROVE StrandedInv'
  <2>1. PICK o \in Objects : /\ pc[o] = "free"
                             /\ Goto(o, "sched")
                             /\ job' = [job EXCEPT ![o] = j]
    BY <1>2 DEF Discover
  <2>2. /\ pc'[o] = "sched" /\ job'[o] = j
        /\ \A p \in Objects \ {o} : pc'[p] = pc[p] /\ job'[p] = job[p]
    BY <2>1 DEF Goto, TypeInv, TypeOK
  <2>3. /\ up = "running" /\ UNCHANGED <<up, lost, backlog>>
        /\ \A k \in Jobs \ {j} : db'[k] = db[k]
    BY <1>2 DEF Discover, TypeInv, TypeOK, pool
  <2>4. Carries(o)
    BY <2>1, <2>2, <2>3 DEF Carries, Carrying, Waiting
  <2> QED  BY <2>3, <2>4, CarriesStrands, StrandedFewer
<1>3. CASE up = "running" /\ \E o \in Objects : Attempt(o)
  <2>1. PICK o \in Objects : Attempt(o)
    BY <1>3
  <2>2. lost' = lost
    BY <2>1, AttemptFrame DEF Frame, pool, TypeInv
  <2> QED  BY <1>3, <2>1, <2>2, AttemptStrands, StrandedFewer
<1>4. CASE up = "running" /\ \E o \in Objects : Loop(o) \/ DbWriteFails(o)
  BY <1>4, LoopStrands, DbWriteFailsStrands
<1>5. CASE up = "running" /\ Operator
  <2>1. ASSUME NEW j \in Jobs, RetryJob(j) \/ ResolveNeedsReview(j) PROVE StrandedInv'
    BY <1>5, <2>1, EnqueueNewStrands DEF RetryJob, ResolveNeedsReview
  <2>2. CASE ToggleDuplicateCheck \/ Pause \/ Resume
    BY <1>a, <2>2 DEF ToggleDuplicateCheck, Pause, Resume, pool, object
  <2> QED  BY <1>5, <2>1, <2>2 DEF Operator
<1>6. CASE up # "running" /\ \E o \in Objects : Attempt(o)
  BY <1>6, <1>b, AttemptFrame DEF Frame, pool, TypeInv
<1>7. CASE up # "running" /\ ((\E o \in Objects : Loop(o) \/ DbWriteFails(o)) \/ Operator)
  <2>1. up' = up
    BY <1>7 DEF Loop, Enqueue, TakeJob, Report, ScheduleRetry, Requeue, Abandon, WorkerIdle, DbWriteFails,
       Operator, RetryJob, ResolveNeedsReview, ToggleDuplicateCheck, Pause, Resume, pool
  <2> QED  BY <1>7, <1>b, <2>1
<1>8. CASE Lifecycle
  <2>1. CASE StartPool
    <3>1. up = "requeueing" /\ backlog = {} /\ UNCHANGED <<lost, pc, job>>
      BY <2>1 DEF StartPool, object
    <3>2. \A j \in Jobs : db'[j].status \in Active => db'[j] = db[j]
      <4>1. Blank("PRUNED").status \notin Active
        BY BlankRow DEF NoRow, Active
      <4> QED  BY <2>1, <4>1 DEF StartPool
    <3>3. Stranded' = {}
      BY <3>1, <3>2 DEF RowsCarried, Stranded, Carriers
    <3>4. lost' \in Nat
      BY <3>1 DEF TypeInv, TypeOK
    <3> QED  BY <3>3, <3>4, FS_EmptySet DEF StrandedInv
  <2>2. CASE Boot \/ LoadBacklog \/ (\E j \in Jobs : RequeueIncomplete(j)) \/ Stop \/ Exit \/ Crash
    BY <1>b, <2>2 DEF Boot, LoadBacklog, RequeueIncomplete, Stop, Exit, Crash
  <2> QED  BY <1>8, <2>1, <2>2 DEF Lifecycle
<1> QED  BY <1>1, <1>2, <1>3, <1>4, <1>5, <1>6, <1>7, <1>8 DEF Next

\* However many workers die, each strands one job at most.
\* (video_processor.py, process; upload_worker_pool.py, _worker_loop)
THEOREM StrandedAreCounted == Spec => []DeadWorkerStrandsOne
<1>1. Init => StrandedInv
  BY DEF Init, StrandedInv
<1>2. Spec => [](TypeInv /\ RowsCarried /\ StrandedInv)
  BY <1>1, StrandedStep, CarriedInvariant, PTL DEF Spec
<1>3. StrandedInv => DeadWorkerStrandsOne
  BY DEF StrandedInv, DeadWorkerStrandsOne, Stranded
<1> QED  BY <1>2, <1>3, PTL

-----------------------------------------------------------------------------
\* The gate.

\* A step that starts nothing keeps the bound if no worker passes the gate.
LEMMA NothingStarted ==
  ASSUME TypeInv', Started = {}, armed' <= armed
  PROVE  armed' + Cardinality(Started) <= armed
<1>1. armed' \in Nat
  BY DEF TypeInv, TypeOK
<1>2. Cardinality(Started) = 0
  BY FS_EmptySet
<1> QED  BY <1>1, <1>2

\* Where objects are: no step but TakeJob starts one.
LEMMA OnlyTakeJobStarts ==
  ASSUME TypeInv, [Next]_vars, Started # {}
  PROVE  \E o \in Objects : TakeJob(o)
<1> SUFFICES ASSUME \A o \in Objects : ~TakeJob(o) PROVE FALSE
  OBVIOUS
<1> PICK s \in Objects : pc[s] = "queued" /\ pc'[s] \in Attempting
  BY DEF Started
<1>0. pc \in [Objects -> Places]
  BY DEF TypeInv, TypeOK
<1>1. ASSUME NEW o \in Objects, Attempt(o) PROVE FALSE
  <2>1. Frame(o) /\ Result(o)
    BY <1>1, AttemptFrame, AttemptResult DEF TypeInv
  <2>2. pc[o] # "queued"
    BY <2>1 DEF Result, Attempting, Settling, Settled
  <2>3. s # o /\ pc'[s] = pc[s]
    BY <1>0, <2>1, <2>2 DEF Frame
  <2> QED  BY <2>3 DEF Attempting
<1>2. ASSUME NEW o \in Objects, Loop(o) PROVE FALSE
  BY <1>0, <1>2 DEF Loop, Enqueue, Report, ScheduleRetry, Requeue, Abandon, Drop, Goto, Attempting
<1>3. CASE Operator
  BY <1>0, <1>3 DEF Operator, RetryJob, ResolveNeedsReview, EnqueueNew, ToggleDuplicateCheck, Pause, Resume,
     object, Attempting
<1>4. CASE Lifecycle
  <2>1. CASE Stop \/ Crash
    BY <1>0, <2>1 DEF Stop, Crash, Discard, Attempting
  <2>2. CASE Boot \/ LoadBacklog \/ StartPool \/ Exit
    BY <2>2 DEF Boot, LoadBacklog, StartPool, Exit, object, Attempting
  <2>3. CASE \E j \in Jobs : RequeueIncomplete(j)
    BY <1>0, <2>3 DEF RequeueIncomplete, EnqueueNew, object, Attempting
  <2> QED  BY <1>4, <2>1, <2>2, <2>3 DEF Lifecycle
<1>5. ASSUME NEW o \in Objects, DbWriteFails(o) PROVE FALSE
  BY <1>0, <1>5 DEF DbWriteFails, Drop, Goto, Attempting
<1>6. ASSUME NEW j \in Jobs, Discover(j) PROVE FALSE
  BY <1>0, <1>6 DEF Discover, Goto, Attempting
<1>7. CASE UNCHANGED vars
  BY <1>7 DEF vars, object, Attempting
<1> QED  BY <1>1, <1>2, <1>3, <1>4, <1>5, <1>6, <1>7 DEF Next

\* The worker that takes a job is one that stood at the queue, and it takes one.
LEMMA TakeJobStartsOne ==
  ASSUME TypeInv, NEW o \in Objects, TakeJob(o)
  PROVE  armed' + Cardinality(Started) <= armed
<1>1. armed \in Nat /\ armed' = armed - 1 /\ pc \in [Objects -> Places]
  BY DEF TypeInv, TypeOK, TakeJob
<1>2. Started = {o}
  BY <1>1 DEF TakeJob, Goto, Started, Attempting
<1>3. Cardinality(Started) = 1
  BY <1>2, FS_Singleton
<1> QED  BY <1>1, <1>3

\* Between two moments of a pause no worker passes the gate, and no step but
\* TakeJob starts a job.
LEMMA GateStep ==
  TypeInv /\ [Next]_vars => (paused /\ paused' => armed' + Cardinality(Started) <= armed)
<1> SUFFICES ASSUME TypeInv, [Next]_vars, paused, paused', \A o \in Objects : ~TakeJob(o)
             PROVE  armed' <= armed
  BY TypeStep, NothingStarted, OnlyTakeJobStarts, TakeJobStartsOne
<1>0. armed \in Nat /\ MaxConcurrent \in Nat
  BY PipelineAssumption DEF TypeInv, TypeOK
<1>1. CASE armed' = armed
  BY <1>0, <1>1
<1>2. ASSUME NEW o \in Objects, Attempt(o) PROVE armed' <= armed
  <2>1. Frame(o)
    BY <1>2, AttemptFrame DEF TypeInv
  <2> QED  BY <2>1, <1>1 DEF Frame, pool
<1>3. ASSUME NEW o \in Objects, Loop(o) PROVE armed' <= armed
  <2>1. CASE Enqueue(o) \/ Requeue(o) \/ Abandon(o)
    BY <1>1, <2>1 DEF Enqueue, Requeue, Abandon, pool
  <2>2. CASE Report(o) \/ ScheduleRetry(o)
    BY <1>1, <2>2 DEF Report, ScheduleRetry, WorkerIdle
  <2> QED  BY <1>3, <2>1, <2>2 DEF Loop
<1>4. CASE Operator
  BY <1>1, <1>4 DEF Operator, RetryJob, ResolveNeedsReview, ToggleDuplicateCheck, Pause, Resume, pool
<1>5. CASE Lifecycle
  <2>1. CASE StartPool \/ Stop \/ Crash
    BY <1>0, <2>1 DEF StartPool, Stop, Crash, Discard
  <2>2. CASE Boot \/ LoadBacklog \/ Exit \/ \E j \in Jobs : RequeueIncomplete(j)
    BY <1>1, <2>2 DEF Boot, LoadBacklog, Exit, RequeueIncomplete
  <2> QED  BY <1>5, <2>1, <2>2 DEF Lifecycle
<1>6. ASSUME NEW o \in Objects, DbWriteFails(o) PROVE armed' <= armed
  BY <1>1, <1>6 DEF DbWriteFails
<1>7. ASSUME NEW j \in Jobs, Discover(j) PROVE armed' <= armed
  BY <1>1, <1>7 DEF Discover, pool
<1>8. CASE UNCHANGED vars
  BY <1>1, <1>8 DEF vars, pool
<1> QED  BY <1>2, <1>3, <1>4, <1>5, <1>6, <1>7, <1>8 DEF Next

\* While uploads are paused every job that starts uses up a worker that stood at
\* the queue, and none is added to those.  (upload_worker_pool.py, pause and _worker_loop)
THEOREM PauseHolds == Spec => PauseDrains
<1>1. TypeInv /\ [Next]_vars => [paused /\ paused' => armed' + Cardinality(Started) <= armed]_vars
  BY GateStep
<1> QED  BY <1>1, TypeInit, TypeStep, PTL DEF Spec, PauseDrains

-----------------------------------------------------------------------------
\* The count.

Working == Attempting \cup Settling \cup Settled

\* One object moves.
Moves(o) == \A p \in Objects \ {o} : pc'[p] = pc[p]

\* An attempt that begins takes one place, one that ends leaves one, and any
\* other move leaves the count as it is.
LEMMA BusyCount ==
  ASSUME NEW o \in Objects, Moves(o)
  PROVE  /\ Cardinality(Busy) \in Nat
         /\ pc[o] \notin Working /\ pc'[o] \in Working
              => Cardinality(Busy') = Cardinality(Busy) + 1
         /\ pc[o] \in Working /\ pc'[o] \notin Working
              => Cardinality(Busy') = Cardinality(Busy) - 1
         /\ (pc[o] \in Working <=> pc'[o] \in Working) => Busy' = Busy
<1>1. IsFiniteSet(Busy)
  BY PipelineAssumption, FS_Subset DEF Busy
<1>2. Cardinality(Busy) \in Nat
  BY <1>1, FS_CardinalityType
<1>3. pc[o] \notin Working /\ pc'[o] \in Working => o \notin Busy /\ Busy' = Busy \cup {o}
  BY DEF Moves, Busy, Working
<1>4. pc[o] \in Working /\ pc'[o] \notin Working => o \in Busy /\ Busy' = Busy \ {o}
  BY DEF Moves, Busy, Working
<1>5. (pc[o] \in Working <=> pc'[o] \in Working) => Busy' = Busy
  BY DEF Moves, Busy, Working
<1>6. o \notin Busy => Cardinality(Busy \cup {o}) = Cardinality(Busy) + 1
  BY <1>1, FS_AddElement
<1>7. o \in Busy => Cardinality(Busy \ {o}) = Cardinality(Busy) - 1
  BY <1>1, FS_RemoveElement
<1> QED  BY <1>2, <1>3, <1>4, <1>5, <1>6, <1>7

PoolInv == WorkersAccountedFor /\ NoWorkersAtRest

\* What leaves the workers and the attempts alone keeps the count.
LEMMA PoolIdle ==
  ASSUME PoolInv, UNCHANGED <<up, armed, gated, lost>>, Busy' = Busy
  PROVE  PoolInv'
BY DEF PoolInv, WorkersAccountedFor, NoWorkersAtRest

\* A worker that turns from waiting to working, from working to waiting, or
\* from working to dead is counted once before and once after.
LEMMA PoolTrade ==
  ASSUME TypeInv, PoolInv, up = "running", up' = "running",
         Cardinality(Busy) \in Nat, Cardinality(Busy') \in Nat,
         armed' + gated' + lost' + Cardinality(Busy') = armed + gated + lost + Cardinality(Busy)
  PROVE  PoolInv'
BY DEF PoolInv, WorkersAccountedFor, NoWorkersAtRest

\* The steps of the operator, of an arrival, and of the attempts themselves
\* leave the count alone.
LEMMA PoolQuiet ==
  ASSUME TypeInv, PoolInv, NEW o \in Objects, Moves(o), UNCHANGED <<up, armed, gated, lost>>,
         pc[o] \in Working <=> pc'[o] \in Working
  PROVE  PoolInv'
BY BusyCount, PoolIdle

\* A step of the loop that moves an object keeps the count.
LEMMA PoolLoop ==
  ASSUME TypeInv, PoolInv, NEW o \in Objects, Loop(o)
  PROVE  PoolInv'
<1>0. armed \in Nat /\ gated \in Nat /\ lost \in Nat
  BY DEF TypeInv, TypeOK
<1>1. CASE Enqueue(o) \/ Requeue(o)
  <2>1. Moves(o) /\ pc[o] \notin Working /\ pc'[o] \notin Working /\ UNCHANGED <<up, armed, gated, lost>>
    BY <1>1 DEF Enqueue, Requeue, Goto, Moves, Working, Attempting, Settling, Settled, pool, TypeInv, TypeOK
  <2> QED  BY <2>1, PoolQuiet
<1>2. CASE TakeJob(o)
  <2>1. /\ Moves(o) /\ pc[o] \notin Working /\ pc'[o] \in Working
        /\ up = "running" /\ armed' = armed - 1 /\ UNCHANGED <<up, gated, lost>>
    BY <1>2 DEF TakeJob, Goto, Moves, Working, Attempting, Settling, Settled, TypeInv, TypeOK
  <2>2. Cardinality(Busy) \in Nat /\ Cardinality(Busy') = Cardinality(Busy) + 1
    BY <2>1, BusyCount
  <2>3. /\ armed' + gated' + lost' + Cardinality(Busy') = armed + gated + lost + Cardinality(Busy)
        /\ Cardinality(Busy') \in Nat
    BY <1>0, <2>1, <2>2
  <2>4. up' = "running"
    BY <2>1
  <2> QED  BY <2>1, <2>2, <2>3, <2>4, PoolTrade
<1>3. CASE Report(o) \/ ScheduleRetry(o)
  <2>1. /\ Moves(o) /\ pc[o] \in Working /\ pc'[o] \notin Working
        /\ up = "running" /\ UNCHANGED <<up, lost>>
    BY <1>3 DEF Report, ScheduleRetry, Goto, Drop, WorkerIdle, Moves, Working, Attempting, Settling, Settled,
                TypeInv, TypeOK
  <2>2. armed' + gated' = armed + gated + 1
    BY <1>0, <1>3 DEF Report, ScheduleRetry, WorkerIdle
  <2>3. Cardinality(Busy) \in Nat /\ Cardinality(Busy') = Cardinality(Busy) - 1
    BY <2>1, BusyCount
  <2>4. Cardinality(Busy') \in Nat
    <3>1. IsFiniteSet(Busy')
      BY PipelineAssumption, FS_Subset DEF Busy
    <3> QED  BY <3>1, FS_CardinalityType
  <2>5. armed' \in Nat /\ gated' \in Nat
    BY <1>0, <1>3 DEF Report, ScheduleRetry, WorkerIdle
  <2>6. armed' + gated' + lost' + Cardinality(Busy') = armed + gated + lost + Cardinality(Busy)
    BY <1>0, <2>1, <2>2, <2>3, <2>5
  <2>7. up' = "running"
    BY <2>1
  <2> QED  BY <2>1, <2>3, <2>4, <2>6, <2>7, PoolTrade
<1>4. CASE Abandon(o)
  <2>1. /\ up = "stopping" /\ UNCHANGED <<up, armed, gated, lost>>
    BY <1>4 DEF Abandon, pool
  <2> QED  BY <2>1 DEF PoolInv, WorkersAccountedFor, NoWorkersAtRest
<1> QED  BY <1>1, <1>2, <1>3, <1>4 DEF Loop

\* A refused write kills the worker that made it, and only that one.
LEMMA PoolDbWriteFails ==
  ASSUME TypeInv, PoolInv, NEW o \in Objects, DbWriteFails(o)
  PROVE  PoolInv'
<1>0. armed \in Nat /\ gated \in Nat /\ lost \in Nat
  BY DEF TypeInv, TypeOK
<1>1. /\ UNCHANGED <<up, armed, gated>> /\ pc[o] \in Working
  BY DEF DbWriteFails, Working, Attempting, Settling, Settled
<1>2. CASE pc[o] \in {"finalize", "log"}
  <2>1. Moves(o) /\ pc'[o] \in Working /\ lost' = lost
    BY <1>2 DEF DbWriteFails, Goto, Moves, Working, Settling, TypeInv, TypeOK
  <2> QED  BY <1>1, <2>1, PoolQuiet
<1>3. CASE pc[o] \notin {"finalize", "log"}
  <2>1. /\ Moves(o) /\ pc'[o] \notin Working
        /\ up = "running" => lost' = lost + 1
        /\ up # "running" => lost' = lost
    BY <1>3 DEF DbWriteFails, Drop, Moves, Working, Attempting, Settling, Settled, TypeInv, TypeOK
  <2>2. CASE up = "running"
    <3>1. Cardinality(Busy) \in Nat /\ Cardinality(Busy') = Cardinality(Busy) - 1
      BY <1>1, <2>1, BusyCount
    <3>2. Cardinality(Busy') \in Nat
      <4>1. IsFiniteSet(Busy')
        BY PipelineAssumption, FS_Subset DEF Busy
      <4> QED  BY <4>1, FS_CardinalityType
    <3>3. armed' + gated' + lost' + Cardinality(Busy') = armed + gated + lost + Cardinality(Busy)
      BY <1>0, <1>1, <2>1, <2>2, <3>1, <3>2
    <3>4. up' = "running"
      BY <1>1, <2>2
    <3> QED  BY <2>2, <3>1, <3>2, <3>3, <3>4, PoolTrade
  <2>3. CASE up # "running"
    <3>1. o \in Busy
      BY <1>1 DEF Busy, Working
    <3>2. up \notin {"down", "starting", "requeueing"}
      BY <3>1 DEF PoolInv, NoWorkersAtRest
    <3> QED  BY <1>1, <2>1, <2>3, <3>2 DEF PoolInv, WorkersAccountedFor, NoWorkersAtRest
  <2> QED  BY <2>2, <2>3
<1> QED  BY <1>2, <1>3

\* The operator queues objects and moves workers between gate and queue.
LEMMA PoolOperator ==
  ASSUME TypeInv, PoolInv, Operator
  PROVE  PoolInv'
<1>0. armed \in Nat /\ gated \in Nat /\ lost \in Nat
  BY DEF TypeInv, TypeOK
<1>a. ASSUME NEW o \in Objects, NEW j \in Jobs, NEW row, EnqueueNew(o, j, row), UNCHANGED <<up, armed, gated, lost>>
      PROVE  PoolInv'
  <2>1. Moves(o) /\ pc[o] \notin Working /\ pc'[o] \notin Working
    BY <1>a DEF EnqueueNew, Moves, Working, Attempting, Settling, Settled, TypeInv, TypeOK
  <2> QED  BY <1>a, <2>1, PoolQuiet
<1>1. ASSUME NEW j \in Jobs, RetryJob(j) PROVE PoolInv'
  BY <1>a, <1>1 DEF RetryJob, pool
<1>2. ASSUME NEW j \in Jobs, ResolveNeedsReview(j) PROVE PoolInv'
  BY <1>a, <1>2 DEF ResolveNeedsReview, pool
<1>3. CASE ToggleDuplicateCheck \/ Pause
  <2>1. UNCHANGED <<up, armed, gated, lost, pc>>
    BY <1>3 DEF ToggleDuplicateCheck, Pause, pool, object
  <2>2. Busy' = Busy
    BY <2>1 DEF Busy
  <2> QED  BY <2>1, <2>2, PoolIdle
<1>4. CASE Resume
  <2>1. UNCHANGED <<up, lost, pc>> /\ armed' = armed + gated /\ gated' = 0
    BY <1>4 DEF Resume, object
  <2>2. Busy' = Busy
    BY <2>1 DEF Busy
  <2>3. armed' + gated' = armed + gated
    BY <1>0, <2>1
  <2> QED  BY <1>0, <2>1, <2>2, <2>3 DEF PoolInv, WorkersAccountedFor, NoWorkersAtRest
<1> QED  BY <1>1, <1>2, <1>3, <1>4 DEF Operator

\* The pool starts with all its workers, and stops with none.
LEMMA PoolLifecycle ==
  ASSUME TypeInv, PoolInv, Lifecycle
  PROVE  PoolInv'
<1>a. ASSUME pc' = pc PROVE Busy' = Busy
  BY <1>a DEF Busy
<1>b. ASSUME UNCHANGED <<armed, gated, lost, pc>>, up # "running", up # "stopping", up' \in {"starting", "requeueing"}
      PROVE  PoolInv'
  <2>1. up \in {"down", "starting", "requeueing"}
    BY <1>b DEF TypeInv, TypeOK
  <2> QED  BY <1>a, <1>b, <2>1 DEF PoolInv, WorkersAccountedFor, NoWorkersAtRest
<1>1. CASE Boot \/ LoadBacklog
  BY <1>b, <1>1 DEF Boot, LoadBacklog, object
<1>2. ASSUME NEW j \in Jobs, RequeueIncomplete(j) PROVE PoolInv'
  <2>1. up = "requeueing" /\ UNCHANGED <<up, armed, gated, lost>>
    BY <1>2 DEF RequeueIncomplete
  <2>2. CASE disk[j] = db[j].path
    <3>1. PICK o \in Objects : EnqueueNew(o, j, [db[j] EXCEPT !.status = "QUEUED", !.attempts = 0])
      BY <1>2, <2>2 DEF RequeueIncomplete
    <3>2. Moves(o) /\ pc[o] \notin Working /\ pc'[o] \notin Working
      BY <3>1 DEF EnqueueNew, Moves, Working, Attempting, Settling, Settled, TypeInv, TypeOK
    <3> QED  BY <2>1, <3>2, PoolQuiet
  <2>3. CASE disk[j] # db[j].path
    <3>1. pc' = pc
      BY <1>2, <2>3 DEF RequeueIncomplete, object
    <3> QED  BY <1>b, <2>1, <3>1
  <2> QED  BY <2>2, <2>3
<1>3. CASE StartPool
  <2>1. /\ up = "requeueing" /\ up' = "running" /\ lost' = lost /\ pc' = pc
        /\ armed' + gated' = MaxConcurrent
    BY <1>3, PipelineAssumption DEF StartPool, object
  <2>2. lost = 0 /\ Busy' = {}
    BY <1>a, <2>1 DEF PoolInv, NoWorkersAtRest
  <2>3. Cardinality(Busy') = 0
    BY <2>2, FS_EmptySet
  <2> QED  BY <2>1, <2>2, <2>3, PipelineAssumption DEF PoolInv, WorkersAccountedFor, NoWorkersAtRest
<1>4. CASE Stop
  BY <1>4 DEF Stop, Discard, PoolInv, WorkersAccountedFor, NoWorkersAtRest
<1>5. CASE Exit \/ Crash
  <2>1. up' = "down" /\ \A p \in Objects : pc'[p] = "free"
    BY <1>5 DEF Exit, Crash, Discard, object
  <2>2. Busy' = {}
    BY <2>1 DEF Busy, Attempting, Settling, Settled
  <2>3. armed' = 0 /\ gated' = 0 /\ lost' = 0
    BY <1>5 DEF Exit, Crash, Discard, PoolInv, NoWorkersAtRest
  <2> QED  BY <2>1, <2>2, <2>3 DEF PoolInv, WorkersAccountedFor, NoWorkersAtRest
<1> QED  BY <1>1, <1>2, <1>3, <1>4, <1>5 DEF Lifecycle

\* Every worker is accounted for, in every reachable state.
\* (upload_worker_pool.py, _worker_loop)
THEOREM WorkersCounted == Spec => []WorkersAccountedFor
<1>1. Init => PoolInv
  <2> SUFFICES ASSUME Init PROVE PoolInv
    OBVIOUS
  <2>1. Busy = {}
    BY DEF Init, Busy, Attempting, Settling, Settled
  <2> QED  BY <2>1 DEF Init, PoolInv, WorkersAccountedFor, NoWorkersAtRest
<1>2. TypeInv /\ PoolInv /\ [Next]_vars => PoolInv'
  <2> SUFFICES ASSUME TypeInv, PoolInv, [Next]_vars PROVE PoolInv'
    OBVIOUS
  <2>1. ASSUME NEW o \in Objects, Attempt(o) PROVE PoolInv'
    <3>1. Frame(o) /\ Result(o)
      BY <2>1, AttemptFrame, AttemptResult DEF TypeInv
    <3>2. Moves(o) /\ pc[o] \in Working /\ pc'[o] \in Working /\ UNCHANGED <<up, armed, gated, lost>>
      BY <3>1 DEF Frame, Result, Moves, Working, pool, TypeInv, TypeOK
    <3> QED  BY <3>2, PoolQuiet
  <2>2. ASSUME NEW j \in Jobs, Discover(j) PROVE PoolInv'
    <3>1. PICK o \in Objects : pc[o] = "free" /\ Goto(o, "sched")
      BY <2>2 DEF Discover
    <3>2. /\ Moves(o) /\ pc[o] \notin Working /\ pc'[o] \notin Working /\ UNCHANGED <<up, armed, gated, lost>>
      BY <2>2, <3>1 DEF Discover, Goto, Moves, Working, Attempting, Settling, Settled, pool, TypeInv, TypeOK
    <3> QED  BY <3>2, PoolQuiet
  <2>3. CASE UNCHANGED vars
    BY <2>3, PoolIdle DEF vars, pool, object, Busy
  <2> QED  BY <2>1, <2>2, <2>3, PoolLoop, PoolDbWriteFails, PoolOperator, PoolLifecycle DEF Next
<1>3. PoolInv => WorkersAccountedFor
  BY DEF PoolInv
<1> QED  BY <1>1, <1>2, <1>3, TypeInit, TypeStep, PTL DEF Spec
=============================================================================
