-------------------------- MODULE UploadComponentProofs --------------------------
(***************************************************************************)
(* Proofs about the components around the upload pipeline: GoogleSignIn,   *)
(* Backups, PipelineThread with its FolderWatcher, SheetRows, DriveFolders *)
(* and DeviceIdExtraction, in this order, after a few lemmas on sets of    *)
(* numbers.  They share no state, and no proof uses another component's.   *)
(***************************************************************************)
EXTENDS GoogleSignIn, Backups, PipelineThread, SheetRows, DriveFolders, DeviceIdExtraction,
        SequenceTheorems, FiniteSetTheorems, WellFoundedInduction, TLAPS

-----------------------------------------------------------------------------
(* Sets of numbers. The library states the induction that these take as the
   well-foundedness of the strict subsets of a set. *)

\* A finite set of numbers has a greatest element.
LEMMA GreatestNumber ==
  ASSUME NEW S \in SUBSET Int, S # {}, IsFiniteSet(S)
  PROVE  \E m \in S : \A k \in S : k <= m
<1> DEFINE Has(T) == \E m \in T : \A k \in T : k <= m
           C == {T \in FiniteSubsetsOf(Int) : T # {} /\ ~Has(T)}
<1> SUFFICES ASSUME ~Has(S) PROVE FALSE
  OBVIOUS
<1>1. S \in C
  BY DEF FiniteSubsetsOf
<1>2. PICK T \in C : \A U \in C : ~(<<U, T>> \in StrictSubsetOrdering(Int))
  <2> HIDE DEF C
  <2>1. IsWellFoundedOn(StrictSubsetOrdering(Int), FiniteSubsetsOf(Int))
    BY FS_StrictSubsetOrderingWellFounded
  <2>2. C # {}
    BY <1>1
  <2>3. C \subseteq FiniteSubsetsOf(Int)
    BY DEF C
  <2> QED  BY <2>1, <2>2, <2>3, WFMin
<1>3. T \in SUBSET Int /\ IsFiniteSet(T) /\ T # {} /\ ~Has(T)
  BY DEF FiniteSubsetsOf
<1>4. PICK x \in T : TRUE
  BY <1>3
<1>5. T \ {x} \in SUBSET Int /\ IsFiniteSet(T \ {x})
  BY <1>3, FS_RemoveElement
<1>6. <<T \ {x}, T>> \in StrictSubsetOrdering(Int)
  BY <1>3, <1>4, <1>5 DEF StrictSubsetOrdering
<1>7. T \ {x} \notin C
  BY <1>2, <1>6
<1>8. CASE T \ {x} = {}
  <2>1. \A k \in T : k = x /\ k \in Int
    BY <1>3, <1>8
  <2> QED  BY <1>3, <1>4, <2>1
<1>9. CASE T \ {x} # {}
  <2>1. PICK m \in T \ {x} : \A k \in T \ {x} : k <= m
    BY <1>5, <1>7, <1>9 DEF FiniteSubsetsOf
  <2>2. CASE x <= m
    BY <1>3, <1>4, <2>1, <2>2
  <2>3. CASE ~(x <= m)
    <3>1. \A k \in T : k <= x
      BY <1>3, <1>4, <2>1, <2>3
    <3> QED  BY <1>3, <1>4, <3>1
  <2> QED  BY <2>2, <2>3
<1> QED  BY <1>8, <1>9

\* A finite set of numbers has a least element.
LEMMA LeastNumber ==
  ASSUME NEW S \in SUBSET Int, S # {}, IsFiniteSet(S)
  PROVE  Min(S) \in S /\ \A k \in S : Min(S) <= k
<1> DEFINE Has(T) == \E m \in T : \A k \in T : m <= k
           C == {T \in FiniteSubsetsOf(Int) : T # {} /\ ~Has(T)}
<1> SUFFICES ASSUME ~Has(S) PROVE FALSE
  BY DEF Min
<1>1. S \in C
  BY DEF FiniteSubsetsOf
<1>2. PICK T \in C : \A U \in C : ~(<<U, T>> \in StrictSubsetOrdering(Int))
  <2> HIDE DEF C
  <2>1. IsWellFoundedOn(StrictSubsetOrdering(Int), FiniteSubsetsOf(Int))
    BY FS_StrictSubsetOrderingWellFounded
  <2>2. C # {}
    BY <1>1
  <2>3. C \subseteq FiniteSubsetsOf(Int)
    BY DEF C
  <2> QED  BY <2>1, <2>2, <2>3, WFMin
<1>3. T \in SUBSET Int /\ IsFiniteSet(T) /\ T # {} /\ ~Has(T)
  BY DEF FiniteSubsetsOf
<1>4. PICK x \in T : TRUE
  BY <1>3
<1>5. T \ {x} \in SUBSET Int /\ IsFiniteSet(T \ {x})
  BY <1>3, FS_RemoveElement
<1>6. <<T \ {x}, T>> \in StrictSubsetOrdering(Int)
  BY <1>3, <1>4, <1>5 DEF StrictSubsetOrdering
<1>7. T \ {x} \notin C
  BY <1>2, <1>6
<1>8. CASE T \ {x} = {}
  <2>1. \A k \in T : k = x /\ k \in Int
    BY <1>3, <1>8
  <2> QED  BY <1>3, <1>4, <2>1
<1>9. CASE T \ {x} # {}
  <2>1. PICK m \in T \ {x} : \A k \in T \ {x} : m <= k
    BY <1>5, <1>7, <1>9 DEF FiniteSubsetsOf
  <2>2. CASE m <= x
    BY <1>3, <1>4, <2>1, <2>2
  <2>3. CASE ~(m <= x)
    <3>1. \A k \in T : x <= k
      BY <1>3, <1>4, <2>1, <2>3
    <3> QED  BY <1>3, <1>4, <3>1
  <2> QED  BY <2>2, <2>3
<1> QED  BY <1>8, <1>9

\* What is in a set and below all of it is its least element.
LEMMA MinIs ==
  ASSUME NEW S \in SUBSET Int, NEW m \in S, \A k \in S : m <= k
  PROVE  Min(S) = m
<1>1. Min(S) \in S /\ \A k \in S : Min(S) <= k
  BY DEF Min
<1>2. Min(S) <= m /\ m <= Min(S) /\ Min(S) \in Int /\ m \in Int
  BY <1>1
<1> QED  BY <1>2

\* A finite set of one element at most, and of two at least.
LEMMA OneAtMost ==
  ASSUME NEW S, IsFiniteSet(S)
  PROVE  Cardinality(S) <= 1 <=> \A x, y \in S : x = y
<1>1. Cardinality(S) \in Nat /\ (Cardinality(S) = 0 <=> S = {}) /\ (Cardinality(S) = 1 <=> \E x : S = {x})
  BY FS_CardinalityType, FS_EmptySet, FS_Singleton
<1>2. ASSUME Cardinality(S) <= 1 PROVE \A x, y \in S : x = y
  BY <1>1, <1>2
<1>3. ASSUME \A x, y \in S : x = y PROVE Cardinality(S) <= 1
  <2>1. CASE S = {}
    BY <1>1, <2>1
  <2>2. CASE S # {}
    <3>1. PICK x \in S : TRUE
      BY <2>2
    <3>2. S = {x}
      BY <1>3, <3>1
    <3> QED  BY <1>1, <3>2
  <2> QED  BY <2>1, <2>2
<1> QED  BY <1>2, <1>3

-----------------------------------------------------------------------------
(* GoogleSignIn: a sign-out sticks. *)

\* Where a call holds the lock.
Inside == {"load", "refresh", "decide", "consent", "persist"}

\* One call at a time is past the lock; it is at the refresh only if there is a
\* token, and it asks the user, or stores what it did not ask for, accordingly.
SignInInv ==
  /\ SignInTypeOK
  /\ \A t \in Callers :
       /\ asking[t].at \in Inside => lock = t
       /\ At(t, "refresh") => token # "none"
       /\ At(t, "consent") => asking[t].interactive
       /\ (At(t, "persist") /\ ~asking[t].interactive) => token # "none"

LEMMA SignInInvInit == SignInInit => SignInInv
BY SignInAssumption DEF SignInInit, SignInInv, SignInTypeOK, At, Inside, Quiet

\* What Move and Leaving do to the calls.
Calls == [at : {"idle", "get", "out"} \cup Inside, interactive : BOOLEAN]

LEMMA MoveFacts ==
  ASSUME asking \in [Callers -> Calls], NEW t \in Callers,
         NEW at \in {"idle", "get", "out"} \cup Inside, Move(t, at)
  PROVE  /\ asking' \in [Callers -> Calls]
         /\ asking'[t].at = at /\ asking'[t].interactive = asking[t].interactive
         /\ \A u \in Callers \ {t} : asking'[u] = asking[u]
BY DEF Move, Calls

LEMMA LeavingFacts ==
  ASSUME asking \in [Callers -> Calls], NEW t \in Callers, Leaving(t)
  PROVE  /\ asking' \in [Callers -> Calls]
         /\ asking'[t].at = "idle"
         /\ \A u \in Callers \ {t} : asking'[u] = asking[u]
         /\ lock' = Nobody
BY DEF Leaving, Quiet, Calls

\* Each step of a call keeps the invariant.
LEMMA SignInInvStep == SignInInv /\ [SignInNext]_signInVars => SignInInv'
<1> SUFFICES ASSUME SignInInv, [SignInNext]_signInVars PROVE SignInInv'
  OBVIOUS
<1>0. asking \in [Callers -> Calls] /\ Calls = [at : {"idle", "get", "out", "load", "refresh", "decide", "consent", "persist"}, interactive : BOOLEAN]
  BY DEF SignInInv, SignInTypeOK, Calls, Inside
<1> USE SignInAssumption, <1>0 DEF SignInInv, SignInTypeOK, At, Inside
<1>1. ASSUME NEW t \in Callers, NEW b \in BOOLEAN, GetCredentials(t, b) PROVE SignInInv'
  BY <1>1 DEF GetCredentials
<1>2. ASSUME NEW t \in Callers, AskSignOut(t) PROVE SignInInv'
  BY <1>2 DEF AskSignOut
<1>3. ASSUME NEW t \in Callers, Consent(t) PROVE SignInInv'
  <2>1. CASE Move(t, "persist") /\ UNCHANGED <<authStatus, lock>>
    BY <1>3, <2>1, MoveFacts DEF Consent
  <2>2. CASE authStatus' = "ERROR" /\ Leaving(t)
    BY <1>3, <2>2, LeavingFacts DEF Consent
  <2> QED
    BY <1>3, <2>1, <2>2 DEF Consent
<1>4. ASSUME NEW t \in Callers, Acquire(t) PROVE SignInInv'
  <2>1. CASE memory = "valid"
    BY <1>4, <2>1, LeavingFacts DEF Acquire
  <2>2. CASE memory # "valid"
    BY <1>4, <2>2, MoveFacts DEF Acquire
  <2> QED
    BY <2>1, <2>2
<1>5. ASSUME NEW t \in Callers, Load(t) PROVE SignInInv'
  <2>1. CASE token = "valid"
    BY <1>5, <2>1, LeavingFacts DEF Load
  <2>2. CASE token = "expired"
    BY <1>5, <2>2, MoveFacts DEF Load
  <2>3. CASE token \notin {"valid", "expired"}
    BY <1>5, <2>3, MoveFacts DEF Load
  <2> QED
    BY <2>1, <2>2, <2>3
<1>6. ASSUME NEW t \in Callers, RefreshAccepted(t) PROVE SignInInv'
  BY <1>6, MoveFacts DEF RefreshAccepted
<1>7. ASSUME NEW t \in Callers, RefreshRefused(t) PROVE SignInInv'
  BY <1>7, MoveFacts DEF RefreshRefused
<1>8. ASSUME NEW t \in Callers, Escape(t) PROVE SignInInv'
  BY <1>8, LeavingFacts DEF Escape
<1>9. ASSUME NEW t \in Callers, NoToken(t) PROVE SignInInv'
  <2>1. CASE Leaving(t)
    BY <1>9, <2>1, LeavingFacts DEF NoToken
  <2>2. CASE asking[t].interactive /\ Move(t, "consent") /\ UNCHANGED <<authStatus, lock>>
    BY <1>9, <2>2, MoveFacts DEF NoToken
  <2> QED
    BY <1>9, <2>1, <2>2 DEF NoToken
<1>10. ASSUME NEW t \in Callers, Persist(t) PROVE SignInInv'
  BY <1>10, LeavingFacts DEF Persist
<1>11. ASSUME NEW t \in Callers, SignOut(t) PROVE SignInInv'
  BY <1>11, LeavingFacts DEF SignOut
<1>12. CASE Expire
  BY <1>12 DEF Expire
<1>13. CASE Spoil
  BY <1>13 DEF Spoil
<1>14. CASE UNCHANGED signInVars
  BY <1>14 DEF signInVars
<1> QED
  BY <1>1, <1>2, <1>3, <1>4, <1>5, <1>6, <1>7, <1>8, <1>9, <1>10, <1>11, <1>12, <1>13, <1>14
  DEF SignInNext, SignInStep

\* A token that was gone comes back only by a Persist of a call that asked the
\* user.
LEMMA TokenComesFromUser ==
  ASSUME SignInInv, SignInNext, token = "none", token' # "none"
  PROVE  \E t \in Callers : At(t, "persist") /\ asking[t].interactive
<1>1. PICK t \in Callers : Persist(t)
  BY DEF SignInNext, SignInStep, GetCredentials, AskSignOut, Consent, Acquire, Load, RefreshAccepted,
         RefreshRefused, Escape, NoToken, SignOut, Expire, Spoil
<1> QED
  BY <1>1 DEF Persist, SignInInv

\* Whatever refreshes or waits while the user signs out, no token comes back
\* that no user was asked for (drive_auth.py, get_credentials and sign_out).
THEOREM SignOutSticks == SignInSpec => SignedOutStaysOut
<1>1. SignInInv /\ [SignInNext]_signInVars =>
        [(token = "none" /\ token' # "none") =>
           \E t \in Callers : At(t, "persist") /\ asking[t].interactive]_signInVars
  BY TokenComesFromUser
<1> QED
  BY <1>1, SignInInvInit, SignInInvStep, PTL DEF SignInSpec, SignedOutStaysOut

-----------------------------------------------------------------------------
(* Backups: once there is a complete one, there always is. *)

\* The zip being written, or just written, is the newest, and pruning runs only
\* if it is complete.
BackupInv ==
  /\ second \in Nat \ {0} /\ DOMAIN zips \subseteq 1..second
  /\ zips = [s \in DOMAIN zips |-> zips[s]]
  /\ work.at \in {"write", "prune"} =>
       work.zip \in DOMAIN zips /\ \A s \in DOMAIN zips : s <= work.zip
  /\ work.at = "write" => zips[work.zip] = "broken"
  /\ work.at = "prune" => zips[work.zip] = "whole"
  /\ AlwaysAGoodBackup

LEMMA BackupInvInit == BackupInit => BackupInv
BY DEF BackupInit, BackupInv, NoWork, AlwaysAGoodBackup

\* The newest is not among the old ones.
LEMMA NewestStays ==
  ASSUME DOMAIN zips \subseteq Nat, NEW n \in DOMAIN zips, \A s \in DOMAIN zips : s <= n
  PROVE  n \notin OldBackups
<1>1. {r \in DOMAIN zips : r > n} = {}
  OBVIOUS
<1>2. Cardinality({r \in DOMAIN zips : r > n}) = 0
  BY <1>1, FS_EmptySet
<1> QED
  BY <1>2, BackupAssumption DEF OldBackups

LEMMA BackupInvStep == BackupInv /\ [BackupNext]_backupVars => BackupInv'
<1> SUFFICES ASSUME BackupInv, [BackupNext]_backupVars PROVE BackupInv'
  OBVIOUS
<1>1. CASE OpenZip
  <2>1. /\ zips' = [s \in DOMAIN zips \cup {second} |-> IF s = second THEN "broken" ELSE zips[s]]
        /\ overlaid' = (overlaid \/ second \in DOMAIN zips)
        /\ UNCHANGED <<second, everWhole>>
        /\ work' = [work EXCEPT !.at = "write", !.zip = second]
    BY <1>1 DEF OpenZip
  <2>2. work'.at \notin {"prune"} /\ (work'.at = "write" => work'.zip = second)
    BY <1>1, <2>1 DEF OpenZip
  <2>3. AlwaysAGoodBackup'
    BY <2>1 DEF AlwaysAGoodBackup, BackupInv
  <2> QED
    BY <2>1, <2>2, <2>3 DEF BackupInv
<1>2. CASE FinishZip
  <2>1. zips' = [zips EXCEPT ![work.zip] = "whole"] /\ work.zip \in DOMAIN zips
        /\ UNCHANGED <<second, overlaid>>
    BY <1>2 DEF FinishZip, BackupInv
  <2>2. work'.at \in {"prune", "idle"} /\ (work'.at = "prune" => work'.zip = work.zip)
    BY <1>2 DEF FinishZip, NoWork
  <2>3. DOMAIN zips' = DOMAIN zips /\ zips'[work.zip] = "whole"
    BY <2>1
  <2> QED
    BY <1>2, <2>1, <2>2, <2>3 DEF BackupInv, AlwaysAGoodBackup, FinishZip
<1>3. CASE PruneBackups
  <2>1. PICK stuck \in SUBSET OldBackups :
          zips' = Restrict(zips, (DOMAIN zips \ OldBackups) \cup stuck)
    BY <1>3 DEF PruneBackups
  <2>2. DOMAIN zips' \subseteq DOMAIN zips /\ \A s \in DOMAIN zips' : zips'[s] = zips[s]
    BY <2>1 DEF Restrict, OldBackups
  <2>3. work.zip \in DOMAIN zips' /\ zips[work.zip] = "whole"
    BY <1>3, <2>1, NewestStays DEF PruneBackups, BackupInv, Restrict
  <2>4. work'.at = "idle" /\ UNCHANGED second
    BY <1>3 DEF PruneBackups, NoWork
  <2>5. zips' = [s \in DOMAIN zips' |-> zips'[s]]
    BY <2>1 DEF Restrict
  <2>6. AlwaysAGoodBackup'
    BY <2>2, <2>3 DEF AlwaysAGoodBackup
  <2> QED
    BY <2>2, <2>4, <2>5, <2>6 DEF BackupInv
<1>4. CASE BackupFails
  <2>1. work'.at = "idle" /\ UNCHANGED <<second, everWhole, overlaid>>
    BY <1>4 DEF BackupFails, NoWork
  <2>2. /\ DOMAIN zips' = DOMAIN zips /\ zips' = [s \in DOMAIN zips' |-> zips'[s]]
        /\ \A s \in DOMAIN zips : zips[s] = "whole" => zips'[s] = "whole"
    BY <1>4 DEF BackupFails, BackupInv
  <2>3. AlwaysAGoodBackup'
    BY <2>1, <2>2 DEF AlwaysAGoodBackup, BackupInv
  <2> QED
    BY <2>1, <2>2, <2>3 DEF BackupInv
<1>5. CASE UNCHANGED <<zips, second, everWhole, overlaid>> /\ (work' = work \/ work'.at \notin {"write", "prune"})
  BY <1>5 DEF BackupInv, AlwaysAGoodBackup
<1>6. CASE ClockTicks
  BY <1>6 DEF ClockTicks, BackupInv, AlwaysAGoodBackup
<1>7. ASSUME NEW s \in DOMAIN zips, RestoreBackup(s) PROVE BackupInv'
  BY <1>5, <1>7 DEF RestoreBackup
<1>8. CASE AutomaticBackup \/ BackupNow \/ AppCrashes
  BY <1>5, <1>8 DEF AutomaticBackup, BackupNow, AppCrashes, NoWork
<1>9. CASE RestoreDatabase
  <2>1. PICK short \in BOOLEAN : work' = IF short THEN NoWork ELSE [work EXCEPT !.at = "database"]
    BY <1>9 DEF RestoreDatabase
  <2>2. work.at = "settings"
    BY <1>9 DEF RestoreDatabase
  <2>3. work' = work \/ work'.at \notin {"write", "prune"}
    BY <2>1, <2>2 DEF NoWork
  <2> QED
    BY <1>5, <1>9, <2>3 DEF RestoreDatabase
<1>11. CASE RestoreEnds \/ RestoreFails
  BY <1>5, <1>11 DEF RestoreEnds, RestoreFails, NoWork
<1>10. CASE StartApp \/ ResetSettings \/ RetryStartup \/ Quit \/ UNCHANGED backupVars
  BY <1>5, <1>10 DEF StartApp, ResetSettings, RetryStartup, Quit, backupVars
<1> QED
  BY <1>1, <1>2, <1>3, <1>4, <1>6, <1>7, <1>8, <1>9, <1>10, <1>11 DEF BackupNext

\* However many backups fail, pruning never deletes the last complete one
\* (backup_service.py, create_backup and prune_old_backups).
THEOREM GoodBackupStays == BackupSpec => []AlwaysAGoodBackup
<1>1. BackupInv => AlwaysAGoodBackup
  BY DEF BackupInv
<1> QED
  BY <1>1, BackupInvInit, BackupInvStep, PTL DEF BackupSpec

-----------------------------------------------------------------------------
(* PipelineThread: a video is handed over once. *)

\* The path in the hands of the worker thread, and what waits for it.
Paths == Names \cup {Sentinel}

\* The types; a path is in the hands of the worker while it calls, and no
\* longer; a video is under one name, and not reported before it came.
WatchInv ==
  /\ WatcherTypeOK
  /\ worker.path # Sentinel <=> worker.at = "calling"
  /\ watching = "STARTING" => worker.at = "off"
  /\ \A n \in Names : folder[n] <= arrived
  /\ \A n, m \in Names : folder[n] = folder[m] /\ folder[n] # 0 => n = m
  /\ \A v \in Videos : v > arrived => reports[v] = 0

\* A name whose file is there, and is the first of that name that the watcher
\* can know of, is handed over once: it is not known yet, or it is known and
\* waits once at most, or has been reported and waits no more.
HandedOnce(n) ==
  LET v == folder[n] IN
  /\ n \notin seen => reports[v] = 0 /\ worker.path # n /\ \A i \in DOMAIN candidates : candidates[i] # n
  /\ reports[v] > 0 => worker.path # n /\ \A i \in DOMAIN candidates : candidates[i] # n
  /\ worker.path = n => \A i \in DOMAIN candidates : candidates[i] # n
  /\ \A i, k \in DOMAIN candidates : candidates[i] = n /\ candidates[k] = n => i = k

OnceInv ==
  /\ WatchInv
  /\ \A n \in Names : folder[n] # 0 /\ folder[n] \notin reused => HandedOnce(n)
  /\ TwiceOnlyAfterReuse

LEMMA WatcherDomains ==
  ASSUME WatcherTypeOK
  PROVE  /\ folder \in [Names -> 0..MaxVideos] /\ arrived \in Nat /\ candidates \in Seq(Paths)
         /\ worker.path \in Paths /\ reports \in [Videos -> Nat] /\ Videos = 1..MaxVideos
         /\ MaxVideos \in Nat /\ Sentinel \notin Names
BY WatcherAssumption DEF WatcherTypeOK, Paths, Videos

\* The step of the discovery is one of the watcher, or changes nothing of it.
WatcherStep ==
  \/ \E n \in Names : Arrive(n) \/ Leave(n) \/ Deliver(n) \/ SweepVisit(n)
  \/ Seed \/ Observe \/ ObserveFails \/ StopWatcher
  \/ SweepBegin \/ SweepPrune \/ SweepFails \/ SweepEnd
  \/ WorkerCheck \/ WorkerGet \/ WorkerReport \/ WorkerRaises

LEMMA DiscoverySteps == [DiscoveryNext]_discoveryVars => WatcherStep \/ UNCHANGED watcherVars
BY DEF DiscoveryNext, ThreadStep, LoopStep, InWorker, InReconcile, FolderStep, WorkerStep, SweepStep,
       MakeLoop, RunLoop, StartWatcher, Started, Crash, StopPipeline, CloseLoop, SignalStop, AskToStop,
       StopReturns, WatcherStep, discoveryVars

\* A candidate more, unless the name has been seen.
LEMMA EnqueueFacts ==
  ASSUME WatcherTypeOK, NEW n \in Names, Enqueue(n)
  PROVE  /\ seen' = seen \cup {n} /\ candidates' \in Seq(Paths)
         /\ n \in seen => candidates' = candidates
         /\ n \notin seen => /\ DOMAIN candidates' = 1..(Len(candidates) + 1)
                             /\ candidates'[Len(candidates) + 1] = n
         /\ Len(candidates) \in Nat /\ DOMAIN candidates = 1..Len(candidates)
         /\ \A i \in DOMAIN candidates : i \in DOMAIN candidates' /\ candidates'[i] = candidates[i]
<1>1. candidates \in Seq(Paths) /\ n \in Paths /\ Len(candidates) \in Nat /\ DOMAIN candidates = 1..Len(candidates)
  BY WatcherDomains DEF Paths
<1>2. CASE n \in seen
  BY <1>1, <1>2 DEF Enqueue
<1>3. CASE n \notin seen
  <2>1. candidates' = Append(candidates, n) /\ seen' = seen \cup {n}
    BY <1>3 DEF Enqueue
  <2>2. /\ candidates' \in Seq(Paths) /\ Len(candidates') = Len(candidates) + 1
        /\ candidates'[Len(candidates) + 1] = n
        /\ \A i \in 1..Len(candidates) : candidates'[i] = candidates[i]
    BY <1>1, <2>1, AppendProperties
  <2>3. DOMAIN candidates' = 1..(Len(candidates) + 1)
    BY <2>2
  <2>4. \A i \in DOMAIN candidates : i \in DOMAIN candidates' /\ candidates'[i] = candidates[i]
    BY <1>1, <2>2, <2>3
  <2>5. seen' = seen \cup {n} /\ candidates' \in Seq(Paths)
    BY <2>1, <2>2
  <2> QED  BY <1>1, <1>3, <2>2, <2>3, <2>4, <2>5
<1> QED  BY <1>2, <1>3

LEMMA WatcherTypeStep == WatchInv /\ [DiscoveryNext]_discoveryVars => WatcherTypeOK'
<1> SUFFICES ASSUME WatchInv, WatcherStep \/ UNCHANGED watcherVars PROVE WatcherTypeOK'
  BY DiscoverySteps
<1> USE WatcherAssumption DEF Videos
<1>0. WatcherTypeOK
  BY DEF WatchInv
<1>1. ASSUME NEW n \in Names, Arrive(n) PROVE WatcherTypeOK'
  <2>1. arrived + 1 \in 1..MaxVideos
    BY <1>0, <1>1 DEF Arrive, WatcherTypeOK
  <2>2. folder' \in [Names -> 0..MaxVideos]
    BY <1>0, <1>1, <2>1 DEF Arrive, WatcherTypeOK
  <2> QED  BY <1>0, <1>1, <2>1, <2>2 DEF Arrive, WatcherTypeOK, threads, ghosts
<1>2. ASSUME NEW n \in Names, Leave(n) PROVE WatcherTypeOK'
  <2>1. folder' \in [Names -> 0..MaxVideos]
    BY <1>0, <1>2 DEF Leave, WatcherTypeOK
  <2> QED  BY <1>0, <1>2, <2>1 DEF Leave, WatcherTypeOK, threads, ghosts
<1>3. ASSUME NEW n \in Names, Deliver(n) PROVE WatcherTypeOK'
  BY <1>0, <1>3, EnqueueFacts DEF Deliver, WatcherTypeOK, disk, threads, ghosts, Paths
<1>4. ASSUME NEW n \in Names, SweepVisit(n) PROVE WatcherTypeOK'
  <2>1. sweep' \in [at : {"off", "waiting", "visiting"}, left : SUBSET Names]
    BY <1>0, <1>4 DEF SweepVisit, WatcherTypeOK
  <2>2. seen' \subseteq Names /\ candidates' \in Seq(Names \cup {Sentinel})
    BY <1>0, <1>4, EnqueueFacts DEF SweepVisit, WatcherTypeOK, Paths
  <2> QED  BY <1>0, <1>4, <2>1, <2>2 DEF SweepVisit, WatcherTypeOK, disk, ghosts
<1>5. CASE Seed
  BY <1>0, <1>5 DEF Seed, WatcherTypeOK, disk, threads, ghosts, Present
<1>6. CASE Observe
  <2>1. /\ worker' \in [at : {"off", "checking", "getting", "calling"}, path : Names \cup {Sentinel}]
        /\ sweep' \in [at : {"off", "waiting", "visiting"}, left : SUBSET Names]
    BY <1>0, <1>6 DEF Observe, WatcherTypeOK
  <2> QED  BY <1>0, <1>6, <2>1 DEF Observe, WatcherTypeOK, disk, ghosts
<1>7. CASE ObserveFails
  BY <1>0, <1>7 DEF ObserveFails, WatcherTypeOK, disk, threads, ghosts
<1>8. CASE StopWatcher
  <2>1. candidates' \in Seq(Names \cup {Sentinel})
    BY <1>0, <1>8, AppendProperties DEF StopWatcher, WatcherTypeOK
  <2> QED  BY <1>0, <1>8, <2>1 DEF StopWatcher, WatcherTypeOK, disk, threads, ghosts
<1>9. CASE SweepBegin \/ SweepPrune \/ SweepFails \/ SweepEnd
  <2>1. sweep' \in [at : {"off", "waiting", "visiting"}, left : SUBSET Names]
    BY <1>0, <1>9 DEF SweepBegin, SweepPrune, SweepFails, SweepEnd, WatcherTypeOK, Present
  <2>2. folderFaults' \in 0..MaxFolderFaults
    BY <1>0, <1>9 DEF SweepBegin, SweepPrune, SweepFails, SweepEnd, WatcherTypeOK
  <2> QED  BY <1>0, <1>9, <2>1, <2>2 DEF SweepBegin, SweepPrune, SweepFails, SweepEnd, WatcherTypeOK, disk, ghosts
<1>10. CASE WorkerCheck
  <2>1. worker' \in [at : {"off", "checking", "getting", "calling"}, path : Names \cup {Sentinel}]
    BY <1>0, <1>10 DEF WorkerCheck, WatcherTypeOK
  <2> QED  BY <1>0, <1>10, <2>1 DEF WorkerCheck, WatcherTypeOK, disk, ghosts
<1>11. CASE WorkerGet
  <2>1. Head(candidates) \in Names \cup {Sentinel} /\ candidates' \in Seq(Names \cup {Sentinel})
    BY <1>0, <1>11, HeadTailProperties DEF WorkerGet, WatcherTypeOK
  <2>2. worker' \in [at : {"off", "checking", "getting", "calling"}, path : Names \cup {Sentinel}]
    BY <1>0, <1>11, <2>1 DEF WorkerGet, WatcherTypeOK
  <2> QED  BY <1>0, <1>11, <2>1, <2>2 DEF WorkerGet, WatcherTypeOK, disk
<1>12. CASE WorkerReport \/ WorkerRaises
  <2>1. worker.path \in Names
    BY <1>0, <1>12, WatcherDomains DEF WorkerReport, WorkerRaises, WatchInv, Paths
  <2> DEFINE v == folder[worker.path]
  <2>2. v \in 0..MaxVideos
    BY <1>0, <2>1 DEF WatcherTypeOK
  <2> HIDE DEF v
  <2>3. /\ worker' \in [at : {"off", "checking", "getting", "calling"}, path : Names \cup {Sentinel}]
        /\ WorkerReport => reports' = IF v = 0 THEN reports ELSE [reports EXCEPT ![v] = @ + 1]
        /\ WorkerReport => dropped' = dropped /\ folderFaults' = folderFaults
        /\ WorkerRaises => /\ dropped' = dropped \cup ({v} \ {0}) /\ reports' = reports
                           /\ folderFaults < MaxFolderFaults /\ folderFaults' = folderFaults + 1
    BY <1>0, <1>12 DEF WorkerReport, WorkerRaises, Done, WatcherTypeOK, v
  <2>4. reports' \in [1..MaxVideos -> Nat]
    <3>1. reports \in [1..MaxVideos -> Nat]
      BY <1>0 DEF WatcherTypeOK
    <3>2. CASE v \in 1..MaxVideos /\ reports' = [reports EXCEPT ![v] = @ + 1]
      <4>1. reports[v] + 1 \in Nat
        BY <3>1, <3>2
      <4> QED  BY <3>1, <3>2, <4>1
    <3> QED  BY <1>12, <2>2, <2>3, <3>1, <3>2
  <2>5. dropped' \subseteq 1..MaxVideos /\ folderFaults' \in 0..MaxFolderFaults
    <3>1. dropped \subseteq 1..MaxVideos /\ folderFaults \in 0..MaxFolderFaults
      BY <1>0 DEF WatcherTypeOK
    <3>2. {v} \ {0} \subseteq 1..MaxVideos
      BY <2>2
    <3>3. CASE WorkerReport
      BY <2>3, <3>1, <3>3
    <3>4. CASE WorkerRaises
      <4>1. dropped' = dropped \cup ({v} \ {0}) /\ folderFaults < MaxFolderFaults /\ folderFaults' = folderFaults + 1
        BY <2>3, <3>4
      <4>2. dropped' \subseteq 1..MaxVideos
        BY <3>1, <3>2, <4>1
      <4>3. folderFaults' \in 0..MaxFolderFaults
        BY <3>1, <4>1
      <4> QED  BY <4>2, <4>3
    <3> QED  BY <1>12, <3>3, <3>4
  <2> QED  BY <1>0, <1>12, <2>3, <2>4, <2>5 DEF WorkerReport, WorkerRaises, WatcherTypeOK, disk
<1>13. CASE UNCHANGED watcherVars
  BY <1>0, <1>13 DEF WatcherTypeOK, watcherVars, disk, threads, ghosts
<1> QED  BY <1>1, <1>2, <1>3, <1>4, <1>5, <1>6, <1>7, <1>8, <1>9, <1>10, <1>11, <1>12, <1>13 DEF WatcherStep

LEMMA WatchInvStep == WatchInv /\ [DiscoveryNext]_discoveryVars => WatchInv'
<1> SUFFICES ASSUME WatchInv, [DiscoveryNext]_discoveryVars PROVE WatchInv'
  OBVIOUS
<1>0. /\ WatcherStep \/ UNCHANGED watcherVars
      /\ WatcherTypeOK /\ WatcherTypeOK'
  BY DiscoverySteps, WatcherTypeStep DEF WatchInv
<1>1. \/ worker' = worker
      \/ worker'.path = worker.path /\ worker'.at # "calling" /\ worker.at # "calling"
      \/ worker'.at = "calling" /\ worker'.path # Sentinel
      \/ worker' = [at |-> "checking", path |-> Sentinel]
  <2> DEFINE Goal == \/ worker' = worker
                     \/ worker'.path = worker.path /\ worker'.at # "calling" /\ worker.at # "calling"
                     \/ worker'.at = "calling" /\ worker'.path # Sentinel
                     \/ worker' = [at |-> "checking", path |-> Sentinel]
  <2>0. worker \in [at : {"off", "checking", "getting", "calling"}, path : Names \cup {Sentinel}]
    BY <1>0 DEF WatcherTypeOK
  <2>1. CASE worker' = worker
    BY <2>1
  <2>2. CASE Observe
    BY <2>0, <2>2 DEF Observe, WatchInv
  <2>3. CASE WorkerCheck
    BY <2>0, <2>3 DEF WorkerCheck
  <2>4. CASE WorkerGet
    <3>1. CASE Head(candidates) = Sentinel
      BY <2>0, <2>4, <3>1 DEF WorkerGet
    <3>2. CASE Head(candidates) # Sentinel
      BY <2>4, <3>2 DEF WorkerGet
    <3> QED  BY <3>1, <3>2
  <2>5. CASE WorkerReport \/ WorkerRaises
    BY <2>5 DEF WorkerReport, WorkerRaises, Done
  <2> HIDE DEF Goal
  <2>6. worker' = worker \/ Observe \/ WorkerCheck \/ WorkerGet \/ WorkerReport \/ WorkerRaises
    BY <1>0 DEF WatcherStep, Arrive, Leave, Deliver, SweepVisit, Seed, ObserveFails, StopWatcher, SweepBegin,
                SweepPrune, SweepFails, SweepEnd, watcherVars, threads
  <2> QED  BY <2>1, <2>2, <2>3, <2>4, <2>5, <2>6 DEF Goal
<1>2. worker'.path # Sentinel <=> worker'.at = "calling"
  BY <1>1 DEF WatchInv
<1>3. watching' = "STARTING" => worker'.at = "off"
  BY <1>0 DEF WatchInv, WatcherStep, Arrive, Leave, Deliver, SweepVisit, Seed, Observe, ObserveFails,
              StopWatcher, SweepBegin, SweepPrune, SweepFails, SweepEnd, WorkerCheck, WorkerGet,
              WorkerReport, WorkerRaises, watcherVars, threads, disk
<1>4. /\ \A n \in Names : folder'[n] <= arrived'
      /\ \A n, m \in Names : folder'[n] = folder'[m] /\ folder'[n] # 0 => n = m
  <2>0. /\ folder \in [Names -> 0..MaxVideos] /\ arrived \in Nat /\ MaxVideos \in Nat
        /\ \A n \in Names : folder[n] <= arrived
        /\ \A n, m \in Names : folder[n] = folder[m] /\ folder[n] # 0 => n = m
    BY <1>0, WatcherDomains DEF WatchInv
  <2>1. ASSUME NEW n \in Names, Arrive(n)
        PROVE  folder' = [folder EXCEPT ![n] = arrived + 1] /\ arrived' = arrived + 1
    BY <2>1 DEF Arrive
  <2>2. ASSUME NEW n \in Names, Leave(n)
        PROVE  folder' = [folder EXCEPT ![n] = 0] /\ arrived' = arrived
    BY <2>2 DEF Leave
  <2>3. \/ \E n \in Names : Arrive(n) \/ Leave(n)
        \/ folder' = folder /\ arrived' = arrived
    BY <1>0 DEF WatcherStep, Deliver, SweepVisit, Seed, Observe, ObserveFails, StopWatcher, SweepBegin,
                SweepPrune, SweepFails, SweepEnd, WorkerCheck, WorkerGet, WorkerReport, WorkerRaises,
                watcherVars, disk
  <2> QED  BY <2>0, <2>1, <2>2, <2>3
<1>5. \A v \in Videos : v > arrived' => reports'[v] = 0
  <2>0. /\ folder \in [Names -> 0..MaxVideos] /\ arrived \in Nat /\ MaxVideos \in Nat
        /\ \A n \in Names : folder[n] <= arrived
        /\ \A v \in Videos : v > arrived => reports[v] = 0
        /\ reports \in [Videos -> Nat] /\ Videos = 1..MaxVideos
    BY <1>0, WatcherDomains DEF WatchInv
  <2>1. CASE WorkerReport
    <3>1. worker.path \in Names
      BY <1>0, <2>1, WatcherDomains DEF WorkerReport, WatchInv, Paths
    <3> DEFINE w == folder[worker.path]
    <3>2. w \in 0..MaxVideos /\ w <= arrived
      BY <2>0, <3>1
    <3>3. arrived' = arrived /\ reports' = IF w = 0 THEN reports ELSE [reports EXCEPT ![w] = @ + 1]
      BY <2>1 DEF WorkerReport, disk
    <3> HIDE DEF w
    <3> QED  BY <2>0, <3>2, <3>3
  <2>2. CASE \E n \in Names : Arrive(n)
    BY <2>0, <2>2 DEF Arrive, ghosts
  <2>3. ~WorkerReport => reports' = reports
    BY <1>0 DEF WatcherStep, Arrive, Leave, Deliver, SweepVisit, Seed, Observe, ObserveFails, StopWatcher,
                SweepBegin, SweepPrune, SweepFails, SweepEnd, WorkerCheck, WorkerGet, WorkerRaises,
                watcherVars, ghosts
  <2>4. (\A n \in Names : ~Arrive(n)) => arrived' = arrived
    BY <1>0 DEF WatcherStep, Leave, Deliver, SweepVisit, Seed, Observe, ObserveFails, StopWatcher,
                SweepBegin, SweepPrune, SweepFails, SweepEnd, WorkerCheck, WorkerGet, WorkerReport,
                WorkerRaises, watcherVars, disk
  <2> QED  BY <2>0, <2>1, <2>2, <2>3, <2>4
<1> QED  BY <1>0, <1>2, <1>3, <1>4, <1>5 DEF WatchInv

\* Where nothing new waits for a name it stays handed once.
LEMMA OnceStays ==
  ASSUME NEW n \in Names, HandedOnce(n), folder'[n] = folder[n], reports'[folder[n]] = reports[folder[n]],
         n \in seen => n \in seen',
         worker'.path = worker.path \/ worker'.path # n,
         \A i \in DOMAIN candidates' :
            candidates'[i] = n => i \in DOMAIN candidates /\ candidates[i] = n
  PROVE  HandedOnce(n)'
BY DEF HandedOnce

LEMMA OnceArrive ==
  ASSUME OnceInv, NEW m \in Names, Arrive(m), NEW n \in Names, folder'[n] # 0, folder'[n] \notin reused'
  PROVE  HandedOnce(n)'
<1>0. /\ folder \in [Names -> 0..MaxVideos] /\ arrived < MaxVideos /\ arrived \in Nat
      /\ Videos = 1..MaxVideos /\ MaxVideos \in Nat
      /\ \A v \in Videos : v > arrived => reports[v] = 0
  BY WatcherDomains DEF OnceInv, WatchInv, Arrive
<1>1. /\ folder' = [folder EXCEPT ![m] = arrived + 1] /\ reports' = reports /\ seen' = seen
      /\ candidates' = candidates /\ worker' = worker
      /\ reused' = IF m \in seen \cup events \cup ToSet(candidates) \/ worker.path = m
                   THEN reused \cup {arrived + 1} ELSE reused
  BY DEF Arrive, ghosts, threads
<1>2. CASE n # m
  <2>1. folder'[n] = folder[n] /\ folder[n] \notin reused /\ HandedOnce(n)
    BY <1>0, <1>1, <1>2 DEF OnceInv
  <2> QED  BY <1>1, <2>1, OnceStays
<1>3. CASE n = m
  <2>1. folder'[n] = arrived + 1 /\ arrived + 1 \notin reused'
    BY <1>0, <1>1, <1>3
  <2>2. n \notin seen /\ n \notin ToSet(candidates) /\ worker.path # n
    BY <1>1, <1>3, <2>1
  <2>3. \A i \in DOMAIN candidates : candidates[i] # n
    BY <2>2 DEF ToSet
  <2>4. arrived + 1 \in Videos /\ arrived + 1 > arrived
    BY <1>0
  <2>5. reports'[arrived + 1] = 0
    BY <1>0, <1>1, <2>4
  <2> QED  BY <1>1, <2>1, <2>2, <2>3, <2>5 DEF HandedOnce
<1> QED  BY <1>2, <1>3

LEMMA OnceEnqueue ==
  ASSUME WatcherTypeOK, NEW m \in Names, Enqueue(m), folder' = folder, reports' = reports, worker' = worker,
         NEW n \in Names, HandedOnce(n)
  PROVE  HandedOnce(n)'
<1>1. CASE n = m /\ n \notin seen
  <2>1. /\ DOMAIN candidates' = 1..(Len(candidates) + 1) /\ seen' = seen \cup {n} /\ Len(candidates) \in Nat
        /\ DOMAIN candidates = 1..Len(candidates)
        /\ \A i \in DOMAIN candidates : candidates'[i] = candidates[i]
    BY <1>1, EnqueueFacts
  <2>2. reports[folder[n]] = 0 /\ worker.path # n /\ \A i \in DOMAIN candidates : candidates[i] # n
    BY <1>1 DEF HandedOnce
  <2>3. \A i \in DOMAIN candidates' : candidates'[i] = n => i = Len(candidates) + 1
    BY <2>1, <2>2
  <2> QED  BY <2>1, <2>2, <2>3 DEF HandedOnce
<1>2. CASE n # m \/ n \in seen
  <2>1. \A i \in DOMAIN candidates' : candidates'[i] = n => i \in DOMAIN candidates /\ candidates[i] = n
    BY <1>2, EnqueueFacts
  <2>2. n \in seen => n \in seen'
    BY EnqueueFacts
  <2> QED  BY <2>1, <2>2, OnceStays
<1> QED  BY <1>1, <1>2

LEMMA OnceGet ==
  ASSUME WatcherTypeOK, WorkerGet, worker.path = Sentinel, NEW n \in Names, folder[n] # 0, HandedOnce(n)
  PROVE  HandedOnce(n)'
<1>0. /\ candidates \in Seq(Paths) /\ candidates # <<>> /\ Len(candidates) \in Nat /\ Len(candidates) > 0
      /\ DOMAIN candidates = 1..Len(candidates) /\ n # Sentinel
  BY WatcherDomains, EmptySeq DEF WorkerGet
<1>1. /\ candidates' = Tail(candidates) /\ folder' = folder /\ reports' = reports /\ seen' = seen
      /\ Head(candidates) = candidates[1]
      /\ worker'.path = n => Head(candidates) = n
  BY <1>0 DEF WorkerGet, disk
<1>2. /\ DOMAIN candidates' = 1..(Len(candidates) - 1)
      /\ \A i \in DOMAIN candidates' : candidates'[i] = candidates[i + 1] /\ i + 1 \in DOMAIN candidates
  BY <1>0, <1>1
<1>3. CASE candidates[1] = n
  <2>0. folder[n] \in Videos /\ reports[folder[n]] \in Nat /\ 1 \in DOMAIN candidates
    BY <1>0, WatcherDomains
  <2>1. n \in seen /\ reports[folder[n]] = 0
    BY <1>3, <2>0 DEF HandedOnce
  <2>2. \A i \in DOMAIN candidates' : candidates'[i] # n
    <3> SUFFICES ASSUME NEW i \in DOMAIN candidates', candidates'[i] = n PROVE FALSE
      OBVIOUS
    <3>1. candidates[i + 1] = n /\ i + 1 \in DOMAIN candidates /\ 1 \in DOMAIN candidates /\ i + 1 # 1
      BY <1>0, <1>2
    <3> QED  BY <1>3, <3>1 DEF HandedOnce
  <2> QED  BY <1>1, <2>1, <2>2 DEF HandedOnce
<1>4. CASE candidates[1] # n
  <2>1. worker'.path # n
    BY <1>1, <1>4
  <2>2. \A i, k \in DOMAIN candidates' : candidates'[i] = n /\ candidates'[k] = n => i = k
    <3> SUFFICES ASSUME NEW i \in DOMAIN candidates', NEW k \in DOMAIN candidates',
                        candidates'[i] = n, candidates'[k] = n
                 PROVE  i = k
      OBVIOUS
    <3>1. i + 1 = k + 1
      BY <1>2 DEF HandedOnce
    <3> QED  BY <1>0, <1>2, <3>1
  <2> QED  BY <1>1, <1>2, <2>1, <2>2 DEF HandedOnce
<1> QED  BY <1>3, <1>4

\* The report of a name that was not known before it came is the only one of its video.
LEMMA OnceReport ==
  ASSUME OnceInv, WorkerReport
  PROVE  /\ \A n \in Names : folder[n] # 0 /\ folder[n] \notin reused => HandedOnce(n)'
         /\ TwiceOnlyAfterReuse'
<1>0. /\ folder \in [Names -> 0..MaxVideos] /\ Videos = 1..MaxVideos /\ MaxVideos \in Nat
      /\ reports \in [Videos -> Nat] /\ worker.path \in Names
      /\ \A n, m \in Names : folder[n] = folder[m] /\ folder[n] # 0 => n = m
  BY WatcherDomains DEF OnceInv, WatchInv, WorkerReport, Paths
<1> DEFINE w == folder[worker.path]
<1>1. /\ folder' = folder /\ reused' = reused /\ seen' = seen /\ candidates' = candidates
      /\ worker'.path = Sentinel /\ reports' = IF w = 0 THEN reports ELSE [reports EXCEPT ![w] = @ + 1]
  BY DEF WorkerReport, Done, disk
<1>2. w # 0 => w \in Videos
  BY <1>0
<1>3. w # 0 /\ w \notin reused =>
         worker.path \in seen /\ reports[w] = 0 /\ \A i \in DOMAIN candidates : candidates[i] # worker.path
  <2> SUFFICES ASSUME w # 0, w \notin reused
               PROVE  /\ worker.path \in seen /\ reports[w] = 0
                      /\ \A i \in DOMAIN candidates : candidates[i] # worker.path
    OBVIOUS
  <2>1. HandedOnce(worker.path) /\ reports[w] \in Nat
    BY <1>0, <1>2 DEF OnceInv
  <2> QED  BY <2>1 DEF HandedOnce
<1>4. ASSUME NEW n \in Names, folder[n] # 0, folder[n] \notin reused
      PROVE  HandedOnce(n)'
  <2>1. CASE n = worker.path
    <3>1. reports'[w] = 1 /\ n # Sentinel
      BY <1>0, <1>1, <1>2, <1>3, <1>4, <2>1, WatcherDomains DEF OnceInv, WatchInv
    <3> QED  BY <1>1, <1>3, <1>4, <2>1, <3>1 DEF HandedOnce
  <2>2. CASE n # worker.path
    <3>1. folder[n] # w /\ folder[n] \in Videos
      BY <1>0, <1>4, <2>2
    <3>2. reports'[folder[n]] = reports[folder[n]]
      BY <1>0, <1>1, <1>2, <3>1
    <3>3. HandedOnce(n) /\ n # Sentinel
      BY <1>4, WatcherDomains DEF OnceInv, WatchInv
    <3> HIDE DEF w
    <3> QED  BY <1>1, <3>2, <3>3, OnceStays
  <2> QED  BY <2>1, <2>2
<1>5. TwiceOnlyAfterReuse'
  <2> SUFFICES ASSUME NEW v \in Videos, reports'[v] > 1, v \notin reused PROVE FALSE
    BY <1>1 DEF TwiceOnlyAfterReuse, Videos
  <2>1. reports[v] \in Nat /\ ~(reports[v] > 1)
    BY <1>0 DEF OnceInv, TwiceOnlyAfterReuse
  <2>2. w = v
    <3> HIDE DEF w
    <3> QED  BY <1>0, <1>1, <1>2, <2>1
  <2>3. reports'[v] = 1
    BY <1>0, <1>1, <1>2, <1>3, <2>2
  <2> QED  BY <2>3
<1> HIDE DEF w
<1> QED  BY <1>4, <1>5

LEMMA OnceInvStep == OnceInv /\ [DiscoveryNext]_discoveryVars => OnceInv'
<1> SUFFICES ASSUME OnceInv, [DiscoveryNext]_discoveryVars PROVE OnceInv'
  OBVIOUS
<1>0. /\ WatcherStep \/ UNCHANGED watcherVars
      /\ WatchInv /\ WatchInv' /\ WatcherTypeOK
  BY DiscoverySteps, WatchInvStep DEF OnceInv, WatchInv
<1> DEFINE All == \A n \in Names : folder[n] # 0 /\ folder[n] \notin reused => HandedOnce(n)
<1> SUFFICES All' /\ TwiceOnlyAfterReuse'
  BY <1>0 DEF OnceInv
<1>1. CASE \E m \in Names : Arrive(m)
  <2>1. PICK m \in Names : Arrive(m)
    BY <1>1
  <2>2. All'
    BY <2>1, OnceArrive
  <2>3. reports' = reports /\ (reused' = reused \/ reused' = reused \cup {arrived + 1})
    BY <2>1 DEF Arrive, ghosts
  <2>4. TwiceOnlyAfterReuse'
    BY <2>3 DEF OnceInv, TwiceOnlyAfterReuse, Videos
  <2> QED  BY <2>2, <2>4
<1>2. CASE WorkerReport
  <2>1. folder' = folder /\ reused' = reused
    BY <1>2 DEF WorkerReport, disk
  <2> QED  BY <1>2, <2>1, OnceReport
<1>3. CASE ~WorkerReport /\ ~\E m \in Names : Arrive(m)
  <2>1. reports' = reports /\ reused' = reused
    BY <1>0, <1>3 DEF WatcherStep, Leave, Deliver, SweepVisit, Seed, Observe, ObserveFails, StopWatcher,
                SweepBegin, SweepPrune, SweepFails, SweepEnd, WorkerCheck, WorkerGet, WorkerRaises,
                watcherVars, ghosts, disk
  <2>2. TwiceOnlyAfterReuse'
    BY <2>1 DEF OnceInv, TwiceOnlyAfterReuse, Videos
  <2>3. ASSUME NEW n \in Names, folder'[n] # 0, folder'[n] \notin reused' PROVE HandedOnce(n)'
    <3>1. folder'[n] = folder[n]
      <4>1. CASE \E m \in Names : Leave(m)
        <5>1. PICK m \in Names : folder' = [folder EXCEPT ![m] = 0]
          BY <4>1 DEF Leave
        <5> QED  BY <2>3, <5>1, <1>0, WatcherDomains
      <4>2. CASE ~\E m \in Names : Leave(m)
        BY <1>0, <1>3, <4>2 DEF WatcherStep, Deliver, SweepVisit, Seed, Observe, ObserveFails, StopWatcher,
                SweepBegin, SweepPrune, SweepFails, SweepEnd, WorkerCheck, WorkerGet, WorkerRaises,
                watcherVars, disk
      <4> QED  BY <4>1, <4>2
    <3>2. HandedOnce(n) /\ folder[n] # 0 /\ n \in Present /\ n # Sentinel
      BY <1>0, <2>1, <2>3, <3>1, WatcherDomains DEF OnceInv, Present
    <3>3. CASE \E m \in Names : Deliver(m) \/ SweepVisit(m)
      <4>1. PICK m \in Names : Deliver(m) \/ SweepVisit(m)
        BY <3>3
      <4>2. /\ folder' = folder /\ worker' = worker
            /\ Enqueue(m) \/ UNCHANGED <<seen, candidates>>
        BY <4>1 DEF Deliver, SweepVisit, disk, threads
      <4>3. CASE Enqueue(m)
        BY <1>0, <2>1, <3>2, <4>2, <4>3, OnceEnqueue
      <4>4. CASE UNCHANGED <<seen, candidates>>
        BY <2>1, <3>1, <3>2, <4>2, <4>4, OnceStays
      <4> QED  BY <4>2, <4>3, <4>4
    <3>4. CASE StopWatcher
      <4>1. /\ candidates' = Append(candidates, Sentinel) /\ seen' = seen /\ worker' = worker
            /\ candidates \in Seq(Paths) /\ Sentinel \in Paths
        BY <1>0, <3>4, WatcherDomains DEF StopWatcher, threads, Paths
      <4>2. /\ Len(candidates') = Len(candidates) + 1 /\ candidates'[Len(candidates) + 1] = Sentinel
            /\ \A i \in 1..Len(candidates) : candidates'[i] = candidates[i]
            /\ candidates' \in Seq(Paths)
        BY <4>1, AppendProperties
      <4>3. \A i \in DOMAIN candidates' : candidates'[i] = n => i \in DOMAIN candidates /\ candidates[i] = n
        BY <3>2, <4>1, <4>2
      <4> QED  BY <2>1, <3>1, <3>2, <4>1, <4>3, OnceStays
    <3>5. CASE WorkerGet
      <4>1. worker.path = Sentinel
        BY <1>0, <3>5 DEF WorkerGet, WatchInv
      <4> QED  BY <1>0, <3>2, <3>5, <4>1, OnceGet
    <3>6. CASE ~WorkerGet /\ ~StopWatcher /\ ~\E m \in Names : Deliver(m) \/ SweepVisit(m)
      <4>1. candidates' = candidates
        BY <1>0, <1>3, <3>6 DEF WatcherStep, Leave, Seed, Observe, ObserveFails,
                SweepBegin, SweepPrune, SweepFails, SweepEnd, WorkerCheck, WorkerRaises, watcherVars
      <4>2. n \in seen => n \in seen'
        BY <1>0, <1>3, <3>2, <3>6 DEF WatcherStep, Leave, Seed, Observe, ObserveFails,
                SweepBegin, SweepPrune, SweepFails, SweepEnd, WorkerCheck, WorkerRaises, watcherVars
      <4>3. worker'.path = worker.path \/ worker'.path = Sentinel
        <5>1. CASE Observe \/ WorkerCheck
          BY <1>0, <5>1 DEF Observe, WorkerCheck, WatcherTypeOK
        <5>2. CASE WorkerRaises
          BY <5>2 DEF WorkerRaises, Done
        <5>3. CASE ~Observe /\ ~WorkerCheck /\ ~WorkerRaises
          BY <1>0, <1>3, <3>6, <5>3 DEF WatcherStep, Leave, Seed, ObserveFails,
                SweepBegin, SweepPrune, SweepFails, SweepEnd, watcherVars, threads
        <5> QED  BY <5>1, <5>2, <5>3
      <4> QED  BY <2>1, <3>1, <3>2, <4>1, <4>2, <4>3, OnceStays
    <3> QED  BY <3>3, <3>4, <3>5, <3>6
  <2> QED  BY <2>2, <2>3
<1> QED  BY <1>1, <1>2, <1>3

LEMMA OnceInvInit == DiscoveryInit => OnceInv
<1> SUFFICES ASSUME DiscoveryInit PROVE OnceInv
  OBVIOUS
<1>0. WatcherInit
  BY DEF DiscoveryInit
<1>1. WatcherTypeOK
  <2>1. folder \in [Names -> 0..MaxVideos] /\ reports \in [Videos -> Nat] /\ 0 \in 0..MaxFolderFaults
    BY <1>0, WatcherAssumption DEF WatcherInit, Videos
  <2>2. worker \in [at : {"off", "checking", "getting", "calling"}, path : Names \cup {Sentinel}]
    BY <1>0 DEF WatcherInit
  <2>3. sweep \in [at : {"off", "waiting", "visiting"}, left : SUBSET Names]
    BY <1>0 DEF WatcherInit
  <2>4. candidates \in Seq(Names \cup {Sentinel}) /\ arrived \in 0..MaxVideos
    BY <1>0, WatcherAssumption DEF WatcherInit
  <2> QED  BY <1>0, <2>1, <2>2, <2>3, <2>4 DEF WatcherInit, WatcherTypeOK
<1>2. WatchInv
  BY <1>0, <1>1, WatcherDomains DEF WatchInv, WatcherInit
<1>3. \A n \in Names : folder[n] = 0
  BY <1>0 DEF WatcherInit
<1>4. TwiceOnlyAfterReuse
  BY <1>0 DEF WatcherInit, TwiceOnlyAfterReuse
<1> QED  BY <1>2, <1>3, <1>4 DEF OnceInv

\* A video is handed to the pipeline twice only if its name had been used before
\* (FolderWatcher._enqueue, _reconcile_loop, _prune_seen, _process_queue), whatever
\* events are dropped or late, whatever sweeps fail, for any folder.
THEOREM HandedOnceEach == DiscoverySpec => []TwiceOnlyAfterReuse
<1>1. OnceInv => TwiceOnlyAfterReuse
  BY DEF OnceInv
<1> QED  BY <1>1, OnceInvInit, OnceInvStep, PTL DEF DiscoverySpec

-----------------------------------------------------------------------------
(* SheetRows: the types and the calls under way. *)

UpsertSteps == {"idle", "read", "prime", "look", "write", "append"}
UpsertCalls == [at : UpsertSteps, file : SheetFiles \cup {"none"}, row : Nat, heard : [SheetFiles -> Nat]]

\* A call works on a file of its installation that no other thread of it works
\* on, and looks a file up in a cache that has been filled.
SheetInv ==
  /\ SheetTypeOK
  /\ \A s \in Writers : upsert[s].at # "idle" => upsert[s].file \in FilesOf[ClientOf[s]]
  /\ \A s, t \in Writers :
        s # t /\ ClientOf[s] = ClientOf[t] /\ upsert[s].at # "idle" /\ upsert[t].at # "idle"
          => upsert[s].file # upsert[t].file
  /\ \A s \in Writers : upsert[s].at \in {"look", "write", "append"} => primed[ClientOf[s]]

LEMMA UpsertValues == EmptyCache \in [SheetFiles -> Nat] /\ NoUpsert \in UpsertCalls /\ NoUpsert.at = "idle"
BY DEF EmptyCache, NoUpsert, UpsertCalls, UpsertSteps

LEMMA SheetDomains ==
  ASSUME SheetTypeOK
  PROVE  /\ sheetRows \in Seq(SheetFiles) /\ upsert \in [Writers -> UpsertCalls]
         /\ rowCache \in [Clients -> [SheetFiles -> Nat]] /\ primed \in [Clients -> BOOLEAN]
         /\ unanswered \in [SheetFiles -> Nat]
         /\ upserts \in Nat /\ sheetFaults \in Nat /\ edits \in Nat
         /\ ClientOf \in [Writers -> Clients] /\ FilesOf \in [Clients -> SUBSET SheetFiles]
BY SheetAssumption DEF SheetTypeOK, UpsertCalls, UpsertSteps

\* The rows of a file are some of the rows there are.
LEMMA RowsOfFile ==
  ASSUME SheetTypeOK, NEW f
  PROVE  /\ RowsOf(f) \subseteq 1..Len(sheetRows) /\ RowsOf(f) \in SUBSET Int
         /\ IsFiniteSet(RowsOf(f)) /\ Cardinality(RowsOf(f)) \in Nat
<1>1. Len(sheetRows) \in Nat /\ DOMAIN sheetRows = 1..Len(sheetRows)
  BY SheetDomains
<1>2. RowsOf(f) \subseteq 1..Len(sheetRows)
  BY <1>1 DEF RowsOf
<1>3. IsFiniteSet(1..Len(sheetRows))
  BY <1>1, FS_Interval
<1> QED  BY <1>2, <1>3, FS_Subset, FS_CardinalityType

\* What the column says of a file.
LEMMA ColumnRead ==
  ASSUME SheetTypeOK, NEW s \in Writers, ReadColumn(s)
  PROVE  /\ upsert' \in [Writers -> UpsertCalls]
         /\ \A t \in Writers \ {s} : upsert'[t] = upsert[t]
         /\ upsert'[s].at = "prime" /\ upsert'[s].file = upsert[s].file
         /\ \A f \in SheetFiles : IF RowsOf(f) = {} THEN upsert'[s].heard[f] = 0
                                  ELSE upsert'[s].heard[f] \in RowsOf(f)
<1> DEFINE h == [f \in SheetFiles |-> IF RowsOf(f) = {} THEN 0
                   ELSE CHOOSE r \in RowsOf(f) : \A q \in RowsOf(f) : q <= r]
<1>1. ASSUME NEW f \in SheetFiles
      PROVE  /\ h[f] \in Nat
             /\ IF RowsOf(f) = {} THEN h[f] = 0 ELSE h[f] \in RowsOf(f)
  <2>1. CASE RowsOf(f) # {}
    <3>1. \E r \in RowsOf(f) : \A q \in RowsOf(f) : q <= r
      BY <2>1, RowsOfFile, GreatestNumber
    <3>2. h[f] \in RowsOf(f)
      BY <2>1, <3>1
    <3>3. Len(sheetRows) \in Nat
      BY SheetDomains
    <3> HIDE DEF h
    <3> QED  BY <2>1, <3>2, <3>3, RowsOfFile
  <2> QED  BY <2>1
<1>2. upsert' = [upsert EXCEPT ![s].at = "prime", ![s].heard = h]
  BY DEF ReadColumn
<1>3. h \in [SheetFiles -> Nat]
  BY <1>1
<1> HIDE DEF h
<1>4. upsert \in [Writers -> UpsertCalls]
  BY SheetDomains
<1>5. upsert' = [upsert EXCEPT ![s] = [upsert[s] EXCEPT !.at = "prime", !.heard = h]]
  BY <1>2, <1>4 DEF UpsertCalls
<1> DEFINE u == [upsert[s] EXCEPT !.at = "prime", !.heard = h]
<1>6. u \in UpsertCalls /\ u.at = "prime" /\ u.file = upsert[s].file /\ u.heard = h
  BY <1>3, <1>4 DEF UpsertCalls, UpsertSteps
<1> HIDE DEF u
<1>7. upsert' = [upsert EXCEPT ![s] = u]
  BY <1>5 DEF u
<1> QED  BY <1>1, <1>4, <1>6, <1>7

\* A step of one call: what it is afterwards.
Turns(s, u) == u \in UpsertCalls /\ upsert' = [upsert EXCEPT ![s] = u]

LEMMA StepTurns ==
  ASSUME SheetInv, NEW s \in Writers
  PROVE  /\ \A f \in SheetFiles : Upsert(s, f) =>
              Turns(s, [upsert[s] EXCEPT !.at = IF primed[ClientOf[s]] THEN "look" ELSE "read", !.file = f])
         /\ PrimeCache(s) => Turns(s, [upsert[s] EXCEPT !.at = "look", !.heard = EmptyCache])
         /\ LookUp(s) => LET r == rowCache[ClientOf[s]][upsert[s].file]
                         IN Turns(s, [upsert[s] EXCEPT !.at = IF r = 0 THEN "append" ELSE "write", !.row = r])
         /\ WriteRow(s) \/ AppendRow(s) \/ UpsertFails(s) => Turns(s, NoUpsert)
         /\ AppendUnanswered(s) => \/ Turns(s, NoUpsert)
                                   \/ Turns(s, [upsert[s] EXCEPT !.at = "look"])
<1>0. upsert \in [Writers -> UpsertCalls] /\ upsert[s] \in UpsertCalls
  BY SheetDomains DEF SheetInv
<1>1. ASSUME NEW f \in SheetFiles, Upsert(s, f)
      PROVE  Turns(s, [upsert[s] EXCEPT !.at = IF primed[ClientOf[s]] THEN "look" ELSE "read", !.file = f])
  BY <1>0, <1>1 DEF Upsert, Turns, UpsertCalls, UpsertSteps
<1>2. ASSUME PrimeCache(s) PROVE Turns(s, [upsert[s] EXCEPT !.at = "look", !.heard = EmptyCache])
  BY <1>0, <1>2, UpsertValues DEF PrimeCache, Turns, UpsertCalls, UpsertSteps
<1>3. ASSUME LookUp(s)
      PROVE  LET r == rowCache[ClientOf[s]][upsert[s].file]
             IN Turns(s, [upsert[s] EXCEPT !.at = IF r = 0 THEN "append" ELSE "write", !.row = r])
  <2> DEFINE r == rowCache[ClientOf[s]][upsert[s].file]
  <2>1. r \in Nat
    <3>1. upsert[s].file \in FilesOf[ClientOf[s]]
      BY <1>3 DEF SheetInv, LookUp
    <3> QED  BY <3>1, SheetDomains DEF SheetInv
  <2>2. upsert' = [upsert EXCEPT ![s].at = IF r = 0 THEN "append" ELSE "write", ![s].row = r]
    BY <1>3 DEF LookUp
  <2> HIDE DEF r
  <2>3. Turns(s, [upsert[s] EXCEPT !.at = IF r = 0 THEN "append" ELSE "write", !.row = r])
    BY <1>0, <2>1, <2>2 DEF Turns, UpsertCalls, UpsertSteps
  <2> QED  BY <2>3 DEF r
<1>4. ASSUME WriteRow(s) \/ AppendRow(s) \/ UpsertFails(s) PROVE Turns(s, NoUpsert)
  BY <1>4, UpsertValues DEF WriteRow, AppendRow, UpsertFails, Turns
<1>5. ASSUME AppendUnanswered(s)
      PROVE  Turns(s, NoUpsert) \/ Turns(s, [upsert[s] EXCEPT !.at = "look"])
  BY <1>0, <1>5, UpsertValues DEF AppendUnanswered, Turns, UpsertCalls, UpsertSteps
<1> QED  BY <1>1, <1>2, <1>3, <1>4, <1>5

\* A call that goes on keeps its file, and one that begins takes one that is free.
LEMMA TurnKeepsInv ==
  ASSUME SheetInv, NEW s \in Writers, NEW u \in UpsertCalls, Turns(s, u), SheetTypeOK',
         \A c \in Clients : primed[c] => primed'[c],
         u.at \in {"look", "write", "append"} => primed'[ClientOf[s]],
         \/ u.at = "idle"
         \/ u.file = upsert[s].file /\ upsert[s].at # "idle"
         \/ u.file \in FilesOf[ClientOf[s]] /\ \A t \in Threads(ClientOf[s]) : upsert[t].file # u.file
  PROVE  SheetInv'
<1>1. /\ \A t \in Writers \ {s} : upsert'[t] = upsert[t]
      /\ upsert'[s] = u
  BY SheetDomains DEF SheetInv, Turns
<1>2. \A t \in Writers : upsert'[t].at # "idle" => upsert'[t].file \in FilesOf[ClientOf[t]]
  BY <1>1 DEF SheetInv
<1>3. ASSUME NEW t \in Writers, NEW v \in Writers, t # v, ClientOf[t] = ClientOf[v],
             upsert'[t].at # "idle", upsert'[v].at # "idle"
      PROVE  upsert'[t].file # upsert'[v].file
  <2>1. ASSUME NEW w \in Writers, w # s, ClientOf[w] = ClientOf[s], upsert[w].at # "idle", u.at # "idle"
        PROVE  upsert[w].file # u.file
    BY <2>1 DEF SheetInv, Threads
  <2> QED  BY <1>1, <1>3, <2>1 DEF SheetInv
<1>4. \A t \in Writers : upsert'[t].at \in {"look", "write", "append"} => primed'[ClientOf[t]]
  BY <1>1, SheetDomains DEF SheetInv
<1> QED  BY <1>2, <1>3, <1>4 DEF SheetInv

LEMMA SheetTypeStep == SheetInv /\ [SheetNext]_sheetVars => SheetTypeOK'
<1> SUFFICES ASSUME SheetInv, [SheetNext]_sheetVars PROVE SheetTypeOK'
  OBVIOUS
<1>0. /\ sheetRows \in Seq(SheetFiles) /\ upsert \in [Writers -> UpsertCalls]
      /\ rowCache \in [Clients -> [SheetFiles -> Nat]] /\ primed \in [Clients -> BOOLEAN]
      /\ unanswered \in [SheetFiles -> Nat]
      /\ upserts \in 0..MaxUpserts /\ sheetFaults \in 0..MaxSheetFaults /\ edits \in 0..MaxEdits
      /\ ClientOf \in [Writers -> Clients] /\ FilesOf \in [Clients -> SUBSET SheetFiles]
      /\ MaxUpserts \in Nat /\ MaxSheetFaults \in Nat /\ MaxEdits \in Nat
  BY SheetDomains, SheetAssumption DEF SheetInv, SheetTypeOK
<1> DEFINE Types == /\ sheetRows' \in Seq(SheetFiles) /\ upsert' \in [Writers -> UpsertCalls]
                    /\ rowCache' \in [Clients -> [SheetFiles -> Nat]] /\ primed' \in [Clients -> BOOLEAN]
                    /\ unanswered' \in [SheetFiles -> Nat]
                    /\ upserts' \in 0..MaxUpserts /\ sheetFaults' \in 0..MaxSheetFaults
                    /\ edits' \in 0..MaxEdits
<1> SUFFICES Types
  BY DEF SheetTypeOK, UpsertCalls, UpsertSteps
<1>1. ASSUME NEW s \in Writers, NEW u, Turns(s, u) PROVE upsert' \in [Writers -> UpsertCalls]
  BY <1>0, <1>1 DEF Turns
<1>2. ASSUME NEW s \in Writers, upsert[s].at # "idle" PROVE upsert[s].file \in SheetFiles
  BY <1>0, <1>2 DEF SheetInv
<1>3. ASSUME NEW s \in Writers, NEW f \in SheetFiles, Upsert(s, f) PROVE Types
  <2>1. upsert' \in [Writers -> UpsertCalls]
    BY <1>1, <1>3, StepTurns
  <2> QED  BY <1>0, <1>3, <2>1 DEF Upsert
<1>4. ASSUME NEW s \in Writers, ReadColumn(s) PROVE Types
  BY <1>0, <1>4, ColumnRead DEF ReadColumn, SheetInv, sheetBounds
<1>5. ASSUME NEW s \in Writers, PrimeCache(s) PROVE Types
  <2>1. upsert' \in [Writers -> UpsertCalls]
    BY <1>1, <1>5, StepTurns
  <2>2. upsert[s].heard \in [SheetFiles -> Nat] /\ rowCache[ClientOf[s]] \in [SheetFiles -> Nat]
    BY <1>0 DEF UpsertCalls
  <2>3. rowCache' \in [Clients -> [SheetFiles -> Nat]]
    BY <1>0, <1>5, <2>2 DEF PrimeCache
  <2>4. primed' \in [Clients -> BOOLEAN]
    BY <1>0, <1>5 DEF PrimeCache
  <2> QED  BY <1>0, <1>5, <2>1, <2>3, <2>4 DEF PrimeCache, sheetBounds
<1>6. ASSUME NEW s \in Writers, LookUp(s) PROVE Types
  BY <1>0, <1>1, <1>6, StepTurns DEF LookUp, sheetBounds
<1>7. ASSUME NEW s \in Writers, WriteRow(s) PROVE Types
  <2>1. sheetRows' \in Seq(SheetFiles)
    BY <1>0, <1>2, <1>7, AppendProperties DEF WriteRow
  <2>2. upsert' \in [Writers -> UpsertCalls]
    BY <1>1, <1>7, StepTurns
  <2> QED  BY <1>0, <1>7, <2>1, <2>2 DEF WriteRow, sheetBounds
<1>8. ASSUME NEW s \in Writers, AppendRow(s) PROVE Types
  <2>1. upsert[s].file \in SheetFiles
    BY <1>2, <1>8 DEF AppendRow
  <2>2. sheetRows' \in Seq(SheetFiles) /\ Len(sheetRows) + 1 \in Nat
    BY <1>0, <1>8, <2>1, AppendProperties DEF AppendRow
  <2>3. upsert' \in [Writers -> UpsertCalls]
    BY <1>1, <1>8, StepTurns
  <2>4. rowCache' \in [Clients -> [SheetFiles -> Nat]]
    BY <1>0, <1>8, <2>1, <2>2 DEF AppendRow
  <2> QED  BY <1>0, <1>8, <2>2, <2>3, <2>4 DEF AppendRow, sheetBounds
<1>9. ASSUME NEW s \in Writers, AppendUnanswered(s) PROVE Types
  <2>1. upsert[s].file \in SheetFiles
    BY <1>2, <1>9 DEF AppendUnanswered
  <2>2. sheetRows' \in Seq(SheetFiles)
    BY <1>0, <1>9, <2>1, AppendProperties DEF AppendUnanswered
  <2>3. upsert' \in [Writers -> UpsertCalls]
    BY <1>1, <1>9, StepTurns
  <2>4. unanswered' \in [SheetFiles -> Nat]
    BY <1>0, <1>9, <2>1 DEF AppendUnanswered
  <2>5. /\ sheetFaults' \in 0..MaxSheetFaults /\ rowCache' = rowCache /\ primed' = primed
        /\ upserts' = upserts /\ edits' = edits
    BY <1>0, <1>9 DEF AppendUnanswered
  <2> QED  BY <1>0, <2>2, <2>3, <2>4, <2>5
<1>10. ASSUME NEW s \in Writers, UpsertFails(s) PROVE Types
  <2>1. upsert' \in [Writers -> UpsertCalls]
    BY <1>1, <1>10, StepTurns
  <2> QED  BY <1>0, <1>10, <2>1 DEF UpsertFails
<1>11. ASSUME NEW c \in Clients, SessionRestarts(c) PROVE Types
  BY <1>0, <1>11, UpsertValues DEF SessionRestarts
<1>12. ASSUME NEW r \in DOMAIN sheetRows, DeleteRow(r) PROVE Types
  <2>1. Len(sheetRows) \in Nat /\ r \in 1..Len(sheetRows) /\ DOMAIN sheetRows = 1..Len(sheetRows)
    BY <1>0
  <2>2. \A q \in 1..(Len(sheetRows) - 1) : sheetRows[IF q < r THEN q ELSE q + 1] \in SheetFiles
    BY <1>0, <2>1
  <2>3. sheetRows' \in [1..(Len(sheetRows) - 1) -> SheetFiles] /\ Len(sheetRows) - 1 \in Nat
    BY <1>12, <2>1, <2>2 DEF DeleteRow
  <2>4. sheetRows' \in Seq(SheetFiles)
    BY <2>3, SeqDef
  <2> QED  BY <1>0, <1>12, <2>4 DEF DeleteRow
<1>13. CASE UNCHANGED sheetVars
  BY <1>0, <1>13 DEF sheetVars, sheetBounds
<1> HIDE DEF Types
<1> QED  BY <1>3, <1>4, <1>5, <1>6, <1>7, <1>8, <1>9, <1>10, <1>11, <1>12, <1>13 DEF SheetNext

LEMMA SheetInvStep == SheetInv /\ [SheetNext]_sheetVars => SheetInv'
<1> SUFFICES ASSUME SheetInv, [SheetNext]_sheetVars PROVE SheetInv'
  OBVIOUS
<1>0. /\ upsert \in [Writers -> UpsertCalls] /\ primed \in [Clients -> BOOLEAN]
      /\ ClientOf \in [Writers -> Clients] /\ SheetTypeOK'
  BY SheetDomains, SheetTypeStep DEF SheetInv
<1>1. ASSUME NEW s \in Writers, NEW f \in SheetFiles, Upsert(s, f) PROVE SheetInv'
  <2> DEFINE u == [upsert[s] EXCEPT !.at = IF primed[ClientOf[s]] THEN "look" ELSE "read", !.file = f]
  <2>1. Turns(s, u) /\ u.file = f /\ (u.at = "look" => primed[ClientOf[s]]) /\ u.at \in {"look", "read"}
    BY <1>0, <1>1, StepTurns DEF UpsertCalls
  <2>2. u \in UpsertCalls
    BY <2>1 DEF Turns
  <2> HIDE DEF u
  <2>3. primed' = primed /\ f \in FilesOf[ClientOf[s]] /\ \A t \in Threads(ClientOf[s]) : upsert[t].file # f
    BY <1>1 DEF Upsert
  <2> QED  BY <1>0, <2>1, <2>2, <2>3, TurnKeepsInv
<1>2. ASSUME NEW s \in Writers, ReadColumn(s) PROVE SheetInv'
  <2> DEFINE u == upsert'[s]
  <2>1. /\ upsert' \in [Writers -> UpsertCalls] /\ \A t \in Writers \ {s} : upsert'[t] = upsert[t]
        /\ u.at = "prime" /\ u.file = upsert[s].file
    BY <1>2, ColumnRead DEF SheetInv
  <2>2. upsert' = [upsert EXCEPT ![s] = u] /\ u \in UpsertCalls
    BY <1>0, <2>1
  <2>3. primed' = primed /\ upsert[s].at # "idle"
    BY <1>2 DEF ReadColumn
  <2>4. PICK v \in UpsertCalls : v = u
    BY <2>2
  <2>5. Turns(s, v) /\ v.at = "prime" /\ v.file = upsert[s].file
    BY <2>1, <2>2, <2>4 DEF Turns
  <2> HIDE DEF u
  <2> QED  BY <1>0, <2>3, <2>5, TurnKeepsInv
<1>3. ASSUME NEW s \in Writers, PrimeCache(s) PROVE SheetInv'
  <2> DEFINE u == [upsert[s] EXCEPT !.at = "look", !.heard = EmptyCache]
  <2>1. Turns(s, u) /\ u.file = upsert[s].file /\ upsert[s].at # "idle"
    BY <1>0, <1>3, StepTurns DEF UpsertCalls, PrimeCache
  <2>2. u \in UpsertCalls
    BY <2>1 DEF Turns
  <2> HIDE DEF u
  <2>3. primed'[ClientOf[s]] /\ \A c \in Clients : primed[c] => primed'[c]
    BY <1>0, <1>3 DEF PrimeCache
  <2> QED  BY <1>0, <2>1, <2>2, <2>3, TurnKeepsInv
<1>4. ASSUME NEW s \in Writers, LookUp(s) PROVE SheetInv'
  <2> DEFINE r == rowCache[ClientOf[s]][upsert[s].file]
             u == [upsert[s] EXCEPT !.at = IF r = 0 THEN "append" ELSE "write", !.row = r]
  <2>1. Turns(s, u)
    BY <1>4, StepTurns
  <2>2. u \in UpsertCalls
    BY <2>1 DEF Turns
  <2>3. u.file = upsert[s].file /\ upsert[s].at = "look"
    BY <1>0, <1>4 DEF UpsertCalls, LookUp
  <2> HIDE DEF u
  <2>4. primed' = primed /\ primed[ClientOf[s]]
    BY <1>4, <2>3 DEF LookUp, SheetInv
  <2> QED  BY <1>0, <2>1, <2>2, <2>3, <2>4, TurnKeepsInv
<1>5. ASSUME NEW s \in Writers, WriteRow(s) \/ AppendRow(s) \/ UpsertFails(s) \/ AppendUnanswered(s)
      PROVE  SheetInv'
  <2>1. primed' = primed
    BY <1>5 DEF WriteRow, AppendRow, UpsertFails, AppendUnanswered
  <2>2. CASE Turns(s, NoUpsert)
    BY <1>0, <2>1, <2>2, UpsertValues, TurnKeepsInv
  <2>3. CASE ~Turns(s, NoUpsert)
    <3> DEFINE u == [upsert[s] EXCEPT !.at = "look"]
    <3>1. AppendUnanswered(s) /\ Turns(s, u)
      BY <1>5, <2>3, StepTurns
    <3>2. u \in UpsertCalls
      BY <3>1 DEF Turns
    <3>3. u.file = upsert[s].file /\ upsert[s].at = "append"
      BY <1>0, <3>1 DEF UpsertCalls, AppendUnanswered
    <3> HIDE DEF u
    <3>4. primed[ClientOf[s]]
      BY <3>3 DEF SheetInv
    <3> QED  BY <1>0, <2>1, <3>1, <3>2, <3>3, <3>4, TurnKeepsInv
  <2> QED  BY <2>2, <2>3
<1>6. ASSUME NEW c \in Clients, SessionRestarts(c) PROVE SheetInv'
  <2>1. \A s \in Writers : IF ClientOf[s] = c THEN upsert'[s] = NoUpsert ELSE upsert'[s] = upsert[s]
    BY <1>6 DEF SessionRestarts
  <2>2. \A d \in Clients \ {c} : primed'[d] = primed[d]
    BY <1>0, <1>6 DEF SessionRestarts
  <2>3. \A s \in Writers : upsert'[s].at # "idle" => ClientOf[s] # c /\ upsert'[s] = upsert[s]
    BY <2>1, UpsertValues
  <2> QED  BY <1>0, <2>2, <2>3 DEF SheetInv
<1>7. ASSUME NEW r, DeleteRow(r) PROVE SheetInv'
  BY <1>0, <1>7 DEF DeleteRow, SheetInv
<1>8. CASE UNCHANGED sheetVars
  BY <1>0, <1>8 DEF sheetVars, SheetInv
<1> QED  BY <1>1, <1>2, <1>3, <1>4, <1>5, <1>6, <1>7, <1>8 DEF SheetNext

-----------------------------------------------------------------------------

\* Only one installation uploads the file.
OneClient(f) == \A c, d \in Clients : f \in FilesOf[c] /\ f \in FilesOf[d] => c = d

\* As long as no person deletes a row, every row number that is kept somewhere
\* is that of a row of its file ...
NumbersRight ==
  /\ \A c \in Clients, f \in SheetFiles : rowCache[c][f] # 0 => rowCache[c][f] \in RowsOf(f)
  /\ \A s \in Writers, f \in SheetFiles : upsert[s].heard[f] # 0 => upsert[s].heard[f] \in RowsOf(f)
  /\ \A s \in Writers : upsert[s].at = "write" => upsert[s].row \in RowsOf(upsert[s].file)

\* ... and an installation that has filled its cache, or is about to, knows of
\* the row of its file: no call of it is about to append another.
Remembered(f) ==
  \A c \in Clients : f \in FilesOf[c] =>
     /\ primed[c] => rowCache[c][f] # 0
     /\ \A s \in Threads(c) :
          /\ upsert[s].at = "prime" => upsert[s].heard[f] # 0 \/ rowCache[c][f] # 0
          /\ upsert[s].at = "append" => upsert[s].file # f

\* A file has as many rows as there were unacknowledged appends, or one more,
\* which is remembered.
Accounted(f) ==
  LET n == Cardinality(RowsOf(f)) IN n <= unanswered[f] \/ (n = unanswered[f] + 1 /\ Remembered(f))

RowsInv ==
  /\ SheetInv
  /\ edits = 0 => NumbersRight /\ \A f \in SheetFiles : OneClient(f) => Accounted(f)

\* The steps that append no row change none.
LEMMA RowsStay ==
  ASSUME SheetInv, NumbersRight, [SheetNext]_sheetVars, edits' = 0,
         \A s \in Writers : ~AppendRow(s) /\ ~AppendUnanswered(s)
  PROVE  sheetRows' = sheetRows /\ unanswered' = unanswered
<1>1. ASSUME NEW s \in Writers, WriteRow(s) PROVE sheetRows' = sheetRows
  <2> DEFINE r == upsert[s].row
             f == upsert[s].file
  <2>1. r \in DOMAIN sheetRows /\ sheetRows[r] = f
    BY <1>1 DEF WriteRow, NumbersRight, RowsOf
  <2>2. sheetRows' = [sheetRows EXCEPT ![r] = f]
    BY <1>1, <2>1 DEF WriteRow
  <2> HIDE DEF r, f
  <2> QED  BY <2>1, <2>2, SheetDomains DEF SheetInv
<1>2. ASSUME NEW r, DeleteRow(r) PROVE FALSE
  BY <1>2, SheetDomains DEF DeleteRow, SheetInv
<1> QED  BY <1>1, <1>2 DEF SheetNext, Upsert, ReadColumn, PrimeCache, LookUp, WriteRow, UpsertFails,
                           SessionRestarts, sheetVars, sheetBounds

\* A row more.
LEMMA RowAdded ==
  ASSUME SheetTypeOK, NEW g \in SheetFiles, sheetRows' = Append(sheetRows, g)
  PROVE  /\ Len(sheetRows) + 1 \in RowsOf(g)'
         /\ Cardinality(RowsOf(g)') = Cardinality(RowsOf(g)) + 1
         /\ \A f : RowsOf(f) \subseteq RowsOf(f)'
         /\ \A f : f # g => RowsOf(f)' = RowsOf(f)
<1> DEFINE n == Len(sheetRows) + 1
<1>1. /\ n - 1 = Len(sheetRows) /\ n \in Nat /\ n - 1 \in Nat
      /\ DOMAIN sheetRows = 1..(n - 1) /\ DOMAIN sheetRows' = 1..n
      /\ \A r \in 1..(n - 1) : sheetRows'[r] = sheetRows[r]
      /\ sheetRows'[n] = g
  BY SheetDomains, AppendProperties
<1> HIDE DEF n
<1>2. /\ RowsOf(g)' = RowsOf(g) \cup {n} /\ n \notin RowsOf(g)
      /\ \A f : RowsOf(f) \subseteq RowsOf(f)'
      /\ \A f : f # g => RowsOf(f)' = RowsOf(f)
  BY <1>1 DEF RowsOf
<1>3. Cardinality(RowsOf(g) \cup {n}) = Cardinality(RowsOf(g)) + 1
  BY <1>2, RowsOfFile, FS_AddElement
<1> QED  BY <1>2, <1>3 DEF n

\* As long as no person deletes a row, no row is lost and none changes its file.
LEMMA RowsGrow ==
  ASSUME SheetInv, NumbersRight, [SheetNext]_sheetVars, edits' = 0
  PROVE  \A f : RowsOf(f) \subseteq RowsOf(f)'
<1>1. ASSUME NEW s \in Writers, AppendRow(s) \/ AppendUnanswered(s)
      PROVE  \A f : RowsOf(f) \subseteq RowsOf(f)'
  <2>1. upsert[s].file \in SheetFiles /\ sheetRows' = Append(sheetRows, upsert[s].file)
    BY <1>1, SheetDomains DEF SheetInv, AppendRow, AppendUnanswered
  <2> QED  BY <2>1, RowAdded DEF SheetInv
<1>2. CASE \A s \in Writers : ~AppendRow(s) /\ ~AppendUnanswered(s)
  BY <1>2, RowsStay DEF RowsOf
<1> QED  BY <1>1, <1>2

\* What happens to the cache of an installation.
LEMMA CacheStep ==
  ASSUME SheetInv, [SheetNext]_sheetVars, NEW c \in Clients, NEW f \in SheetFiles
  PROVE  \/ rowCache'[c][f] = rowCache[c][f]
         \/ rowCache'[c][f] = 0 /\ SessionRestarts(c)
         \/ \E s \in Threads(c) :
              \/ PrimeCache(s) /\ upsert[s].heard[f] # 0 /\ rowCache'[c][f] = upsert[s].heard[f]
              \/ AppendRow(s) /\ upsert[s].file = f /\ rowCache'[c][f] = Len(sheetRows) + 1
<1>0. rowCache \in [Clients -> [SheetFiles -> Nat]] /\ ClientOf \in [Writers -> Clients]
  BY SheetDomains DEF SheetInv
<1>1. ASSUME NEW s \in Writers, PrimeCache(s), rowCache'[c][f] # rowCache[c][f]
      PROVE  s \in Threads(c) /\ upsert[s].heard[f] # 0 /\ rowCache'[c][f] = upsert[s].heard[f]
  BY <1>0, <1>1 DEF PrimeCache, Threads
<1>2. ASSUME NEW s \in Writers, AppendRow(s), rowCache'[c][f] # rowCache[c][f]
      PROVE  s \in Threads(c) /\ upsert[s].file = f /\ rowCache'[c][f] = Len(sheetRows) + 1
  <2> DEFINE n == Len(sheetRows) + 1
             g == upsert[s].file
  <2>1. rowCache' = [rowCache EXCEPT ![ClientOf[s]][g] = n] /\ g \in SheetFiles
    BY <1>2, SheetDomains DEF AppendRow, SheetInv
  <2> HIDE DEF n, g
  <2>2. s \in Threads(c) /\ g = f /\ rowCache'[c][f] = n
    BY <1>0, <1>2, <2>1 DEF Threads
  <2> QED  BY <2>2 DEF n, g
<1>3. ASSUME NEW d \in Clients, SessionRestarts(d), rowCache'[c][f] # rowCache[c][f]
      PROVE  d = c /\ rowCache'[c][f] = 0
  BY <1>0, <1>3 DEF SessionRestarts, EmptyCache
<1>4. CASE rowCache' # rowCache
  <2>1. \/ \E s \in Writers : PrimeCache(s) \/ AppendRow(s)
        \/ \E d \in Clients : SessionRestarts(d)
    BY <1>4 DEF SheetNext, Upsert, ReadColumn, LookUp, WriteRow, AppendUnanswered, UpsertFails,
                DeleteRow, sheetVars
  <2> QED  BY <1>1, <1>2, <1>3, <2>1
<1> QED  BY <1>1, <1>4

\* What happens to a call.
LEMMA CallStep ==
  ASSUME SheetInv, [SheetNext]_sheetVars, NEW s \in Writers
  PROVE  \/ upsert'[s] = upsert[s]
         \/ upsert'[s] = NoUpsert
         \/ /\ upsert'[s].at \in {"look", "read"} /\ upsert'[s].heard = upsert[s].heard
         \/ /\ PrimeCache(s) /\ upsert'[s].at = "look" /\ upsert'[s].heard = EmptyCache
         \/ ReadColumn(s)
         \/ LET r == rowCache[ClientOf[s]][upsert[s].file]
            IN /\ LookUp(s) /\ upsert'[s].heard = upsert[s].heard /\ upsert'[s].file = upsert[s].file
               /\ upsert'[s].at = (IF r = 0 THEN "append" ELSE "write") /\ upsert'[s].row = r
<1>0. upsert \in [Writers -> UpsertCalls] /\ upsert[s] \in UpsertCalls
  BY SheetDomains DEF SheetInv
<1>1. ASSUME NEW t \in Writers, NEW u, Turns(t, u), t # s PROVE upsert'[s] = upsert[s]
  BY <1>0, <1>1 DEF Turns
<1>2. ASSUME NEW u, Turns(s, u) PROVE upsert'[s] = u
  BY <1>0, <1>2 DEF Turns
<1>3. ASSUME NEW t \in Writers, t # s,
             \/ \E f \in SheetFiles : Upsert(t, f)
             \/ PrimeCache(t) \/ LookUp(t) \/ WriteRow(t) \/ AppendRow(t)
             \/ AppendUnanswered(t) \/ UpsertFails(t)
      PROVE  upsert'[s] = upsert[s]
  <2>1. \E u : Turns(t, u)
    BY <1>3, StepTurns
  <2> QED  BY <1>1, <1>3, <2>1
<1>4. ASSUME NEW t \in Writers, t # s, ReadColumn(t) PROVE upsert'[s] = upsert[s]
  BY <1>4, ColumnRead DEF SheetInv
<1>5. ASSUME NEW f \in SheetFiles, Upsert(s, f)
      PROVE  upsert'[s].at \in {"look", "read"} /\ upsert'[s].heard = upsert[s].heard
  <2>1. upsert'[s] = [upsert[s] EXCEPT !.at = IF primed[ClientOf[s]] THEN "look" ELSE "read", !.file = f]
    BY <1>2, <1>5, StepTurns
  <2> QED  BY <1>0, <2>1 DEF UpsertCalls
<1>6. ASSUME PrimeCache(s) PROVE upsert'[s].at = "look" /\ upsert'[s].heard = EmptyCache
  <2>1. upsert'[s] = [upsert[s] EXCEPT !.at = "look", !.heard = EmptyCache]
    BY <1>2, <1>6, StepTurns
  <2> QED  BY <1>0, <2>1 DEF UpsertCalls
<1>7. ASSUME LookUp(s)
      PROVE  LET r == rowCache[ClientOf[s]][upsert[s].file]
             IN /\ upsert'[s].heard = upsert[s].heard /\ upsert'[s].file = upsert[s].file
                /\ upsert'[s].at = (IF r = 0 THEN "append" ELSE "write") /\ upsert'[s].row = r
  <2> DEFINE r == rowCache[ClientOf[s]][upsert[s].file]
  <2>1. upsert'[s] = [upsert[s] EXCEPT !.at = IF r = 0 THEN "append" ELSE "write", !.row = r]
    BY <1>2, <1>7, StepTurns
  <2> HIDE DEF r
  <2>2. /\ upsert'[s].heard = upsert[s].heard /\ upsert'[s].file = upsert[s].file
        /\ upsert'[s].at = (IF r = 0 THEN "append" ELSE "write") /\ upsert'[s].row = r
    BY <1>0, <2>1 DEF UpsertCalls
  <2> QED  BY <2>2 DEF r
<1>8. ASSUME WriteRow(s) \/ AppendRow(s) \/ UpsertFails(s) PROVE upsert'[s] = NoUpsert
  BY <1>2, <1>8, StepTurns
<1>9. ASSUME AppendUnanswered(s)
      PROVE  \/ upsert'[s] = NoUpsert
             \/ upsert'[s].at = "look" /\ upsert'[s].heard = upsert[s].heard
  <2>1. upsert'[s] = NoUpsert \/ upsert'[s] = [upsert[s] EXCEPT !.at = "look"]
    BY <1>2, <1>9, StepTurns
  <2> QED  BY <1>0, <2>1 DEF UpsertCalls
<1>10. ASSUME NEW c \in Clients, SessionRestarts(c) PROVE upsert'[s] = upsert[s] \/ upsert'[s] = NoUpsert
  BY <1>10 DEF SessionRestarts
<1>11. ASSUME NEW r, DeleteRow(r) PROVE upsert' = upsert
  BY <1>11 DEF DeleteRow
<1>12. CASE \E t \in Writers :
              \/ \E f \in SheetFiles : Upsert(t, f)
              \/ ReadColumn(t) \/ PrimeCache(t) \/ LookUp(t) \/ WriteRow(t) \/ AppendRow(t)
              \/ AppendUnanswered(t) \/ UpsertFails(t)
  <2>1. PICK t \in Writers : \/ \E f \in SheetFiles : Upsert(t, f)
                             \/ ReadColumn(t) \/ PrimeCache(t) \/ LookUp(t) \/ WriteRow(t) \/ AppendRow(t)
                             \/ AppendUnanswered(t) \/ UpsertFails(t)
    BY <1>12
  <2>2. CASE t # s
    BY <1>3, <1>4, <2>1, <2>2
  <2>3. CASE t = s
    BY <1>5, <1>6, <1>7, <1>8, <1>9, <2>1, <2>3
  <2> QED  BY <2>2, <2>3
<1>13. CASE UNCHANGED sheetVars
  BY <1>13 DEF sheetVars
<1> QED  BY <1>10, <1>11, <1>12, <1>13 DEF SheetNext

LEMMA NumbersStayRight ==
  ASSUME SheetInv, NumbersRight, [SheetNext]_sheetVars, edits' = 0
  PROVE  NumbersRight'
<1>1. ASSUME NEW c \in Clients, NEW f \in SheetFiles, rowCache'[c][f] # 0
      PROVE  rowCache'[c][f] \in RowsOf(f)'
  <2>1. CASE rowCache'[c][f] = rowCache[c][f]
    BY <1>1, <2>1, RowsGrow DEF NumbersRight
  <2>2. ASSUME NEW s \in Threads(c), PrimeCache(s), upsert[s].heard[f] # 0,
               rowCache'[c][f] = upsert[s].heard[f]
        PROVE  rowCache'[c][f] \in RowsOf(f)'
    BY <2>2, RowsGrow DEF NumbersRight, Threads
  <2>3. ASSUME NEW s \in Threads(c), AppendRow(s), upsert[s].file = f, rowCache'[c][f] = Len(sheetRows) + 1
        PROVE  rowCache'[c][f] \in RowsOf(f)'
    <3>1. sheetRows' = Append(sheetRows, f)
      BY <2>3 DEF AppendRow
    <3> QED  BY <2>3, <3>1, RowAdded DEF SheetInv
  <2> QED  BY <1>1, <2>1, <2>2, <2>3, CacheStep
<1>2. ASSUME NEW s \in Writers, NEW f \in SheetFiles, upsert'[s].heard[f] # 0
      PROVE  upsert'[s].heard[f] \in RowsOf(f)'
  <2>1. EmptyCache[f] = 0 /\ NoUpsert.heard = EmptyCache
    BY DEF EmptyCache, NoUpsert
  <2>2. CASE upsert'[s].heard = upsert[s].heard
    BY <1>2, <2>2, RowsGrow DEF NumbersRight
  <2>3. CASE ReadColumn(s)
    <3>1. upsert'[s].heard[f] \in RowsOf(f)
      BY <1>2, <2>3, ColumnRead DEF SheetInv
    <3> QED  BY <3>1, RowsGrow
  <2> QED  BY <1>2, <2>1, <2>2, <2>3, CallStep
<1>3. ASSUME NEW s \in Writers, upsert'[s].at = "write"
      PROVE  upsert'[s].row \in RowsOf(upsert[s].file)'
  <2>1. CASE upsert'[s] = upsert[s]
    BY <1>3, <2>1, RowsGrow DEF NumbersRight
  <2> DEFINE r == rowCache[ClientOf[s]][upsert[s].file]
  <2>2. CASE /\ LookUp(s) /\ upsert'[s].file = upsert[s].file
             /\ upsert'[s].at = (IF r = 0 THEN "append" ELSE "write") /\ upsert'[s].row = r
    <3>1. upsert[s].file \in SheetFiles /\ ClientOf[s] \in Clients
      BY <2>2, SheetDomains DEF SheetInv, LookUp
    <3>2. r # 0
      BY <1>3, <2>2
    <3>3. r \in RowsOf(upsert[s].file)
      BY <3>1, <3>2 DEF NumbersRight
    <3> HIDE DEF r
    <3> QED  BY <2>2, <3>3, RowsGrow
  <2>3. ~ReadColumn(s) /\ NoUpsert.at # "write"
    BY <1>3, ColumnRead DEF SheetInv, NoUpsert
  <2> QED  BY <1>3, <2>1, <2>2, <2>3, CallStep
<1> QED  BY <1>1, <1>2, <1>3 DEF NumbersRight

\* An installation that knows of the row of its file does not forget it, unless
\* it forgets everything.
LEMMA RememberedStays ==
  ASSUME SheetInv, [SheetNext]_sheetVars, NEW f \in SheetFiles, Remembered(f), RowsOf(f) # {}
  PROVE  Remembered(f)'
<1> SUFFICES ASSUME NEW c \in Clients, f \in FilesOf[c]
             PROVE  /\ primed'[c] => rowCache'[c][f] # 0
                    /\ \A s \in Threads(c) :
                         /\ upsert'[s].at = "prime" => upsert'[s].heard[f] # 0 \/ rowCache'[c][f] # 0
                         /\ upsert'[s].at = "append" => upsert'[s].file # f
  BY DEF Remembered
<1>0. /\ rowCache \in [Clients -> [SheetFiles -> Nat]] /\ primed \in [Clients -> BOOLEAN]
      /\ ClientOf \in [Writers -> Clients] /\ Len(sheetRows) \in Nat
  BY SheetDomains DEF SheetInv
<1>1. CASE SessionRestarts(c)
  <2>1. ~primed'[c] /\ \A s \in Threads(c) : upsert'[s] = NoUpsert
    BY <1>0, <1>1 DEF SessionRestarts, Threads
  <2> QED  BY <2>1 DEF NoUpsert
<1>2. CASE ~SessionRestarts(c)
  <2>1. rowCache[c][f] # 0 => rowCache'[c][f] # 0
    <3>1. Len(sheetRows) + 1 # 0
      BY <1>0
    <3> QED  BY <1>2, <3>1, CacheStep
  <2>2. ASSUME NEW s \in Threads(c), PrimeCache(s) PROVE rowCache'[c][f] # 0
    <3>1. upsert[s].heard[f] # 0 \/ rowCache[c][f] # 0
      BY <2>2 DEF Remembered, PrimeCache
    <3>2. rowCache'[c][f] = IF upsert[s].heard[f] = 0 THEN rowCache[c][f] ELSE upsert[s].heard[f]
      BY <1>0, <2>2 DEF PrimeCache, Threads
    <3> QED  BY <3>1, <3>2
  <2>3. ASSUME primed'[c] PROVE rowCache'[c][f] # 0
    <3>1. primed[c] \/ \E s \in Threads(c) : PrimeCache(s)
      <4>1. ASSUME NEW s \in Writers, PrimeCache(s), ClientOf[s] # c PROVE primed[c]
        BY <1>0, <2>3, <4>1 DEF PrimeCache
      <4>2. ASSUME NEW d \in Clients, SessionRestarts(d) PROVE primed[c]
        BY <1>0, <1>2, <2>3, <4>2 DEF SessionRestarts
      <4>3. primed' = primed \/ (\E s \in Writers : PrimeCache(s)) \/ \E d \in Clients : SessionRestarts(d)
        BY DEF SheetNext, Upsert, ReadColumn, LookUp, WriteRow, AppendRow, AppendUnanswered, UpsertFails,
               DeleteRow, sheetVars
      <4> QED  BY <2>3, <4>1, <4>2, <4>3 DEF Threads
    <3> QED  BY <2>1, <2>2, <3>1 DEF Remembered
  <2>4. ASSUME NEW s \in Threads(c), upsert'[s].at = "prime"
        PROVE  upsert'[s].heard[f] # 0 \/ rowCache'[c][f] # 0
    <3>1. CASE upsert'[s] = upsert[s]
      BY <2>1, <2>4, <3>1 DEF Remembered
    <3>2. CASE ReadColumn(s)
      <4>1. upsert'[s].heard[f] \in RowsOf(f)
        BY <3>2, ColumnRead DEF SheetInv, Threads
      <4> QED  BY <1>0, <4>1, RowsOfFile DEF SheetInv
    <3> QED  BY <2>4, <3>1, <3>2, CallStep DEF Threads, NoUpsert
  <2>5. ASSUME NEW s \in Threads(c), upsert'[s].at = "append" PROVE upsert'[s].file # f
    <3>1. CASE upsert'[s] = upsert[s]
      BY <2>5, <3>1 DEF Remembered
    <3>2. ~ReadColumn(s) /\ NoUpsert.at # "append"
      BY <2>5, ColumnRead DEF SheetInv, NoUpsert, Threads
    <3> DEFINE r == rowCache[ClientOf[s]][upsert[s].file]
    <3>3. CASE /\ LookUp(s) /\ upsert'[s].file = upsert[s].file
               /\ upsert'[s].at = (IF r = 0 THEN "append" ELSE "write")
      <4>1. primed[c] /\ ClientOf[s] = c
        BY <3>3 DEF SheetInv, LookUp, Threads
      <4>2. rowCache[c][f] # 0
        BY <4>1 DEF Remembered
      <4>3. r = 0
        BY <2>5, <3>3
      <4> QED  BY <3>3, <4>1, <4>2, <4>3
    <3> QED  BY <2>5, <3>1, <3>2, <3>3, CallStep DEF Threads
  <2> QED  BY <2>3, <2>4, <2>5
<1> QED  BY <1>1, <1>2

LEMMA AccountedStep ==
  ASSUME SheetInv, NumbersRight, [SheetNext]_sheetVars, edits' = 0,
         NEW f \in SheetFiles, OneClient(f), Accounted(f)
  PROVE  Accounted(f)'
<1>0. Cardinality(RowsOf(f)) \in Nat /\ unanswered \in [SheetFiles -> Nat]
  BY RowsOfFile, SheetDomains DEF SheetInv
<1>1. CASE RowsOf(f)' = RowsOf(f) /\ unanswered'[f] = unanswered[f]
  <2>1. CASE Cardinality(RowsOf(f)) <= unanswered[f]
    BY <1>1, <2>1 DEF Accounted
  <2>2. CASE Cardinality(RowsOf(f)) = unanswered[f] + 1 /\ Remembered(f)
    <3>1. RowsOf(f) # {}
      BY <1>0, <2>2, FS_EmptySet
    <3> QED  BY <1>1, <2>2, <3>1, RememberedStays DEF Accounted
  <2> QED  BY <2>1, <2>2 DEF Accounted
<1>2. CASE \A s \in Writers : ~AppendRow(s) /\ ~AppendUnanswered(s)
  <2>1. RowsOf(f)' = RowsOf(f) /\ unanswered' = unanswered
    BY <1>2, RowsStay DEF RowsOf
  <2> QED  BY <1>1, <2>1
<1>3. ASSUME NEW s \in Writers, AppendRow(s) \/ AppendUnanswered(s) PROVE Accounted(f)'
  <2> DEFINE g == upsert[s].file
             c == ClientOf[s]
  <2>1. /\ g \in SheetFiles /\ c \in Clients /\ g \in FilesOf[c] /\ upsert[s].at = "append"
        /\ sheetRows' = Append(sheetRows, g)
        /\ AppendRow(s) => unanswered' = unanswered
        /\ AppendUnanswered(s) => unanswered' = [unanswered EXCEPT ![g] = @ + 1]
    BY <1>3, SheetDomains DEF SheetInv, AppendRow, AppendUnanswered
  <2>2. CASE g # f
    <3>1. RowsOf(f)' = RowsOf(f)
      <4> HIDE DEF g
      <4> QED  BY <2>1, <2>2, RowAdded DEF SheetInv
    <3>2. unanswered'[f] = unanswered[f]
      BY <1>0, <1>3, <2>1, <2>2
    <3> QED  BY <1>1, <3>1, <3>2
  <2>3. CASE g = f
    <3>1. ~Remembered(f)
      BY <2>1, <2>3 DEF Remembered, Threads
    <3>2. Cardinality(RowsOf(f)) <= unanswered[f]
      BY <3>1 DEF Accounted
    <3>3. Cardinality(RowsOf(f)') = Cardinality(RowsOf(f)) + 1
      <4>1. sheetRows' = Append(sheetRows, f)
        BY <2>1, <2>3
      <4> QED  BY <4>1, RowAdded DEF SheetInv
    <3>4. CASE AppendUnanswered(s)
      <4>1. unanswered'[f] = unanswered[f] + 1
        BY <1>0, <2>1, <2>3, <3>4
      <4>2. Cardinality(RowsOf(f)') <= unanswered'[f]
        BY <1>0, <3>2, <3>3, <4>1
      <4> QED  BY <4>2 DEF Accounted
    <3>5. CASE AppendRow(s)
      <4>1. Remembered(f)'
        <5>1. ASSUME NEW d \in Clients, f \in FilesOf[d] PROVE d = c
          BY <2>1, <2>3, <5>1 DEF OneClient
        <5>2. rowCache'[c][f] # 0
          <6>1. rowCache' = [rowCache EXCEPT ![c][f] = Len(sheetRows) + 1] /\ Len(sheetRows) + 1 # 0
            BY <2>3, <3>5, SheetDomains DEF AppendRow, SheetInv
          <6> QED  BY <2>1, <6>1, SheetDomains DEF SheetInv
        <5>3. ASSUME NEW t \in Threads(c), upsert'[t].at = "append" PROVE upsert'[t].file # f
          <6>1. upsert'[s] = NoUpsert /\ \A v \in Writers \ {s} : upsert'[v] = upsert[v]
            BY <3>5, SheetDomains DEF AppendRow, SheetInv
          <6>2. t \in Writers /\ t # s /\ ClientOf[t] = c /\ upsert'[t] = upsert[t]
            BY <5>3, <6>1 DEF Threads, NoUpsert
          <6> QED  BY <2>1, <2>3, <5>3, <6>2 DEF SheetInv
        <5> HIDE DEF c
        <5> QED  BY <5>1, <5>2, <5>3 DEF Remembered
      <4>2. unanswered'[f] = unanswered[f]
        BY <2>1, <3>5
      <4>3. \/ Cardinality(RowsOf(f)') <= unanswered'[f]
            \/ Cardinality(RowsOf(f)') = unanswered'[f] + 1
        BY <1>0, <3>2, <3>3, <4>2
      <4> QED  BY <4>1, <4>3 DEF Accounted
    <3> QED  BY <1>3, <3>4, <3>5
  <2> QED  BY <2>2, <2>3
<1> QED  BY <1>2, <1>3

LEMMA RowsInvStep == RowsInv /\ [SheetNext]_sheetVars => RowsInv'
<1> SUFFICES ASSUME RowsInv, [SheetNext]_sheetVars PROVE RowsInv'
  OBVIOUS
<1>1. SheetInv /\ SheetInv'
  BY SheetInvStep DEF RowsInv
<1>2. ASSUME edits' = 0 PROVE edits = 0
  <2>1. ASSUME NEW r, DeleteRow(r) PROVE FALSE
    BY <1>1, <1>2, <2>1, SheetDomains DEF DeleteRow, SheetInv
  <2> QED  BY <1>2, <2>1 DEF SheetNext, Upsert, ReadColumn, PrimeCache, LookUp, WriteRow, AppendRow,
                             AppendUnanswered, UpsertFails, SessionRestarts, sheetVars, sheetBounds
<1>3. ASSUME edits' = 0 PROVE NumbersRight'
  BY <1>1, <1>2, <1>3, NumbersStayRight DEF RowsInv
<1>4. ASSUME edits' = 0, NEW f \in SheetFiles, OneClient(f) PROVE Accounted(f)'
  BY <1>1, <1>2, <1>4, AccountedStep DEF RowsInv
<1> QED  BY <1>1, <1>3, <1>4 DEF RowsInv, OneClient

LEMMA RowsInvInit == SheetInit => RowsInv
<1> SUFFICES ASSUME SheetInit PROVE RowsInv
  OBVIOUS
<1>1. /\ sheetRows = <<>> /\ <<>> \in Seq(SheetFiles)
      /\ rowCache \in [Clients -> [SheetFiles -> Nat]] /\ primed \in [Clients -> BOOLEAN]
      /\ upsert \in [Writers -> UpsertCalls] /\ unanswered \in [SheetFiles -> Nat]
      /\ upserts = 0 /\ sheetFaults = 0 /\ edits = 0
  BY UpsertValues DEF SheetInit
<1>2. SheetTypeOK
  BY <1>1, SheetAssumption DEF SheetTypeOK, UpsertCalls, UpsertSteps
<1>3. \A s \in Writers : upsert[s] = NoUpsert /\ NoUpsert.at = "idle" /\ NoUpsert.heard = EmptyCache
  BY DEF SheetInit, NoUpsert
<1>4. SheetInv
  BY <1>2, <1>3 DEF SheetInv
<1>5. NumbersRight
  BY <1>3 DEF SheetInit, NumbersRight, EmptyCache
<1>6. \A f \in SheetFiles : Accounted(f)
  <2>1. \A f \in SheetFiles : RowsOf(f) = {} /\ unanswered[f] = 0
    BY <1>1 DEF RowsOf, SheetInit, EmptyCache
  <2>2. \A f \in SheetFiles : Cardinality(RowsOf(f)) <= unanswered[f]
    BY <2>1, FS_EmptySet
  <2> QED  BY <2>2 DEF Accounted
<1> QED  BY <1>4, <1>5, <1>6 DEF RowsInv

\* As long as no person deletes a row, the file of one installation has one row
\* and one more for each append that was not acknowledged, however many threads
\* look it up at the same time and however often the cache is lost.
THEOREM OneRowEach == SheetSpec => []OneRowPerFile
<1>1. ASSUME RowsInv PROVE OneRowPerFile
  <2> SUFFICES ASSUME edits = 0, NEW f \in SheetFiles,
                      Cardinality({c \in Clients : f \in FilesOf[c]}) <= 1
               PROVE  Cardinality(RowsOf(f)) <= 1 + unanswered[f]
    BY DEF OneRowPerFile, Unshared
  <2>1. OneClient(f)
    <3> DEFINE S == {c \in Clients : f \in FilesOf[c]}
    <3>1. IsFiniteSet(S) /\ Cardinality(S) \in Nat
      BY SheetAssumption, FS_Subset, FS_CardinalityType
    <3>2. Cardinality(S) = 0 \/ Cardinality(S) = 1
      BY <3>1
    <3>3. S = {} \/ \E c : S = {c}
      BY <3>1, <3>2, FS_EmptySet, FS_Singleton
    <3> QED  BY <3>3 DEF OneClient
  <2>2. Accounted(f)
    BY <2>1, <1>1 DEF RowsInv
  <2>3. Cardinality(RowsOf(f)) \in Nat /\ unanswered[f] \in Nat
    BY <1>1, RowsOfFile, SheetDomains DEF RowsInv, SheetInv
  <2> QED  BY <2>2, <2>3 DEF Accounted
<1> QED  BY <1>1, RowsInvInit, RowsInvStep, PTL DEF SheetSpec

-----------------------------------------------------------------------------
(* DriveFolders. *)

\* The folders of the same name: the oldest is the one that everybody keeps.
SameName(c, k) == folders[c].level = folders[k].level /\ folders[c].parent = folders[k].parent
Oldest(k) == k \in DOMAIN folders /\ \A c \in DOMAIN folders : SameName(c, k) => k <= c

\* What a call may be given: the oldest of its name, or one that no query sees.
MayGive(k) == k \in DOMAIN folders /\ (Oldest(k) \/ ~Visible(k))

Folders == [level : Levels, parent : Nat, state : {"live", "trashed"}, files : Nat]
FolderCalls ==
  [at : {"idle", "lookup", "list", "create", "relist", "resolve", "trash", "upload"},
   level : Levels, parent : Nat, made : Nat, target : Nat, losers : SUBSET Nat]

DriveKinds ==
  /\ folders \in Seq(Folders)
  /\ cached \in [Installations -> [Levels -> Nat]]
  /\ call \in [Installations -> FolderCalls]

\* The parent of a folder, or of one that is looked for.
GoodPlace(level, parent) ==
  IF level = "date" THEN parent = Root ELSE MayGive(parent) /\ folders[parent].level = "date"

\* The oldest of a name is never trashed; a later one that is seen is empty.
FolderKept(k) ==
  /\ GoodPlace(folders[k].level, folders[k].parent)
  /\ Oldest(k) => folders[k].state = "live"
  /\ Visible(k) /\ ~Oldest(k) => folders[k].files = 0 /\ \A c \in DOMAIN folders : folders[c].parent # k

CacheKept(i) ==
  \A l \in Levels : cached[i][l] # 0 => MayGive(cached[i][l]) /\ folders[cached[i][l]].level = l

\* A duplicate that is to be cleared: not the oldest, and under a parent that is kept.
Duplicate(k) ==
  /\ k \in DOMAIN folders /\ ~Oldest(k)
  /\ folders[k].parent = Root \/ Oldest(folders[k].parent)

CallFits(c) ==
  /\ c.at \in {"idle", "lookup"} => c.parent = Root
  /\ c.at \in {"list", "create", "relist", "resolve", "trash"} => GoodPlace(c.level, c.parent)
  /\ c.at = "upload" => MayGive(c.target)
  /\ c.at = "relist" => /\ c.made \in DOMAIN folders
                        /\ folders[c.made].level = c.level /\ folders[c.made].parent = c.parent
  /\ c.at \in {"resolve", "trash"} => /\ MayGive(c.target) /\ folders[c.target].level = c.level
                                      /\ \A k \in c.losers : Duplicate(k)
  /\ c.at = "trash" => c.losers # {}

CallKept(i) == CallFits(call[i])

DriveKept ==
  /\ DriveKinds
  /\ \A k \in DOMAIN folders : FolderKept(k)
  /\ \A i \in Installations : CacheKept(i) /\ CallKept(i)

\* The call that made a folder, or is about to clear it away.
InHand(k) ==
  \E i \in Installations :
     \/ call[i].at = "relist" /\ call[i].made = k
     \/ call[i].at \in {"resolve", "trash"} /\ k \in call[i].losers

\* As long as no call has failed, a second folder of a name that is seen is in hand.
NoneForgotten == \A k \in DOMAIN folders : Visible(k) /\ ~Oldest(k) => InHand(k)

DriveInv ==
  /\ userActs \in Nat /\ driveFaults \in Nat
  /\ userActs = 0 => DriveKept
  /\ Undisturbed => NoneForgotten

\* What a step may do to the folders: one is added at the end, or one goes to
\* the trash, or takes a file; its name stays.
Evolves ==
  /\ DOMAIN folders \subseteq DOMAIN folders'
  /\ \A k \in DOMAIN folders :
        /\ folders'[k].level = folders[k].level /\ folders'[k].parent = folders[k].parent
        /\ folders'[k].state = "live" => folders[k].state = "live"
  /\ \A c \in DOMAIN folders' \ DOMAIN folders : \A k \in DOMAIN folders : k <= c

LEMMA DriveShape ==
  ASSUME DriveKept
  PROVE  /\ Len(folders) \in Nat /\ DOMAIN folders = 1..Len(folders) /\ Root \notin DOMAIN folders
         /\ \A k \in DOMAIN folders :
               /\ folders[k] \in Folders
               /\ folders[k].parent # Root => folders[k].parent \in DOMAIN folders
         /\ DOMAIN folders \subseteq Nat /\ IsFiniteSet(DOMAIN folders)
<1>1. /\ Len(folders) \in Nat /\ DOMAIN folders = 1..Len(folders)
      /\ \A k \in DOMAIN folders : folders[k] \in Folders
  BY DEF DriveKept, DriveKinds
<1>2. \A k \in DOMAIN folders : folders[k].parent # Root => folders[k].parent \in DOMAIN folders
  BY <1>1 DEF DriveKept, FolderKept, GoodPlace, MayGive
<1>3. IsFiniteSet(1..Len(folders))
  BY <1>1, FS_Interval
<1> QED  BY <1>1, <1>2, <1>3 DEF Root

\* What is the oldest stays the oldest, what no query sees stays hidden.
LEMMA StaysKept ==
  ASSUME DriveKept, Evolves, NEW k \in DOMAIN folders
  PROVE  /\ k \in DOMAIN folders' /\ Oldest(k)' <=> Oldest(k)
         /\ Visible(k)' => Visible(k)
         /\ MayGive(k) => MayGive(k)'
         /\ Duplicate(k) => Duplicate(k)'
<1>0. \A c \in DOMAIN folders : c \in Nat /\ (folders[c].parent # Root => folders[c].parent \in DOMAIN folders)
  BY DriveShape
<1>1. \A c \in DOMAIN folders : Oldest(c)' <=> Oldest(c)
  <2> SUFFICES ASSUME NEW c \in DOMAIN folders PROVE Oldest(c)' <=> Oldest(c)
    OBVIOUS
  <2>1. ASSUME Oldest(c) PROVE Oldest(c)'
    <3> SUFFICES ASSUME NEW d \in DOMAIN folders', SameName(d, c)' PROVE c <= d
      BY DEF Oldest, Evolves
    <3>1. CASE d \in DOMAIN folders
      BY <2>1, <3>1 DEF Oldest, SameName, Evolves
    <3>2. CASE d \notin DOMAIN folders
      BY <3>2 DEF Evolves
    <3> QED  BY <3>1, <3>2
  <2>2. ASSUME Oldest(c)' PROVE Oldest(c)
    BY <2>2 DEF Oldest, SameName, Evolves
  <2> QED  BY <2>1, <2>2
<1>2. Visible(k)' => Visible(k)
  BY <1>0 DEF Visible, Evolves
<1>3. MayGive(k) => MayGive(k)'
  BY <1>1, <1>2 DEF MayGive, Evolves
<1>4. Duplicate(k) => Duplicate(k)'
  BY <1>0, <1>1 DEF Duplicate, Evolves
<1> QED  BY <1>1, <1>2, <1>3, <1>4 DEF Evolves

LEMMA PlaceStays ==
  ASSUME DriveKept, Evolves, NEW l \in Levels, NEW p \in Nat, GoodPlace(l, p)
  PROVE  GoodPlace(l, p)'
BY StaysKept DEF GoodPlace, MayGive, Evolves

LEMMA CallStays ==
  ASSUME DriveKept, Evolves, NEW i \in Installations, NEW c \in FolderCalls, CallFits(c), call'[i] = c
  PROVE  CallKept(i)'
<1>1. c.level \in Levels /\ c.parent \in Nat
  BY DEF FolderCalls
<1>2. c.at \in {"list", "create", "relist", "resolve", "trash"} => GoodPlace(c.level, c.parent)'
  BY <1>1, PlaceStays DEF CallFits
<1>3. c.at = "upload" => MayGive(c.target)'
  BY <1>1, StaysKept DEF CallFits, MayGive
<1>4. c.at = "relist" => /\ c.made \in DOMAIN folders'
                         /\ folders'[c.made].level = c.level /\ folders'[c.made].parent = c.parent
  BY <1>1 DEF CallFits, Evolves
<1>5. c.at \in {"resolve", "trash"} => /\ MayGive(c.target)' /\ folders'[c.target].level = c.level
                                       /\ \A k \in c.losers : Duplicate(k)'
  <2> SUFFICES ASSUME c.at \in {"resolve", "trash"}
               PROVE  /\ MayGive(c.target)' /\ folders'[c.target].level = c.level
                      /\ \A k \in c.losers : Duplicate(k)'
    OBVIOUS
  <2>1. /\ MayGive(c.target) /\ folders[c.target].level = c.level /\ c.target \in DOMAIN folders
        /\ \A k \in c.losers : Duplicate(k) /\ k \in DOMAIN folders
    BY <1>1 DEF CallFits, MayGive, Duplicate
  <2> QED  BY <2>1, StaysKept DEF Evolves
<1>6. CallFits(c)'
  BY <1>2, <1>3, <1>4, <1>5 DEF CallFits
<1> QED  BY <1>6 DEF CallKept

LEMMA CacheStays ==
  ASSUME DriveKept, Evolves, NEW i \in Installations, cached'[i] = cached[i]
  PROVE  CacheKept(i)'
<1> SUFFICES ASSUME NEW l \in Levels, cached[i][l] # 0
             PROVE  MayGive(cached[i][l])' /\ folders'[cached[i][l]].level = l
  BY DEF CacheKept
<1>1. MayGive(cached[i][l]) /\ folders[cached[i][l]].level = l /\ cached[i][l] \in DOMAIN folders
  BY DEF DriveKept, CacheKept, MayGive
<1> QED  BY <1>1, StaysKept DEF Evolves

LEMMA SameFolders ==
  ASSUME DriveKept, folders' = folders
  PROVE  Evolves /\ folders' \in Seq(Folders) /\ \A k \in DOMAIN folders' : FolderKept(k)'
<1>1. Evolves
  BY DEF Evolves
<1>2. \A k \in DOMAIN folders' : FolderKept(k)'
  BY DEF DriveKept, FolderKept, GoodPlace, MayGive, Oldest, SameName, Visible
<1> QED  BY <1>1, <1>2 DEF DriveKept, DriveKinds

\* A new folder is under a parent that may be given.
LEMMA FolderAdded ==
  ASSUME DriveKept, NEW l \in Levels, NEW p \in Nat, GoodPlace(l, p),
         folders' = Append(folders, [level |-> l, parent |-> p, state |-> "live", files |-> 0])
  PROVE  /\ Evolves /\ folders' \in Seq(Folders) /\ \A k \in DOMAIN folders' : FolderKept(k)'
         /\ DOMAIN folders' = DOMAIN folders \cup {Len(folders) + 1} /\ Len(folders) + 1 \in Nat
         /\ folders'[Len(folders) + 1].level = l /\ folders'[Len(folders) + 1].parent = p
         /\ Len(folders) + 1 \notin DOMAIN folders
<1> DEFINE new == [level |-> l, parent |-> p, state |-> "live", files |-> 0]
<1>a. PICK n : n = Len(folders) + 1
  OBVIOUS
<1>0. /\ folders \in Seq(Folders) /\ Len(folders) \in Nat /\ DOMAIN folders = 1..Len(folders)
      /\ \A k \in DOMAIN folders : folders[k] \in Folders
      /\ \A k \in DOMAIN folders : folders[k].parent # Root => folders[k].parent \in DOMAIN folders
  BY DriveShape DEF DriveKept, DriveKinds
<1>1. new \in Folders
  BY DEF Folders
<1>2. /\ folders' \in Seq(Folders) /\ Len(folders') = n /\ folders'[n] = new
      /\ \A k \in DOMAIN folders : folders'[k] = folders[k]
  BY <1>a, <1>0, <1>1, AppendProperties
<1>3. /\ DOMAIN folders' = DOMAIN folders \cup {n} /\ n \notin DOMAIN folders /\ n # Root /\ n \in Nat
      /\ \A k \in DOMAIN folders : k <= n
  BY <1>a, <1>0, <1>2 DEF Root
<1>4. Evolves
  BY <1>2, <1>3 DEF Evolves
<1>5. p = Root \/ (p \in DOMAIN folders /\ MayGive(p))
  BY DEF GoodPlace, MayGive
<1>6. ASSUME NEW k \in DOMAIN folders PROVE FolderKept(k)'
  <2>1. FolderKept(k) /\ folders[k].level \in Levels /\ folders[k].parent \in Nat
    BY <1>0 DEF DriveKept, Folders
  <2>2. GoodPlace(folders[k].level, folders[k].parent)'
    <3>1. GoodPlace(folders[k].level, folders[k].parent)
      BY <2>1 DEF FolderKept
    <3> DEFINE lk == folders[k].level
               pk == folders[k].parent
    <3>2. lk \in Levels /\ pk \in Nat /\ GoodPlace(lk, pk) /\ folders'[k].level = lk /\ folders'[k].parent = pk
      BY <1>2, <2>1, <3>1
    <3>3. folders'[k] = folders[k]
      BY <1>2
    <3> QED  BY <1>4, <3>2, <3>3, StaysKept DEF GoodPlace, MayGive, Evolves
  <2>3. Oldest(k)' => folders'[k].state = "live"
    BY <1>2, <1>4, <2>1, StaysKept DEF FolderKept
  <2>4. Visible(k)' /\ ~Oldest(k)' => folders'[k].files = 0 /\ \A c \in DOMAIN folders' : folders'[c].parent # k
    <3> SUFFICES ASSUME Visible(k)', ~Oldest(k)'
                 PROVE  folders'[k].files = 0 /\ \A c \in DOMAIN folders' : folders'[c].parent # k
      OBVIOUS
    <3>1. Visible(k) /\ ~Oldest(k) /\ k # Root
      BY <1>4, StaysKept, DriveShape
    <3>2. folders[k].files = 0 /\ \A c \in DOMAIN folders : folders[c].parent # k
      BY <2>1, <3>1 DEF FolderKept
    <3>3. p # k
      BY <1>5, <3>1 DEF MayGive
    <3> QED  BY <1>2, <1>3, <3>2, <3>3
  <2> QED  BY <2>2, <2>3, <2>4 DEF FolderKept
<1>7. FolderKept(n)'
  <2>1. GoodPlace(l, p)' /\ folders'[n].level = l /\ folders'[n].parent = p
    BY <1>2, <1>4, PlaceStays
  <2>2. GoodPlace(folders[n].level, folders[n].parent)'
    BY <2>1, ZenonT(40) DEF GoodPlace, MayGive, Oldest, SameName, Visible
  <2>3. \A c \in DOMAIN folders' : folders'[c].parent # n
    BY <1>0, <1>2, <1>3, <1>5
  <2> QED  BY <1>2, <2>2, <2>3 DEF FolderKept
<1> QED  BY <1>a, <1>2, <1>3, <1>4, <1>6, <1>7

\* Clearing away what is not the oldest of its name.
LEMMA FolderTrashed ==
  ASSUME DriveKept, NEW k \in DOMAIN folders, ~Oldest(k),
         folders' = [folders EXCEPT ![k].state = IF @ = "live" THEN "trashed" ELSE @]
  PROVE  Evolves /\ folders' \in Seq(Folders) /\ \A c \in DOMAIN folders' : FolderKept(c)'
<1>0. /\ folders \in Seq(Folders) /\ Len(folders) \in Nat /\ DOMAIN folders = 1..Len(folders)
      /\ \A c \in DOMAIN folders : folders[c] \in Folders
  BY DriveShape DEF DriveKept, DriveKinds
<1>1. /\ DOMAIN folders' = DOMAIN folders
      /\ \A c \in DOMAIN folders :
            /\ folders'[c].level = folders[c].level /\ folders'[c].parent = folders[c].parent
            /\ folders'[c].files = folders[c].files
            /\ folders'[c] \in Folders
            /\ folders'[c].state = "live" => folders[c].state = "live"
            /\ c # k => folders'[c].state = folders[c].state
  BY <1>0 DEF Folders
<1>2. folders' \in Seq(Folders)
  BY <1>0, <1>1
<1>3. Evolves
  BY <1>1 DEF Evolves
<1>4. ASSUME NEW c \in DOMAIN folders PROVE FolderKept(c)'
  <2>1. /\ FolderKept(c) /\ (Oldest(c)' <=> Oldest(c)) /\ (Visible(c)' => Visible(c))
        /\ folders[c].level \in Levels /\ folders[c].parent \in Nat
    BY <1>0, <1>3, StaysKept DEF DriveKept, Folders
  <2>2. GoodPlace(folders[c].level, folders[c].parent)'
    BY <1>1, <1>3, <2>1, StaysKept DEF FolderKept, GoodPlace, MayGive
  <2>3. Oldest(c)' => folders'[c].state = "live"
    BY <1>1, <2>1 DEF FolderKept
  <2>4. Visible(c)' /\ ~Oldest(c)' => folders'[c].files = 0 /\ \A d \in DOMAIN folders' : folders'[d].parent # c
    BY <1>1, <2>1 DEF FolderKept
  <2> QED  BY <2>2, <2>3, <2>4 DEF FolderKept
<1> QED  BY <1>1, <1>2, <1>3, <1>4

\* A file goes to a folder that may be given.
LEMMA FileAdded ==
  ASSUME DriveKept, NEW k \in DOMAIN folders, MayGive(k),
         folders' = [folders EXCEPT ![k].files = @ + 1]
  PROVE  Evolves /\ folders' \in Seq(Folders) /\ \A c \in DOMAIN folders' : FolderKept(c)'
<1>0. /\ folders \in Seq(Folders) /\ Len(folders) \in Nat /\ DOMAIN folders = 1..Len(folders)
      /\ \A c \in DOMAIN folders : folders[c] \in Folders
  BY DriveShape DEF DriveKept, DriveKinds
<1>1. /\ DOMAIN folders' = DOMAIN folders
      /\ \A c \in DOMAIN folders :
            /\ folders'[c].level = folders[c].level /\ folders'[c].parent = folders[c].parent
            /\ folders'[c].state = folders[c].state
            /\ folders'[c] \in Folders
            /\ c # k => folders'[c].files = folders[c].files
  <2>1. folders[k].files + 1 \in Nat /\ folders[k] \in Folders
    BY <1>0 DEF Folders
  <2> DEFINE new == [folders[k] EXCEPT !.files = @ + 1]
  <2>2. /\ new \in Folders /\ new.level = folders[k].level /\ new.parent = folders[k].parent
        /\ new.state = folders[k].state
    <3> DEFINE m == folders[k].files + 1
    <3>1. m \in Nat
      BY <2>1
    <3> HIDE DEF m
    <3> QED  BY <2>1, <3>1 DEF Folders, m
  <2>3. folders' = [folders EXCEPT ![k] = new]
    OBVIOUS
  <2> HIDE DEF new
  <2> QED  BY <1>0, <2>2, <2>3
<1>2. folders' \in Seq(Folders)
  BY <1>0, <1>1
<1>3. Evolves
  BY <1>1 DEF Evolves
<1>4. ASSUME NEW c \in DOMAIN folders PROVE FolderKept(c)'
  <2>1. /\ FolderKept(c) /\ (Oldest(c)' <=> Oldest(c)) /\ (Visible(c)' => Visible(c))
        /\ folders[c].level \in Levels /\ folders[c].parent \in Nat
    BY <1>0, <1>3, StaysKept DEF DriveKept, Folders
  <2>2. GoodPlace(folders[c].level, folders[c].parent)'
    BY <1>1, <1>3, <2>1, StaysKept DEF FolderKept, GoodPlace, MayGive
  <2>3. Oldest(c)' => folders'[c].state = "live"
    BY <1>1, <2>1 DEF FolderKept
  <2>4. Visible(c)' /\ ~Oldest(c)' => folders'[c].files = 0 /\ \A d \in DOMAIN folders' : folders'[d].parent # c
    BY <1>1, <2>1 DEF FolderKept, MayGive
  <2> QED  BY <2>2, <2>3, <2>4 DEF FolderKept
<1> QED  BY <1>1, <1>2, <1>3, <1>4

\* The oldest folder of a name is among those that a query finds, if any is:
\* it is the least of them, and the others are duplicates.
LEMMA OldestIsFound ==
  ASSUME DriveKept, NEW l \in Levels, NEW p \in Nat, GoodPlace(l, p), Named(l, p) # {}
  PROVE  /\ Min(Named(l, p)) \in Named(l, p) /\ Oldest(Min(Named(l, p)))
         /\ \A k \in Named(l, p) : k # Min(Named(l, p)) => Duplicate(k)
<1> DEFINE found == Named(l, p)
           S == {c \in DOMAIN folders : folders[c].level = l /\ folders[c].parent = p}
<1>0. /\ DOMAIN folders \subseteq Nat /\ IsFiniteSet(DOMAIN folders)
      /\ \A k \in DOMAIN folders : folders[k] \in Folders
  BY DriveShape
<1>1. /\ found \subseteq S /\ S \subseteq DOMAIN folders /\ S # {} /\ S \subseteq Int /\ found \subseteq Int
      /\ \A k \in found : Visible(k)
  BY <1>0 DEF Named
<1>2. IsFiniteSet(S) /\ IsFiniteSet(found)
  BY <1>0, <1>1, FS_Subset
<1>3. Min(S) \in S /\ \A c \in S : Min(S) <= c
  BY <1>1, <1>2, LeastNumber
<1>4. Min(found) \in found /\ \A c \in found : Min(found) <= c
  BY <1>1, <1>2, LeastNumber
<1> HIDE DEF found, S
<1> DEFINE o == Min(S)
<1>5. o \in DOMAIN folders /\ Oldest(o)
  BY <1>1, <1>3 DEF Oldest, SameName, S
<1>6. PICK k \in found : TRUE
  BY <1>4
<1>7. Visible(o)
  <2>1. folders[o].state = "live" /\ folders[o].parent = folders[k].parent
    BY <1>1, <1>3, <1>5, <1>6 DEF DriveKept, FolderKept, S
  <2> QED  BY <1>1, <1>6, <2>1 DEF Visible
<1>8. o \in found
  BY <1>3, <1>7 DEF found, S, Named
<1>9. o = Min(found)
  <2>1. o \in Int /\ Min(found) \in Int /\ o <= Min(found) /\ Min(found) <= o
    BY <1>1, <1>3, <1>4, <1>8
  <2> QED  BY <2>1
<1>10. ASSUME NEW c \in found, c # o PROVE Duplicate(c)
  <2>1. c \in S /\ c \in DOMAIN folders /\ Visible(c) /\ folders[c].parent = p /\ folders[c].level = l
    BY <1>1 DEF S
  <2>2. ~Oldest(c)
    <3>1. Oldest(c) => c <= o
      BY <1>3, <1>5, <2>1 DEF Oldest, SameName, S
    <3>2. o <= c /\ o \in Int /\ c \in Int
      BY <1>1, <1>3, <2>1
    <3> QED  BY <1>10, <3>1, <3>2
  <2>3. p = Root \/ Oldest(p)
    <3>1. CASE p # Root
      <4>1. MayGive(p) /\ p \in DOMAIN folders /\ folders[p].level = "date"
        BY <3>1 DEF GoodPlace, MayGive
      <4>2. folders[p].state = "live"
        BY <2>1, <3>1 DEF Visible
      <4>3. folders[p].parent = Root
        BY <4>1 DEF DriveKept, FolderKept, GoodPlace
      <4>4. Visible(p)
        BY <4>2, <4>3 DEF Visible
      <4> QED  BY <4>1, <4>4 DEF MayGive
    <3> QED  BY <3>1
  <2> QED  BY <2>1, <2>2, <2>3 DEF Duplicate
<1> QED  BY <1>4, <1>5, <1>9, <1>10 DEF found

\* One installation's step keeps what the others know.
LEMMA OthersKept ==
  ASSUME DriveKept, Evolves, folders' \in Seq(Folders), \A k \in DOMAIN folders' : FolderKept(k)',
         NEW i \in Installations, NEW c \in FolderCalls, call' = [call EXCEPT ![i] = c],
         cached' \in [Installations -> [Levels -> Nat]],
         \A j \in Installations : j # i => cached'[j] = cached[j],
         CacheKept(i)', CallKept(i)'
  PROVE  DriveKept'
<1>1. call' \in [Installations -> FolderCalls] /\ \A j \in Installations : j # i => call'[j] = call[j]
  BY DEF DriveKept, DriveKinds
<1>2. ASSUME NEW j \in Installations PROVE CacheKept(j)' /\ CallKept(j)'
  <2>1. CASE j = i
    BY <2>1
  <2>2. CASE j # i
    <3>1. call'[j] = call[j] /\ call[j] \in FolderCalls /\ CallFits(call[j])
      BY <1>1, <2>2 DEF DriveKept, DriveKinds, CallKept
    <3>2. CallKept(j)'
      <4>1. PICK d : d = call[j]
        OBVIOUS
      <4> QED  BY <3>1, <4>1, CallStays
    <3> QED  BY <2>2, <3>2, CacheStays
  <2> QED  BY <2>1, <2>2
<1> QED  BY <1>1, <1>2 DEF DriveKept, DriveKinds

LEMMA FoundKeeps ==
  ASSUME DriveKept, folders' = folders, NEW i \in Installations, NEW k, MayGive(k),
         folders[k].level = call[i].level, Found(i, k)
  PROVE  DriveKept'
<1>0. Evolves /\ folders' \in Seq(Folders) /\ \A c \in DOMAIN folders' : FolderKept(c)'
  BY SameFolders
<1>1. /\ cached \in [Installations -> [Levels -> Nat]] /\ call[i].level \in Levels /\ k \in Nat
      /\ k \in DOMAIN folders /\ call \in [Installations -> FolderCalls] /\ CacheKept(i) /\ Levels = {"date", "device"}
  BY DriveShape DEF DriveKept, DriveKinds, MayGive, FolderCalls, Levels
<1>2. /\ cached' = [cached EXCEPT ![i][call[i].level] = k]
      /\ call' = [call EXCEPT ![i] = IF call[i].level = "date" THEN [NoCall EXCEPT !.at = "list", !.parent = k]
                                     ELSE [NoCall EXCEPT !.at = "upload", !.target = k]]
  BY DEF Found, Go
<1> DEFINE c == IF call[i].level = "date" THEN [NoCall EXCEPT !.at = "list", !.parent = k]
                ELSE [NoCall EXCEPT !.at = "upload", !.target = k]
<1>3. c \in FolderCalls /\ call'[i] = c
  BY <1>1, <1>2 DEF FolderCalls, NoCall, Root
<1>4. /\ cached' \in [Installations -> [Levels -> Nat]]
      /\ \A j \in Installations : j # i => cached'[j] = cached[j]
      /\ \A l \in Levels : cached'[i][l] = IF l = call[i].level THEN k ELSE cached[i][l]
  BY <1>1, <1>2
<1>5. CacheKept(i)'
  <2> SUFFICES ASSUME NEW l \in Levels, NEW m, m = cached'[i][l], m # 0
               PROVE  MayGive(m)' /\ folders'[m].level = l
    BY DEF CacheKept, MayGive, Oldest, SameName, Visible
  <2>1. MayGive(m) /\ folders[m].level = l
    BY <1>1, <1>4 DEF CacheKept
  <2> QED  BY <2>1 DEF MayGive, Oldest, SameName, Visible
<1>6. MayGive(k)' /\ folders'[k].level = call[i].level
  BY DEF MayGive, Oldest, SameName, Visible
<1>7. CallKept(i)'
  <2>1. CASE call[i].level = "date"
    <3>1. call'[i].at = "list" /\ call'[i].level = "device" /\ call'[i].parent = k
      BY <1>3, <2>1 DEF NoCall
    <3> QED  BY <1>6, <2>1, <3>1 DEF CallKept, CallFits, GoodPlace, MayGive, Oldest, SameName, Visible
  <2>2. CASE call[i].level # "date"
    <3>1. call'[i].at = "upload" /\ call'[i].target = k
      BY <1>3, <2>2 DEF NoCall
    <3> QED  BY <1>6, <3>1 DEF CallKept, CallFits, MayGive, Oldest, SameName, Visible
  <2> QED  BY <2>1, <2>2
<1> HIDE DEF c
<1> QED  BY <1>0, <1>2, <1>3, <1>4, <1>5, <1>7, OthersKept DEF c

\* A step of a call that leaves the cache alone.
LEMMA CallMoves ==
  ASSUME DriveKept, Evolves, folders' \in Seq(Folders), \A k \in DOMAIN folders' : FolderKept(k)',
         NEW i \in Installations, NEW c \in FolderCalls, CallFits(c),
         call' = [call EXCEPT ![i] = c], cached' = cached
  PROVE  DriveKept'
<1>1. CallKept(i)'
  <2>1. call'[i] = c
    BY DEF DriveKept, DriveKinds
  <2> QED  BY <2>1, CallStays
<1>2. CacheKept(i)'
  BY CacheStays
<1>3. cached' \in [Installations -> [Levels -> Nat]]
  BY DEF DriveKept, DriveKinds
<1> QED  BY <1>1, <1>2, <1>3, OthersKept

LEMMA ResolveKeeps ==
  ASSUME DriveKept, folders' = folders, NEW i \in Installations, call[i].at \in {"list", "relist"},
         Named(call[i].level, call[i].parent) # {},
         Resolve(i, Named(call[i].level, call[i].parent))
  PROVE  DriveKept'
<1>0. Evolves /\ folders' \in Seq(Folders) /\ \A k \in DOMAIN folders' : FolderKept(k)'
  BY SameFolders
<1>1. call[i] \in FolderCalls /\ call[i].level \in Levels /\ call[i].parent \in Nat /\ CallFits(call[i])
  BY DEF DriveKept, DriveKinds, FolderCalls, CallKept
<1>2. PICK l, p, found, o : /\ l = call[i].level /\ p = call[i].parent
                            /\ found = Named(l, p) /\ o = Min(found)
  OBVIOUS
<1>3. /\ l \in Levels /\ p \in Nat /\ GoodPlace(l, p)
      /\ o \in found /\ Oldest(o) /\ \A k \in found : k # o => Duplicate(k)
  BY <1>1, <1>2, OldestIsFound DEF CallFits
<1>4. /\ found \subseteq Nat /\ folders[o].level = l /\ MayGive(o)
  BY <1>2, <1>3, DriveShape DEF Named, MayGive
<1>5. PICK c : c = [call[i] EXCEPT !.at = "resolve", !.target = o, !.losers = found \ {o}]
  OBVIOUS
<1>6. /\ c \in FolderCalls /\ c.at = "resolve" /\ c.level = l /\ c.parent = p /\ c.target = o
      /\ c.losers = found \ {o}
  BY <1>1, <1>2, <1>3, <1>4, <1>5, ZenonT(40) DEF FolderCalls
<1>7. CallFits(c)
  BY <1>3, <1>4, <1>6 DEF CallFits
<1>8. call' = [call EXCEPT ![i] = c] /\ cached' = cached
  BY <1>2, <1>5 DEF Resolve, Go
<1> QED  BY <1>0, <1>6, <1>7, <1>8, CallMoves

\* The least of the duplicates that are left.
LEMMA LeastLoser ==
  ASSUME DriveKept, NEW i \in Installations, call[i].at \in {"resolve", "trash"}, call[i].losers # {}
  PROVE  Min(call[i].losers) \in call[i].losers /\ Duplicate(Min(call[i].losers))
<1>1. CallFits(call[i])
  BY DEF DriveKept, CallKept
<1>2. call[i].losers \subseteq DOMAIN folders /\ \A k \in call[i].losers : Duplicate(k)
  BY <1>1 DEF CallFits, Duplicate
<1>3. IsFiniteSet(call[i].losers) /\ call[i].losers \subseteq Int
  BY <1>2, DriveShape, FS_Subset
<1> QED  BY <1>2, <1>3, LeastNumber

LEMMA DropKeeps ==
  ASSUME DriveKept, Evolves, folders' \in Seq(Folders), \A k \in DOMAIN folders' : FolderKept(k)',
         NEW i \in Installations, call[i].at \in {"resolve", "trash"}, DropLoser(i), cached' = cached
  PROVE  DriveKept'
<1>1. call[i] \in FolderCalls /\ CallFits(call[i])
  BY DEF DriveKept, DriveKinds, CallKept
<1>2. PICK c : c = [call[i] EXCEPT !.at = "resolve", !.losers = @ \ {Min(@)}]
  OBVIOUS
<1>3. /\ c \in FolderCalls /\ c.at = "resolve" /\ c.level = call[i].level /\ c.parent = call[i].parent
      /\ c.target = call[i].target /\ c.losers \subseteq call[i].losers
  BY <1>1, <1>2 DEF FolderCalls
<1>4. CallFits(c)
  BY <1>1, <1>3 DEF CallFits
<1>5. call' = [call EXCEPT ![i] = c]
  BY <1>2 DEF DropLoser, Go
<1> QED  BY <1>3, <1>4, <1>5, CallMoves

\* The steps of a call.
FolderCall(i) ==
  \/ AskFolder(i) \/ UseCached(i) \/ Miss(i) \/ ListFolders(i) \/ CreateFolder(i)
  \/ CreateUnanswered(i) \/ RelistFolders(i) \/ CheckLoser(i) \/ TrashLoser(i)
  \/ CleanupFails(i) \/ Resolved(i) \/ UploadFile(i) \/ CallEnds(i)

LEMMA FolderCallKeeps == ASSUME DriveKept, NEW i \in Installations, FolderCall(i) PROVE DriveKept'
<1>0. /\ call \in [Installations -> FolderCalls] /\ call[i] \in FolderCalls /\ CallFits(call[i]) /\ CacheKept(i)
      /\ call[i].level \in Levels /\ call[i].parent \in Nat /\ cached \in [Installations -> [Levels -> Nat]]
      /\ Levels = {"date", "device"}
  BY DEF DriveKept, DriveKinds, FolderCalls, CallKept, Levels
<1>1. ASSUME folders' = folders
      PROVE  Evolves /\ folders' \in Seq(Folders) /\ \A k \in DOMAIN folders' : FolderKept(k)'
  BY <1>1, SameFolders
<1>2. ASSUME NEW c \in FolderCalls, CallFits(c), Go(i, c), folders' = folders, cached' = cached
      PROVE  DriveKept'
  BY <1>1, <1>2, CallMoves DEF Go
<1>3. NoCall \in FolderCalls /\ CallFits(NoCall)
  BY DEF NoCall, FolderCalls, CallFits, Levels, Root
<1>4. CASE AskFolder(i)
  <2> DEFINE c == [call[i] EXCEPT !.at = "lookup"]
  <2>1. call[i].parent = Root
    <3>1. call[i].at = "idle"
      BY <1>4 DEF AskFolder
    <3> QED  BY <1>0, <3>1 DEF CallFits
  <2>2. c \in FolderCalls /\ CallFits(c)
    BY <1>0, <2>1 DEF FolderCalls, CallFits
  <2>3. Go(i, c) /\ folders' = folders /\ cached' = cached
    BY <1>4 DEF AskFolder, Stay
  <2> HIDE DEF c
  <2> QED  BY <1>2, <2>2, <2>3
<1>5. CASE UseCached(i)
  <2>1. PICK k : k = cached[i][call[i].level]
    OBVIOUS
  <2>2. k # 0 /\ Found(i, k) /\ folders' = folders
    BY <1>5, <2>1 DEF UseCached, Usable
  <2>3. MayGive(k) /\ folders[k].level = call[i].level
    BY <1>0, <2>1, <2>2 DEF CacheKept
  <2> QED  BY <2>2, <2>3, FoundKeeps
<1>6. CASE Miss(i)
  <2> DEFINE c == IF call[i].level = "device" THEN [call[i] EXCEPT !.level = "date"]
                  ELSE [call[i] EXCEPT !.at = "list"]
  <2>1. c \in FolderCalls /\ CallFits(c)
    <3>1. call[i].at = "lookup" /\ call[i].parent = Root
      BY <1>0, <1>6 DEF Miss, CallFits
    <3>2. CASE call[i].level = "device"
      <4>1. c = [call[i] EXCEPT !.level = "date"]
        BY <3>2
      <4>2. c \in FolderCalls /\ c.at = "lookup" /\ c.parent = Root
        BY <1>0, <3>1, <4>1 DEF FolderCalls
      <4> HIDE DEF c
      <4> QED  BY <4>2 DEF CallFits
    <3>3. CASE call[i].level = "date"
      <4>1. c = [call[i] EXCEPT !.at = "list"]
        BY <3>3
      <4>2. c \in FolderCalls /\ c.at = "list" /\ c.parent = Root /\ c.level = "date"
        BY <1>0, <3>1, <3>3, <4>1 DEF FolderCalls
      <4> HIDE DEF c
      <4> QED  BY <4>2 DEF CallFits, GoodPlace
    <3> QED  BY <1>0, <3>2, <3>3
  <2>2. /\ Go(i, c) /\ folders' = folders /\ cached' = [cached EXCEPT ![i][call[i].level] = 0]
    BY <1>6 DEF Miss
  <2> HIDE DEF c
  <2>3. /\ cached' \in [Installations -> [Levels -> Nat]]
        /\ \A j \in Installations : j # i => cached'[j] = cached[j]
        /\ \A l \in Levels : cached'[i][l] = IF l = call[i].level THEN 0 ELSE cached[i][l]
    BY <1>0, <2>2
  <2>4. CacheKept(i)'
    BY <1>0, <2>2, <2>3 DEF CacheKept, MayGive, Oldest, SameName, Visible
  <2>5. call' = [call EXCEPT ![i] = c] /\ call'[i] = c
    BY <1>0, <2>2 DEF Go
  <2>6. CallKept(i)'
    BY <1>1, <2>1, <2>2, <2>5, CallStays
  <2> QED  BY <1>1, <2>1, <2>2, <2>3, <2>4, <2>5, <2>6, OthersKept
<1>7. CASE ListFolders(i)
  <2>1. PICK found : found = Named(call[i].level, call[i].parent)
    OBVIOUS
  <2>2. call[i].at = "list" /\ folders' = folders /\ GoodPlace(call[i].level, call[i].parent)
    BY <1>0, <1>7 DEF ListFolders, CallFits
  <2>3. \/ found = {} /\ Stay(i, "create") /\ cached' = cached
        \/ found # {} /\ (Found(i, Min(found)) \/ Resolve(i, found))
    <3>1. CASE found = {}
      <4>1. ~(Cardinality(found) = 1)
        BY <3>1, FS_EmptySet
      <4> QED  BY <1>7, <2>1, <3>1, <4>1 DEF ListFolders
    <3>2. CASE found # {} /\ Cardinality(found) = 1
      BY <1>7, <2>1, <3>2 DEF ListFolders
    <3>3. CASE found # {} /\ ~(Cardinality(found) = 1)
      BY <1>7, <2>1, <3>3 DEF ListFolders
    <3> QED  BY <3>1, <3>2, <3>3
  <2>4. CASE found = {} /\ Stay(i, "create") /\ cached' = cached
    <3> DEFINE c == [call[i] EXCEPT !.at = "create"]
    <3>1. c \in FolderCalls /\ CallFits(c)
      BY <1>0, <2>2 DEF FolderCalls, CallFits
    <3>2. Go(i, c)
      BY <2>4 DEF Stay
    <3> HIDE DEF c
    <3> QED  BY <1>2, <2>2, <2>4, <3>1, <3>2
  <2>5. CASE found # {} /\ Found(i, Min(found))
    <3>1. PICK o : o = Min(found)
      OBVIOUS
    <3>2. MayGive(o) /\ folders[o].level = call[i].level
      BY <1>0, <2>1, <2>2, <2>5, <3>1, OldestIsFound DEF MayGive, Named, Oldest
    <3> QED  BY <2>2, <2>5, <3>1, <3>2, FoundKeeps
  <2>6. CASE found # {} /\ Resolve(i, found)
    BY <2>1, <2>2, <2>6, ResolveKeeps
  <2> QED  BY <2>3, <2>4, <2>5, <2>6
<1>8. CASE CreateFolder(i) \/ CreateUnanswered(i)
  <2>1. PICK l, p, n : l = call[i].level /\ p = call[i].parent /\ n = Len(folders) + 1
    OBVIOUS
  <2>2. /\ call[i].at = "create" /\ GoodPlace(l, p) /\ cached' = cached
        /\ folders' = Append(folders, [level |-> l, parent |-> p, state |-> "live", files |-> 0])
        /\ l \in Levels /\ p \in Nat
    BY <1>0, <1>8, <2>1 DEF CreateFolder, CreateUnanswered, NewFolder, CallFits
  <2>3. /\ Evolves /\ folders' \in Seq(Folders) /\ \A k \in DOMAIN folders' : FolderKept(k)'
        /\ DOMAIN folders' = DOMAIN folders \cup {n} /\ n \in Nat
        /\ folders'[n].level = l /\ folders'[n].parent = p
    BY <2>1, <2>2, FolderAdded
  <2>4. CASE CreateFolder(i)
    <3> DEFINE c == [call[i] EXCEPT !.at = "relist", !.made = n]
    <3>1. /\ c \in FolderCalls /\ c.at = "relist" /\ c.level = l /\ c.parent = p /\ c.made = n
      BY <1>0, <2>1, <2>3 DEF FolderCalls
    <3>2. call' = [call EXCEPT ![i] = c] /\ call'[i] = c
      BY <1>0, <2>1, <2>4 DEF CreateFolder, Go
    <3>3. PICK d : d = c
      OBVIOUS
    <3> HIDE DEF c
    <3>4. GoodPlace(l, p)'
      BY <2>2, <2>3, PlaceStays
    <3>5. CallKept(i)'
      <4>1. CallFits(d)'
        BY <2>3, <3>1, <3>3, <3>4 DEF CallFits
      <4> QED  BY <3>2, <3>3, <4>1 DEF CallKept
    <3>6. CacheKept(i)'
      BY <2>2, <2>3, CacheStays
    <3>7. call' = [call EXCEPT ![i] = d] /\ d \in FolderCalls
      BY <3>1, <3>2, <3>3
    <3> QED  BY <1>0, <2>2, <2>3, <3>5, <3>6, <3>7, OthersKept
  <2>5. CASE CreateUnanswered(i)
    <3> DEFINE c == [call[i] EXCEPT !.at = "list"]
    <3>1. c \in FolderCalls /\ CallFits(c)
      BY <1>0, <2>2 DEF FolderCalls, CallFits
    <3>2. call' = [call EXCEPT ![i] = c]
      BY <2>5 DEF CreateUnanswered, Stay, Go
    <3> HIDE DEF c
    <3> QED  BY <2>2, <2>3, <3>1, <3>2, CallMoves
  <2> QED  BY <1>8, <2>4, <2>5
<1>9. CASE RelistFolders(i)
  <2>1. PICK found : found = Named(call[i].level, call[i].parent)
    OBVIOUS
  <2>2. PICK m : m = call[i].made
    OBVIOUS
  <2>3. /\ call[i].at = "relist" /\ folders' = folders /\ GoodPlace(call[i].level, call[i].parent)
        /\ m \in DOMAIN folders /\ folders[m].level = call[i].level /\ folders[m].parent = call[i].parent
        /\ IF Cardinality(found) > 1 THEN Resolve(i, found) ELSE Found(i, m)
        /\ IsFiniteSet(found)
    <3>1. IsFiniteSet(found)
      BY <2>1, DriveShape, FS_Subset DEF Named
    <3> QED  BY <1>0, <1>9, <2>1, <2>2, <3>1 DEF RelistFolders, CallFits
  <2>4. CASE Cardinality(found) > 1
    <3>1. found # {}
      BY <2>4, FS_EmptySet
    <3> QED  BY <2>1, <2>3, <2>4, <3>1, ResolveKeeps
  <2>5. CASE ~(Cardinality(found) > 1)
    <3>1. \A x, y \in found : x = y
      <4>1. Cardinality(found) \in Nat
        BY <2>3, FS_CardinalityType
      <4>2. Cardinality(found) <= 1
        BY <2>5, <4>1
      <4> QED  BY <2>3, <4>2, OneAtMost
    <3>2. MayGive(m)
      <4>1. CASE Visible(m)
        <5>1. m \in found
          BY <2>1, <2>3, <4>1 DEF Named
        <5>2. Oldest(m)
          BY <1>0, <2>1, <2>3, <3>1, <5>1, OldestIsFound
        <5> QED  BY <2>3, <5>2 DEF MayGive
      <4>2. CASE ~Visible(m)
        BY <2>3, <4>2 DEF MayGive
      <4> QED  BY <4>1, <4>2
    <3> QED  BY <2>3, <2>5, <3>2, FoundKeeps
  <2> QED  BY <2>4, <2>5
<1>10. CASE CheckLoser(i)
  <2>1. folders' = folders /\ cached' = cached /\ call[i].at = "resolve" /\ call[i].losers # {}
    BY <1>10 DEF CheckLoser
  <2>2. CASE DropLoser(i)
    BY <1>1, <2>1, <2>2, DropKeeps
  <2>3. CASE Stay(i, "trash")
    <3> DEFINE c == [call[i] EXCEPT !.at = "trash"]
    <3>1. c \in FolderCalls /\ CallFits(c)
      BY <1>0, <2>1 DEF FolderCalls, CallFits
    <3>2. Go(i, c)
      BY <2>3 DEF Stay
    <3> HIDE DEF c
    <3> QED  BY <1>2, <2>1, <3>1, <3>2
  <2> QED  BY <1>10, <2>2, <2>3 DEF CheckLoser
<1>11. CASE TrashLoser(i)
  <2>1. PICK k : k = Min(call[i].losers)
    OBVIOUS
  <2>2. /\ call[i].at = "trash" /\ DropLoser(i) /\ cached' = cached
        /\ folders' = [folders EXCEPT ![k].state = IF @ = "live" THEN "trashed" ELSE @]
    BY <1>11, <2>1 DEF TrashLoser
  <2>3. k \in DOMAIN folders /\ ~Oldest(k)
    BY <1>0, <2>1, <2>2, LeastLoser DEF CallFits, Duplicate
  <2> QED  BY <2>2, <2>3, FolderTrashed, DropKeeps
<1>12. CASE CleanupFails(i)
  <2>1. folders' = folders /\ cached' = cached /\ call[i].at \in {"resolve", "trash"} /\ DropLoser(i)
    BY <1>12 DEF CleanupFails
  <2> QED  BY <1>1, <2>1, DropKeeps
<1>13. CASE Resolved(i)
  <2>1. PICK k : k = call[i].target
    OBVIOUS
  <2>2. folders' = folders /\ Found(i, k) /\ MayGive(k) /\ folders[k].level = call[i].level
    BY <1>0, <1>13, <2>1 DEF Resolved, CallFits
  <2> QED  BY <2>2, FoundKeeps
<1>14. CASE UploadFile(i)
  <2>1. PICK k : k = call[i].target
    OBVIOUS
  <2>2. MayGive(k) /\ k \in DOMAIN folders /\ Go(i, NoCall) /\ cached' = cached
    BY <1>0, <1>14, <2>1 DEF UploadFile, CallFits, MayGive
  <2>3. folders[k].state # "deleted"
    BY <2>2, DriveShape DEF Folders
  <2>4. folders' = [folders EXCEPT ![k].files = @ + 1]
    BY <1>14, <2>1, <2>3 DEF UploadFile
  <2>5. Evolves /\ folders' \in Seq(Folders) /\ \A c \in DOMAIN folders' : FolderKept(c)'
    BY <2>2, <2>4, FileAdded
  <2>6. call' = [call EXCEPT ![i] = NoCall]
    BY <2>2 DEF Go
  <2> QED  BY <1>3, <2>2, <2>5, <2>6, CallMoves
<1>15. CASE CallEnds(i)
  BY <1>2, <1>3, <1>15 DEF CallEnds
<1> QED  BY <1>4, <1>5, <1>6, <1>7, <1>8, <1>9, <1>10, <1>11, <1>12, <1>13, <1>14, <1>15 DEF FolderCall

\* While nothing fails, a duplicate that is seen is in hand until it is cleared:
\* who makes one lists again, who lists two clears all but the oldest, and what
\* is empty is not left.
LEMMA ForgetsNone ==
  ASSUME DriveKept, NoneForgotten, NEW i \in Installations, FolderCall(i),
         ~CreateUnanswered(i), ~CleanupFails(i), ~CallEnds(i)
  PROVE  NoneForgotten'
<1>0. /\ call \in [Installations -> FolderCalls] /\ call[i] \in FolderCalls /\ CallFits(call[i])
      /\ call[i].level \in Levels /\ call[i].parent \in Nat
      /\ DOMAIN folders = 1..Len(folders) /\ Len(folders) \in Nat
  BY DriveShape DEF DriveKept, DriveKinds, FolderCalls, CallKept
<1>1. Evolves /\ \A k \in DOMAIN folders' : k \in DOMAIN folders \/ (CreateFolder(i) /\ k = Len(folders) + 1)
  <2>1. CASE CreateFolder(i)
    <3>1. PICK l, p : l = call[i].level /\ p = call[i].parent
      OBVIOUS
    <3>2. /\ GoodPlace(l, p) /\ l \in Levels /\ p \in Nat
          /\ folders' = Append(folders, [level |-> l, parent |-> p, state |-> "live", files |-> 0])
      BY <1>0, <2>1, <3>1 DEF CreateFolder, NewFolder, CallFits
    <3> QED  BY <2>1, <3>2, FolderAdded
  <2>2. CASE TrashLoser(i)
    <3>1. PICK k : k = Min(call[i].losers)
      OBVIOUS
    <3>2. k \in DOMAIN folders /\ ~Oldest(k)
      BY <1>0, <2>2, <3>1, LeastLoser DEF CallFits, Duplicate, TrashLoser
    <3>3. folders' = [folders EXCEPT ![k].state = IF @ = "live" THEN "trashed" ELSE @]
      BY <2>2, <3>1 DEF TrashLoser
    <3>4. Evolves /\ DOMAIN folders' = DOMAIN folders
      BY <3>2, <3>3, FolderTrashed
    <3> QED  BY <3>4
  <2>3. CASE UploadFile(i)
    <3>1. PICK k : k = call[i].target
      OBVIOUS
    <3>2. MayGive(k) /\ k \in DOMAIN folders
      BY <1>0, <2>3, <3>1 DEF UploadFile, CallFits, MayGive
    <3>3. folders[k].state # "deleted"
      BY <3>2, DriveShape DEF Folders
    <3>4. folders' = [folders EXCEPT ![k].files = @ + 1]
      BY <2>3, <3>1, <3>3 DEF UploadFile
    <3>5. Evolves /\ DOMAIN folders' = DOMAIN folders
      BY <3>2, <3>4, FileAdded
    <3> QED  BY <3>5
  <2>4. CASE ~CreateFolder(i) /\ ~TrashLoser(i) /\ ~UploadFile(i)
    <3>1. folders' = folders
      BY <2>4 DEF FolderCall, AskFolder, UseCached, Miss, ListFolders, RelistFolders, CheckLoser, Resolved
    <3> QED  BY <3>1, SameFolders
  <2> QED  BY <2>1, <2>2, <2>3, <2>4
<1>2. ASSUME NEW k \in DOMAIN folders, Visible(k)', ~Oldest(k)' PROVE InHand(k)'
  <2>1. Visible(k) /\ ~Oldest(k) /\ folders[k].files = 0 /\ \A c \in DOMAIN folders : folders[c].parent # k
    BY <1>1, <1>2, StaysKept DEF DriveKept, FolderKept
  <2>2. PICK j \in Installations : \/ call[j].at = "relist" /\ call[j].made = k
                                   \/ call[j].at \in {"resolve", "trash"} /\ k \in call[j].losers
    BY <2>1 DEF NoneForgotten, InHand
  <2>3. CASE j # i
    <3>1. call'[j] = call[j]
      BY <1>0, <2>3 DEF FolderCall, AskFolder, UseCached, Miss, ListFolders, CreateFolder, CreateUnanswered,
                     RelistFolders, CheckLoser, TrashLoser, CleanupFails, Resolved, UploadFile, CallEnds,
                     Found, Resolve, DropLoser, Stay, Go
    <3> QED  BY <2>2, <3>1 DEF InHand
  <2>4. CASE j = i /\ call[i].at = "relist"
    <3>1. RelistFolders(i) /\ call[i].made = k
      BY <2>2, <2>4 DEF FolderCall, AskFolder, UseCached, Miss, ListFolders, CreateFolder,
                     CheckLoser, TrashLoser, Resolved, UploadFile
    <3>2. PICK l, p, found : l = call[i].level /\ p = call[i].parent /\ found = Named(l, p)
      OBVIOUS
    <3>3. /\ GoodPlace(l, p) /\ k \in found /\ IsFiniteSet(found) /\ l \in Levels /\ p \in Nat
          /\ IF Cardinality(found) > 1 THEN Resolve(i, found) ELSE Found(i, k)
      <4>1. k \in found
        BY <1>0, <2>1, <2>4, <3>1, <3>2 DEF CallFits, Named
      <4>2. IsFiniteSet(found)
        BY <3>2, DriveShape, FS_Subset DEF Named
      <4> QED  BY <1>0, <2>4, <3>1, <3>2, <4>1, <4>2 DEF CallFits, RelistFolders
    <3>4. Oldest(Min(found)) /\ Min(found) \in found
      BY <3>2, <3>3, OldestIsFound
    <3>5. k # Min(found)
      BY <2>1, <3>4
    <3>6. Cardinality(found) > 1
      <4>1. ~(Cardinality(found) <= 1)
        BY <3>3, <3>4, <3>5, OneAtMost
      <4> QED  BY <3>3, <4>1, FS_CardinalityType
    <3>7. call'[i].at = "resolve" /\ k \in call'[i].losers
      <4>1. Resolve(i, found)
        BY <3>3, <3>6
      <4>2. PICK o : o = Min(found)
        OBVIOUS
      <4>3. call'[i] = [call[i] EXCEPT !.at = "resolve", !.target = o, !.losers = found \ {o}]
        BY <1>0, <4>1, <4>2 DEF Resolve, Go
      <4> QED  BY <1>0, <3>3, <3>5, <4>2, <4>3 DEF FolderCalls
    <3> QED  BY <3>7 DEF InHand
  <2>5. CASE j = i /\ call[i].at = "resolve"
    <3>1. CheckLoser(i) \/ Resolved(i)
      BY <2>5 DEF FolderCall, AskFolder, UseCached, Miss, ListFolders, CreateFolder,
                     RelistFolders, TrashLoser, UploadFile
    <3>2. CheckLoser(i) /\ k \in call[i].losers
      BY <2>2, <2>5, <3>1 DEF Resolved
    <3>3. PICK m : m = Min(call[i].losers)
      OBVIOUS
    <3>4. CASE HasChildren(m)
      <4>1. m # k
        BY <2>1, <3>4, DriveShape DEF HasChildren, Folders
      <4>2. call'[i].at = "resolve" /\ k \in call'[i].losers
        <5>1. HasChildren(Min(call[i].losers))
          BY <3>3, <3>4
        <5>2. DropLoser(i)
          BY <3>2, <5>1 DEF CheckLoser
        <5>3. call'[i] = [call[i] EXCEPT !.at = "resolve", !.losers = @ \ {m}]
          BY <1>0, <3>3, <5>2 DEF DropLoser, Go
        <5> QED  BY <1>0, <3>2, <4>1, <5>3 DEF FolderCalls
      <4> QED  BY <4>2 DEF InHand
    <3>5. CASE ~HasChildren(m)
      <4>1. call'[i].at = "trash" /\ k \in call'[i].losers
        <5>1. ~HasChildren(Min(call[i].losers))
          BY <3>3, <3>5
        <5>2. Stay(i, "trash")
          BY <3>2, <5>1 DEF CheckLoser
        <5>3. call'[i] = [call[i] EXCEPT !.at = "trash"]
          BY <1>0, <5>2 DEF Stay, Go
        <5> QED  BY <1>0, <3>2, <5>3 DEF FolderCalls
      <4> QED  BY <4>1 DEF InHand
    <3> QED  BY <3>4, <3>5
  <2>6. CASE j = i /\ call[i].at = "trash"
    <3>1. TrashLoser(i) /\ k \in call[i].losers
      BY <2>2, <2>6 DEF FolderCall, AskFolder, UseCached, Miss, ListFolders, CreateFolder,
                     RelistFolders, CheckLoser, Resolved, UploadFile
    <3>2. PICK m : m = Min(call[i].losers)
      OBVIOUS
    <3>3. m # k
      <4>1. ASSUME m = k PROVE FALSE
        <5>1. folders' = [folders EXCEPT ![k].state = IF @ = "live" THEN "trashed" ELSE @]
          BY <3>1, <3>2, <4>1 DEF TrashLoser
        <5>2. folders'[k].state # "live"
          BY <2>1, <5>1, DriveShape DEF Folders
        <5> QED  BY <1>2, <5>2 DEF Visible
      <4> QED  BY <4>1
    <3>4. call'[i].at = "resolve" /\ k \in call'[i].losers
      BY <1>0, <3>1, <3>2, <3>3 DEF TrashLoser, DropLoser, Go, FolderCalls
    <3> QED  BY <3>4 DEF InHand
  <2> QED  BY <2>2, <2>3, <2>4, <2>5, <2>6
<1>3. ASSUME NEW k \in DOMAIN folders', k \notin DOMAIN folders PROVE InHand(k)'
  <2>1. CreateFolder(i) /\ k = Len(folders) + 1
    BY <1>1, <1>3
  <2>2. call'[i].at = "relist" /\ call'[i].made = k
    BY <1>0, <2>1 DEF CreateFolder, Go, FolderCalls
  <2> QED  BY <2>2 DEF InHand
<1> QED  BY <1>2, <1>3 DEF NoneForgotten

LEMMA DriveInvStep == DriveInv /\ [DriveNext]_driveVars => DriveInv'
<1> SUFFICES ASSUME DriveInv, [DriveNext]_driveVars PROVE DriveInv'
  OBVIOUS
<1>1. CASE \E i \in Installations : FolderCall(i)
  <2>1. PICK i \in Installations : FolderCall(i)
    BY <1>1
  <2>2. userActs' = userActs
    BY <2>1 DEF FolderCall, AskFolder, UseCached, Miss, ListFolders, CreateFolder, CreateUnanswered,
                RelistFolders, CheckLoser, TrashLoser, CleanupFails, Resolved, UploadFile, CallEnds, driveBounds
  <2>3. /\ driveFaults' = driveFaults \/ driveFaults' = driveFaults + 1
        /\ CreateUnanswered(i) \/ CleanupFails(i) \/ CallEnds(i) => driveFaults' = driveFaults + 1
    BY <2>1 DEF FolderCall, AskFolder, UseCached, Miss, ListFolders, CreateFolder, CreateUnanswered,
                RelistFolders, CheckLoser, TrashLoser, CleanupFails, Resolved, UploadFile, CallEnds, driveBounds
  <2>4. userActs' = 0 => DriveKept'
    BY <2>1, <2>2, FolderCallKeeps DEF DriveInv
  <2>5. Undisturbed' => NoneForgotten'
    <3> SUFFICES ASSUME Undisturbed' PROVE NoneForgotten'
      OBVIOUS
    <3>1. driveFaults' = 0 /\ userActs' = 0 /\ driveFaults \in Nat
      BY DEF Undisturbed, DriveInv
    <3>2. driveFaults = 0 /\ driveFaults' # driveFaults + 1
      BY <2>3, <3>1
    <3>3. DriveKept /\ NoneForgotten
      BY <2>2, <3>1, <3>2 DEF DriveInv, Undisturbed
    <3> QED  BY <2>1, <2>3, <3>2, <3>3, ForgetsNone
  <2>6. userActs' \in Nat /\ driveFaults' \in Nat
    BY <2>2, <2>3 DEF DriveInv
  <2> QED  BY <2>4, <2>5, <2>6 DEF DriveInv
<1>2. CASE \E k \in DOMAIN folders : UserRemoves(k)
  <2>1. userActs' = userActs + 1 /\ driveFaults' = driveFaults
    BY <1>2 DEF UserRemoves
  <2> QED  BY <2>1 DEF DriveInv, Undisturbed
<1>3. CASE UNCHANGED driveVars
  <2>1. folders' = folders /\ cached' = cached /\ call' = call /\ driveFaults' = driveFaults /\ userActs' = userActs
    BY <1>3 DEF driveVars, driveBounds
  <2>2. ASSUME DriveKept PROVE DriveKept'
    <3>1. Evolves /\ folders' \in Seq(Folders) /\ \A k \in DOMAIN folders' : FolderKept(k)'
      BY <2>1, <2>2, SameFolders
    <3>2. ASSUME NEW i \in Installations PROVE CacheKept(i)' /\ CallKept(i)'
      <4>1. PICK c : c = call[i]
        OBVIOUS
      <4>2. c \in FolderCalls /\ CallFits(c) /\ call'[i] = c
        BY <2>1, <2>2, <4>1 DEF DriveKept, DriveKinds, CallKept
      <4> QED  BY <2>1, <2>2, <3>1, <4>2, CallStays, CacheStays
    <3> QED  BY <2>1, <2>2, <3>1, <3>2 DEF DriveKept, DriveKinds
  <2>3. NoneForgotten => NoneForgotten'
    BY <2>1 DEF NoneForgotten, InHand, Oldest, SameName, Visible
  <2> QED  BY <2>1, <2>2, <2>3 DEF DriveInv, Undisturbed
<1> QED  BY <1>1, <1>2, <1>3 DEF DriveNext, FolderCall

LEMMA DriveInvHolds == DriveSpec => []DriveInv
<1>1. DriveInit => DriveInv
  <2> SUFFICES ASSUME DriveInit PROVE DriveInv
    OBVIOUS
  <2>1. /\ NoCall \in FolderCalls /\ CallFits(NoCall)
    BY DEF NoCall, FolderCalls, CallFits, Levels, Root
  <2>2. folders = <<>> /\ DOMAIN folders = {} /\ folders \in Seq(Folders)
    BY DEF DriveInit
  <2>3. cached \in [Installations -> [Levels -> Nat]] /\ call \in [Installations -> FolderCalls]
    BY <2>1 DEF DriveInit
  <2>4. \A i \in Installations : CacheKept(i) /\ CallKept(i)
    BY <2>1 DEF DriveInit, CacheKept, CallKept
  <2>5. DriveKept
    BY <2>2, <2>3, <2>4 DEF DriveKept, DriveKinds
  <2>6. NoneForgotten
    BY <2>2 DEF NoneForgotten
  <2> QED  BY <2>5, <2>6 DEF DriveInv, DriveInit
<1> QED  BY <1>1, DriveInvStep, PTL DEF DriveSpec

\* However many installations create the folder of a day or a device at once, one
\* that can be seen is left of each name when their calls are over, if none has
\* failed and no person interfered (_find_or_create_folder, _resolve_duplicate_folders).
THEOREM OneFolderStays == DriveSpec => []OneVisibleFolder
<1>1. DriveInv => OneVisibleFolder
  <2> SUFFICES ASSUME DriveInv, Undisturbed, \A i \in Installations : call[i] = NoCall,
                      NEW l \in Levels, NEW p \in 0..Len(folders)
               PROVE  Cardinality(Named(l, p)) <= 1
    BY DEF OneVisibleFolder
  <2>1. DriveKept /\ NoneForgotten
    BY DEF DriveInv, Undisturbed
  <2>2. \A k \in DOMAIN folders : ~InHand(k)
    BY DEF InHand, NoCall
  <2>3. \A k \in Named(l, p) : k \in DOMAIN folders /\ Oldest(k) /\ folders[k].level = l /\ folders[k].parent = p
    BY <2>1, <2>2 DEF NoneForgotten, Named
  <2>4. ASSUME NEW x \in Named(l, p), NEW y \in Named(l, p) PROVE x = y
    <3>1. x <= y /\ y <= x
      BY <2>3 DEF Oldest, SameName
    <3>2. x \in Int /\ y \in Int
      BY <2>1, <2>3, DriveShape
    <3> QED  BY <3>1, <3>2
  <2>5. IsFiniteSet(Named(l, p))
    BY <2>1, DriveShape, FS_Subset DEF Named
  <2> QED  BY <2>4, <2>5, OneAtMost
<1> QED  BY <1>1, DriveInvHolds, PTL

\* Clearing duplicates away trashes no folder that holds a file or a folder,
\* between whatever check and clean-up of other installations
\* (_trash_empty_duplicate_folder), as long as no person removes a folder.
THEOREM ContentIsKept == DriveSpec => NeverTrashesContent
<1>1. DriveInv /\ [DriveNext]_driveVars =>
        [\A k \in DOMAIN folders :
           (folders'[k].state = "trashed" /\ folders[k].state = "live" /\ userActs' = 0)
             => /\ folders[k].files = 0
                /\ \A c \in DOMAIN folders : folders[c].parent = k => folders[c].state # "live"]_driveVars
  <2> SUFFICES ASSUME DriveInv, [DriveNext]_driveVars, NEW k \in DOMAIN folders,
                      folders'[k].state = "trashed", folders[k].state = "live", userActs' = 0
               PROVE  folders[k].files = 0 /\ \A c \in DOMAIN folders : folders[c].parent # k
    OBVIOUS
  <2>1. PICK i \in Installations : FolderCall(i)
    <3>1. ~\E m \in DOMAIN folders : UserRemoves(m)
      BY DEF UserRemoves, DriveInv
    <3>2. ~UNCHANGED driveVars
      BY DEF driveVars
    <3> QED  BY <3>1, <3>2 DEF DriveNext, FolderCall
  <2>2. userActs = 0 /\ DriveKept
    BY <2>1 DEF FolderCall, AskFolder, UseCached, Miss, ListFolders, CreateFolder, CreateUnanswered,
                RelistFolders, CheckLoser, TrashLoser, CleanupFails, Resolved, UploadFile, CallEnds, driveBounds,
                DriveInv
  <2>3. /\ folders \in Seq(Folders) /\ CallFits(call[i]) /\ FolderKept(k)
    BY <2>2 DEF DriveKept, DriveKinds, CallKept
  <2>4. TrashLoser(i)
    <3>1. folders' # folders
      OBVIOUS
    <3>2. CASE CreateFolder(i) \/ CreateUnanswered(i)
      <4>1. PICK new : folders' = Append(folders, new)
        BY <3>2 DEF CreateFolder, CreateUnanswered, NewFolder
      <4>2. folders'[k] = folders[k]
        BY <2>3, <4>1
      <4> QED  BY <4>2
    <3>3. CASE UploadFile(i)
      <4>1. PICK m : folders' = [folders EXCEPT ![m].files = @ + 1]
        BY <3>1, <3>3 DEF UploadFile
      <4>2. folders'[k].state = folders[k].state
        BY <2>2, <4>1, DriveShape DEF Folders
      <4> QED  BY <4>2
    <3> QED  BY <2>1, <3>1, <3>2, <3>3 DEF FolderCall, AskFolder, UseCached, Miss, ListFolders,
                RelistFolders, CheckLoser, CleanupFails, Resolved, CallEnds
  <2>5. PICK m : m = Min(call[i].losers)
    OBVIOUS
  <2>6. Duplicate(m) /\ folders' = [folders EXCEPT ![m].state = IF @ = "live" THEN "trashed" ELSE @]
    BY <2>2, <2>3, <2>4, <2>5, LeastLoser DEF TrashLoser, CallFits
  <2>7. m = k
    <3>1. m # k => folders'[k] = folders[k]
      BY <2>3, <2>6
    <3> QED  BY <3>1
  <2>8. Visible(k)
    <3>1. folders[k].parent # Root => folders[folders[k].parent].state = "live"
      BY <2>2, <2>6, <2>7 DEF Duplicate, DriveKept, FolderKept, Oldest
    <3> QED  BY <3>1 DEF Visible
  <2> QED  BY <2>3, <2>6, <2>7, <2>8 DEF FolderKept, Duplicate
<1> QED  BY <1>1, DriveInvHolds, PTL DEF DriveSpec, NeverTrashesContent

-----------------------------------------------------------------------------
(* DeviceIdExtraction: the best reading of the video. *)

\* A preprocessing yields a confidence, and so does a frame.
LEMMA VariantReading ==
  ASSUME NEW f \in Frames, NEW v \in DOMAIN Variants
  PROVE  ReadVariant(f.read[Variants[v]]) \in Nat
<1> DEFINE readings == f.read[Variants[v]]
           looked == [e \in DOMAIN Engines |-> readings[Engines[e]]]
           hits == {e \in DOMAIN Engines : Confident(looked[e])}
           all  == {looked[e] : e \in DOMAIN Engines}
<1>1. /\ \A e \in DOMAIN Engines : looked[e] \in Nat
      /\ DOMAIN Engines = 1..Len(Engines) /\ Len(Engines) \in Nat \ {0}
  BY OcrAssumption
<1>2. IsFiniteSet(DOMAIN Engines) /\ 1 \in DOMAIN Engines /\ DOMAIN Engines \subseteq Int
  BY <1>1, FS_Interval
<1>3. CASE hits # {}
  <2>1. IsFiniteSet(hits) /\ hits \subseteq Int /\ hits \subseteq DOMAIN Engines
    BY <1>2, FS_Subset
  <2> HIDE DEF hits
  <2>2. Min(hits) \in DOMAIN Engines
    BY <1>3, <2>1, LeastNumber
  <2>3. ReadVariant(readings) = looked[Min(hits)]
    BY <1>3 DEF ReadVariant, hits
  <2> HIDE DEF looked
  <2> QED  BY <1>1, <2>2, <2>3
<1>4. CASE hits = {}
  <2> HIDE DEF readings
  <2>1. ReadVariant(readings) = Max(all)
    BY <1>4 DEF ReadVariant
  <2> HIDE DEF hits
  <2>2. all \subseteq Int /\ looked[1] \in all
    BY <1>1, <1>2
  <2>3. IsFiniteSet(all)
    <3>1. looked \in Surjection(DOMAIN Engines, all)
      BY DEF Surjection
    <3> QED  BY <1>2, <3>1, FS_Surjection
  <2>4. \A c \in all : c \in Nat
    BY <1>1
  <2> HIDE DEF all, looked
  <2>5. PICK m \in all : \A k \in all : k <= m
    BY <2>2, <2>3, GreatestNumber
  <2>6. \E x \in all : \A y \in all : x >= y
    BY <2>2, <2>5
  <2>7. Max(all) \in all
    BY <2>6 DEF Max
  <2> QED  BY <2>1, <2>4, <2>7 DEF readings
<1> QED  BY <1>3, <1>4

LEMMA FrameReading == ASSUME NEW f \in Frames PROVE ReadFrame(f) \in Nat
<1> DEFINE reading == [v \in DOMAIN Variants |-> ReadVariant(f.read[Variants[v]])]
           found   == {v \in DOMAIN Variants : reading[v] > 0}
<1>1. PICK m \in Nat : DOMAIN Variants = 1..m
  <2>1. DOMAIN Variants = 1..3 /\ 3 \in Nat
    BY DEF Variants
  <2> QED  BY <2>1
<1>2. \A v \in DOMAIN Variants : reading[v] \in Nat
  BY VariantReading
<1>3. IsFiniteSet(found) /\ found \subseteq Int /\ found \subseteq DOMAIN Variants
  <2>1. IsFiniteSet(1..m)
    BY FS_Interval
  <2>2. found \subseteq 1..m
    <3>1. found \subseteq DOMAIN Variants
      <4> HIDE DEF reading
      <4> QED  OBVIOUS
    <3> HIDE DEF found
    <3> QED  BY <1>1, <3>1
  <2>3. IsFiniteSet(found)
    <3> HIDE DEF found
    <3> QED  BY <2>1, <2>2, FS_Subset
  <2> HIDE DEF found
  <2> QED  BY <1>1, <2>2, <2>3
<1>4. ReadFrame(f) = IF found = {} THEN 0 ELSE reading[Min(found)]
  BY DEF ReadFrame
<1> HIDE DEF found
<1>5. found # {} => Min(found) \in DOMAIN Variants
  BY <1>3, LeastNumber
<1> HIDE DEF reading
<1> QED  BY <1>2, <1>4, <1>5

Extractions == [confidence : Nat, frame : Nat, full : BOOLEAN]
Scans == [at : {"frames", "done"}, full : BOOLEAN, next : Nat, examined : Nat, best : Extractions]

OcrKinds ==
  /\ video \in Seq(Frames) /\ fullScan \in BOOLEAN
  /\ scan \in Scans /\ result \in Extractions

Reading(t) == ReadFrame(video[t])

\* While frames are read: the best so far is the first of the greatest readings,
\* only the last one read can be confident, and a full scan has counted them.
ScanKept ==
  LET past == Readable(scan.next - 1) IN
  /\ scan.next >= 1 /\ scan.next <= LastFrame + 1
  /\ scan.full => /\ result.confidence = 0
                  /\ scan.examined = Cardinality(past) /\ scan.examined <= FullScanCap
  /\ \A t \in past : /\ Reading(t) <= scan.best.confidence
                     /\ Confident(Reading(t)) => t = scan.next - 1 /\ t = scan.best.frame
  /\ scan.best.confidence > 0 =>
        /\ scan.best.frame \in past /\ Reading(scan.best.frame) = scan.best.confidence
        /\ scan.best.full = scan.full
        /\ \A t \in past : t < scan.best.frame => Reading(t) < scan.best.confidence

OcrInv == OcrKinds /\ (scan.at = "frames" => ScanKept) /\ BestReadingIsReturned

LEMMA VideoFacts ==
  ASSUME OcrKinds
  PROVE  /\ Len(video) \in Nat /\ DOMAIN video = 1..Len(video)
         /\ \A t \in DOMAIN video : video[t] \in Frames /\ Reading(t) \in Nat
         /\ LastFrame \in Nat /\ LastFrame <= Len(video)
         /\ \A n : Readable(n) \subseteq 1..n
<1>1. /\ Len(video) \in Nat /\ DOMAIN video = 1..Len(video)
      /\ \A t \in DOMAIN video : video[t] \in Frames
  BY DEF OcrKinds
<1>2. \A t \in DOMAIN video : Reading(t) \in Nat
  BY <1>1, FrameReading DEF Reading
<1>3. Min({Window, Len(video)}) \in Nat /\ Min({Window, Len(video)}) <= Len(video)
  <2>1. Window \in Nat
    BY OcrAssumption
  <2>2. CASE Window <= Len(video)
    <3>1. Min({Window, Len(video)}) = Window
      <4>1. {Window, Len(video)} \in SUBSET Int /\ \A k \in {Window, Len(video)} : Window <= k
        BY <1>1, <2>1, <2>2
      <4> QED  BY <4>1, MinIs
    <3> QED  BY <2>1, <2>2, <3>1
  <2>3. CASE ~(Window <= Len(video))
    <3>1. Min({Window, Len(video)}) = Len(video)
      <4>1. {Window, Len(video)} \in SUBSET Int /\ \A k \in {Window, Len(video)} : Len(video) <= k
        BY <1>1, <2>1, <2>3
      <4> QED  BY <4>1, MinIs
    <3> QED  BY <1>1, <3>1
  <2> QED  BY <2>2, <2>3
<1> QED  BY <1>1, <1>2, <1>3 DEF LastFrame, Readable

\* One frame more.
LEMMA ReadableGrows ==
  ASSUME OcrKinds, NEW n \in Nat \ {0}
  PROVE  /\ Readable(n) = IF video[n].kind = "text" THEN Readable(n - 1) \cup {n} ELSE Readable(n - 1)
         /\ IsFiniteSet(Readable(n - 1)) /\ n \notin Readable(n - 1)
         /\ Cardinality(Readable(n)) = IF video[n].kind = "text" THEN Cardinality(Readable(n - 1)) + 1
                                       ELSE Cardinality(Readable(n - 1))
<1>1. Readable(n) = IF video[n].kind = "text" THEN Readable(n - 1) \cup {n} ELSE Readable(n - 1)
  BY DEF Readable
<1>2. IsFiniteSet(Readable(n - 1)) /\ n \notin Readable(n - 1)
  <2>1. IsFiniteSet(1..(n - 1)) /\ Readable(n - 1) \subseteq 1..(n - 1)
    BY FS_Interval DEF Readable
  <2> QED  BY <2>1, FS_Subset
<1> QED  BY <1>1, <1>2, FS_AddElement

LEMMA NextFrameKeeps == ASSUME OcrInv, NextFrame PROVE OcrInv'
<1>0. /\ OcrKinds /\ ScanKept /\ scan.at = "frames" /\ ~EndOfScan
      /\ video' = video /\ fullScan' = fullScan /\ result' = result
  BY DEF OcrInv, NextFrame
<1>1. PICK n, b : n = scan.next /\ b = scan.best
  OBVIOUS
<1>2. /\ n \in Nat \ {0} /\ n <= LastFrame /\ n \in DOMAIN video /\ n + 1 \in Nat
      /\ b \in Extractions /\ scan.full \in BOOLEAN
      /\ b.confidence \in Nat /\ b.confidence < MinConfidence /\ MinConfidence \in Nat /\ FullScanCap \in Nat
      /\ scan.examined \in Nat /\ (scan.full => scan.examined < FullScanCap)
      /\ LastFrame \in Nat
  <2>1. n \in Nat /\ n >= 1 /\ scan.full \in BOOLEAN /\ LastFrame \in Nat
        /\ LastFrame <= Len(video) /\ DOMAIN video = 1..Len(video) /\ Len(video) \in Nat
    BY <1>0, <1>1, VideoFacts DEF ScanKept, OcrKinds, Scans
  <2>2. ~(n > LastFrame) /\ ~(b.confidence >= MinConfidence) /\ ~(scan.full /\ scan.examined >= FullScanCap)
    BY <1>0, <1>1, <2>1 DEF EndOfScan, Confident
  <2>3. b \in Extractions /\ scan.examined \in Nat /\ b.confidence \in Nat
    BY <1>0, <1>1 DEF OcrKinds, Scans, Extractions
  <2> QED  BY <2>1, <2>2, <2>3, OcrAssumption
<1>3. PICK on : on = [scan EXCEPT !.next = n + 1]
  OBVIOUS
<1>4. /\ on.at = "frames" /\ on.full = scan.full /\ on.next = n + 1 /\ on.examined = scan.examined /\ on.best = b
      /\ on \in Scans
  BY <1>0, <1>1, <1>2, <1>3 DEF OcrKinds, Scans
<1>5. PICK c : c = Reading(n)
  OBVIOUS
<1>6. c \in Nat /\ video[n] \in Frames /\ video[n].kind \in {"text", "blank", "miss"}
  BY <1>0, <1>2, <1>5, VideoFacts, OcrAssumption
<1>7. \A t \in Readable(n - 1) : t < n /\ t \in Nat /\ t \in DOMAIN video /\ Reading(t) \in Nat
                                /\ Reading(t) <= b.confidence /\ ~Confident(Reading(t))
  <2> SUFFICES ASSUME NEW t \in Readable(n - 1)
               PROVE  /\ t < n /\ t \in Nat /\ t \in DOMAIN video /\ Reading(t) \in Nat
                      /\ Reading(t) <= b.confidence /\ ~Confident(Reading(t))
    OBVIOUS
  <2>1. t \in 1..(n - 1)
    BY DEF Readable
  <2>2. t < n /\ t \in Nat /\ t \in DOMAIN video
    BY <1>0, <1>2, <2>1, VideoFacts
  <2>3. Reading(t) \in Nat /\ Reading(t) <= b.confidence
    BY <1>0, <1>1, <2>2, VideoFacts DEF ScanKept
  <2> QED  BY <1>2, <2>2, <2>3 DEF Confident
<1>8. /\ ~scan.full \/ (result.confidence = 0 /\ scan.examined = Cardinality(Readable(n - 1)))
      /\ b.confidence > 0 => /\ b.frame \in Readable(n - 1) /\ Reading(b.frame) = b.confidence
                             /\ b.full = scan.full
                             /\ \A t \in Readable(n - 1) : t < b.frame => Reading(t) < b.confidence
  BY <1>0, <1>1 DEF ScanKept
<1>9. scan'.at = "frames" /\ ScanKept' /\ OcrKinds'
  <2>1. CASE video[n].kind \in {"blank", "miss"}
    <3>1. scan' = on
      BY <1>0, <1>1, <1>3, <2>1 DEF NextFrame
    <3>2. Readable(n) = Readable(n - 1)
      BY <1>0, <1>2, <2>1, ReadableGrows
    <3>3. OcrKinds'
      BY <1>0, <1>4, <3>1 DEF OcrKinds
    <3>4. ScanKept'
      <4> DEFINE past == Readable(n - 1)
      <4>1. /\ scan'.next - 1 = n /\ scan'.best = b /\ scan'.full = scan.full /\ scan'.examined = scan.examined
            /\ scan'.next = n + 1
        BY <1>2, <1>4, <3>1
      <4>2. /\ Readable(scan.next - 1)' = past /\ LastFrame' = LastFrame
            /\ \A t : Reading(t)' = Reading(t)
        BY <1>0, <3>2, <4>1 DEF Readable, LastFrame, Reading
      <4>3. scan'.next >= 1 /\ scan'.next <= LastFrame' + 1
        BY <1>2, <4>1, <4>2
      <4> QED  BY <1>0, <1>2, <1>7, <1>8, <4>1, <4>2, <4>3 DEF ScanKept
    <3> QED  BY <1>4, <3>1, <3>3, <3>4
  <2>2. CASE video[n].kind = "text"
    <3>1. PICK best : best = IF Better(c) THEN [confidence |-> c, frame |-> n, full |-> scan.full] ELSE b
      OBVIOUS
    <3>2. scan' = [on EXCEPT !.examined = @ + 1, !.best = best]
      BY <1>0, <1>1, <1>3, <1>4, <1>5, <2>2, <3>1 DEF NextFrame, Reading
    <3>3. /\ best \in Extractions
          /\ c > b.confidence => best.confidence = c /\ best.frame = n /\ best.full = scan.full
          /\ ~(c > b.confidence) => best = b
      BY <1>1, <1>2, <1>6, <3>1 DEF Better, Extractions
    <3>4. /\ scan'.at = "frames" /\ scan'.next = n + 1 /\ scan'.best = best /\ scan'.full = scan.full
          /\ scan'.examined = scan.examined + 1 /\ scan'.next - 1 = n
          /\ scan' \in Scans
      <4>1. PICK e : e = scan.examined + 1 /\ e \in Nat
        BY <1>2
      <4>2. scan' = [on EXCEPT !.examined = e, !.best = best]
        BY <1>4, <3>2, <4>1
      <4>3. scan' \in Scans
        BY <1>4, <3>3, <4>1, <4>2 DEF Scans
      <4>4. /\ scan'.at = on.at /\ scan'.next = on.next /\ scan'.best = best /\ scan'.full = on.full
            /\ scan'.examined = e
        BY <1>4, <4>2 DEF Scans
      <4>5. scan'.next - 1 = n
        BY <1>2, <1>4, <4>4
      <4> QED  BY <1>4, <4>1, <4>3, <4>4, <4>5
    <3>5. OcrKinds'
      BY <1>0, <3>4 DEF OcrKinds
    <3>6. /\ Readable(n) = Readable(n - 1) \cup {n} /\ n \notin Readable(n - 1)
          /\ Cardinality(Readable(n)) = Cardinality(Readable(n - 1)) + 1
      BY <1>0, <1>2, <2>2, ReadableGrows
    <3>7. ScanKept'
      <4> DEFINE past == Readable(n)
      <4>1. /\ Readable(scan.next - 1)' = past /\ LastFrame' = LastFrame
            /\ \A t : Reading(t)' = Reading(t)
        BY <1>0, <3>4 DEF Readable, LastFrame, Reading
      <4>2. scan'.next >= 1 /\ scan'.next <= LastFrame' + 1
        BY <1>2, <3>4, <4>1
      <4>3. scan'.full => /\ result'.confidence = 0 /\ scan'.examined = Cardinality(past)
                          /\ scan'.examined <= FullScanCap
        BY <1>0, <1>2, <1>8, <3>4, <3>6
      <4>4. ASSUME NEW t \in past
            PROVE  /\ Reading(t) <= best.confidence
                   /\ Confident(Reading(t)) => t = n /\ t = best.frame
        <5>1. CASE t = n
          BY <1>2, <1>5, <1>6, <3>3, <5>1 DEF Confident
        <5>2. CASE t \in Readable(n - 1)
          BY <1>2, <1>6, <1>7, <3>3, <5>2
        <5> QED  BY <3>6, <5>1, <5>2
      <4>5. best.confidence > 0 =>
              /\ best.frame \in past /\ Reading(best.frame) = best.confidence /\ best.full = scan.full
              /\ \A t \in past : t < best.frame => Reading(t) < best.confidence
        <5>1. CASE c > b.confidence
          BY <1>2, <1>5, <1>6, <1>7, <3>3, <3>6, <5>1
        <5>2. CASE ~(c > b.confidence)
          BY <1>2, <1>7, <1>8, <3>3, <3>6, <5>2
        <5> QED  BY <5>1, <5>2
      <4> HIDE DEF past
      <4> QED  BY <1>0, <3>4, <4>1, <4>2, <4>3, <4>4, <4>5 DEF ScanKept
    <3> QED  BY <3>4, <3>5, <3>7
  <2> QED  BY <1>6, <2>1, <2>2
<1> QED  BY <1>9 DEF OcrInv, BestReadingIsReturned

\* The frames that the scan of the result has read, and the one to return of them.
SeenByScan ==
  {t \in Readable(IF result.full THEN Len(video) ELSE Min({Window, Len(video)})) :
     ~result.full \/ Cardinality({u \in Readable(Len(video)) : u <= t}) <= FullScanCap}
PickOf(looked) ==
  LET confident == {t \in looked : Confident(ReadFrame(video[t]))}
      best == {t \in looked : \A u \in looked : ReadFrame(video[u]) <= ReadFrame(video[t])}
  IN  Min(IF confident # {} THEN confident ELSE best)

LEMMA PickIsBest ==
  /\ BestReadingIsReturned <=> (scan.at = "done" /\ result.confidence > 0 => result.frame = PickOf(SeenByScan))
  /\ (BestReadingIsReturned <=> (scan.at = "done" /\ result.confidence > 0 => result.frame = PickOf(SeenByScan)))'
BY DEF BestReadingIsReturned, SeenByScan, PickOf

\* What the scan has picked is what the property asks for.
LEMMA PickedRight ==
  ASSUME OcrKinds, ScanKept, scan.best.confidence > 0,
         NEW looked, looked \subseteq DOMAIN video, Readable(scan.next - 1) \subseteq looked,
         \A t \in looked : t \in Readable(scan.next - 1) \/ (t >= scan.next /\ Confident(scan.best.confidence))
  PROVE  scan.best.frame = PickOf(looked)
<1> DEFINE confident == {t \in looked : Confident(Reading(t))}
           best == {t \in looked : \A u \in looked : Reading(u) <= Reading(t)}
<1>1. PICK past, b : past = Readable(scan.next - 1) /\ b = scan.best
  OBVIOUS
<1>2. /\ b.confidence \in Nat /\ b.confidence > 0 /\ b.frame \in past /\ Reading(b.frame) = b.confidence
      /\ scan.next \in Nat /\ looked \subseteq Int /\ past \subseteq looked /\ MinConfidence \in Nat
      /\ \A t \in looked : Reading(t) \in Nat
      /\ \A t \in past : /\ t < scan.next /\ Reading(t) <= b.confidence
                         /\ Confident(Reading(t)) => t = b.frame
                         /\ t < b.frame => Reading(t) < b.confidence
      /\ \A t \in looked : t \in past \/ (t >= scan.next /\ Confident(b.confidence))
  <2>1. /\ scan.next \in Nat /\ b.confidence \in Nat
    BY <1>1 DEF OcrKinds, Scans, Extractions
  <2>2. \A t \in past : t < scan.next
    <3>1. past \subseteq 1..(scan.next - 1)
      BY <1>1, VideoFacts
    <3> QED  BY <2>1, <3>1
  <2>3. looked \subseteq Int /\ \A t \in looked : Reading(t) \in Nat
    BY VideoFacts
  <2> QED  BY <1>1, <2>1, <2>2, <2>3, OcrAssumption DEF ScanKept
<1>3. CASE confident # {}
  <2>1. Confident(b.confidence) /\ b.frame \in confident
    <3>1. PICK t \in looked : Confident(Reading(t))
      BY <1>3
    <3>2. Confident(b.confidence)
      BY <1>2, <3>1
    <3> QED  BY <1>2, <3>2
  <2>2. \A t \in confident : b.frame <= t
    <3> SUFFICES ASSUME NEW t \in looked, Confident(Reading(t)) PROVE b.frame <= t
      OBVIOUS
    <3>1. CASE t \in past
      BY <1>2, <3>1
    <3>2. CASE t >= scan.next
      BY <1>2, <3>2
    <3> QED  BY <1>2, <3>1, <3>2
  <2>3. confident \in SUBSET Int
    BY <1>2
  <2> HIDE DEF confident
  <2>4. Min(confident) = b.frame
    BY <2>1, <2>2, <2>3, MinIs
  <2> QED  BY <1>1, <1>3, <2>4 DEF confident, Reading, PickOf
<1>4. CASE confident = {}
  <2>1. ~Confident(b.confidence)
    BY <1>2, <1>4
  <2>2. \A t \in looked : t \in past
    BY <1>2, <2>1
  <2>3. b.frame \in best
    BY <1>2, <2>2
  <2>4. \A t \in best : b.frame <= t
    <3> SUFFICES ASSUME NEW t \in looked, \A u \in looked : Reading(u) <= Reading(t) PROVE b.frame <= t
      OBVIOUS
    <3>1. b.confidence <= Reading(t)
      BY <1>2
    <3>2. ~(t < b.frame)
      BY <1>2, <2>2, <3>1
    <3> QED  BY <1>2, <3>2
  <2>5. best \in SUBSET Int
    BY <1>2
  <2> HIDE DEF best, confident
  <2>6. Min(best) = b.frame
    BY <2>3, <2>4, <2>5, MinIs
  <2> QED  BY <1>1, <1>4, <2>6 DEF best, confident, Reading, PickOf
<1> QED  BY <1>3, <1>4

\* At the end of a scan nothing that it could have read has been left out, but
\* for what comes after a confident reading.
LEMMA FirstScanRight ==
  ASSUME OcrInv, FirstScanEnds, scan.best.confidence > 0
  PROVE  BestReadingIsReturned'
<1>0. /\ OcrKinds /\ ScanKept /\ EndOfScan /\ ~scan.full /\ result' = scan.best /\ video' = video
  BY DEF OcrInv, FirstScanEnds
<1>1. /\ LastFrame \in Nat /\ LastFrame <= Len(video) /\ LastFrame = Min({Window, Len(video)})
      /\ DOMAIN video = 1..Len(video) /\ Len(video) \in Nat /\ scan.next \in Nat
      /\ scan.next <= LastFrame + 1 /\ ~scan.best.full
  BY <1>0, VideoFacts DEF OcrKinds, ScanKept, Scans, LastFrame
<1>2. PICK n, h, looked : n = scan.next - 1 /\ h = LastFrame /\ looked = Readable(h)
  OBVIOUS
<1>3. n \in Int /\ h \in Nat /\ n <= h /\ h <= Len(video) /\ scan.next = n + 1
  BY <1>1, <1>2
<1>4. looked \subseteq DOMAIN video /\ Readable(n) \subseteq looked
  <2>1. looked \subseteq 1..h /\ Readable(n) \subseteq 1..n
    BY <1>2 DEF Readable
  <2>2. 1..h \subseteq DOMAIN video /\ 1..n \subseteq 1..h
    BY <1>1, <1>3
  <2>3. Readable(n) \subseteq looked
    BY <1>2, <2>2 DEF Readable
  <2> QED  BY <2>1, <2>2, <2>3
<1>5. \A t \in looked : t \in Readable(n) \/ (t >= scan.next /\ Confident(scan.best.confidence))
  <2>1. \A t \in looked : t <= h /\ t \in Nat /\ (t <= n => t \in Readable(n))
    BY <1>2, <1>3 DEF Readable
  <2>2. n + 1 > h \/ Confident(scan.best.confidence)
    BY <1>0, <1>1, <1>2, <1>3 DEF EndOfScan
  <2> QED  BY <1>3, <2>1, <2>2
<1>6. scan.best.frame = PickOf(looked)
  BY <1>0, <1>2, <1>4, <1>5, PickedRight
<1>7. SeenByScan' = looked
  <2>1. ~result'.full
    BY <1>0, <1>1
  <2> QED  BY <1>0, <1>1, <1>2, <2>1 DEF Readable, SeenByScan
<1>8. PickOf(SeenByScan)' = PickOf(looked)
  BY <1>0, <1>7 DEF PickOf
<1> QED  BY <1>0, <1>6, <1>8, PickIsBest

LEMMA FullScanRight ==
  ASSUME OcrInv, FullScanEnds, scan.best.confidence > 0
  PROVE  BestReadingIsReturned'
<1>0. /\ OcrKinds /\ ScanKept /\ EndOfScan /\ scan.full /\ result' = scan.best /\ video' = video
  BY DEF OcrInv, FullScanEnds
<1>1. /\ LastFrame = Len(video) /\ DOMAIN video = 1..Len(video) /\ Len(video) \in Nat /\ scan.next \in Nat
      /\ scan.next >= 1 /\ scan.next <= LastFrame + 1 /\ scan.best.full
      /\ scan.examined = Cardinality(Readable(scan.next - 1)) /\ scan.examined <= FullScanCap
      /\ scan.examined \in Nat /\ FullScanCap \in Nat
  BY <1>0, VideoFacts, OcrAssumption DEF OcrKinds, ScanKept, Scans, LastFrame
<1> DEFINE Before(t) == {u \in Readable(Len(video)) : u <= t}
<1>2. PICK n, h, looked : /\ n = scan.next - 1 /\ h = Len(video)
                        /\ looked = {t \in Readable(h) : Cardinality(Before(t)) <= FullScanCap}
  OBVIOUS
<1>3. n \in Nat /\ h \in Nat /\ n <= h /\ scan.next = n + 1
  BY <1>1, <1>2
<1>4. /\ Readable(n) \subseteq Readable(h) /\ Readable(h) \subseteq 1..h
      /\ IsFiniteSet(Readable(n)) /\ IsFiniteSet(Readable(h))
  <2>1. Readable(n) \subseteq 1..n /\ Readable(h) \subseteq 1..h
    BY DEF Readable
  <2>2. 1..n \subseteq 1..h
    BY <1>3
  <2>3. Readable(n) \subseteq Readable(h)
    BY <2>2 DEF Readable
  <2>4. IsFiniteSet(1..h)
    <3>1. PICK a \in Int, b \in Int : a = 1 /\ b = h
      BY <1>3
    <3>2. IsFiniteSet(a..b)
      BY FS_Interval
    <3> QED  BY <3>1, <3>2
  <2> QED  BY <2>1, <2>3, <2>4, FS_Subset
<1>5. \A t \in Readable(h) : t \in Nat /\ t <= h /\ (t <= n <=> t \in Readable(n))
  BY <1>3 DEF Readable
<1>6. looked \subseteq DOMAIN video /\ Readable(n) \subseteq looked
  <2>1. ASSUME NEW t \in Readable(n) PROVE Cardinality(Before(t)) <= FullScanCap
    <3>1. Before(t) \subseteq Readable(n)
      BY <1>2, <1>3, <1>4, <1>5
    <3> HIDE DEF Before
    <3>2. Cardinality(Before(t)) <= Cardinality(Readable(n)) /\ IsFiniteSet(Before(t))
      BY <1>4, <3>1, FS_Subset
    <3>3. Cardinality(Before(t)) \in Nat
      BY <3>2, FS_CardinalityType
    <3> QED  BY <1>1, <1>2, <3>2, <3>3
  <2> HIDE DEF Before
  <2> QED  BY <1>1, <1>2, <1>4, <2>1
<1>7. \A t \in looked : t \in Readable(n) \/ (t >= scan.next /\ Confident(scan.best.confidence))
  <2> SUFFICES ASSUME NEW t \in looked, t \notin Readable(n), ~Confident(scan.best.confidence) PROVE FALSE
    BY <1>2, <1>3, <1>5
  <2>1. t \in Readable(h) /\ t > n /\ t <= h /\ t \in Nat /\ Cardinality(Before(t)) <= FullScanCap
    BY <1>2, <1>3, <1>5
  <2>2. scan.examined >= FullScanCap
    BY <1>0, <1>1, <1>2, <1>3, <2>1 DEF EndOfScan
  <2>3. Readable(n) \cup {t} \subseteq Before(t)
    BY <1>2, <1>3, <1>4, <1>5, <2>1
  <2>4. IsFiniteSet(Before(t))
    <3>1. Before(t) \subseteq Readable(h)
      BY <1>2
    <3> HIDE DEF Before
    <3> QED  BY <1>4, <3>1, FS_Subset
  <2> HIDE DEF Before
  <2>5. Cardinality(Readable(n) \cup {t}) = scan.examined + 1
    BY <1>1, <1>2, <1>4, FS_AddElement, ZenonT(40)
  <2>6. Cardinality(Readable(n) \cup {t}) <= Cardinality(Before(t)) /\ Cardinality(Before(t)) \in Nat
    BY <2>3, <2>4, FS_Subset, FS_CardinalityType
  <2> QED  BY <1>1, <2>1, <2>2, <2>5, <2>6
<1>8. scan.best.frame = PickOf(looked)
  BY <1>0, <1>2, <1>6, <1>7, PickedRight
<1>9. SeenByScan' = looked
  <2>1. result'.full
    BY <1>0, <1>1
  <2> QED  BY <1>0, <1>2, <2>1 DEF Readable, SeenByScan
<1>10. PickOf(SeenByScan)' = PickOf(looked)
  BY <1>0, <1>9 DEF PickOf
<1> QED  BY <1>0, <1>8, <1>10, PickIsBest

LEMMA OcrInvStep == OcrInv /\ [OcrNext]_ocrVars => OcrInv'
<1> SUFFICES ASSUME OcrInv, [OcrNext]_ocrVars PROVE OcrInv'
  OBVIOUS
<1>0. OcrKinds
  BY DEF OcrInv
<1>1. CASE NextFrame
  BY <1>1, NextFrameKeeps
<1>2. CASE FirstScanEnds
  <2>1. /\ ScanKept /\ result' = scan.best /\ video' = video /\ fullScan' = fullScan /\ ~scan.full
        /\ scan.best \in Extractions /\ scan.best.confidence \in Nat /\ scan \in Scans
    BY <1>0, <1>2 DEF FirstScanEnds, OcrInv, OcrKinds, Scans, Extractions
  <2>2. CASE scan.best.confidence > 0 \/ ~fullScan
    <3>1. scan' = [scan EXCEPT !.at = "done"]
      BY <1>2, <2>2 DEF FirstScanEnds
    <3>2. scan' \in Scans /\ scan'.at = "done"
      BY <2>1, <3>1 DEF Scans
    <3>3. BestReadingIsReturned'
      <4>1. CASE scan.best.confidence > 0
        BY <1>2, <4>1, FirstScanRight
      <4>2. CASE ~(scan.best.confidence > 0)
        BY <2>1, <4>2 DEF BestReadingIsReturned
      <4> QED  BY <4>1, <4>2
    <3> QED  BY <1>0, <2>1, <3>2, <3>3 DEF OcrInv, OcrKinds
  <2>3. CASE ~(scan.best.confidence > 0 \/ ~fullScan)
    <3>1. scan' = [scan EXCEPT !.full = TRUE, !.next = 1, !.examined = 0, !.best = Nothing]
      BY <1>2, <2>3 DEF FirstScanEnds
    <3>2. Nothing \in Extractions /\ Nothing.confidence = 0
      BY DEF Nothing, Extractions
    <3>3. /\ scan' \in Scans /\ scan'.at = scan.at /\ scan'.full /\ scan'.next = 1 /\ scan'.examined = 0
          /\ scan'.best = Nothing
      BY <2>1, <3>1, <3>2 DEF Scans
    <3>4. OcrKinds'
      BY <1>0, <2>1, <3>3 DEF OcrKinds
    <3>5. Readable(scan.next - 1)' = {}
      BY <3>3 DEF Readable
    <3>6. LastFrame' \in Nat
      <4>1. LastFrame' = Len(video)
        BY <2>1, <3>3 DEF LastFrame
      <4> QED  BY <1>0, <4>1, VideoFacts
    <3>7. result'.confidence = 0
      BY <2>1, <2>3
    <3>8. ScanKept'
      <4>1. Cardinality({}) = 0 /\ 0 <= FullScanCap
        BY FS_EmptySet, OcrAssumption
      <4>2. (scan.next >= 1 /\ scan.next <= LastFrame + 1)'
        <5>1. scan'.next = 1
          BY <3>3
        <5>2. 1 <= LastFrame' + 1
          <6>1. \A l \in Nat : 1 <= l + 1
            OBVIOUS
          <6> QED  BY <3>6, <6>1, Zenon
        <5>3. 1 >= 1
          OBVIOUS
        <5> QED  BY <5>1, <5>2, <5>3
      <4>4. (scan.best.confidence = 0)'
        BY <3>2, <3>3
      <4>3. (scan.examined = Cardinality(Readable(scan.next - 1)) /\ scan.examined <= FullScanCap)'
        BY <3>3, <3>5, <4>1
      <4> QED  BY <3>5, <3>7, <4>2, <4>3, <4>4 DEF ScanKept
    <3>9. scan'.at = "frames"
      BY <1>2, <3>3 DEF FirstScanEnds
    <3> QED  BY <3>4, <3>8, <3>9 DEF OcrInv, BestReadingIsReturned
  <2> QED  BY <2>2, <2>3
<1>3. CASE FullScanEnds
  <2>1. /\ ScanKept /\ video' = video /\ fullScan' = fullScan /\ scan.full
        /\ scan' = [scan EXCEPT !.at = "done"]
        /\ scan.best \in Extractions /\ scan.best.confidence \in Nat /\ scan \in Scans
        /\ result' = (IF scan.best.confidence > 0 THEN scan.best ELSE result) /\ result \in Extractions
        /\ result.confidence = 0
    BY <1>0, <1>3 DEF FullScanEnds, OcrInv, OcrKinds, Scans, Extractions, ScanKept
  <2>2. scan' \in Scans /\ scan'.at = "done" /\ result' \in Extractions
    BY <2>1 DEF Scans
  <2>3. BestReadingIsReturned'
    <3>1. CASE scan.best.confidence > 0
      BY <1>3, <3>1, FullScanRight
    <3>2. CASE ~(scan.best.confidence > 0)
      <4>1. result'.confidence = 0
        BY <2>1, <3>2
      <4> QED  BY <4>1 DEF BestReadingIsReturned
    <3> QED  BY <3>1, <3>2
  <2> QED  BY <1>0, <2>1, <2>2, <2>3 DEF OcrInv, OcrKinds
<1>4. CASE UNCHANGED ocrVars
  <2>1. video' = video /\ fullScan' = fullScan /\ scan' = scan /\ result' = result
    BY <1>4 DEF ocrVars
  <2>2. OcrKinds'
    BY <1>0, <2>1 DEF OcrKinds
  <2>3. ScanKept => ScanKept'
    BY <2>1 DEF ScanKept, Readable, Reading, LastFrame
  <2>4. BestReadingIsReturned'
    <3>1. PickOf(SeenByScan)' = PickOf(SeenByScan)
      BY <2>1 DEF PickOf, SeenByScan, Readable
    <3> QED  BY <2>1, <3>1, PickIsBest DEF OcrInv
  <2> QED  BY <2>1, <2>2, <2>3, <2>4 DEF OcrInv
<1> QED  BY <1>1, <1>2, <1>3, <1>4 DEF OcrNext

\* The Device ID that the extraction returns is the first of the best readings of
\* the scan it comes from (_scan, _try_variants_on_frame), in a video of any
\* length, with any engines and whatever they read.
THEOREM BestIsReturned == OcrSpec => []BestReadingIsReturned
<1>1. OcrInit => OcrInv
  <2> SUFFICES ASSUME OcrInit PROVE OcrInv
    OBVIOUS
  <2>1. PICK n \in Lengths : video \in [1..n -> Frames]
    BY DEF OcrInit
  <2>2. n \in Nat /\ video \in Seq(Frames)
    BY <2>1, OcrAssumption
  <2>3. Nothing \in Extractions /\ Nothing.confidence = 0
    BY DEF Nothing, Extractions
  <2>4. /\ scan \in Scans /\ scan.at = "frames" /\ ~scan.full /\ scan.next = 1 /\ scan.best = Nothing
        /\ result = Nothing
    BY <2>3 DEF OcrInit, Scans
  <2>5. fullScan \in BOOLEAN
    BY OcrAssumption DEF OcrInit
  <2>6. OcrKinds
    BY <2>2, <2>3, <2>4, <2>5 DEF OcrKinds
  <2>7. Readable(scan.next - 1) = {} /\ LastFrame \in Nat
    BY <2>4, <2>6, VideoFacts DEF Readable
  <2>8. ScanKept
    BY <2>3, <2>4, <2>7 DEF ScanKept
  <2> QED  BY <2>4, <2>6, <2>8 DEF OcrInv, BestReadingIsReturned
<1>2. OcrInv => BestReadingIsReturned
  BY DEF OcrInv
<1> QED  BY <1>1, <1>2, OcrInvStep, PTL DEF OcrSpec

=============================================================================
