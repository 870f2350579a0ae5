----------------------------- MODULE JobDiscovery -----------------------------
(***************************************************************************)
(* The two batches that fill the job agent's database: "jobs scan"         *)
(* (jobs/service.py, jobs/repository.py), which stores the postings of a   *)
(* board, and "jobs match" (matching/service.py, matching/repository.py),  *)
(* which stores a match for every job.  Each is a process of its own, with *)
(* one database session that is committed at the end, and each catches the *)
(* exceptions of a single posting or job.                                  *)
(*                                                                         *)
(* SQLite lets one session write at a time, from its first write to its    *)
(* commit; a read outside of a write sees what is committed.  A failed     *)
(* flush rolls the session back, and it is of no use from then on: the     *)
(* rest of the batch fails, and so does the commit.  One board, of one     *)
(* company; what a posting says is one of a few contents.                  *)
(***************************************************************************)
EXTENDS Integers, Sequences, FiniteSets

CONSTANTS
  Batches,        \* the processes that run a batch
  NoBatch,        \* who writes when nobody does
  Offers,         \* ids of postings on the board
  MaxBatches,     \* bound: batches begun
  MaxBatchFaults, \* bound: requests and writes that fail, jobs that raise, crashes
  MaxChanges      \* bound: changes of the board

ASSUME DiscoveryAssumption ==
  /\ NoBatch \notin Batches
  /\ {MaxBatches, MaxBatchFaults, MaxChanges} \subseteq Nat

VARIABLES
  board,    \* board[p]: what the board says of p now
  db,       \* what is committed: the source's row, the company's rows, jobs, matches
  draft,    \* what the writing session would commit
  writer,   \* the batch that holds the write lock
  batch,    \* batch[b]: the batch that process b runs
  batches, batchFaults, changes, \* what the bounds count
  overlapped  \* ghost: whether a batch has begun while another one ran

batchBounds  == <<batches, batchFaults, changes>>
jobDataVars  == <<board, db, draft, writer>>
batchVars    == <<jobDataVars, batch, batchBounds, overlapped>>

Contents == {"absent", "malformed", "listed", "edited"}
NewDatabase == [source |-> FALSE, companies |-> 0, jobs |-> <<>>, matches |-> <<>>]

\* todo: the postings, or the rows of jobs, that are still to be handled;
\* item: the one in hand; good: those handled without an exception;
\* says: what search() returned.
NoBatchRun == [at |-> "idle", kind |-> "scan", todo |-> {}, item |-> 0, good |-> {},
               says |-> [p \in Offers |-> "absent"]]

Items == Offers \cup Nat

BatchTypeOK ==
  /\ board \in [Offers -> Contents]
  /\ \A d \in {db, draft} :
       /\ d.source \in BOOLEAN /\ d.companies \in Nat
       /\ d.jobs \in Seq([posting : Offers, says : Contents])
       /\ d.matches \in Seq(1..Len(d.jobs))
  /\ writer \in Batches \cup {NoBatch}
  /\ \A b \in Batches :
       /\ batch[b].at \in {"idle", "source", "search", "next", "company", "addCompany", "select",
                           "insert", "update", "save", "commit", "poisoned", "returned", "raised"}
       /\ batch[b].kind \in {"scan", "match"} /\ batch[b].item \in Items
       /\ batch[b].todo \subseteq Items /\ batch[b].good \subseteq Items
       /\ batch[b].says \in [Offers -> Contents]
  /\ batches \in 0..MaxBatches /\ batchFaults \in 0..MaxBatchFaults /\ changes \in 0..MaxChanges
  /\ overlapped \in BOOLEAN

BatchInit ==
  /\ board = [p \in Offers |-> "listed"]
  /\ db = NewDatabase /\ draft = NewDatabase /\ writer = NoBatch
  /\ batch = [b \in Batches |-> NoBatchRun]
  /\ batches = 0 /\ batchFaults = 0 /\ changes = 0 /\ overlapped = FALSE

-----------------------------------------------------------------------------
(* The session. *)

\* What batch b reads.
View(b) == IF writer = b THEN draft ELSE db

RowsFor(d, p) == {k \in DOMAIN d.jobs : d.jobs[k].posting = p}

Proceed(b, at) == batch' = [batch EXCEPT ![b].at = at]

\* The exception of one item is caught, and the next one is taken.
SkipItem(b) == batch' = [batch EXCEPT ![b].at = "next", ![b].todo = @ \ {batch[b].item}]

FinishItem(b) ==
  batch' = [batch EXCEPT ![b].at = "next", ![b].todo = @ \ {batch[b].item},
                         ![b].good = @ \cup {batch[b].item}]

\* A flush that succeeds.
Write(b, d) ==
  /\ writer \in {b, NoBatch}
  /\ writer' = b /\ draft' = d
  /\ UNCHANGED <<board, db, batchBounds, overlapped>>

Writing == {"source", "addCompany", "insert", "update", "save"}

Release(b) == IF writer = b THEN writer' = NoBatch /\ draft' = NewDatabase
              ELSE UNCHANGED <<writer, draft>>

\* A flush that fails: the lock was not released in time, or the disk is full.
\* The source's row is flushed outside of any handler.
FlushFails(b) ==
  /\ batch[b].at \in Writing
  /\ batchFaults < MaxBatchFaults
  /\ Proceed(b, IF batch[b].at = "source" THEN "raised" ELSE "poisoned")
  /\ Release(b)
  /\ batchFaults' = batchFaults + 1
  /\ UNCHANGED <<board, db, batches, changes, overlapped>>

-----------------------------------------------------------------------------
(* scan_source. *)

BeginRun(b, run) ==
  /\ batch[b].at \in {"idle", "returned", "raised"} /\ batches < MaxBatches
  /\ batch' = [batch EXCEPT ![b] = run]
  /\ batches' = batches + 1
  /\ overlapped' = (overlapped \/ \E c \in Batches \ {b} : batch[c].at \notin {"idle", "returned", "raised"})
  /\ UNCHANGED <<jobDataVars, batchFaults, changes>>

BeginScan(b) ==
  BeginRun(b, [NoBatchRun EXCEPT !.at = IF db.source THEN "search" ELSE "source"])

\* get_or_create_job_source: the name is unique.
AddSource(b) ==
  /\ batch[b].at = "source" /\ ~db.source
  /\ Write(b, [View(b) EXCEPT !.source = TRUE])
  /\ Proceed(b, "search")

SourceExists(b) ==
  /\ batch[b].at = "source" /\ db.source
  /\ Proceed(b, "raised")
  /\ UNCHANGED <<jobDataVars, batchBounds, overlapped>>

\* source.search(): the board answers with what it has now.
Search(b) ==
  /\ batch[b].at = "search"
  /\ batch' = [batch EXCEPT ![b].at = "next", ![b].says = board,
                            ![b].todo = {p \in Offers : board[p] # "absent"}]
  /\ UNCHANGED <<jobDataVars, batchBounds, overlapped>>

\* Every attempt of the HTTP client fails, or the answer has another shape:
\* the source's row is committed, and no posting is touched.
SearchFails(b) ==
  /\ batch[b].at = "search" /\ batchFaults < MaxBatchFaults
  /\ Proceed(b, "commit")
  /\ batchFaults' = batchFaults + 1
  /\ UNCHANGED <<jobDataVars, batches, changes, overlapped>>

\* normalize() raises on a malformed posting.
NextPosting(b) ==
  /\ batch[b].at = "next" /\ batch[b].kind = "scan" /\ batch[b].todo # {}
  /\ \E p \in batch[b].todo :
       batch' = IF batch[b].says[p] = "malformed" THEN [batch EXCEPT ![b].todo = @ \ {p}]
                ELSE [batch EXCEPT ![b].at = "company", ![b].item = p]
  /\ UNCHANGED <<jobDataVars, batchBounds, overlapped>>

\* get_or_create_company: scalar_one_or_none raises when there are two.
FindCompany(b) ==
  /\ batch[b].at = "company"
  /\ CASE View(b).companies = 0 -> Proceed(b, "addCompany")
       [] View(b).companies = 1 -> Proceed(b, "select")
       [] OTHER                 -> SkipItem(b)
  /\ UNCHANGED <<jobDataVars, batchBounds, overlapped>>

AddCompany(b) ==
  /\ batch[b].at = "addCompany"
  /\ Write(b, [View(b) EXCEPT !.companies = @ + 1])
  /\ Proceed(b, "select")

MutantFindJob(b) ==
  /\ batch[b].at = "select"
  /\ LET found == {k \in RowsFor(View(b), batch[b].item) :
                     View(b).jobs[k].says = batch[b].says[batch[b].item]}
     IN CASE found = {}             -> Proceed(b, "insert")
          [] Cardinality(found) = 1 -> Proceed(b, "update")
          [] OTHER                  -> SkipItem(b)
  /\ UNCHANGED <<jobDataVars, batchBounds, overlapped>>

\* upsert_job, its query: no row, one, or two, which raises.
FindJob(b) ==
  /\ batch[b].at = "select"
  /\ LET found == RowsFor(View(b), batch[b].item)
     IN CASE found = {}             -> Proceed(b, "insert")
          [] Cardinality(found) = 1 -> Proceed(b, "update")
          [] OTHER                  -> SkipItem(b)
  /\ UNCHANGED <<jobDataVars, batchBounds, overlapped>>

InsertJob(b) ==
  /\ batch[b].at = "insert"
  /\ LET p == batch[b].item
     IN Write(b, [View(b) EXCEPT !.jobs = Append(@, [posting |-> p, says |-> batch[b].says[p]])])
  /\ FinishItem(b)

\* Every column but the first-seen ones; the code flushes them with the next query or
\* the commit, here they are flushed at once.
UpdateJob(b) ==
  /\ batch[b].at = "update"
  /\ LET p == batch[b].item
         k == CHOOSE k \in RowsFor(View(b), p) : TRUE
     IN Write(b, [View(b) EXCEPT !.jobs[k].says = batch[b].says[p]])
  /\ FinishItem(b)

-----------------------------------------------------------------------------
(* run_matching. *)

\* The jobs are read once, at the beginning.
BeginMatch(b) ==
  BeginRun(b, [NoBatchRun EXCEPT !.at = "next", !.kind = "match", !.todo = DOMAIN db.jobs])

NextJob(b) ==
  /\ batch[b].at = "next" /\ batch[b].kind = "match" /\ batch[b].todo # {}
  /\ \E k \in batch[b].todo : batch' = [batch EXCEPT ![b].at = "save", ![b].item = k]
  /\ UNCHANGED <<jobDataVars, batchBounds, overlapped>>

\* match_job raises: the job is left without a match.
MatchRaises(b) ==
  /\ batch[b].at = "save" /\ batchFaults < MaxBatchFaults
  /\ SkipItem(b)
  /\ batchFaults' = batchFaults + 1
  /\ UNCHANGED <<jobDataVars, batches, changes, overlapped>>

\* save_job_match: a new row each time.
SaveMatch(b) ==
  /\ batch[b].at = "save"
  /\ Write(b, [View(b) EXCEPT !.matches = Append(@, batch[b].item)])
  /\ FinishItem(b)

-----------------------------------------------------------------------------
(* The end of a batch. *)

Handled(b) ==
  /\ batch[b].at = "next" /\ batch[b].todo = {}
  /\ Proceed(b, "commit")
  /\ UNCHANGED <<jobDataVars, batchBounds, overlapped>>

MutantCommit(b) ==
  /\ batch[b].at \in {"commit", "poisoned"}
  /\ Proceed(b, "returned")
  /\ db' = View(b)
  /\ Release(b)
  /\ UNCHANGED <<board, batchBounds, overlapped>>

Commit(b) ==
  /\ batch[b].at = "commit"
  /\ Proceed(b, "returned")
  /\ db' = View(b)
  /\ Release(b)
  /\ UNCHANGED <<board, batchBounds, overlapped>>

\* PendingRollbackError, from the commit or already from the handler.
CommitRaises(b) ==
  /\ batch[b].at = "poisoned"
  /\ Proceed(b, "raised")
  /\ UNCHANGED <<jobDataVars, batchBounds, overlapped>>

\* The process is killed: SQLite rolls back.
BatchDies(b) ==
  /\ batch[b].at \notin {"idle", "returned", "raised"} /\ batchFaults < MaxBatchFaults
  /\ Proceed(b, "raised")
  /\ Release(b)
  /\ batchFaults' = batchFaults + 1
  /\ UNCHANGED <<board, db, batches, changes, overlapped>>

\* The company edits a posting, takes it down, or breaks it.
BoardChanges(p, content) ==
  /\ changes < MaxChanges /\ content # board[p]
  /\ board' = [board EXCEPT ![p] = content]
  /\ changes' = changes + 1
  /\ UNCHANGED <<db, draft, writer, batch, batches, batchFaults, overlapped>>

BatchNext ==
  \/ \E b \in Batches :
       \/ BeginScan(b) \/ AddSource(b) \/ SourceExists(b) \/ Search(b) \/ SearchFails(b)
       \/ NextPosting(b) \/ FindCompany(b) \/ AddCompany(b) \/ FindJob(b) \/ InsertJob(b)
       \/ UpdateJob(b) \/ BeginMatch(b) \/ NextJob(b) \/ MatchRaises(b) \/ SaveMatch(b)
       \/ FlushFails(b) \/ Handled(b) \/ Commit(b) \/ CommitRaises(b) \/ BatchDies(b)
  \/ \E p \in Offers, c \in Contents : BoardChanges(p, c)

BatchSpec == BatchInit /\ [][BatchNext]_batchVars

-----------------------------------------------------------------------------
(* Properties. *)

\* "Never creates a duplicate row for the same posting": neither do rescans,
\* failed writes and crashes, and the company has one row, as long as no two
\* batches overlap.  (The tables have no unique constraint: of two scans that
\* overlap both may find nothing and insert, and from then on every scan fails
\* on that posting, or on every posting of that company.)
OneRowPerPosting ==
  ~overlapped => /\ \A p \in Offers : Cardinality(RowsFor(db, p)) <= 1
                 /\ db.companies <= 1

\* A batch that returns has stored what it handled: the malformed postings and
\* the jobs that raised cost the others nothing ("must never abort the whole
\* batch"), and a batch whose session was rolled back never looks like a success.
ReturnedMeansStored ==
  \A b \in Batches :
    batch[b].at = "returned" =>
      \A i \in batch[b].good :
        IF batch[b].kind = "scan" THEN RowsFor(db, i) # {}
        ELSE \E k \in DOMAIN db.matches : db.matches[k] = i

=============================================================================
