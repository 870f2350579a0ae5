------------------------------- MODULE SheetRows -------------------------------
(***************************************************************************)
(* The tracking sheet that several installations write                     *)
(* (services/sheets/sheets_client.py): a row per file name, found through  *)
(* a cache that an installation fills once per session, updated in place   *)
(* if it is there and appended by Sheets itself if it is not.              *)
(*                                                                         *)
(* The executor threads of an installation share one client, whose cache   *)
(* no lock guards.  Of a row only the file name matters.  A file is in the *)
(* hands of one thread of an installation at a time, as it is in the       *)
(* pipeline as long as no order of the operator puts it in play twice.     *)
(***************************************************************************)
EXTENDS Integers, Sequences, FiniteSets

CONSTANTS
  Writers,         \* the executor threads that call upsert_row
  Clients,         \* the installations that share the sheet
  ClientOf,        \* ClientOf[s]: the installation of thread s
  SheetFiles,      \* file names
  FilesOf,         \* FilesOf[c]: the files that installation c uploads
  MaxUpserts,      \* bound: calls of upsert_row
  MaxSheetFaults,  \* bound: answers that are lost, and restarts
  MaxEdits         \* bound: rows that a person deletes

ASSUME SheetAssumption ==
  /\ ClientOf \in [Writers -> Clients]
  /\ FilesOf \in [Clients -> SUBSET SheetFiles]
  /\ IsFiniteSet(Clients)
  /\ {MaxUpserts, MaxSheetFaults, MaxEdits} \subseteq Nat

VARIABLES
  sheetRows,  \* the file names of the rows under the header, from the top
  rowCache,   \* rowCache[c]: _row_cache, by file; 0: no entry
  primed,     \* primed[c]: _cache_primed
  upsert,     \* upsert[s]: the call of upsert_row in progress; heard: the column as it was read
  upserts, sheetFaults, edits,  \* what the bounds count
  unanswered  \* ghost: unanswered[f]: rows of f whose append was not acknowledged

sheetBounds == <<upserts, sheetFaults, edits>>
sheetVars   == <<sheetRows, rowCache, primed, upsert, sheetBounds, unanswered>>

EmptyCache == [f \in SheetFiles |-> 0]
NoUpsert  == [at |-> "idle", file |-> "none", row |-> 0, heard |-> EmptyCache]
RowsOf(f) == {r \in DOMAIN sheetRows : sheetRows[r] = f}

SheetTypeOK ==
  /\ sheetRows \in Seq(SheetFiles)
  /\ rowCache \in [Clients -> [SheetFiles -> Nat]] /\ primed \in [Clients -> BOOLEAN]
  /\ upsert \in [Writers -> [at : {"idle", "read", "prime", "look", "write", "append"},
                              file : SheetFiles \cup {"none"}, row : Nat,
                              heard : [SheetFiles -> Nat]]]
  /\ upserts \in 0..MaxUpserts /\ sheetFaults \in 0..MaxSheetFaults /\ edits \in 0..MaxEdits
  /\ unanswered \in [SheetFiles -> Nat]

SheetInit ==
  /\ sheetRows = <<>>
  /\ rowCache = [c \in Clients |-> EmptyCache] /\ primed = [c \in Clients |-> FALSE]
  /\ upsert = [s \in Writers |-> NoUpsert]
  /\ upserts = 0 /\ sheetFaults = 0 /\ edits = 0
  /\ unanswered = EmptyCache

-----------------------------------------------------------------------------

Threads(c) == {s \in Writers : ClientOf[s] = c}

\* upsert_row: the cache is filled first, unless it has been in this session.
Upsert(s, f) ==
  /\ upsert[s].at = "idle" /\ upserts < MaxUpserts
  /\ f \in FilesOf[ClientOf[s]] /\ \A t \in Threads(ClientOf[s]) : upsert[t].file # f
  /\ upsert' = [upsert EXCEPT ![s].at = IF primed[ClientOf[s]] THEN "look" ELSE "read", ![s].file = f]
  /\ upserts' = upserts + 1
  /\ UNCHANGED <<sheetRows, rowCache, primed, sheetFaults, edits, unanswered>>

\* _ensure_row_cache: the file name column is read; of two rows with one name
\* the lower one counts.
ReadColumn(s) ==
  /\ upsert[s].at = "read"
  /\ upsert' = [upsert EXCEPT ![s].at = "prime", ![s].heard =
       [f \in SheetFiles |-> IF RowsOf(f) = {} THEN 0
                             ELSE CHOOSE r \in RowsOf(f) : \A q \in RowsOf(f) : q <= r]]
  /\ UNCHANGED <<sheetRows, rowCache, primed, sheetBounds, unanswered>>

MutantPrimeCache(s) ==
  /\ upsert[s].at = "prime"
  /\ primed' = [primed EXCEPT ![ClientOf[s]] = TRUE]
  /\ upsert' = [upsert EXCEPT ![s].at = "look", ![s].heard = EmptyCache]
  /\ UNCHANGED <<sheetRows, rowCache, sheetBounds, unanswered>>

\* By the time the rows are entered, another thread may have entered its own.
PrimeCache(s) ==
  /\ upsert[s].at = "prime"
  /\ rowCache' = [rowCache EXCEPT ![ClientOf[s]] =
       [f \in SheetFiles |-> IF upsert[s].heard[f] = 0 THEN @[f] ELSE upsert[s].heard[f]]]
  /\ primed' = [primed EXCEPT ![ClientOf[s]] = TRUE]
  /\ upsert' = [upsert EXCEPT ![s].at = "look", ![s].heard = EmptyCache]
  /\ UNCHANGED <<sheetRows, sheetBounds, unanswered>>

LookUp(s) ==
  /\ upsert[s].at = "look"
  /\ LET r == rowCache[ClientOf[s]][upsert[s].file]
     IN upsert' = [upsert EXCEPT ![s].at = IF r = 0 THEN "append" ELSE "write", ![s].row = r]
  /\ UNCHANGED <<sheetRows, rowCache, primed, sheetBounds, unanswered>>

\* _write_row: the cells of that row, whatever is in them; the row below the
\* last one is filled in (a single deletion moves no cached row further).
WriteRow(s) ==
  /\ upsert[s].at = "write"
  /\ LET r == upsert[s].row
         f == upsert[s].file
     IN sheetRows' = IF r \in DOMAIN sheetRows THEN [sheetRows EXCEPT ![r] = f]
                     ELSE Append(sheetRows, f)
  /\ upsert' = [upsert EXCEPT ![s] = NoUpsert]
  /\ UNCHANGED <<rowCache, primed, sheetBounds, unanswered>>

\* _append_row: Sheets chooses the row and says which one it was.
AppendRow(s) ==
  /\ upsert[s].at = "append"
  /\ sheetRows' = Append(sheetRows, upsert[s].file)
  /\ upsert' = [upsert EXCEPT ![s] = NoUpsert]
  /\ rowCache' = [rowCache EXCEPT ![ClientOf[s]][upsert[s].file] = Len(sheetRows) + 1]
  /\ UNCHANGED <<primed, sheetBounds, unanswered>>

\* The row is there, but the answer is a transient error (google_api_retry calls
\* upsert_row again) or names no row (SheetsApiError: the caller may try again).
AppendUnanswered(s) ==
  /\ upsert[s].at = "append" /\ sheetFaults < MaxSheetFaults
  /\ sheetRows' = Append(sheetRows, upsert[s].file)
  /\ upsert' \in {[upsert EXCEPT ![s].at = "look"], [upsert EXCEPT ![s] = NoUpsert]}
  /\ sheetFaults' = sheetFaults + 1
  /\ unanswered' = [unanswered EXCEPT ![upsert[s].file] = @ + 1]
  /\ UNCHANGED <<rowCache, primed, upserts, edits>>

\* A call that fails for good changes nothing; a restart forgets the cache.
UpsertFails(s) ==
  /\ upsert[s].at # "idle" /\ sheetFaults < MaxSheetFaults
  /\ upsert' = [upsert EXCEPT ![s] = NoUpsert]
  /\ sheetFaults' = sheetFaults + 1
  /\ UNCHANGED <<sheetRows, rowCache, primed, upserts, edits, unanswered>>

SessionRestarts(c) ==
  /\ sheetFaults < MaxSheetFaults
  /\ rowCache' = [rowCache EXCEPT ![c] = EmptyCache] /\ primed' = [primed EXCEPT ![c] = FALSE]
  /\ upsert' = [s \in Writers |-> IF ClientOf[s] = c THEN NoUpsert ELSE upsert[s]]
  /\ sheetFaults' = sheetFaults + 1
  /\ UNCHANGED <<sheetRows, upserts, edits, unanswered>>

\* A person deletes a row; the rows below move up.
DeleteRow(r) ==
  /\ edits < MaxEdits
  /\ sheetRows' = [q \in 1..(Len(sheetRows) - 1) |-> sheetRows[IF q < r THEN q ELSE q + 1]]
  /\ edits' = edits + 1
  /\ UNCHANGED <<rowCache, primed, upsert, upserts, sheetFaults, unanswered>>

SheetNext ==
  \/ \E s \in Writers :
        \/ \E f \in SheetFiles : Upsert(s, f)
        \/ ReadColumn(s) \/ PrimeCache(s) \/ LookUp(s) \/ WriteRow(s) \/ AppendRow(s)
        \/ AppendUnanswered(s) \/ UpsertFails(s)
  \/ \E c \in Clients : SessionRestarts(c)
  \/ \E r \in DOMAIN sheetRows : DeleteRow(r)

SheetSpec == SheetInit /\ [][SheetNext]_sheetVars

-----------------------------------------------------------------------------
(* Properties. *)

\* The files that one installation uploads.
Unshared == {f \in SheetFiles : Cardinality({c \in Clients : f \in FilesOf[c]}) <= 1}

\* Threads that fill the cache over each other, calls that fail and sessions that
\* start with an empty cache never give such a file a second row: the only ones it
\* gets are those of appends that were not acknowledged, one each.
\* (SheetsClient._ensure_row_cache, upsert_row)
OneRowPerFile ==
  edits = 0 => \A f \in Unshared : Cardinality(RowsOf(f)) <= 1 + unanswered[f]

\* sheets_client.py: a row that exists is updated in place, so re-processing never
\* creates duplicate rows.
NeverDuplicateRows == edits = 0 => \A f \in Unshared : Cardinality(RowsOf(f)) <= 1

=============================================================================
