---------------------------- MODULE ProfileVersions ----------------------------
(***************************************************************************)
(* "profile parse" and the other commands that read the candidate's files  *)
(* (cli/main.py, candidate/parser.py, db/repository.py, resume/): the      *)
(* profile is made from config/*.yaml and candidate/*.md, saved in the     *)
(* tables, checked against resume_master.docx, and recorded as a version   *)
(* under the hashes of all these files, unless the last version is the     *)
(* same.                                                                   *)
(*                                                                         *)
(* A person edits the files at any moment, so that what was parsed, what   *)
(* was checked and what was hashed may be three different things.  A file  *)
(* is what the program makes of it: whether it can be read, and the claims *)
(* it makes, or, of the resume, the phrases it contains.  Equal hashes are *)
(* equal files.  One candidate, whose e-mail address does not change; the  *)
(* rows of facts and skills are left out, as no command reads them.        *)
(***************************************************************************)
EXTENDS Integers, Sequences, FiniteSets

CONSTANTS
  Parsers,         \* the processes that run a command
  ConfigFiles,     \* the configuration files, in the order in which they are read
  CandidateFiles,  \* the candidate/*.md, in the order in which they are read
  ResumeFile,      \* resume_master.docx
  Drafts,          \* Drafts[f]: what f may be edited to
  FirstDraft,      \* FirstDraft[f]: what f is at first
  MaxParses,       \* bound: commands
  MaxDisturbances  \* bound: edits of a file, commands that are killed, writes that SQLite refuses

LastOf(order) == order[Len(order)]
ReadOrder     == ConfigFiles \o CandidateFiles
ProfileFiles  == {ReadOrder[n] : n \in 1..Len(ReadOrder)}
HashOrder     == <<ResumeFile>> \o CandidateFiles \o ConfigFiles
SourceFiles   == ProfileFiles \cup {ResumeFile}

ASSUME ProfileAssumption ==
  /\ ConfigFiles \in Seq(STRING) /\ CandidateFiles \in Seq(STRING) /\ ReadOrder # <<>>
  /\ ResumeFile \notin ProfileFiles
  /\ Cardinality(ProfileFiles) = Len(ReadOrder)
  /\ \A f \in SourceFiles : FirstDraft[f] \in Drafts[f]
  /\ {MaxParses, MaxDisturbances} \subseteq Nat

VARIABLES
  source,         \* source[f]: what file f is now
  candidateRows,  \* rows of the table candidate
  versions,       \* rows of candidate_profile_versions, in the order of their ids
  parsing,        \* parsing[p]: the command that process p runs
  parses, disturbances \* what the bounds count

parseBounds == <<parses, disturbances>>
profileVars == <<source, candidateRows, versions, parsing, parseBounds>>

\* A file that says nothing yet, or is missing.
Unread == [ok |-> FALSE, claims |-> {}, text |-> {}]

\* read, text, hashes: what was read of the files, each at its own moment;
\* next: the next file to be read or hashed; candidate: the id of its row, 0 for
\* none; row: the version reported.
NoParse ==
  [at |-> "idle", records |-> FALSE, next |-> 1, read |-> [f \in ProfileFiles |-> Unread],
   candidate |-> 0, text |-> {}, hashes |-> [f \in SourceFiles |-> Unread], number |-> 0, row |-> 0]

Ended    == {"idle", "saved", "reported", "raised"}
FileSays == {Unread} \cup UNION {Drafts[f] : f \in SourceFiles}
Texts    == {d.text : d \in FileSays}

ParseRecord ==
  [at : Ended \cup {"read", "find", "save", "extract", "hash", "look", "number", "insert"},
   records : BOOLEAN, next : Nat, read : [ProfileFiles -> FileSays], candidate : Nat,
   text : Texts, hashes : [SourceFiles -> FileSays], number : Nat, row : Nat]

VersionRow ==
  [candidate : Nat, number : Nat, profile : [ProfileFiles -> {d.claims : d \in FileSays}],
   hashes : [SourceFiles -> FileSays], status : {"PASSED", "FAILED"}, against : Texts]

ProfileTypeOK ==
  /\ source \in [SourceFiles -> FileSays] /\ candidateRows \in Nat
  /\ versions \in Seq(VersionRow)
  /\ parsing \in [Parsers -> ParseRecord]
  /\ parses \in 0..MaxParses /\ disturbances \in 0..MaxDisturbances

ProfileInit ==
  /\ source = [f \in SourceFiles |-> FirstDraft[f]]
  /\ candidateRows = 0 /\ versions = <<>>
  /\ parsing = [p \in Parsers |-> NoParse]
  /\ parses = 0 /\ disturbances = 0

-----------------------------------------------------------------------------
(* What can be traced back to the resume. *)

StrictMatch(text, claim) == claim.phrase \in text

\* At least six tenths of the significant words, if there are two or more.
FuzzyMatch(text, claim) ==
  IF Cardinality(claim.words) < 2 THEN StrictMatch(text, claim)
  ELSE 5 * Cardinality(claim.words \cap text) >= 3 * Cardinality(claim.words)

\* Names, titles and HAS skills are literal, achievements and the notes of
\* DEMONSTRATED skills paraphrase; such a skill without a note traces to
\* nothing, and the levels below claim nothing.
Traced(text, claim) ==
  \/ claim.kind = "literal" /\ StrictMatch(text, claim)
  \/ claim.kind = "paraphrase" /\ FuzzyMatch(text, claim)
  \/ claim.kind = "unclaimed"

\* validate_profile_against_resume
Issues(profile, text) == {c \in UNION {profile[f] : f \in DOMAIN profile} : ~Traced(text, c)}

\* The profile that a command has parsed, as its hash sees it: without parsed_at.
Parsed(p) == [f \in ProfileFiles |-> parsing[p].read[f].claims]

\* Whether a version is of this profile and of these files.
MutantUnchanged(v, p) == v.profile = Parsed(p)
Unchanged(v, p) == v.profile = Parsed(p) /\ v.hashes = parsing[p].hashes

\* get_latest_version, of the candidate; of equal numbers the database picks one.
VersionsOf(p) == {n \in DOMAIN versions : versions[n].candidate = parsing[p].candidate}
Latest(p) == {n \in VersionsOf(p) : \A m \in VersionsOf(p) : versions[m].number <= versions[n].number}

-----------------------------------------------------------------------------
(* A command. *)

GoTo(p, at) == parsing' = [parsing EXCEPT ![p].at = at]
KeepTables  == UNCHANGED <<source, candidateRows, versions, parseBounds>>

\* "profile parse" records a version; "profile history", "applications prepare"
\* and the others that need the profile only save it.
BeginParse(p, records) ==
  /\ parsing[p].at \in Ended /\ parses < MaxParses
  /\ parsing' = [parsing EXCEPT ![p] = [NoParse EXCEPT !.at = "read", !.records = records]]
  /\ parses' = parses + 1
  /\ UNCHANGED <<source, candidateRows, versions, disturbances>>

\* load_config and parse_candidate_profile: file by file.
ReadSource(p) ==
  /\ parsing[p].at = "read"
  /\ LET f == ReadOrder[parsing[p].next] IN
     IF source[f].ok
     THEN parsing' = [parsing EXCEPT ![p].read[f] = source[f], ![p].next = @ + 1,
                                     ![p].at = IF f = LastOf(ReadOrder) THEN "find" ELSE "read"]
     ELSE GoTo(p, "raised")
  /\ KeepTables

\* save_candidate_profile: the e-mail address is looked up, and two rows with
\* one address are an exception.
FindCandidate(p) ==
  /\ parsing[p].at = "find"
  /\ IF candidateRows > 1 THEN GoTo(p, "raised")
     ELSE parsing' = [parsing EXCEPT ![p].at = "save", ![p].candidate = candidateRows]
  /\ KeepTables

\* The row is added, or filled anew with what hangs on it, and committed.
SaveCandidate(p) ==
  /\ parsing[p].at = "save"
  /\ LET new == parsing[p].candidate = 0 IN
     /\ candidateRows' = IF new THEN candidateRows + 1 ELSE candidateRows
     /\ parsing' = [parsing EXCEPT ![p].at = IF parsing[p].records THEN "extract" ELSE "saved", ![p].next = 1,
                                   ![p].candidate = IF new THEN candidateRows + 1 ELSE @]
  /\ UNCHANGED <<source, versions, parseBounds>>

\* extract_resume_text raises for a resume that is missing or cannot be read.
ExtractResume(p) ==
  /\ parsing[p].at = "extract"
  /\ IF source[ResumeFile].ok
     THEN parsing' = [parsing EXCEPT ![p].at = "hash", ![p].text = source[ResumeFile].text]
     ELSE GoTo(p, "raised")
  /\ KeepTables

\* compute_source_hashes reads the files once more, one by one.
HashSource(p) ==
  /\ parsing[p].at = "hash"
  /\ LET f == HashOrder[parsing[p].next] IN
     parsing' = [parsing EXCEPT ![p].hashes[f] = source[f], ![p].next = @ + 1,
                                ![p].at = IF f = LastOf(HashOrder) THEN "look" ELSE "hash"]
  /\ KeepTables

\* "Identical to the last attempt (pass or fail) - nothing to record": the
\* status that is reported is the one of then.
LastIsSame(p) ==
  /\ parsing[p].at = "look"
  /\ \E n \in Latest(p) :
       /\ Unchanged(versions[n], p)
       /\ parsing' = [parsing EXCEPT ![p].at = "reported", ![p].row = n]
  /\ KeepTables

LastDiffers(p) ==
  /\ parsing[p].at = "look"
  /\ VersionsOf(p) = {} \/ \E n \in Latest(p) : ~Unchanged(versions[n], p)
  /\ GoTo(p, "number")
  /\ KeepTables

\* create_version: one more than the highest number, as long as nobody inserts
\* between the two statements.
NextNumber(p) ==
  /\ parsing[p].at = "number"
  /\ \E highest \in IF VersionsOf(p) = {} THEN {0} ELSE {versions[n].number : n \in Latest(p)} :
       parsing' = [parsing EXCEPT ![p].at = "insert", ![p].number = highest + 1]
  /\ KeepTables

\* against (ghost): the text that the profile was checked against.
InsertVersion(p) ==
  /\ parsing[p].at = "insert"
  /\ versions' = Append(versions,
       [candidate |-> parsing[p].candidate, number |-> parsing[p].number,
        profile |-> Parsed(p), hashes |-> parsing[p].hashes,
        status |-> IF Issues(Parsed(p), parsing[p].text) = {} THEN "PASSED" ELSE "FAILED",
        against |-> parsing[p].text])
  /\ parsing' = [parsing EXCEPT ![p].at = "reported", ![p].row = Len(versions) + 1]
  /\ UNCHANGED <<source, candidateRows, parseBounds>>

\* The process is killed, or SQLite refuses what it writes: the open
\* transaction is gone.
ParseDies(p) ==
  /\ parsing[p].at \notin Ended /\ disturbances < MaxDisturbances
  /\ GoTo(p, "raised")
  /\ disturbances' = disturbances + 1
  /\ UNCHANGED <<source, candidateRows, versions, parses>>

\* A person edits, removes or restores a file.
EditSource(f) ==
  /\ disturbances < MaxDisturbances
  /\ \E d \in Drafts[f] \ {source[f]} : source' = [source EXCEPT ![f] = d]
  /\ disturbances' = disturbances + 1
  /\ UNCHANGED <<candidateRows, versions, parsing, parses>>

ParseStep(p) ==
  \/ \E records \in BOOLEAN : BeginParse(p, records)
  \/ ReadSource(p) \/ FindCandidate(p) \/ SaveCandidate(p)
  \/ ExtractResume(p) \/ HashSource(p)
  \/ LastIsSame(p) \/ LastDiffers(p) \/ NextNumber(p) \/ InsertVersion(p)
  \/ ParseDies(p)

ProfileNext ==
  \/ \E p \in Parsers : ParseStep(p)
  \/ \E f \in SourceFiles : EditSource(f)

ProfileSpec == ProfileInit /\ [][ProfileNext]_profileVars

-----------------------------------------------------------------------------
(* Properties. *)

\* Whether the resume was the same when its text was taken and when it was hashed.
Untorn(text, hashes) == hashes[ResumeFile].ok /\ hashes[ResumeFile].text = text

\* What "profile parse" reports is true of what it has just read ("verified
\* against resume_master.docx, 0 unverifiable claims"), also when the status is
\* the one of an earlier version: however the files were edited in between, or
\* while either command ran, unless the resume changed between the taking of its
\* text and its hashing.
ReportIsTrue ==
  \A p \in Parsers : parsing[p].at = "reported" =>
    LET v == versions[parsing[p].row] IN
    /\ v.profile = Parsed(p)
    /\ (Untorn(parsing[p].text, parsing[p].hashes) /\ Untorn(v.against, v.hashes)) =>
         (v.status = "PASSED" <=> Issues(Parsed(p), parsing[p].text) = {})
=============================================================================
