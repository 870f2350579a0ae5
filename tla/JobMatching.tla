------------------------------ MODULE JobMatching ------------------------------
(***************************************************************************)
(* How one job is scored against the candidate's profile and decided upon  *)
(* (matching/deterministic.py, semantic.py, scoring.py, decision.py and    *)
(* match_job of service.py): keywords first, then, unless there is no      *)
(* point, a second opinion of a language model, which is asked again once  *)
(* if its answer is malformed.                                             *)
(*                                                                         *)
(* Of a posting only what the keyword matcher tells apart matters.  Scores *)
(* are whole percents; weights are hundredths, and round() goes to the     *)
(* even neighbour from the middle.                                         *)
(***************************************************************************)
EXTENDS Integers, Sequences, FiniteSets, FiniteSetsExt

CONSTANTS
  Candidate,       \* what of the profile matters, see CandidateProfiles
  Evidences,       \* the evidence levels of the keywords that a posting may mention
  Weights,         \* scoring_weights of automation.yaml, in hundredths
  BlendWeight,     \* semantic_blend_weight, in hundredths
  AutoApply, Review, Save,  \* the thresholds
  Opinions         \* the scores that the model may give, as triples

CandidateProfiles ==
  [bachelors : BOOLEAN, advanced : BOOLEAN, visaKnown : BOOLEAN, countriesKnown : BOOLEAN,
   months : Nat]

Scored == {"skills", "experience", "role", "project", "education", "location", "seniority",
           "eligibility"}
Refined == {"role", "experience", "project"}

ASSUME MatchingAssumption ==
  /\ Candidate \in CandidateProfiles
  /\ Weights \in [Scored -> 0..100] /\ BlendWeight \in 0..100
  /\ \A o \in Opinions : o \in [Refined -> 0..100]
  /\ \A e \in Evidences : e \in Seq({"DEMONSTRATED", "HAS", "ADJACENT", "MISSING"})

VARIABLES
  ad,    \* the posting of the job that is matched
  match  \* how far match_job is, the attempt, and what it has found

matchingVars == <<ad, match>>

\* The configured evidence; how many of the keywords a project mentions; which
\* list the title is on; what degree, years and papers the text asks for.
IsPosting(p) ==
  /\ p.evidence \in Evidences /\ p.inProjects \in 0..Len(p.evidence)
  /\ p.title \in {"excluded", "primary", "secondary", "exploratory", "other"}
  /\ p.degree \in {"none", "bachelors", "advanced"}
  /\ p.where \in {"remote", "current", "unstated", "elsewhere"}
  /\ p.senior \in BOOLEAN /\ p.junior \in BOOLEAN /\ p.papers \in BOOLEAN
  /\ p.years \in {-1} \cup 0..40

\* What the posting may ask for, as Experience tells it apart; extract_year_requirement
\* takes a larger number for noise.
Years ==
  LET has == Candidate.months \div 12
  IN {-1} \cup ({has, has + 1, has + 3} \cap 0..40)

NoAd == [evidence |-> <<>>, inProjects |-> 0, title |-> "other", degree |-> "none",
              where |-> "unstated", senior |-> FALSE, junior |-> FALSE, papers |-> FALSE,
              years |-> -1]
NoMatch == [at |-> "idle", attempt |-> 0, opinion |-> <<>>, decision |-> "none", overall |-> 0]

MatchingTypeOK ==
  /\ IsPosting(ad) \/ ad = NoAd
  /\ match.at \in {"idle", "scoring", "asking", "finalizing", "done"}
  /\ match.attempt \in 0..2 /\ match.opinion \in {<<>>} \cup Opinions
  /\ match.decision \in {"none", "SKIP", "SAVE", "REVIEW", "APPLY", "HUMAN_REQUIRED"}
  /\ match.overall \in 0..100

MatchingInit == ad = NoAd /\ match = NoMatch

-----------------------------------------------------------------------------
(* The keyword matcher. *)

Neutral == 55

\* round(n / d), for n >= 0.
Rounded(n, d) ==
  LET q == n \div d
      r == n % d
  IN IF 2 * r < d \/ (2 * r = d /\ q % 2 = 0) THEN q ELSE q + 1

EvidenceWeight == [DEMONSTRATED |-> 10, HAS |-> 8, ADJACENT |-> 4, MISSING |-> 0]

Skills(p) ==
  LET of(level) == EvidenceWeight[level] * Cardinality({k \in DOMAIN p.evidence : p.evidence[k] = level})
  IN IF p.evidence = <<>> THEN Neutral
     ELSE Rounded(10 * (of("DEMONSTRATED") + of("HAS") + of("ADJACENT")), Len(p.evidence))

Project(p) == IF p.evidence = <<>> THEN Neutral ELSE Rounded(100 * p.inProjects, Len(p.evidence))

Role(p) == CASE p.title = "excluded"    -> 0
             [] p.title = "primary"     -> 90
             [] p.title = "secondary"   -> 72
             [] p.title = "exploratory" -> 55
             [] OTHER                   -> 35

DegreeMissing(p) == p.degree = "advanced" /\ ~Candidate.advanced

Education(p) == IF p.degree = "bachelors" /\ Candidate.bachelors THEN 90
                ELSE IF DegreeMissing(p) THEN 20 ELSE Neutral

Location(p) == CASE p.where = "remote"  -> 88
                 [] p.where = "current" -> 90
                 [] p.where = "elsewhere" /\ ~Candidate.countriesKnown -> 40
                 [] OTHER -> Neutral

\* A junior keyword anywhere in the text hides a senior one in the title.
TooSenior(p) == p.senior /\ ~p.junior
Seniority(p) == IF p.junior THEN 90 ELSE IF p.senior THEN 15 ELSE Neutral

Experience(p) ==
  IF p.years = -1 THEN Neutral + 10
  ELSE LET short == 12 * p.years - Candidate.months
       IN IF short <= 0 THEN 85 ELSE IF short <= 12 THEN 55 ELSE 25

PapersMissing(p) == p.papers /\ ~Candidate.visaKnown
Eligibility(p)   == IF PapersMissing(p) THEN 30 ELSE 80

\* compute_deterministic_match.
Deterministic(p) ==
  [skills |-> Skills(p), experience |-> Experience(p), role |-> Role(p), project |-> Project(p),
   education |-> Education(p), location |-> Location(p), seniority |-> Seniority(p),
   eligibility |-> Eligibility(p)]

Excluded(p) == p.title = "excluded"
HardStop(p) == DegreeMissing(p) \/ TooSenior(p) \/ PapersMissing(p)

-----------------------------------------------------------------------------
(* combine_match and decide. *)

Blend(d, o, k) ==
  IF o = <<>> \/ k \notin Refined THEN d[k]
  ELSE Rounded(d[k] * (100 - BlendWeight) + o[k] * BlendWeight, 100)

Overall(d, o) ==
  LET part(k) == Blend(d, o, k) * Weights[k]
      sum == part("skills") + part("experience") + part("role") + part("project")
               + part("education") + part("location") + part("seniority") + part("eligibility")
  IN Min({100, Rounded(sum, 100)})

Decide(p, o) ==
  LET score == Overall(Deterministic(p), o)
  IN IF Excluded(p)             THEN "SKIP"
     ELSE IF HardStop(p)        THEN "HUMAN_REQUIRED"
     ELSE IF score >= AutoApply THEN IF o = <<>> THEN "REVIEW" ELSE "APPLY"
     ELSE IF score >= Review    THEN "REVIEW"
     ELSE IF score >= Save      THEN "SAVE"
     ELSE "SKIP"

-----------------------------------------------------------------------------
(* match_job. *)

\* Every posting that the keyword matcher can tell from another.
JobPostings ==
  UNION {[evidence : {e}, inProjects : 0..Len(e),
          title : {"excluded", "primary", "secondary", "exploratory", "other"},
          degree : {"none", "bachelors", "advanced"},
          where : {"remote", "current", "unstated", "elsewhere"},
          senior : BOOLEAN, junior : BOOLEAN, papers : BOOLEAN, years : Years] : e \in Evidences}

BeginJob ==
  /\ match.at = "idle"
  /\ \E p \in JobPostings : ad' = p
  /\ match' = [NoMatch EXCEPT !.at = "scoring"]

\* Four times _SEMANTIC_SKIP_SCORE.
SkipScore == 120

MutantLowEstimate(p) ==
  Skills(p) + Role(p) + Project(p) < SkipScore

\* No model is asked below this estimate.
LowEstimate(p) == Skills(p) + Role(p) + Experience(p) + Project(p) < SkipScore

ScoreJob ==
  /\ match.at = "scoring"
  /\ match' = IF Excluded(ad) \/ HardStop(ad) \/ LowEstimate(ad)
              THEN [match EXCEPT !.at = "finalizing"]
              ELSE [match EXCEPT !.at = "asking", !.attempt = 1]
  /\ UNCHANGED ad

Answered(o) ==
  /\ match.at = "asking"
  /\ match' = [match EXCEPT !.at = "finalizing", !.opinion = o]
  /\ UNCHANGED ad

\* LLMUnavailableError: no model is configured.
Unavailable ==
  /\ match.at = "asking"
  /\ match' = [match EXCEPT !.at = "finalizing"]
  /\ UNCHANGED ad

\* An answer that does not fit SemanticMatchResult, or a call that fails.
InvalidAnswer ==
  /\ match.at = "asking"
  /\ match' = IF match.attempt = 2 THEN [match EXCEPT !.at = "finalizing"]
              ELSE [match EXCEPT !.attempt = 2]
  /\ UNCHANGED ad

FinalizeJob ==
  /\ match.at = "finalizing"
  /\ match' = [match EXCEPT !.at = "done", !.decision = Decide(ad, match.opinion),
                            !.overall = Overall(Deterministic(ad), match.opinion)]
  /\ UNCHANGED ad

MatchingNext ==
  \/ BeginJob \/ ScoreJob \/ Unavailable \/ InvalidAnswer \/ FinalizeJob
  \/ \E o \in Opinions : Answered(o)

MatchingSpec == MatchingInit /\ [][MatchingNext]_matchingVars

-----------------------------------------------------------------------------
(* Property. *)

\* Saving the call of the model costs nothing: a job that is not excluded or
\* stopped and whose keyword estimate is too low to ask would be skipped
\* whatever the model said of it ("don't bother with an LLM call").
ShortcutLosesNothing ==
  (match.at = "done" /\ ~Excluded(ad) /\ ~HardStop(ad) /\ LowEstimate(ad)) =>
     \A o \in Opinions \cup {<<>>} : Decide(ad, o) = "SKIP"

=============================================================================
