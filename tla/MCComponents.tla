----------------------------- MODULE MCComponents -----------------------------
(***************************************************************************)
(* Small instances, for TLC, of the components that share no state with    *)
(* each other or with the upload pipeline and the application lifecycle.   *)
(* A behaviour belongs to one of them: part says to which, and the others  *)
(* rest in their initial states.                                           *)
(***************************************************************************)
EXTENDS PipelineThread, DriveFolders, SheetRows, GoogleSignIn, Backups, DeviceIdExtraction,
        JobDiscovery, JobMatching, AnswerEngine, BrowserFill, ProfileVersions, TLC

VARIABLE part

componentsVars == <<part, discoveryVars, driveVars, sheetVars, signInVars, backupVars, ocrVars,
                    batchVars, matchingVars, answerVars, browserVars, profileVars>>

-----------------------------------------------------------------------------
(* SheetRows: two threads of an installation and one of another, which have
   one file in common. *)

CONSTANTS s1, s2, s3, i1, i2, file1, file2

MCClientOf == (s1 :> i1) @@ (s2 :> i1) @@ (s3 :> i2)
MCFilesOf  == (i1 :> {file1, file2}) @@ (i2 :> {file1})

(* DeviceIdExtraction: frames that differ in which preprocessing and which
   engine finds the Device ID, and in how confident it is. *)

Engines2 == <<"tesseract", "paddleocr">>

Nowhere == [tesseract |-> 0, paddleocr |-> 0]
Conf(t, p) == [tesseract |-> t, paddleocr |-> p]
Frame(kind, d, o, r) == [kind |-> kind, read |-> [default |-> d, otsu |-> o, rotated_180 |-> r]]

MCFrames ==
  {Frame(k, Nowhere, Nowhere, Nowhere) : k \in {"blank", "miss", "text"}}
  \cup {Frame("text", Conf(1, 0), Conf(3, 3), Nowhere), Frame("text", Conf(1, 2), Nowhere, Nowhere),
        Frame("text", Nowhere, Conf(0, 3), Nowhere), Frame("text", Nowhere, Nowhere, Conf(3, 4)),
        Frame("text", Conf(3, 4), Nowhere, Nowhere)}

(* JobMatching. *)

MCCandidate ==
  [bachelors |-> TRUE, advanced |-> FALSE, visaKnown |-> FALSE, countriesKnown |-> FALSE,
   months |-> 13]
MCEvidences == {<<"DEMONSTRATED", "MISSING">>}
MCWeights ==
  [skills |-> 25, experience |-> 20, role |-> 20, project |-> 10, education |-> 10,
   location |-> 5, seniority |-> 5, eligibility |-> 5]
MCOpinions == {[k \in Refined |-> s] : s \in {0, 100}}

(* AnswerEngine. *)

MCFactPhrases == <<"full name", "email">>
MCSlugPhrases == <<"why us", "your strengths", "led a team">>

(* BrowserFill: a field that another one reveals, a page on which the same
   field asks something else, a page that needs a human from the start, and
   one whose challenge comes after the fill. *)

Field(id, kind, label) ==
  [id |-> id, kind |-> kind, label |-> label, required |-> TRUE, consent |-> FALSE,
   revealedBy |-> "nothing", preset |-> "", options |-> {"yes", "no"}, firstOption |-> "yes"]

Authorized == Field("b", "select", "auth")
PlainPage ==
  [fields |-> {Authorized, [Field("c", "checkbox", "relocate") EXCEPT !.revealedBy = "b"]},
   challenge |-> "no"]
OtherPage ==
  [PlainPage EXCEPT !.fields =
     {[Authorized EXCEPT !.label = "visa"], [Field("d", "file", "resume") EXCEPT !.required = FALSE],
      Field("e", "multiselect", "langs")}]
StopPage ==
  [PlainPage EXCEPT !.challenge = "yes", !.fields = @ \cup
     {[Field("f", "password", "password") EXCEPT !.preset = "redacted"],
      [Field("h", "checkbox", "consent") EXCEPT !.consent = TRUE]}]
LatePage == [PlainPage EXCEPT !.challenge = "late"]

MCPages == {PlainPage, OtherPage, StopPage, LatePage}
MCAnswersTo ==
  [q \in {"auth", "visa", "relocate", "langs", "consent"} |->
     CASE q = "auth" -> {"yes", Unanswered} [] q = "visa" -> {"yes", "unsure"} [] OTHER -> {"no"}]

(* ProfileVersions: one candidate file, with a paraphrase
   that two words of three bear out, and a shorter resume only one. *)

Literal(x) == [kind |-> "literal", phrase |-> x, words |-> {x}]
Paraphrase == [kind |-> "paraphrase", phrase |-> "ran sprints daily", words |-> {"ran", "sprints", "daily"}]
Preference == [kind |-> "unclaimed", phrase |-> "remote", words |-> {"remote"}]

Claiming(claims) == [ok |-> TRUE, claims |-> claims, text |-> {}]
Containing(text) == [ok |-> TRUE, claims |-> {}, text |-> text]

MCConfigFiles    == <<>>
MCCandidateFiles == <<"profile.md">>
MCFirstDraft ==
  ("profile.md" :> Claiming({Literal("name"), Paraphrase, Preference}))
    @@ ("resume_master.docx" :> Containing({"name", "ran", "sprints"}))
MCDrafts ==
  [f \in DOMAIN MCFirstDraft |->
     {MCFirstDraft[f]} \cup
       CASE f = "profile.md"         -> {Claiming({Literal("name")}), Unread}
         [] f = "resume_master.docx" -> {Containing({"name", "ran"}), Unread}
         [] OTHER                    -> {}]

-----------------------------------------------------------------------------

OcrRests ==
  video = <<>> /\ fullScan = TRUE /\ result = Nothing
  /\ scan = [at |-> "done", full |-> FALSE, next |-> 1, examined |-> 0, best |-> Nothing]

ComponentsInit ==
  /\ part \in {"discovery", "drive", "sheet", "sign-in", "backups", "ocr", "batch", "matching",
               "answers", "browser", "profile"}
  /\ DiscoveryInit /\ DriveInit /\ SheetInit /\ SignInInit /\ BackupInit
  /\ BatchInit /\ MatchingInit /\ AnswerInit /\ BrowserInit /\ ProfileInit
  /\ IF part = "ocr" THEN OcrInit ELSE OcrRests

\* Whose turn it is not.
Rest(p, vars) == IF part = p THEN TRUE ELSE UNCHANGED vars

OthersRest ==
  /\ UNCHANGED part
  /\ Rest("discovery", discoveryVars) /\ Rest("drive", driveVars) /\ Rest("sheet", sheetVars)
  /\ Rest("sign-in", signInVars) /\ Rest("backups", backupVars) /\ Rest("ocr", ocrVars)
  /\ Rest("batch", batchVars) /\ Rest("matching", matchingVars) /\ Rest("answers", answerVars)
  /\ Rest("browser", browserVars) /\ Rest("profile", profileVars)

ComponentsNext ==
  \/ part = "discovery" /\ DiscoveryNext /\ OthersRest
  \/ part = "drive"     /\ DriveNext     /\ OthersRest
  \/ part = "sheet"     /\ SheetNext     /\ OthersRest
  \/ part = "sign-in"   /\ SignInNext    /\ OthersRest
  \/ part = "backups"   /\ BackupNext    /\ OthersRest
  \/ part = "ocr"       /\ OcrNext       /\ OthersRest
  \/ part = "batch"     /\ BatchNext     /\ OthersRest
  \/ part = "matching"  /\ MatchingNext  /\ OthersRest
  \/ part = "answers"   /\ AnswerNext    /\ OthersRest
  \/ part = "browser"   /\ BrowserNext   /\ OthersRest
  \/ part = "profile"   /\ ProfileNext   /\ OthersRest

\* The fairness of the component whose behaviour this is.
ComponentsFairness ==
  /\ WF_componentsVars(part = "discovery" /\ ThreadStep /\ OthersRest)
  /\ WF_componentsVars(part = "discovery" /\ LoopStep /\ OthersRest)
  /\ WF_componentsVars(part = "discovery" /\ InWorker /\ OthersRest)
  /\ WF_componentsVars(part = "discovery" /\ InReconcile /\ OthersRest)
  /\ \A t \in Callers : SF_componentsVars(part = "sign-in" /\ SignInStep(t) /\ OthersRest)

ComponentsSpec == ComponentsInit /\ [][ComponentsNext]_componentsVars /\ ComponentsFairness

\* The types of all components.
ComponentsTypeOK ==
  /\ WatcherTypeOK /\ ThreadTypeOK /\ DriveTypeOK /\ SheetTypeOK /\ SignInTypeOK /\ BackupTypeOK
  /\ OcrTypeOK /\ BatchTypeOK /\ MatchingTypeOK /\ AnswerTypeOK /\ BrowserTypeOK
  /\ ProfileTypeOK
=============================================================================
