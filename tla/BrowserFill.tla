------------------------------ MODULE BrowserFill ------------------------------
(***************************************************************************)
(* The commands browser-preview, browser-approve and browser-fill          *)
(* (cli/main.py, applications/browser/, providers/browser_application.py): *)
(* a form is inspected, its questions are answered, and the answers are    *)
(* typed, each time in a page loaded afresh; the state that results is     *)
(* shown to a human, who approves it, and a later fill is recorded only if *)
(* it comes to the very same state.                                        *)
(*                                                                         *)
(* A page is a set of fields and what the site does about CAPTCHA or MFA.  *)
(* Every load gets the page that the site serves at that moment.  Radio    *)
(* buttons are selects.  How an answer is found is AnswerEngine's matter.  *)
(***************************************************************************)
EXTENDS Integers, Sequences, FiniteSets

CONSTANTS
  Runs,          \* processes that run a command
  Pages,         \* versions of the form
  FirstPage,     \* the version that the site begins with
  AnswersTo,     \* AnswersTo[q]: the answers that question q can get
  RowContents,   \* contents of the job's row, as its fingerprint tells them apart
  FirstPosting,  \* the content that it begins with
  MaxCommands,   \* bound: commands run
  MaxOutside     \* bound: changes of the site and of the row, and lapses of approvals

ASSUME BrowserAssumption ==
  /\ FirstPage \in Pages /\ FirstPosting \in RowContents
  /\ {MaxCommands, MaxOutside} \subseteq Nat

\* A field is told by its identifier.
ASSUME FieldsAssumption ==
  \A page \in Pages : \A f, g \in page.fields : f.id = g.id => f = g

\* A label stands for the text of a question, to which question_text appends the
\* options of the field: other options are another question.
ASSUME LabelsAssumption ==
  \A page, other \in Pages : \A f \in page.fields, g \in other.fields :
    f.label = g.label => f.options = g.options

VARIABLES
  site,      \* the page that a load gets now
  jobRow,    \* job.job_fingerprint
  formApprovals, \* application_approvals, in the order of their ids
  command,   \* command[p]: the command that process p runs
  fills,     \* the BROWSER_FILL_COMPLETED events
  counted,   \* what the bounds count
  collided   \* ghost: approvals that two commands had found at one time

browserVars == <<site, jobRow, formApprovals, command, fills, counted, collided>>

Unanswered == "needs human input"
LateMarker == "captcha or mfa after fill"
NoPage     == [fields |-> {}, challenge |-> "no"]
NoState    == [fields |-> {}, consents |-> {}, unresolved |-> {}, emptyFiles |-> {}]
NoCommand  == [name |-> "none", at |-> "idle", row |-> FirstPosting, page |-> NoPage,
               answers |-> <<>>, prepared |-> NoState, approval |-> 0]

BrowserTypeOK ==
  /\ site \in Pages /\ jobRow \in RowContents
  /\ \A k \in DOMAIN formApprovals :
        /\ formApprovals[k].posting \in RowContents /\ DOMAIN formApprovals[k].prepared = DOMAIN NoState
        /\ formApprovals[k].state \in {"valid", "consumed", "lapsed"}
  /\ \A p \in Runs :
        /\ command[p].name \in {"none", "browser-preview", "browser-approve", "browser-fill"}
        /\ command[p].at \in {"idle", "inspect", "questions", "fill", "filled", "consume"}
        /\ command[p].row \in RowContents /\ command[p].page \in Pages \cup {NoPage}
        /\ DOMAIN command[p].answers \subseteq DOMAIN AnswersTo
        /\ command[p].approval \in 0..Len(formApprovals)
  /\ \A n \in DOMAIN fills : fills[n].approval \in DOMAIN formApprovals
  /\ collided \subseteq DOMAIN formApprovals

BrowserInit ==
  /\ site = FirstPage /\ jobRow = FirstPosting
  /\ formApprovals = <<>> /\ fills = <<>> /\ collided = {}
  /\ command = [p \in Runs |-> NoCommand]
  /\ counted = [commands |-> 0, outside |-> 0]

Count(b) == counted' = [counted EXCEPT ![b] = @ + 1]

-----------------------------------------------------------------------------
(* What is read off a page, and what typing the answers makes of it. *)

\* ApplicationFormInspector: what is shown when the fields in typed are filled in.
Shown(page, typed) == {f \in page.fields : f.revealedBy = "nothing" \/ f.revealedBy \in typed}

AtFirst(page) == Shown(page, {})

\* inspect_application and evaluate_inspection, with the stops of rules.yaml.
HumanRequired(page) ==
  \/ page.challenge = "yes"
  \/ \E f \in page.fields : f.consent
  \/ AtFirst(page) = {}
  \/ \E f \in AtFirst(page) : f.kind = "password"

\* Fields that are asked about, and planned: DynamicFieldMapper, AnswerPlanner.
Askable(page) == {f \in AtFirst(page) : f.kind \notin {"file", "password"}}

QuestionsOf(page) == {f.label : f \in Askable(page)}

\* The engine has an answer to every question, if only Unanswered.
ASSUME AnswersAssumption == \A page \in Pages : QuestionsOf(page) \subseteq DOMAIN AnswersTo

MutantPlanned(f, answers) == f.kind # "multiselect" /\ f.label \in DOMAIN answers

\* AnswerPlanner.plan: whether the field is given an answer; by its text, as it
\* reads now.
Planned(f, answers) ==
  /\ f.kind # "multiselect" /\ f.label \in DOMAIN answers
  /\ answers[f.label] # Unanswered

Typed(page, answers) == {f.id : f \in {g \in Askable(page) : Planned(g, answers)}}

\* FormFiller._fill_one; an answer that is no option selects the first one, and
\* a box is never unchecked.
FilledWith(f, answer) ==
  CASE f.kind = "text"                       -> answer
    [] f.kind = "select"                     -> IF answer \in f.options THEN answer ELSE f.firstOption
    [] f.kind = "checkbox" /\ answer = "yes" -> "true"
    [] OTHER                                 -> f.preset

\* build_snapshot, after the fill: what the human sees and the fingerprint binds
\* of the fields, which is not how they are labelled.
PreparedState(page, answers, challenged) ==
  LET typed    == Typed(page, answers)
      now      == Shown(page, typed)
      planned  == {f.id : f \in Askable(page)}
      revealed == {f \in now : f.id \notin planned /\ f.kind # "file"}
  IN [fields |-> {[id |-> f.id, kind |-> f.kind, required |-> f.required,
                   value |-> IF f.id \in typed THEN FilledWith(f, answers[f.label])
                             ELSE IF f.kind = "password" THEN "redacted" ELSE f.preset]
                    : f \in {g \in now : g.kind # "file"}},
      consents   |-> {f.id : f \in {g \in now : g.consent}},
      unresolved |-> (planned \ typed) \cup {f.id : f \in revealed}
                       \cup (IF challenged THEN {LateMarker} ELSE {}),
      emptyFiles |-> {f.id : f \in {g \in now : g.kind = "file" /\ ~g.required}}]

-----------------------------------------------------------------------------
(* _run_browser_preparation. *)

Advance(p, c) == command' = [command EXCEPT ![p] = c]

\* The command reads the application and its job.
BeginCommand(p, name) ==
  /\ command[p].at = "idle" /\ counted.commands < MaxCommands
  /\ Advance(p, [NoCommand EXCEPT !.name = name, !.at = "inspect", !.row = jobRow])
  /\ Count("commands")
  /\ UNCHANGED <<site, jobRow, formApprovals, fills, collided>>

\* The first load decides whether a human is needed before anything is typed.
InspectForm(p) ==
  /\ command[p].at = "inspect"
  /\ Advance(p, IF HumanRequired(site) THEN NoCommand ELSE [command[p] EXCEPT !.at = "questions"])
  /\ UNCHANGED <<site, jobRow, formApprovals, fills, counted, collided>>

\* get_questions loads the form again; the answers come from the engine, the
\* language model and --answer.
AnswerForm(p) ==
  /\ command[p].at = "questions"
  /\ \E answers \in [QuestionsOf(site) -> UNION {AnswersTo[q] : q \in DOMAIN AnswersTo}] :
        /\ \A q \in DOMAIN answers : answers[q] \in AnswersTo[q]
        /\ Advance(p, [command[p] EXCEPT !.at = "fill", !.answers = answers])
  /\ UNCHANGED <<site, jobRow, formApprovals, fills, counted, collided>>

\* fill_application loads it a third time and types; a challenge that comes up
\* by then is seen only after the typing.
FillForm(p) ==
  /\ command[p].at = "fill"
  /\ Advance(p, [command[p] EXCEPT !.at = "filled", !.page = site,
       !.prepared = PreparedState(site, command[p].answers, site.challenge # "no")])
  /\ UNCHANGED <<site, jobRow, formApprovals, fills, counted, collided>>

\* The site cannot be reached, drifts to another origin or times out, the
\* process is killed, or the human declines.
CommandEnds(p) ==
  /\ command[p].at # "idle"
  /\ Advance(p, NoCommand)
  /\ UNCHANGED <<site, jobRow, formApprovals, fills, counted, collided>>

-----------------------------------------------------------------------------
(* What each command does with the prepared state. *)

\* Every question of the second load has an answer.
ReadyToApprove(p) ==
  /\ command[p].name = "browser-approve"
  /\ \A q \in DOMAIN command[p].answers : command[p].answers[q] # Unanswered

\* browser-approve, once the human has said yes.
ApproveForm(p) ==
  /\ command[p].at = "filled" /\ ReadyToApprove(p)
  /\ formApprovals' = Append(formApprovals, [posting |-> command[p].row, prepared |-> command[p].prepared,
                                     state |-> "valid"])
  /\ Advance(p, NoCommand)
  /\ UNCHANGED <<site, jobRow, fills, counted, collided>>

\* get_valid_approval: the newest of the valid ones.
Matching(p) ==
  {k \in DOMAIN formApprovals :
     /\ formApprovals[k].state = "valid" /\ formApprovals[k].posting = command[p].row
     /\ formApprovals[k].prepared = command[p].prepared}

FindApproval(p) ==
  /\ command[p].at = "filled" /\ command[p].name = "browser-fill"
  /\ \E k \in Matching(p) :
        /\ \A m \in Matching(p) : m <= k
        /\ Advance(p, [command[p] EXCEPT !.at = "consume", !.approval = k])
        /\ collided' = IF \E q \in Runs : command[q].at = "consume" /\ command[q].approval = k
                       THEN collided \cup {k} ELSE collided
  /\ UNCHANGED <<site, jobRow, formApprovals, fills, counted>>

MutantConsumeApproval(p) ==
  /\ command[p].at = "consume"
  /\ fills' = Append(fills, [approval |-> command[p].approval, row |-> command[p].row,
                             prepared |-> command[p].prepared])
  /\ Advance(p, NoCommand)
  /\ UNCHANGED <<site, jobRow, formApprovals, counted, collided>>

\* consume_approval and the event, in one transaction.
ConsumeApproval(p) ==
  /\ command[p].at = "consume"
  /\ formApprovals' = [formApprovals EXCEPT ![command[p].approval].state = "consumed"]
  /\ fills' = Append(fills, [approval |-> command[p].approval, row |-> command[p].row,
                             prepared |-> command[p].prepared])
  /\ Advance(p, NoCommand)
  /\ UNCHANGED <<site, jobRow, counted, collided>>

\* An approval expires, or is revoked.
ApprovalEnds(k) ==
  /\ formApprovals[k].state = "valid" /\ counted.outside < MaxOutside
  /\ formApprovals' = [formApprovals EXCEPT ![k].state = "lapsed"]
  /\ Count("outside")
  /\ UNCHANGED <<site, jobRow, command, fills, collided>>

SiteChanges ==
  /\ counted.outside < MaxOutside
  /\ \E page \in Pages \ {site} : site' = page
  /\ Count("outside")
  /\ UNCHANGED <<jobRow, formApprovals, command, fills, collided>>

\* A scan stores a changed posting.
RowChanges ==
  /\ counted.outside < MaxOutside
  /\ \E c \in RowContents \ {jobRow} : jobRow' = c
  /\ Count("outside")
  /\ UNCHANGED <<site, formApprovals, command, fills, collided>>

BrowserNext ==
  \/ \E p \in Runs :
        \/ \E name \in {"browser-preview", "browser-approve", "browser-fill"} : BeginCommand(p, name)
        \/ InspectForm(p) \/ AnswerForm(p) \/ FillForm(p) \/ CommandEnds(p)
        \/ ApproveForm(p) \/ FindApproval(p) \/ ConsumeApproval(p)
  \/ \E k \in DOMAIN formApprovals : ApprovalEnds(k)
  \/ SiteChanges \/ RowChanges

BrowserSpec == BrowserInit /\ [][BrowserNext]_browserVars

-----------------------------------------------------------------------------
(* Properties. *)

\* A fill that is recorded is one that a human approved for this content of the
\* job and this state of the form, however the site and the row have changed
\* between the loads of the two commands; and an approval pays for one fill,
\* unless two commands had found it before either consumed it.
FillIsApproved ==
  \A n \in DOMAIN fills :
    LET k == fills[n].approval
    IN /\ formApprovals[k].posting = fills[n].row /\ formApprovals[k].prepared = fills[n].prepared
       /\ (\E m \in DOMAIN fills : m # n /\ fills[m].approval = k) => k \in collided

\* What is not as the site presets it was typed in answer to the question that
\* the field asks on the page being filled, whatever it asked in the earlier
\* loads; nothing is typed for a question that was left to a human, nor where
\* no answer was made.
TypedAnswersItsQuestion ==
  \A p \in Runs : command[p].at \in {"filled", "consume"} =>
    \A f \in command[p].page.fields, s \in command[p].prepared.fields :
      (f.id = s.id /\ s.value \notin {f.preset, "redacted"}) =>
        /\ f.label \in DOMAIN command[p].answers
        /\ command[p].answers[f.label] # Unanswered
        /\ f.kind \in {"text", "select", "checkbox"}

=============================================================================
