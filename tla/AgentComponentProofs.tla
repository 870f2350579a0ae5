-------------------------- MODULE AgentComponentProofs --------------------------
(***************************************************************************)
(* Proofs about the components of the job agent around the lifecycle:      *)
(* BrowserFill, AnswerEngine, JobDiscovery, ProfileVersions and            *)
(* JobMatching, in this order.  They share no state, and no proof uses     *)
(* another component's.                                                    *)
(***************************************************************************)
EXTENDS BrowserFill, AnswerEngine, JobDiscovery, ProfileVersions, JobMatching,
        SequenceTheorems, FiniteSetTheorems, TLAPS

-----------------------------------------------------------------------------
(* BrowserFill: types. *)

AllAnswers     == UNION {AnswersTo[q] : q \in DOMAIN AnswersTo}
AnswerMaps     == {<<>>} \cup UNION {[QuestionsOf(page) -> AllAnswers] : page \in Pages}
PreparedStates == {NoState} \cup
                  {PreparedState(page, answers, b) : page \in Pages, answers \in AnswerMaps, b \in BOOLEAN}

CommandNames == {"none", "browser-preview", "browser-approve", "browser-fill"}
CommandSteps == {"idle", "inspect", "questions", "fill", "filled", "consume"}

CommandStates == [name : CommandNames, at : CommandSteps, row : RowContents, page : Pages \cup {NoPage},
                  answers : AnswerMaps, prepared : PreparedStates, approval : Nat]
ApprovalRows  == [posting : RowContents, prepared : PreparedStates,
                  state : {"valid", "consumed", "lapsed"}]
FillEvents    == [approval : Nat, row : RowContents, prepared : PreparedStates]

BrowserTypes ==
  /\ site \in Pages /\ jobRow \in RowContents
  /\ formApprovals \in Seq(ApprovalRows) /\ fills \in Seq(FillEvents)
  /\ command \in [Runs -> CommandStates]

LEMMA NoCommandType == NoCommand \in CommandStates
<1>1. NoState \in PreparedStates /\ <<>> \in AnswerMaps
  BY DEF PreparedStates, AnswerMaps
<1> HIDE DEF NoState
<1> QED
  BY <1>1, BrowserAssumption DEF NoCommand, CommandStates, CommandNames, CommandSteps

LEMMA AdvanceFacts ==
  ASSUME command \in [Runs -> CommandStates], NEW p \in Runs, NEW c \in CommandStates, Advance(p, c)
  PROVE  /\ command' \in [Runs -> CommandStates] /\ command'[p] = c
         /\ \A q \in Runs \ {p} : command'[q] = command[q]
BY DEF Advance

\* A step that only takes one command further, not to its approval, or that
\* changes the page or the row.
CommandMoves(p) ==
  /\ UNCHANGED <<formApprovals, fills, collided>>
  /\ command' \in [Runs -> CommandStates] /\ command'[p].at # "consume"
  /\ \A q \in Runs \ {p} : command'[q] = command[q]

LEMMA BeginMoves ==
  ASSUME BrowserTypes, NEW p \in Runs, NEW name \in CommandNames, BeginCommand(p, name)
  PROVE  CommandMoves(p) /\ BrowserTypes'
<1> DEFINE c == [NoCommand EXCEPT !.name = name, !.at = "inspect", !.row = jobRow]
<1>1. c \in CommandStates /\ c.at = "inspect"
  BY NoCommandType DEF CommandStates, CommandSteps, BrowserTypes
<1>2. Advance(p, c) /\ UNCHANGED <<site, jobRow, formApprovals, fills, collided>>
  BY DEF BeginCommand
<1> HIDE DEF c
<1> QED
  BY <1>1, <1>2, AdvanceFacts DEF CommandMoves, BrowserTypes

LEMMA InspectMoves ==
  ASSUME BrowserTypes, NEW p \in Runs, InspectForm(p)
  PROVE  CommandMoves(p) /\ BrowserTypes'
<1> DEFINE c == IF HumanRequired(site) THEN NoCommand ELSE [command[p] EXCEPT !.at = "questions"]
<1>1. c \in CommandStates
  BY NoCommandType DEF CommandStates, CommandSteps, BrowserTypes
<1>2. c.at # "consume"
  BY DEF NoCommand, BrowserTypes, CommandStates
<1>3. Advance(p, c) /\ UNCHANGED <<site, jobRow, formApprovals, fills, collided>>
  BY DEF InspectForm
<1> HIDE DEF c
<1> QED
  BY <1>1, <1>2, <1>3, AdvanceFacts DEF CommandMoves, BrowserTypes

LEMMA AnswerMoves ==
  ASSUME BrowserTypes, NEW p \in Runs, AnswerForm(p)
  PROVE  CommandMoves(p) /\ BrowserTypes'
<1>1. PICK answers \in [QuestionsOf(site) -> AllAnswers] :
        Advance(p, [command[p] EXCEPT !.at = "fill", !.answers = answers])
  BY DEF AnswerForm, AllAnswers
<1>2. answers \in AnswerMaps
  BY <1>1 DEF AnswerMaps, BrowserTypes
<1> DEFINE c == [command[p] EXCEPT !.at = "fill", !.answers = answers]
<1>3. c \in CommandStates /\ c.at = "fill"
  BY <1>2 DEF CommandStates, CommandSteps, BrowserTypes
<1>4. Advance(p, c) /\ UNCHANGED <<site, jobRow, formApprovals, fills, collided>>
  BY <1>1 DEF AnswerForm
<1> HIDE DEF c
<1> QED
  BY <1>3, <1>4, AdvanceFacts DEF CommandMoves, BrowserTypes

LEMMA PreparedStateType ==
  ASSUME NEW page \in Pages, NEW answers \in AnswerMaps, NEW b \in BOOLEAN
  PROVE  PreparedState(page, answers, b) \in PreparedStates
BY DEF PreparedStates

LEMMA FillMoves ==
  ASSUME BrowserTypes, NEW p \in Runs, FillForm(p)
  PROVE  /\ CommandMoves(p) /\ BrowserTypes'
         /\ command'[p].page = site
         /\ command'[p].prepared = PreparedState(site, command'[p].answers, site.challenge # "no")
<1> DEFINE s == PreparedState(site, command[p].answers, site.challenge # "no")
           c == [command[p] EXCEPT !.at = "filled", !.page = site, !.prepared = s]
<1>1. command[p] \in CommandStates /\ site \in Pages
  BY DEF BrowserTypes
<1>2. command[p].answers \in AnswerMaps
  BY <1>1 DEF CommandStates
<1>3. s \in PreparedStates
  <2>1. (site.challenge # "no") \in BOOLEAN
    OBVIOUS
  <2> QED
    BY <1>1, <1>2, <2>1, PreparedStateType, Zenon
<1>4. Advance(p, c) /\ UNCHANGED <<site, jobRow, formApprovals, fills, collided>>
  BY DEF FillForm
<1> HIDE DEF s
<1>5. /\ c \in CommandStates /\ c.at = "filled" /\ c.page = site /\ c.prepared = s
      /\ c.answers = command[p].answers
  BY <1>1, <1>3 DEF CommandStates, CommandSteps
<1> HIDE DEF c
<1>6. command'[p] = c /\ CommandMoves(p) /\ BrowserTypes'
  BY <1>4, <1>5, AdvanceFacts DEF CommandMoves, BrowserTypes
<1> QED
  BY <1>5, <1>6 DEF s

LEMMA EndMoves ==
  ASSUME BrowserTypes, NEW p \in Runs, CommandEnds(p)
  PROVE  CommandMoves(p) /\ BrowserTypes'
<1>1. NoCommand.at = "idle"
  BY DEF NoCommand
<1>2. Advance(p, NoCommand) /\ UNCHANGED <<site, jobRow, formApprovals, fills, collided>>
  BY DEF CommandEnds
<1> QED
  BY <1>1, <1>2, NoCommandType, AdvanceFacts DEF CommandMoves, BrowserTypes

\* The steps that reach, make, spend or end an approval.
LEMMA ApproveTypes ==
  ASSUME BrowserTypes, NEW p \in Runs, ApproveForm(p)
  PROVE  /\ BrowserTypes' /\ UNCHANGED <<fills, collided>>
         /\ Len(formApprovals') = Len(formApprovals) + 1
         /\ \A k \in 1..Len(formApprovals) : formApprovals'[k] = formApprovals[k]
         /\ command'[p].at # "consume"
         /\ \A q \in Runs \ {p} : command'[q] = command[q]
<1> DEFINE a == [posting |-> command[p].row, prepared |-> command[p].prepared, state |-> "valid"]
<1>1. a \in ApprovalRows
  BY DEF BrowserTypes, CommandStates, ApprovalRows
<1>2. /\ formApprovals' = Append(formApprovals, a) /\ Advance(p, NoCommand)
      /\ UNCHANGED <<site, jobRow, fills, collided>>
  BY DEF ApproveForm
<1> HIDE DEF a
<1>3. NoCommand.at = "idle"
  BY DEF NoCommand
<1>4. formApprovals \in Seq(ApprovalRows)
  BY DEF BrowserTypes
<1>5. /\ formApprovals' \in Seq(ApprovalRows) /\ Len(formApprovals') = Len(formApprovals) + 1
      /\ \A k \in 1..Len(formApprovals) : formApprovals'[k] = formApprovals[k]
  BY <1>1, <1>2, <1>4, AppendProperties
<1> QED
  BY <1>2, <1>3, <1>5, NoCommandType, AdvanceFacts DEF BrowserTypes

LEMMA FindTypes ==
  ASSUME BrowserTypes, NEW p \in Runs, FindApproval(p)
  PROVE  /\ BrowserTypes' /\ UNCHANGED <<formApprovals, fills>>
         /\ command[p].at = "filled" /\ command'[p].at = "consume"
         /\ \A q \in Runs \ {p} : command'[q] = command[q]
         /\ command'[p].page = command[p].page /\ command'[p].answers = command[p].answers
         /\ command'[p].prepared = command[p].prepared /\ command'[p].row = command[p].row
         /\ command'[p].approval \in Matching(p)
         /\ collided' = IF \E q \in Runs : command[q].at = "consume" /\ command[q].approval = command'[p].approval
                        THEN collided \cup {command'[p].approval} ELSE collided
<1>0. PICK k \in Matching(p) :
        /\ Advance(p, [command[p] EXCEPT !.at = "consume", !.approval = k])
        /\ UNCHANGED <<site, jobRow, formApprovals, fills>> /\ command[p].at = "filled"
        /\ collided' = IF \E q \in Runs : command[q].at = "consume" /\ command[q].approval = k
                       THEN collided \cup {k} ELSE collided
  BY DEF FindApproval
<1> DEFINE c == [command[p] EXCEPT !.at = "consume", !.approval = k]
<1>1. command[p] \in CommandStates
  BY DEF BrowserTypes
<1>2. Len(formApprovals) \in Nat /\ DOMAIN formApprovals = 1..Len(formApprovals)
  BY LenProperties DEF BrowserTypes
<1>3. k \in Nat
  BY <1>0, <1>2 DEF Matching
<1>4. /\ c \in CommandStates /\ c.at = "consume" /\ c.approval = k /\ c.page = command[p].page
      /\ c.answers = command[p].answers /\ c.prepared = command[p].prepared /\ c.row = command[p].row
  BY <1>1, <1>3 DEF CommandStates, CommandSteps
<1>5. Advance(p, c)
  BY <1>0
<1> HIDE DEF c
<1>6. command'[p] = c /\ command' \in [Runs -> CommandStates] /\ \A q \in Runs \ {p} : command'[q] = command[q]
  BY <1>4, <1>5, AdvanceFacts DEF BrowserTypes
<1>7. BrowserTypes'
  BY <1>0, <1>6 DEF BrowserTypes
<1> QED
  BY <1>0, <1>4, <1>6, <1>7

LEMMA ConsumeTypes ==
  ASSUME BrowserTypes, NEW p \in Runs, ConsumeApproval(p), command[p].approval \in DOMAIN formApprovals
  PROVE  /\ BrowserTypes' /\ UNCHANGED collided
         /\ command[p].at = "consume" /\ command'[p].at # "consume"
         /\ \A q \in Runs \ {p} : command'[q] = command[q]
         /\ Len(fills') = Len(fills) + 1
         /\ \A n \in 1..Len(fills) : fills'[n] = fills[n]
         /\ fills'[Len(fills) + 1].approval = command[p].approval
         /\ fills'[Len(fills) + 1].row = command[p].row
         /\ fills'[Len(fills) + 1].prepared = command[p].prepared
         /\ Len(formApprovals') = Len(formApprovals)
         /\ formApprovals'[command[p].approval].state = "consumed"
         /\ \A k \in 1..Len(formApprovals) :
              /\ formApprovals'[k].posting = formApprovals[k].posting
              /\ formApprovals'[k].prepared = formApprovals[k].prepared
              /\ formApprovals'[k].state # formApprovals[k].state => formApprovals'[k].state # "valid"
<1> DEFINE k == command[p].approval
           a == [formApprovals[k] EXCEPT !.state = "consumed"]
           e == [approval |-> k, row |-> command[p].row, prepared |-> command[p].prepared]
<1>1. /\ formApprovals' = [formApprovals EXCEPT ![k] = a] /\ fills' = Append(fills, e)
      /\ Advance(p, NoCommand) /\ UNCHANGED <<site, jobRow, collided>> /\ command[p].at = "consume"
  BY DEF ConsumeApproval
<1>2. /\ formApprovals \in Seq(ApprovalRows) /\ fills \in Seq(FillEvents)
      /\ command[p] \in CommandStates
  BY DEF BrowserTypes
<1>3. k \in 1..Len(formApprovals)
  BY <1>2, LenProperties
<1>4. formApprovals[k] \in ApprovalRows
  BY <1>2, <1>3, ElementOfSeq
<1>5. /\ a \in ApprovalRows /\ a.state = "consumed" /\ a.posting = formApprovals[k].posting
      /\ a.prepared = formApprovals[k].prepared
  BY <1>4 DEF ApprovalRows
<1>6. /\ e \in FillEvents /\ e.approval = k /\ e.row = command[p].row /\ e.prepared = command[p].prepared
  BY <1>2 DEF FillEvents, CommandStates
<1>7. NoCommand.at = "idle"
  BY DEF NoCommand
<1> HIDE DEF a, e
<1>8. /\ formApprovals' \in Seq(ApprovalRows) /\ Len(formApprovals') = Len(formApprovals)
      /\ \A j \in 1..Len(formApprovals) : formApprovals'[j] = IF j = k THEN a ELSE formApprovals[j]
  BY <1>1, <1>2, <1>3, <1>5, ExceptSeq
<1>9. /\ fills' \in Seq(FillEvents) /\ Len(fills') = Len(fills) + 1
      /\ \A n \in 1..Len(fills) : fills'[n] = fills[n]
      /\ fills'[Len(fills) + 1] = e
  BY <1>1, <1>2, <1>6, AppendProperties
<1>10. /\ command' \in [Runs -> CommandStates] /\ command'[p] = NoCommand
       /\ \A q \in Runs \ {p} : command'[q] = command[q]
  BY <1>1, NoCommandType, AdvanceFacts DEF BrowserTypes
<1>11. BrowserTypes'
  BY <1>1, <1>8, <1>9, <1>10 DEF BrowserTypes
<1> QED
  BY <1>1, <1>3, <1>5, <1>6, <1>7, <1>8, <1>9, <1>10, <1>11

LEMMA EndTypes ==
  ASSUME BrowserTypes, NEW k \in DOMAIN formApprovals, ApprovalEnds(k)
  PROVE  /\ BrowserTypes' /\ UNCHANGED <<command, fills, collided>>
         /\ Len(formApprovals') = Len(formApprovals)
         /\ \A j \in 1..Len(formApprovals) :
              /\ formApprovals'[j].posting = formApprovals[j].posting
              /\ formApprovals'[j].prepared = formApprovals[j].prepared
              /\ formApprovals'[j].state # formApprovals[j].state => formApprovals'[j].state # "valid"
<1> DEFINE a == [formApprovals[k] EXCEPT !.state = "lapsed"]
<1>1. /\ formApprovals' = [formApprovals EXCEPT ![k] = a]
      /\ UNCHANGED <<site, jobRow, command, fills, collided>>
  BY DEF ApprovalEnds
<1>2. formApprovals \in Seq(ApprovalRows)
  BY DEF BrowserTypes
<1>3. k \in 1..Len(formApprovals)
  BY <1>2, LenProperties
<1>4. formApprovals[k] \in ApprovalRows
  BY <1>2, <1>3, ElementOfSeq
<1>5. /\ a \in ApprovalRows /\ a.state = "lapsed" /\ a.posting = formApprovals[k].posting
      /\ a.prepared = formApprovals[k].prepared
  BY <1>4 DEF ApprovalRows
<1> HIDE DEF a
<1>6. /\ formApprovals' \in Seq(ApprovalRows) /\ Len(formApprovals') = Len(formApprovals)
      /\ \A j \in 1..Len(formApprovals) : formApprovals'[j] = IF j = k THEN a ELSE formApprovals[j]
  BY <1>1, <1>2, <1>3, <1>5, ExceptSeq
<1> QED
  BY <1>1, <1>5, <1>6 DEF BrowserTypes

-----------------------------------------------------------------------------
(* BrowserFill: an approval pays for the fills that it is recorded for. *)

Waits(p) == command[p].at = "consume"

Pays(k, row, prepared) ==
  /\ k \in 1..Len(formApprovals)
  /\ formApprovals[k].posting = row /\ formApprovals[k].prepared = prepared

\* A fill, and a command that is about to record one, has an approval that pays
\* for it; a fill has used it up.  Two of them share one only if they collided.
FillInv ==
  /\ BrowserTypes
  /\ \A p \in Runs : Waits(p) => Pays(command[p].approval, command[p].row, command[p].prepared)
  /\ \A n \in 1..Len(fills) :
       /\ Pays(fills[n].approval, fills[n].row, fills[n].prepared)
       /\ formApprovals[fills[n].approval].state # "valid"
  /\ \A n, m \in 1..Len(fills) :
       (n # m /\ fills[n].approval = fills[m].approval) => fills[n].approval \in collided
  /\ \A p, q \in Runs :
       (p # q /\ Waits(p) /\ Waits(q) /\ command[p].approval = command[q].approval)
         => command[p].approval \in collided
  /\ \A p \in Runs, n \in 1..Len(fills) :
       (Waits(p) /\ fills[n].approval = command[p].approval) => command[p].approval \in collided

LEMMA BrowserDomains ==
  ASSUME BrowserTypes
  PROVE  /\ Len(formApprovals) \in Nat /\ DOMAIN formApprovals = 1..Len(formApprovals)
         /\ Len(fills) \in Nat /\ DOMAIN fills = 1..Len(fills)
BY LenProperties DEF BrowserTypes

LEMMA MovesKeepFillInv ==
  ASSUME FillInv, NEW p \in Runs, CommandMoves(p), BrowserTypes'
  PROVE  FillInv'
BY DEF FillInv, CommandMoves, Waits, Pays

LEMMA ApproveKeepsFillInv ==
  ASSUME FillInv, NEW p \in Runs, ApproveForm(p)
  PROVE  FillInv'
<1>1. BrowserTypes /\ Len(formApprovals) \in Nat
  BY BrowserDomains DEF FillInv
<1>2. /\ BrowserTypes' /\ UNCHANGED <<fills, collided>>
      /\ Len(formApprovals') = Len(formApprovals) + 1
      /\ \A k \in 1..Len(formApprovals) : formApprovals'[k] = formApprovals[k]
      /\ command'[p].at # "consume"
      /\ \A q \in Runs \ {p} : command'[q] = command[q]
  BY <1>1, ApproveTypes
<1>3. \A k \in 1..Len(formApprovals) : k \in 1..Len(formApprovals')
  BY <1>1, <1>2
<1>4. \A k, row, prepared : Pays(k, row, prepared) => Pays(k, row, prepared)'
  BY <1>2, <1>3 DEF Pays
<1>5. \A q \in Runs : Waits(q)' => Waits(q) /\ command'[q] = command[q]
  BY <1>2 DEF Waits
<1>6. (\A q \in Runs : Waits(q) => Pays(command[q].approval, command[q].row, command[q].prepared))'
  BY <1>4, <1>5 DEF FillInv
<1>7. (\A n \in 1..Len(fills) :
         /\ Pays(fills[n].approval, fills[n].row, fills[n].prepared)
         /\ formApprovals[fills[n].approval].state # "valid")'
  <2> SUFFICES ASSUME NEW n \in 1..Len(fills)
               PROVE  /\ Pays(fills[n].approval, fills[n].row, fills[n].prepared)'
                      /\ formApprovals'[fills[n].approval].state # "valid"
    BY <1>2
  <2>1. /\ Pays(fills[n].approval, fills[n].row, fills[n].prepared)
        /\ formApprovals[fills[n].approval].state # "valid"
    BY DEF FillInv
  <2> QED
    BY <1>2, <1>4, <2>1 DEF Pays
<1> QED
  BY <1>2, <1>5, <1>6, <1>7 DEF FillInv

LEMMA FindKeepsFillInv ==
  ASSUME FillInv, NEW p \in Runs, FindApproval(p)
  PROVE  FillInv'
<1> DEFINE k == command'[p].approval
<1>1. BrowserTypes /\ DOMAIN formApprovals = 1..Len(formApprovals)
  BY BrowserDomains DEF FillInv
<1>2. /\ BrowserTypes' /\ UNCHANGED <<formApprovals, fills>>
      /\ command[p].at = "filled" /\ command'[p].at = "consume"
      /\ \A q \in Runs \ {p} : command'[q] = command[q]
      /\ command'[p].prepared = command[p].prepared /\ command'[p].row = command[p].row
      /\ k \in Matching(p)
      /\ collided' = IF \E q \in Runs : command[q].at = "consume" /\ command[q].approval = k
                     THEN collided \cup {k} ELSE collided
  BY <1>1, FindTypes
<1>3. /\ k \in 1..Len(formApprovals) /\ formApprovals[k].state = "valid"
      /\ formApprovals[k].posting = command[p].row /\ formApprovals[k].prepared = command[p].prepared
  BY <1>1, <1>2 DEF Matching
<1> HIDE DEF k
<1>4. /\ collided \subseteq collided'
      /\ \A q \in Runs \ {p} : (Waits(q) /\ command[q].approval = k) => k \in collided'
  BY <1>2 DEF Waits
<1>5. \A n \in 1..Len(fills) : fills[n].approval # k
  BY <1>3 DEF FillInv
<1>6. \A q \in Runs : Waits(q)' => Pays(command[q].approval, command[q].row, command[q].prepared)'
  BY <1>2, <1>3 DEF FillInv, Waits, Pays, k
<1>7. \A q, r \in Runs :
        (q # r /\ Waits(q)' /\ Waits(r)' /\ command'[q].approval = command'[r].approval)
          => command'[q].approval \in collided'
  BY <1>2, <1>4 DEF FillInv, Waits, k
<1>8. \A q \in Runs, n \in 1..Len(fills) :
        (Waits(q)' /\ fills[n].approval = command'[q].approval) => command'[q].approval \in collided'
  BY <1>2, <1>4, <1>5 DEF FillInv, Waits, k
<1> QED
  BY <1>2, <1>4, <1>6, <1>7, <1>8 DEF FillInv, Pays

LEMMA ConsumeKeepsFillInv ==
  ASSUME FillInv, NEW p \in Runs, ConsumeApproval(p)
  PROVE  FillInv'
<1> DEFINE k == command[p].approval
           l == Len(fills) + 1
<1>1. /\ BrowserTypes /\ Len(fills) \in Nat /\ DOMAIN formApprovals = 1..Len(formApprovals)
      /\ Waits(p)
  BY BrowserDomains DEF FillInv, ConsumeApproval, Waits
<1>2. Pays(k, command[p].row, command[p].prepared)
  BY <1>1 DEF FillInv
<1>3. k \in DOMAIN formApprovals
  BY <1>1, <1>2 DEF Pays
<1>4. /\ BrowserTypes' /\ UNCHANGED collided /\ command'[p].at # "consume"
      /\ \A q \in Runs \ {p} : command'[q] = command[q]
      /\ Len(fills') = l /\ \A n \in 1..Len(fills) : fills'[n] = fills[n]
      /\ fills'[l].approval = k /\ fills'[l].row = command[p].row
      /\ fills'[l].prepared = command[p].prepared
      /\ Len(formApprovals') = Len(formApprovals) /\ formApprovals'[k].state = "consumed"
      /\ \A j \in 1..Len(formApprovals) :
           /\ formApprovals'[j].posting = formApprovals[j].posting
           /\ formApprovals'[j].prepared = formApprovals[j].prepared
           /\ formApprovals'[j].state # formApprovals[j].state => formApprovals'[j].state # "valid"
  BY <1>1, <1>3, ConsumeTypes
<1>5. l \notin 1..Len(fills) /\ 1..Len(fills') = 1..Len(fills) \cup {l}
  BY <1>1, <1>4
<1>6. \A j, row, prepared : Pays(j, row, prepared) => Pays(j, row, prepared)'
  BY <1>4 DEF Pays
<1> HIDE DEF k, l
<1>7. \A q \in Runs : Waits(q)' => q # p /\ Waits(q) /\ command'[q] = command[q]
  BY <1>4 DEF Waits
<1>8. ASSUME NEW n \in 1..Len(fills')
      PROVE  /\ Pays(fills[n].approval, fills[n].row, fills[n].prepared)'
             /\ formApprovals'[fills'[n].approval].state # "valid"
  <2>1. CASE n \in 1..Len(fills)
    <3>1. fills'[n] = fills[n] /\ Pays(fills[n].approval, fills[n].row, fills[n].prepared)
      BY <1>4, <2>1 DEF FillInv
    <3>2. formApprovals[fills[n].approval].state # "valid"
      BY <2>1 DEF FillInv
    <3> QED
      BY <3>1, <3>2, <1>4, <1>6 DEF Pays
  <2>2. CASE n = l
    BY <1>2, <1>4, <2>2 DEF k, Pays
  <2> QED
    BY <1>5, <2>1, <2>2
<1>9. \A n, m \in 1..Len(fills') :
        (n # m /\ fills'[n].approval = fills'[m].approval) => fills'[n].approval \in collided'
  <2>1. \A n \in 1..Len(fills) : fills[n].approval = k => k \in collided
    BY <1>1 DEF FillInv, k
  <2> QED
    BY <1>4, <1>5, <2>1 DEF FillInv
<1>10. \A q, r \in Runs :
        (q # r /\ Waits(q)' /\ Waits(r)' /\ command'[q].approval = command'[r].approval)
          => command'[q].approval \in collided'
  BY <1>4, <1>7 DEF FillInv
<1>11. \A q \in Runs, n \in 1..Len(fills') :
        (Waits(q)' /\ fills'[n].approval = command'[q].approval) => command'[q].approval \in collided'
  <2>1. \A q \in Runs \ {p} : (Waits(q) /\ command[q].approval = k) => k \in collided
    BY <1>1 DEF FillInv, k
  <2> QED
    BY <1>4, <1>5, <1>7, <2>1 DEF FillInv
<1>12. \A q \in Runs : Waits(q)' => Pays(command[q].approval, command[q].row, command[q].prepared)'
  BY <1>6, <1>7 DEF FillInv, Pays
<1> QED
  BY <1>4, <1>8, <1>9, <1>10, <1>11, <1>12 DEF FillInv

LEMMA EndKeepsFillInv ==
  ASSUME FillInv, NEW k \in DOMAIN formApprovals, ApprovalEnds(k)
  PROVE  FillInv'
<1>1. /\ BrowserTypes' /\ UNCHANGED <<command, fills, collided>>
      /\ Len(formApprovals') = Len(formApprovals)
      /\ \A j \in 1..Len(formApprovals) :
           /\ formApprovals'[j].posting = formApprovals[j].posting
           /\ formApprovals'[j].prepared = formApprovals[j].prepared
           /\ formApprovals'[j].state # formApprovals[j].state => formApprovals'[j].state # "valid"
  BY EndTypes DEF FillInv
<1>2. \A j, row, prepared : Pays(j, row, prepared) => Pays(j, row, prepared)'
  BY <1>1 DEF Pays
<1>3. \A n \in 1..Len(fills) : formApprovals'[fills[n].approval].state # "valid"
  <2> SUFFICES ASSUME NEW n \in 1..Len(fills) PROVE formApprovals'[fills[n].approval].state # "valid"
    OBVIOUS
  <2>1. fills[n].approval \in 1..Len(formApprovals) /\ formApprovals[fills[n].approval].state # "valid"
    BY DEF FillInv, Pays
  <2> QED
    BY <1>1, <2>1
<1>4. \A n \in 1..Len(fills) : Pays(fills[n].approval, fills[n].row, fills[n].prepared)'
  BY <1>1, <1>2 DEF FillInv, Pays
<1>5. \A p \in Runs : Waits(p)' => Pays(command[p].approval, command[p].row, command[p].prepared)'
  BY <1>1, <1>2 DEF FillInv, Waits, Pays
<1> QED
  BY <1>1, <1>3, <1>4, <1>5 DEF FillInv, Waits

LEMMA FillInvInit == BrowserInit => FillInv
<1> SUFFICES ASSUME BrowserInit PROVE FillInv
  OBVIOUS
<1>1. NoCommand.at = "idle"
  BY DEF NoCommand
<1>2. BrowserTypes
  BY NoCommandType, BrowserAssumption, EmptySeq DEF BrowserInit, BrowserTypes
<1>3. Len(fills) = 0
  BY EmptySeq DEF BrowserInit
<1>4. \A p \in Runs : ~Waits(p)
  BY <1>1 DEF BrowserInit, Waits
<1> QED
  BY <1>2, <1>3, <1>4 DEF FillInv

LEMMA FillInvStep == FillInv /\ [BrowserNext]_browserVars => FillInv'
<1> SUFFICES ASSUME FillInv, [BrowserNext]_browserVars PROVE FillInv'
  OBVIOUS
<1>0. BrowserTypes
  BY DEF FillInv
<1>1. ASSUME NEW p \in Runs, NEW name \in {"browser-preview", "browser-approve", "browser-fill"},
             BeginCommand(p, name)
      PROVE FillInv'
  <2>1. name \in CommandNames
    BY DEF CommandNames
  <2> QED
    BY <1>0, <1>1, <2>1, BeginMoves, MovesKeepFillInv
<1>2. ASSUME NEW p \in Runs, InspectForm(p) PROVE FillInv'
  BY <1>0, <1>2, InspectMoves, MovesKeepFillInv
<1>3. ASSUME NEW p \in Runs, AnswerForm(p) PROVE FillInv'
  BY <1>0, <1>3, AnswerMoves, MovesKeepFillInv
<1>4. ASSUME NEW p \in Runs, FillForm(p) PROVE FillInv'
  BY <1>0, <1>4, FillMoves, MovesKeepFillInv
<1>5. ASSUME NEW p \in Runs, CommandEnds(p) PROVE FillInv'
  BY <1>0, <1>5, EndMoves, MovesKeepFillInv
<1>6. ASSUME NEW p \in Runs, ApproveForm(p) PROVE FillInv'
  BY <1>6, ApproveKeepsFillInv
<1>7. ASSUME NEW p \in Runs, FindApproval(p) PROVE FillInv'
  BY <1>7, FindKeepsFillInv
<1>8. ASSUME NEW p \in Runs, ConsumeApproval(p) PROVE FillInv'
  BY <1>8, ConsumeKeepsFillInv
<1>9. ASSUME NEW k \in DOMAIN formApprovals, ApprovalEnds(k) PROVE FillInv'
  BY <1>9, EndKeepsFillInv
<1>10. CASE SiteChanges
  BY <1>10 DEF SiteChanges, FillInv, BrowserTypes, Waits, Pays
<1>11. CASE RowChanges
  BY <1>11 DEF RowChanges, FillInv, BrowserTypes, Waits, Pays
<1>12. CASE UNCHANGED browserVars
  BY <1>12 DEF browserVars, FillInv, BrowserTypes, Waits, Pays
<1> QED
  BY <1>1, <1>2, <1>3, <1>4, <1>5, <1>6, <1>7, <1>8, <1>9, <1>10, <1>11, <1>12 DEF BrowserNext

\* Whatever the site, the row and other commands do between the loads, a fill
\* is recorded only for what a human approved, and once for each approval that
\* two commands did not find together (cli/main.py, browser-fill).
THEOREM FillsAreApproved == BrowserSpec => []FillIsApproved
<1>1. FillInv => FillIsApproved
  <2> SUFFICES ASSUME FillInv PROVE FillIsApproved
    OBVIOUS
  <2>1. DOMAIN fills = 1..Len(fills)
    BY BrowserDomains DEF FillInv
  <2> QED
    BY <2>1 DEF FillInv, FillIsApproved, Pays
<1> QED
  BY <1>1, FillInvInit, FillInvStep, PTL DEF BrowserSpec

-----------------------------------------------------------------------------
(* BrowserFill: what is typed answers the question of its field. *)

\* From the fill on, the page and the prepared state of a command belong
\* together.
Filled(p) ==
  command[p].at \in {"filled", "consume"} =>
    /\ command[p].page \in Pages
    /\ \E b \in BOOLEAN : command[p].prepared = PreparedState(command[p].page, command[p].answers, b)

TypedInv == FillInv /\ \A p \in Runs : Filled(p)

\* A step that leaves a command alone, or takes it where nothing is filled yet,
\* keeps Filled.
LEMMA OthersStayFilled ==
  ASSUME TypedInv, NEW p \in Runs, \A q \in Runs \ {p} : command'[q] = command[q], Filled(p)'
  PROVE  \A q \in Runs : Filled(q)'
<1> SUFFICES ASSUME NEW q \in Runs PROVE Filled(q)'
  OBVIOUS
<1>1. CASE q = p
  BY <1>1
<1>2. CASE q # p
  BY <1>2 DEF TypedInv, Filled
<1> QED
  BY <1>1, <1>2

LEMMA NotFilledYet ==
  ASSUME NEW p \in Runs, command'[p].at \notin {"filled", "consume"}
  PROVE  Filled(p)'
BY DEF Filled

LEMMA TypedInvStep == TypedInv /\ [BrowserNext]_browserVars => TypedInv'
<1> SUFFICES ASSUME TypedInv, [BrowserNext]_browserVars PROVE TypedInv'
  OBVIOUS
<1>0. FillInv' /\ FillInv /\ BrowserTypes
  BY FillInvStep DEF TypedInv, FillInv
<1> SUFFICES \A q \in Runs : Filled(q)'
  BY <1>0 DEF TypedInv
<1>c. command \in [Runs -> CommandStates]
  BY <1>0 DEF BrowserTypes
<1>n. NoCommand \in CommandStates /\ NoCommand.at = "idle"
  BY NoCommandType DEF NoCommand
<1>a. ASSUME NEW p \in Runs, NEW c \in CommandStates, Advance(p, c), c.at \notin {"filled", "consume"}
      PROVE  \A q \in Runs : Filled(q)'
  BY <1>a, <1>c, AdvanceFacts, NotFilledYet, OthersStayFilled
<1>1. ASSUME NEW p \in Runs, NEW name \in {"browser-preview", "browser-approve", "browser-fill"},
             BeginCommand(p, name)
      PROVE \A q \in Runs : Filled(q)'
  <2> DEFINE c == [NoCommand EXCEPT !.name = name, !.at = "inspect", !.row = jobRow]
  <2>1. c \in CommandStates /\ c.at = "inspect"
    BY <1>0, <1>n DEF BrowserTypes, CommandStates, CommandSteps, CommandNames
  <2>2. Advance(p, c)
    BY <1>1 DEF BeginCommand
  <2> HIDE DEF c
  <2> QED
    BY <1>a, <2>1, <2>2
<1>2. ASSUME NEW p \in Runs, InspectForm(p) PROVE \A q \in Runs : Filled(q)'
  <2> DEFINE c == IF HumanRequired(site) THEN NoCommand ELSE [command[p] EXCEPT !.at = "questions"]
  <2>1. c \in CommandStates /\ c.at \in {"idle", "questions"}
    BY <1>c, <1>n DEF CommandStates, CommandSteps
  <2>2. Advance(p, c)
    BY <1>2 DEF InspectForm
  <2> HIDE DEF c
  <2> QED
    BY <1>a, <2>1, <2>2
<1>3. ASSUME NEW p \in Runs, AnswerForm(p) PROVE \A q \in Runs : Filled(q)'
  <2>1. PICK answers \in [QuestionsOf(site) -> AllAnswers] :
          Advance(p, [command[p] EXCEPT !.at = "fill", !.answers = answers])
    BY <1>3 DEF AnswerForm, AllAnswers
  <2>2. answers \in AnswerMaps
    BY <1>0, <2>1 DEF AnswerMaps, BrowserTypes
  <2> DEFINE c == [command[p] EXCEPT !.at = "fill", !.answers = answers]
  <2>3. c \in CommandStates /\ c.at = "fill"
    BY <1>c, <2>2 DEF CommandStates, CommandSteps
  <2> HIDE DEF c
  <2> QED
    BY <1>a, <2>1, <2>3 DEF c
<1>4. ASSUME NEW p \in Runs, FillForm(p) PROVE \A q \in Runs : Filled(q)'
  <2>1. /\ CommandMoves(p) /\ command'[p].page = site
        /\ command'[p].prepared = PreparedState(site, command'[p].answers, site.challenge # "no")
    BY <1>0, <1>4, FillMoves
  <2>2. site \in Pages /\ (site.challenge # "no") \in BOOLEAN
    BY <1>0 DEF BrowserTypes
  <2> DEFINE b == site.challenge # "no"
  <2>3. command'[p].prepared = PreparedState(command'[p].page, command'[p].answers, b) /\ b \in BOOLEAN
    BY <2>1, <2>2
  <2> HIDE DEF b
  <2>4. Filled(p)'
    BY <2>1, <2>2, <2>3 DEF Filled
  <2> QED
    BY <2>1, <2>4, OthersStayFilled DEF CommandMoves
<1>5. ASSUME NEW p \in Runs, CommandEnds(p) PROVE \A q \in Runs : Filled(q)'
  BY <1>5, <1>a, <1>n DEF CommandEnds
<1>6. ASSUME NEW p \in Runs, ApproveForm(p) PROVE \A q \in Runs : Filled(q)'
  BY <1>6, <1>a, <1>n DEF ApproveForm
<1>7. ASSUME NEW p \in Runs, FindApproval(p) PROVE \A q \in Runs : Filled(q)'
  <2>1. /\ command[p].at = "filled" /\ \A q \in Runs \ {p} : command'[q] = command[q]
        /\ command'[p].page = command[p].page /\ command'[p].answers = command[p].answers
        /\ command'[p].prepared = command[p].prepared
    BY <1>0, <1>7, FindTypes
  <2>2. Filled(p)'
    BY <2>1 DEF TypedInv, Filled
  <2> QED
    BY <2>1, <2>2, OthersStayFilled
<1>8. ASSUME NEW p \in Runs, ConsumeApproval(p) PROVE \A q \in Runs : Filled(q)'
  BY <1>8, <1>a, <1>n DEF ConsumeApproval
<1>9. CASE UNCHANGED command
  BY <1>9 DEF TypedInv, Filled
<1>10. ASSUME NEW k \in DOMAIN formApprovals, ApprovalEnds(k) PROVE UNCHANGED command
  BY <1>10 DEF ApprovalEnds
<1>11. SiteChanges \/ RowChanges \/ UNCHANGED browserVars => UNCHANGED command
  BY DEF SiteChanges, RowChanges, browserVars
<1> QED
  BY <1>1, <1>2, <1>3, <1>4, <1>5, <1>6, <1>7, <1>8, <1>9, <1>10, <1>11 DEF BrowserNext

LEMMA TypedInvInit == BrowserInit => TypedInv
<1>1. NoCommand.at = "idle"
  BY DEF NoCommand
<1> QED
  BY <1>1, FillInvInit DEF BrowserInit, TypedInv, Filled

\* A value that is not the preset one was planned for the field.
LEMMA TypedWasPlanned ==
  ASSUME NEW page \in Pages, NEW answers, NEW b \in BOOLEAN, NEW f \in page.fields,
         NEW s \in PreparedState(page, answers, b).fields,
         f.id = s.id, s.value # f.preset, s.value # "redacted"
  PROVE  Planned(f, answers) /\ f.kind \in {"text", "select", "checkbox"}
<1>1. PICK g \in page.fields :
        s = [id |-> g.id, kind |-> g.kind, required |-> g.required,
             value |-> IF g.id \in Typed(page, answers) THEN FilledWith(g, answers[g.label])
                       ELSE IF g.kind = "password" THEN "redacted" ELSE g.preset]
  BY DEF PreparedState, Shown
<1>2. g = f
  BY <1>1, FieldsAssumption
<1>3. f.id \in Typed(page, answers) /\ s.value = FilledWith(f, answers[f.label])
  BY <1>1, <1>2
<1>4. PICK h \in page.fields : h.id = f.id /\ Planned(h, answers)
  BY <1>3 DEF Typed, Askable, AtFirst, Shown
<1>5. h = f
  BY <1>4, FieldsAssumption
<1>6. f.kind \in {"text", "select", "checkbox"}
  BY <1>3 DEF FilledWith
<1> QED
  BY <1>4, <1>5, <1>6

\* What a command types answers, in its words on the page being filled, the
\* question that the answer was made for (filler.py, planner.py).
THEOREM TypedInAnswer == BrowserSpec => []TypedAnswersItsQuestion
<1>1. TypedInv => TypedAnswersItsQuestion
  <2> SUFFICES ASSUME TypedInv, NEW p \in Runs, command[p].at \in {"filled", "consume"},
                      NEW f \in command[p].page.fields, NEW s \in command[p].prepared.fields,
                      f.id = s.id, s.value \notin {f.preset, "redacted"}
               PROVE  /\ f.label \in DOMAIN command[p].answers
                      /\ command[p].answers[f.label] # Unanswered
                      /\ f.kind \in {"text", "select", "checkbox"}
    BY DEF TypedAnswersItsQuestion
  <2>1. /\ command[p].page \in Pages
        /\ \E b \in BOOLEAN : command[p].prepared = PreparedState(command[p].page, command[p].answers, b)
    BY DEF TypedInv, Filled
  <2>2. PICK b \in BOOLEAN : command[p].prepared = PreparedState(command[p].page, command[p].answers, b)
    BY <2>1
  <2>3. Planned(f, command[p].answers) /\ f.kind \in {"text", "select", "checkbox"}
    BY <2>1, <2>2, TypedWasPlanned
  <2> QED
    BY <2>3 DEF Planned
<1> QED
  BY <1>1, TypedInvInit, TypedInvStep, PTL DEF BrowserSpec

-----------------------------------------------------------------------------
(* AnswerEngine: who answers a protected question. *)

Sources == {"hard_block", "fact", "no_fact", "employer", "bank", "unavailable", "invalid", "llm",
            "human_input", "none"}
Answers == [source : Sources, human : BOOLEAN, text : {"none", "draft", "typed"} \cup Phrases,
            claims : SUBSET Claims]

\* Before a human's answers are laid over the form, and after.
Withheld(q, a) ==
  /\ HardBlocked(q) => a.human
  /\ EmployerPhrase \in q => a.source \notin {"bank", "llm"}

Protected(q, a) ==
  /\ HardBlocked(q) => a.human \/ a.source = "human_input"
  /\ EmployerPhrase \in q => a.source \notin {"bank", "llm"}

\* Answers are made in the order of the form, and only a question that no table
\* answers comes to the model.
AnswerInv ==
  /\ form \in Seq(Questions) /\ generated \in Seq(Answers)
  /\ Len(generated) <= Len(form)
  /\ engine = "asking" => generated = <<>>
  /\ engine = "drafting" => Len(generated) < Len(form) /\ Tiers(Question).source = "none"
  /\ \A i \in 1..Len(generated) : Withheld(form[i], generated[i])
  /\ engine # "done" => given = <<>>
  /\ \A i \in DOMAIN given : Protected(form[i], given[i])

LEMMA HumanIsAnswer == ASSUME NEW src \in Sources PROVE Human(src) \in Answers /\ Human(src).human
BY DEF Human, Answers

LEMMA TiersAnswer == ASSUME NEW q PROVE Tiers(q) \in Answers
<1> DEFINE fact == FirstOf(FactPhrases, q)
           slug == FirstOf(SlugPhrases, q)
<1>1. fact \in VerifiedFacts => Answer("fact", fact) \in Answers
  BY AnswerAssumption DEF Answer, Answers, Sources, Phrases
<1>2. slug \in BankEntries => Answer("bank", slug) \in Answers
  BY AnswerAssumption DEF Answer, Answers, Sources, Phrases
<1>3. \A src \in Sources : Human(src) \in Answers
  BY HumanIsAnswer
<1> HIDE DEF fact, slug
<1>4. Tiers(q) \in {Human(src) : src \in Sources} \cup {Answer("fact", fact), Answer("bank", slug)}
  BY DEF Tiers, Sources, fact, slug
<1> QED
  BY <1>1, <1>2, <1>3 DEF Tiers, Sources, fact, slug

\* The tables leave protected questions to the person, or, of the employer, to
\* a fact; and say nothing only of a question that is not protected.
LEMMA TiersWithhold ==
  ASSUME NEW q
  PROVE  /\ Withheld(q, Tiers(q))
         /\ Tiers(q).source = "none" => ~HardBlocked(q) /\ EmployerPhrase \notin q
BY DEF Withheld, Tiers, Human, Answer

\* One more answer.
LEMMA GiveKeeps ==
  ASSUME AnswerInv, Len(generated) < Len(form), engine # "done", UNCHANGED <<form, given>>,
         NEW a \in Answers, Give(a), Withheld(Question, a)
  PROVE  AnswerInv'
<1>1. /\ form \in Seq(Questions) /\ generated \in Seq(Answers) /\ Len(form) \in Nat
      /\ Len(generated) \in Nat
  BY LenProperties DEF AnswerInv
<1>2. generated' = Append(generated, a) /\ engine' = "answering"
  BY DEF Give
<1>3. /\ generated' \in Seq(Answers) /\ Len(generated') = Len(generated) + 1
      /\ \A i \in 1..Len(generated) : generated'[i] = generated[i]
      /\ generated'[Len(generated) + 1] = a
  BY <1>1, <1>2, AppendProperties
<1>4. \A i \in 1..Len(generated') : Withheld(form[i], generated'[i])
  BY <1>1, <1>3 DEF AnswerInv, Question
<1> QED
  BY <1>1, <1>2, <1>3, <1>4 DEF AnswerInv, Protected, Withheld

LEMMA AnswerInvInit == AnswerInit => AnswerInv
BY EmptySeq DEF AnswerInit, AnswerInv

LEMMA AnswerInvStep == AnswerInv /\ [AnswerNext]_answerVars => AnswerInv'
<1> SUFFICES ASSUME AnswerInv, [AnswerNext]_answerVars PROVE AnswerInv'
  OBVIOUS
<1>0. /\ form \in Seq(Questions) /\ generated \in Seq(Answers)
      /\ Len(form) \in Nat /\ Len(generated) \in Nat /\ Len(generated) <= Len(form)
      /\ DOMAIN generated = 1..Len(generated)
  BY LenProperties DEF AnswerInv
<1>d. engine = "drafting" => /\ Len(generated) < Len(form)
                             /\ ~HardBlocked(Question) /\ EmployerPhrase \notin Question
  BY TiersWithhold DEF AnswerInv
<1>1. ASSUME NEW q \in Questions, AskQuestion(q) PROVE AnswerInv'
  <2>1. form' = Append(form, q) /\ generated = <<>> /\ given = <<>> /\ engine = "asking"
        /\ UNCHANGED <<engine, attempt, generated, given>>
    BY <1>1 DEF AskQuestion, AnswerInv
  <2>2. form' \in Seq(Questions) /\ Len(form') = Len(form) + 1
    BY <1>0, <2>1, AppendProperties
  <2>3. Len(generated) = 0 /\ DOMAIN given = {}
    BY <2>1, EmptySeq
  <2> QED
    BY <1>0, <2>1, <2>2, <2>3 DEF AnswerInv
<1>2. CASE FormRead
  BY <1>0, <1>2 DEF FormRead, AnswerInv
<1>3. CASE AnswerFromTables
  <2>1. CASE Tiers(Question).source = "none"
    BY <1>3, <2>1 DEF AnswerFromTables, AnswerInv, Question
  <2>2. CASE Tiers(Question).source # "none"
    BY <1>3, <2>2, TiersAnswer, TiersWithhold, GiveKeeps DEF AnswerFromTables
  <2> QED
    BY <2>1, <2>2
<1>4. ASSUME NEW claims \in SUBSET Claims, Draft(claims) PROVE AnswerInv'
  <2> DEFINE a == IF Validated(claims) THEN [Answer("llm", "draft") EXCEPT !.claims = claims]
                  ELSE Human("llm")
  <2>1. a \in Answers
    BY DEF Answer, Human, Answers, Sources
  <2>2. Give(a) /\ engine = "drafting" /\ UNCHANGED <<form, given>>
    BY <1>4 DEF Draft
  <2> HIDE DEF a
  <2>3. Withheld(Question, a)
    BY <1>d, <2>2 DEF Withheld
  <2> QED
    BY <1>d, <2>1, <2>2, <2>3, GiveKeeps
<1>5. CASE NoModel
  <2>1. Human("unavailable") \in Answers
    BY HumanIsAnswer DEF Sources
  <2>2. Withheld(Question, Human("unavailable")) /\ engine = "drafting"
    BY <1>5, <1>d DEF Withheld, NoModel
  <2> QED
    BY <1>5, <1>d, <2>1, <2>2, GiveKeeps DEF NoModel
<1>6. CASE DraftInvalid
  <2>1. Human("invalid") \in Answers
    BY HumanIsAnswer DEF Sources
  <2>2. Withheld(Question, Human("invalid")) /\ engine = "drafting"
    BY <1>6, <1>d DEF Withheld, DraftInvalid
  <2>3. CASE attempt = 2
    BY <1>6, <1>d, <2>1, <2>2, <2>3, GiveKeeps DEF DraftInvalid
  <2>4. CASE attempt # 2
    BY <1>6, <2>4 DEF DraftInvalid, AnswerInv, Question
  <2> QED
    BY <2>3, <2>4
<1>7. ASSUME NEW named \in SUBSET ToSet(form), LayOver(named) PROVE AnswerInv'
  <2>1. ASSUME NEW i \in 1..Len(generated)
        PROVE  Protected(form[i], Overridden(generated[i], form[i], named))
    <3>1. Withheld(form[i], generated[i])
      BY DEF AnswerInv
    <3>2. Answer("human_input", "typed").source = "human_input"
      BY DEF Answer
    <3> QED
      BY <3>1, <3>2 DEF Withheld, Protected, Overridden
  <2>2. given' = [i \in 1..Len(generated) |-> Overridden(generated[i], form[i], named)]
        /\ engine' = "done" /\ UNCHANGED <<form, attempt, generated>>
    BY <1>0, <1>7 DEF LayOver
  <2> QED
    BY <2>1, <2>2 DEF AnswerInv
<1>8. CASE UNCHANGED answerVars
  BY <1>8 DEF answerVars, AnswerInv, Question
<1> QED
  BY <1>1, <1>2, <1>3, <1>4, <1>5, <1>6, <1>7, <1>8 DEF AnswerNext

\* Whatever the tables, the facts, the bank and the drafts hold, a protected
\* question is answered by the person or by nobody (answer_engine.py,
\* generate_answer).
THEOREM ProtectedStayHuman == AnswerSpec => []ProtectedQuestionsStayHuman
<1>1. AnswerInv => ProtectedQuestionsStayHuman
  BY DEF AnswerInv, ProtectedQuestionsStayHuman, Protected
<1> QED
  BY <1>1, AnswerInvInit, AnswerInvStep, PTL DEF AnswerSpec

-----------------------------------------------------------------------------
(* JobDiscovery: what a batch stores. *)

\* The steps at which a session is good for writing, and those of a batch that
\* is under way.
Writable  == {"search", "next", "company", "addCompany", "select", "insert", "update", "save", "commit"}
LiveSteps == Writable \cup {"source", "poisoned"}
RunStates == [at : LiveSteps \cup {"idle", "returned", "raised"}, kind : {"scan", "match"},
              todo : SUBSET Items, item : Items, good : SUBSET Items, says : [Offers -> Contents]]
JobRows   == [posting : Offers, says : Contents]
Databases == [source : BOOLEAN, companies : Nat, jobs : Seq(JobRows), matches : Seq(Nat)]

\* A scan handles postings, a match rows.
Sorted(s) ==
  /\ s.kind = "scan" => s.todo \subseteq Offers
  /\ s.kind = "match" => s.todo \subseteq Nat
  /\ s.at \in {"source", "search"} => s.kind = "scan"
  /\ s.at \in {"company", "addCompany", "select", "insert", "update"} => s.kind = "scan" /\ s.item \in Offers
  /\ s.at = "save" => s.kind = "match" /\ s.item \in Nat

BatchTypes ==
  /\ board \in [Offers -> Contents] /\ db \in Databases /\ draft \in Databases
  /\ batch \in [Batches -> RunStates]
  /\ \A b \in Batches : Sorted(batch[b])

HasJob(d, i)   == \E k \in 1..Len(d.jobs) : d.jobs[k].posting = i
HasMatch(d, i) == \E k \in 1..Len(d.matches) : d.matches[k] = i
StoredIn(d, s) == \A i \in s.good : IF s.kind = "scan" THEN HasJob(d, i) ELSE HasMatch(d, i)
Keeps(d, e)    == /\ \A i : HasJob(d, i) => HasJob(e, i)
                  /\ \A i : HasMatch(d, i) => HasMatch(e, i)

\* One row each.
Single(d) == /\ d.companies <= 1
             /\ \A k, l \in 1..Len(d.jobs) : d.jobs[k].posting = d.jobs[l].posting => k = l

\* The writer's draft has what is committed, and what its batch has handled.
StoreInv ==
  /\ BatchTypes
  /\ writer # NoBatch => /\ writer \in Batches /\ batch[writer].at \in Writable
                         /\ Keeps(db, draft)
  /\ \A b \in Batches :
       /\ (batch[b].at \in Writable /\ batch[b].good # {}) => writer = b /\ StoredIn(draft, batch[b])
       /\ batch[b].at = "source" => batch[b].good = {}
       /\ batch[b].at = "returned" => StoredIn(db, batch[b])
       /\ batch[b].at = "update" => HasJob(View(b), batch[b].item)

\* A batch that is alone has read what it is about to add to.
ReadRight(b) ==
  /\ batch[b].at = "addCompany" => View(b).companies = 0
  /\ batch[b].at = "insert" => ~HasJob(View(b), batch[b].item)

SingleInv ==
  ~overlapped =>
    /\ \A b, c \in Batches : (batch[b].at \in LiveSteps /\ batch[c].at \in LiveSteps) => b = c
    /\ Single(db) /\ (writer # NoBatch => Single(draft))
    /\ \A b \in Batches : ReadRight(b)

-----------------------------------------------------------------------------
(* The five kinds of steps of a batch. *)

Turn(b, s) ==
  /\ b \in Batches /\ s \in RunStates /\ Sorted(s)
  /\ batch' = [batch EXCEPT ![b] = s]
  /\ UNCHANGED board

Reads(b, s) ==
  /\ Turn(b, s) /\ UNCHANGED <<db, draft, writer, overlapped>>
  /\ batch[b].at \in LiveSteps
  /\ batch[b].at \in Writable <=> s.at \in Writable
  /\ s.at \notin {"source", "returned"}
  /\ s.good = batch[b].good /\ s.kind = batch[b].kind
  /\ s.at = "addCompany" => View(b).companies = 0
  /\ s.at = "insert" => ~HasJob(View(b), s.item)
  /\ s.at = "update" => HasJob(View(b), s.item)

Writes(b, s, d) ==
  /\ Turn(b, s) /\ UNCHANGED <<db, overlapped>>
  /\ writer \in {b, NoBatch} /\ writer' = b /\ draft' = d
  /\ d \in Databases /\ Keeps(View(b), d)
  /\ (ReadRight(b) /\ Single(View(b))) => Single(d)
  /\ batch[b].at \in Writable \cup {"source"}
  /\ s.at \in Writable \ {"addCompany", "insert", "update"} /\ s.kind = batch[b].kind
  /\ StoredIn(d, [s EXCEPT !.good = @ \ batch[b].good])

Ends(b, s) ==
  /\ Turn(b, s) /\ Release(b) /\ UNCHANGED <<db, overlapped>>
  /\ batch[b].at \in LiveSteps /\ s.at \in {"raised", "poisoned"}

Commits(b, s) ==
  /\ Turn(b, s) /\ Release(b) /\ db' = View(b) /\ UNCHANGED overlapped
  /\ batch[b].at = "commit" /\ s = [batch[b] EXCEPT !.at = "returned"]

Begins(b, s) ==
  /\ Turn(b, s) /\ UNCHANGED <<db, draft, writer>>
  /\ batch[b].at \notin LiveSteps /\ s.at \in {"source", "search", "next"} /\ s.good = {}
  /\ overlapped' = (overlapped \/ \E c \in Batches \ {b} : batch[c].at \in LiveSteps)

LEMMA NewDatabaseType == NewDatabase \in Databases
BY EmptySeq DEF NewDatabase, Databases

LEMMA ViewType == ASSUME BatchTypes, NEW b PROVE View(b) \in Databases
BY DEF BatchTypes, View

LEMMA TurnFacts ==
  ASSUME BatchTypes, NEW b, NEW s, Turn(b, s)
  PROVE  /\ batch' \in [Batches -> RunStates] /\ batch'[b] = s /\ b \in Batches
         /\ \A c \in Batches \ {b} : batch'[c] = batch[c]
         /\ \A c \in Batches : Sorted(batch'[c])
         /\ board' \in [Offers -> Contents]
BY DEF BatchTypes, Turn

LEMMA ReleaseFacts ==
  ASSUME BatchTypes, NEW b \in Batches, Release(b)
  PROVE  /\ draft' \in Databases
         /\ writer = b => writer' = NoBatch
         /\ writer # b => writer' = writer /\ draft' = draft
BY NewDatabaseType DEF BatchTypes, Release

\* The parts of the invariant after a step.
LEMMA StoreInvPrimed ==
  ASSUME BatchTypes',
         writer' # NoBatch => /\ writer' \in Batches /\ batch'[writer'].at \in Writable
                              /\ Keeps(db', draft'),
         \A c \in Batches :
           /\ (batch'[c].at \in Writable /\ batch'[c].good # {}) => writer' = c /\ StoredIn(draft', batch'[c])
           /\ batch'[c].at = "source" => batch'[c].good = {}
           /\ batch'[c].at = "returned" => StoredIn(db', batch'[c]),
         \A c \in Batches : batch'[c].at = "update" => HasJob(View(c), batch[c].item)'
  PROVE  StoreInv'
BY DEF StoreInv, StoredIn, Keeps, HasJob, HasMatch

LEMMA ReadsKeepStore ==
  ASSUME StoreInv, NEW b, NEW s, Reads(b, s)
  PROVE  StoreInv'
<1>1. /\ batch' \in [Batches -> RunStates] /\ batch'[b] = s /\ b \in Batches
      /\ \A c \in Batches \ {b} : batch'[c] = batch[c]
      /\ \A c \in Batches : Sorted(batch'[c])
      /\ board' \in [Offers -> Contents]
  BY TurnFacts DEF Reads, StoreInv
<1>2. /\ UNCHANGED <<db, draft, writer, overlapped>>
      /\ batch[b].at \in Writable <=> s.at \in Writable
      /\ s.at \notin {"source", "returned"} /\ s.good = batch[b].good /\ s.kind = batch[b].kind
  BY DEF Reads
<1>3. BatchTypes'
  BY <1>1, <1>2 DEF StoreInv, BatchTypes
<1>4. writer # NoBatch => /\ writer \in Batches /\ batch'[writer].at \in Writable
                          /\ Keeps(db, draft)
  BY <1>1, <1>2 DEF StoreInv
<1>5. StoredIn(draft, batch[b]) => StoredIn(draft, s)
  BY <1>2 DEF StoredIn
<1>6. \A c \in Batches :
        /\ (batch'[c].at \in Writable /\ batch'[c].good # {}) => writer = c /\ StoredIn(draft, batch'[c])
        /\ batch'[c].at = "source" => batch'[c].good = {}
        /\ batch'[c].at = "returned" => StoredIn(db, batch'[c])
  BY <1>1, <1>2, <1>5 DEF StoreInv
<1>7. \A c \in Batches : batch'[c].at = "update" => HasJob(View(c), batch'[c].item)
  BY <1>1 DEF StoreInv, Reads
<1>8. \A c \in Batches : batch'[c].at = "update" => HasJob(View(c), batch[c].item)'
  BY <1>2, <1>7 DEF HasJob, View
<1> QED
  BY <1>2, <1>3, <1>4, <1>6, <1>8, StoreInvPrimed

LEMMA ReadsKeepSingle ==
  ASSUME BatchTypes, SingleInv, NEW b, NEW s, Reads(b, s)
  PROVE  SingleInv'
<1>1. /\ batch'[b] = s /\ b \in Batches /\ \A c \in Batches \ {b} : batch'[c] = batch[c]
      /\ UNCHANGED <<db, draft, writer, overlapped>> /\ batch[b].at \in LiveSteps
  BY TurnFacts DEF Reads
<1>2. \A c : View(c)' = View(c)
  BY <1>1 DEF View
<1>3. /\ s.at = "addCompany" => View(b).companies = 0
      /\ s.at = "insert" => ~HasJob(View(b), s.item)
  BY DEF Reads
<1>4. ReadRight(b)'
  BY <1>1, <1>2, <1>3 DEF ReadRight, HasJob
<1>5. \A c \in Batches \ {b} : ReadRight(c) => ReadRight(c)'
  BY <1>1, <1>2 DEF ReadRight, HasJob
<1> QED
  BY <1>1, <1>4, <1>5 DEF SingleInv, Single

LEMMA WritesKeepStore ==
  ASSUME StoreInv, NEW b, NEW s, NEW d, Writes(b, s, d)
  PROVE  StoreInv'
<1>1. /\ batch' \in [Batches -> RunStates] /\ batch'[b] = s /\ b \in Batches
      /\ \A c \in Batches \ {b} : batch'[c] = batch[c]
      /\ \A c \in Batches : Sorted(batch'[c])
      /\ board' \in [Offers -> Contents]
  BY TurnFacts DEF Writes, StoreInv
<1>2. /\ UNCHANGED <<db, overlapped>> /\ writer \in {b, NoBatch} /\ writer' = b /\ draft' = d
      /\ d \in Databases /\ Keeps(View(b), d) /\ batch[b].at \in Writable \cup {"source"}
      /\ s.at \in Writable /\ s.kind = batch[b].kind
      /\ StoredIn(d, [s EXCEPT !.good = @ \ batch[b].good])
  BY DEF Writes
<1>3. BatchTypes'
  BY <1>1, <1>2 DEF StoreInv, BatchTypes
<1>4. Keeps(db, d)
  BY <1>1, <1>2, DiscoveryAssumption DEF StoreInv, Keeps, View
<1>5. StoredIn(d, s)
  <2> SUFFICES ASSUME NEW i \in s.good
               PROVE  IF s.kind = "scan" THEN HasJob(d, i) ELSE HasMatch(d, i)
    BY DEF StoredIn
  <2>1. CASE i \in batch[b].good
    <3>1. writer = b /\ StoredIn(draft, batch[b])
      BY <1>1, <1>2, <2>1 DEF StoreInv, Writable
    <3> QED
      BY <1>2, <2>1, <3>1 DEF StoredIn, View, Keeps
  <2>2. CASE i \notin batch[b].good
    <3> DEFINE t == [s EXCEPT !.good = @ \ batch[b].good]
    <3>1. s \in RunStates
      BY DEF Writes, Turn
    <3>2. i \in t.good /\ t.kind = s.kind
      BY <2>2, <3>1 DEF RunStates
    <3>3. StoredIn(d, t)
      BY <1>2
    <3> HIDE DEF t
    <3> QED
      BY <3>2, <3>3 DEF StoredIn
  <2> QED
    BY <2>1, <2>2
<1>6. \A c \in Batches \ {b} : (batch[c].at \in Writable => batch[c].good = {})
  BY <1>2, DiscoveryAssumption DEF StoreInv
<1>7. \A c \in Batches : batch'[c].at = "returned" => StoredIn(db, batch'[c])
  BY <1>1, <1>2 DEF StoreInv, Writable
<1>8. \A c \in Batches : batch'[c].at = "source" => batch'[c].good = {}
  BY <1>1, <1>2 DEF StoreInv, Writable
<1>9. \A c \in Batches : batch'[c].at = "update" => HasJob(View(c), batch[c].item)'
  <2> SUFFICES ASSUME NEW c \in Batches, batch'[c].at = "update" PROVE HasJob(View(c)', batch'[c].item)
    BY DEF HasJob
  <2>1. c # b /\ batch'[c] = batch[c]
    BY <1>1 DEF Writes
  <2>2. View(c) = db /\ View(c)' = db
    BY <1>2, <2>1, DiscoveryAssumption DEF View
  <2> QED
    BY <2>1, <2>2 DEF StoreInv
<1> QED
  <2>1. \A c \in Batches :
          (batch'[c].at \in Writable /\ batch'[c].good # {}) => b = c /\ StoredIn(d, batch'[c])
    BY <1>1, <1>5, <1>6
  <2>2. b # NoBatch /\ batch'[b].at \in Writable
    BY <1>1, <1>2, DiscoveryAssumption
  <2> QED
    BY <1>1, <1>2, <1>3, <1>4, <1>7, <1>8, <1>9, <2>1, <2>2, StoreInvPrimed

LEMMA WritesKeepSingle ==
  ASSUME StoreInv, SingleInv, NEW b, NEW s, NEW d, Writes(b, s, d)
  PROVE  SingleInv'
<1>1. /\ batch'[b] = s /\ b \in Batches /\ \A c \in Batches \ {b} : batch'[c] = batch[c]
  BY TurnFacts DEF Writes, StoreInv
<1>2. /\ UNCHANGED <<db, overlapped>> /\ writer \in {b, NoBatch} /\ writer' = b /\ draft' = d
      /\ (ReadRight(b) /\ Single(View(b))) => Single(d)
      /\ batch[b].at \in LiveSteps /\ s.at \in Writable \ {"addCompany", "insert"}
  BY DEF Writes, LiveSteps
<1> SUFFICES ASSUME ~overlapped
             PROVE  /\ \A c, e \in Batches : (batch'[c].at \in LiveSteps /\ batch'[e].at \in LiveSteps) => c = e
                    /\ Single(db)' /\ Single(draft)'
                    /\ \A c \in Batches : ReadRight(c)'
  BY <1>2 DEF SingleInv
<1>3. \A c \in Batches \ {b} : batch[c].at \notin LiveSteps
  BY <1>1, <1>2 DEF SingleInv
<1>4. Single(View(b)) /\ ReadRight(b)
  BY <1>1, <1>2, DiscoveryAssumption DEF SingleInv, View
<1>5. Single(db)' /\ Single(draft)'
  BY <1>2, <1>4 DEF SingleInv, Single
<1>6. \A c \in Batches : batch'[c].at \notin {"addCompany", "insert"}
  BY <1>1, <1>2, <1>3 DEF LiveSteps, Writable
<1> QED
  BY <1>1, <1>2, <1>3, <1>5, <1>6 DEF ReadRight

LEMMA EndsKeepStore ==
  ASSUME StoreInv, NEW b, NEW s, Ends(b, s)
  PROVE  StoreInv'
<1>1. /\ batch' \in [Batches -> RunStates] /\ batch'[b] = s /\ b \in Batches
      /\ \A c \in Batches \ {b} : batch'[c] = batch[c]
      /\ \A c \in Batches : Sorted(batch'[c])
      /\ board' \in [Offers -> Contents]
  BY TurnFacts DEF Ends, StoreInv
<1>2. /\ UNCHANGED db /\ s.at \in {"raised", "poisoned"}
      /\ draft' \in Databases
      /\ writer = b => writer' = NoBatch
      /\ writer # b => writer' = writer /\ draft' = draft
  BY <1>1, ReleaseFacts DEF Ends, StoreInv
<1>3. BatchTypes'
  BY <1>1, <1>2 DEF StoreInv, BatchTypes
<1>4. writer' # NoBatch => /\ writer' \in Batches /\ batch'[writer'].at \in Writable
                           /\ Keeps(db, draft')
  BY <1>1, <1>2 DEF StoreInv
<1>5. \A c \in Batches :
        /\ (batch'[c].at \in Writable /\ batch'[c].good # {}) => writer' = c /\ StoredIn(draft', batch'[c])
        /\ batch'[c].at = "source" => batch'[c].good = {}
        /\ batch'[c].at = "returned" => StoredIn(db, batch'[c])
  BY <1>1, <1>2 DEF StoreInv, Writable
<1>6. \A c \in Batches : batch'[c].at = "update" => HasJob(View(c), batch[c].item)'
  <2> SUFFICES ASSUME NEW c \in Batches, batch'[c].at = "update" PROVE HasJob(View(c)', batch'[c].item)
    BY DEF HasJob
  <2>1. c # b /\ batch'[c] = batch[c]
    BY <1>1, <1>2
  <2>2. View(c)' = View(c)
    BY <1>2, <2>1, DiscoveryAssumption DEF View
  <2> QED
    BY <2>1, <2>2 DEF StoreInv
<1> QED
  BY <1>2, <1>3, <1>4, <1>5, <1>6, StoreInvPrimed

LEMMA EndsKeepSingle ==
  ASSUME StoreInv, SingleInv, NEW b, NEW s, Ends(b, s)
  PROVE  SingleInv'
<1>1. /\ batch'[b] = s /\ b \in Batches /\ \A c \in Batches \ {b} : batch'[c] = batch[c]
      /\ writer = b => writer' = NoBatch
      /\ writer # b => writer' = writer /\ draft' = draft
  BY TurnFacts, ReleaseFacts DEF Ends, StoreInv
<1>2. UNCHANGED <<db, overlapped>> /\ batch[b].at \in LiveSteps /\ s.at \in {"raised", "poisoned"}
  BY DEF Ends
<1> SUFFICES ASSUME ~overlapped
             PROVE  /\ \A c, e \in Batches : (batch'[c].at \in LiveSteps /\ batch'[e].at \in LiveSteps) => c = e
                    /\ Single(db)' /\ (writer' # NoBatch => Single(draft)')
                    /\ \A c \in Batches : ReadRight(c)'
  BY <1>2 DEF SingleInv
<1>3. \A c \in Batches \ {b} : batch[c].at \notin LiveSteps
  BY <1>1, <1>2 DEF SingleInv
<1>4. Single(db)' /\ (writer' # NoBatch => Single(draft)')
  BY <1>1, <1>2 DEF SingleInv, Single
<1>5. \A c \in Batches : batch'[c].at \notin {"addCompany", "insert"}
  BY <1>1, <1>2, <1>3 DEF LiveSteps, Writable
<1> QED
  BY <1>1, <1>2, <1>3, <1>4, <1>5 DEF ReadRight

LEMMA CommitsKeepStore ==
  ASSUME StoreInv, NEW b, NEW s, Commits(b, s)
  PROVE  StoreInv'
<1>1. /\ batch' \in [Batches -> RunStates] /\ batch'[b] = s /\ b \in Batches
      /\ \A c \in Batches \ {b} : batch'[c] = batch[c]
      /\ \A c \in Batches : Sorted(batch'[c])
      /\ board' \in [Offers -> Contents]
  BY TurnFacts DEF Commits, StoreInv
<1>2. /\ db' = View(b) /\ batch[b].at = "commit" /\ draft' \in Databases
      /\ writer = b => writer' = NoBatch
      /\ writer # b => writer' = writer /\ draft' = draft
  BY <1>1, ReleaseFacts DEF Commits, StoreInv
<1>3. batch[b] \in RunStates
  BY <1>1 DEF StoreInv, BatchTypes
<1>4. s.at = "returned" /\ s.good = batch[b].good /\ s.kind = batch[b].kind
  BY <1>3 DEF Commits, RunStates
<1>5. BatchTypes'
  BY <1>1, <1>2, ViewType DEF StoreInv, BatchTypes
<1>6. Keeps(db, db') /\ (writer # b => db' = db)
  BY <1>1, <1>2, DiscoveryAssumption DEF StoreInv, View, Keeps
<1>7. writer' # NoBatch => /\ writer' \in Batches /\ batch'[writer'].at \in Writable
                           /\ Keeps(db', draft')
  BY <1>1, <1>2, <1>6 DEF StoreInv
<1>8. StoredIn(db', s)
  <2>1. CASE batch[b].good = {}
    BY <1>4, <2>1 DEF StoredIn
  <2>2. CASE batch[b].good # {}
    <3>1. writer = b /\ StoredIn(draft, batch[b])
      BY <1>1, <1>2, <2>2 DEF StoreInv, Writable
    <3> QED
      BY <1>2, <1>4, <3>1 DEF View, StoredIn
  <2> QED
    BY <2>1, <2>2
<1>9. \A c \in Batches : StoredIn(db, batch[c]) => StoredIn(db', batch[c])
  BY <1>6 DEF StoredIn, Keeps
<1>10. \A c \in Batches :
        /\ (batch'[c].at \in Writable /\ batch'[c].good # {}) => writer' = c /\ StoredIn(draft', batch'[c])
        /\ batch'[c].at = "source" => batch'[c].good = {}
        /\ batch'[c].at = "returned" => StoredIn(db', batch'[c])
  BY <1>1, <1>2, <1>4, <1>8, <1>9 DEF StoreInv, Writable
<1>11. \A c \in Batches : batch'[c].at = "update" => HasJob(View(c), batch[c].item)'
  <2> SUFFICES ASSUME NEW c \in Batches, batch'[c].at = "update" PROVE HasJob(View(c)', batch'[c].item)
    BY DEF HasJob
  <2>1. c # b /\ batch'[c] = batch[c]
    BY <1>1, <1>4
  <2>2. CASE writer = c
    <3>1. View(c) = draft /\ View(c)' = draft
      BY <1>2, <2>1, <2>2 DEF View
    <3> QED
      BY <2>1, <3>1 DEF StoreInv
  <2>3. CASE writer # c
    <3>1. View(c) = db /\ View(c)' = db'
      BY <1>2, <2>1, <2>3, DiscoveryAssumption DEF View
    <3>2. HasJob(db, batch[c].item)
      BY <2>1, <3>1 DEF StoreInv
    <3> QED
      BY <1>6, <2>1, <3>1, <3>2 DEF Keeps
  <2> QED
    BY <2>2, <2>3
<1> QED
  BY <1>5, <1>7, <1>10, <1>11, StoreInvPrimed

LEMMA CommitsKeepSingle ==
  ASSUME StoreInv, SingleInv, NEW b, NEW s, Commits(b, s)
  PROVE  SingleInv'
<1>1. /\ batch'[b] = s /\ b \in Batches /\ \A c \in Batches \ {b} : batch'[c] = batch[c]
      /\ writer = b => writer' = NoBatch
      /\ writer # b => writer' = writer /\ draft' = draft
      /\ batch[b] \in RunStates
  BY TurnFacts, ReleaseFacts DEF Commits, StoreInv, BatchTypes
<1>2. /\ db' = View(b) /\ UNCHANGED overlapped /\ batch[b].at \in LiveSteps /\ s.at = "returned"
  BY <1>1 DEF Commits, LiveSteps, Writable, RunStates
<1> SUFFICES ASSUME ~overlapped
             PROVE  /\ \A c, e \in Batches : (batch'[c].at \in LiveSteps /\ batch'[e].at \in LiveSteps) => c = e
                    /\ Single(db)' /\ (writer' # NoBatch => Single(draft)')
                    /\ \A c \in Batches : ReadRight(c)'
  BY <1>2 DEF SingleInv
<1>3. \A c \in Batches \ {b} : batch[c].at \notin LiveSteps
  BY <1>1, <1>2 DEF SingleInv
<1>4. Single(View(b)) /\ (writer # NoBatch => Single(draft))
  BY <1>1, DiscoveryAssumption DEF SingleInv, View
<1>5. Single(db)' /\ (writer' # NoBatch => Single(draft)')
  BY <1>1, <1>2, <1>4 DEF Single
<1>6. \A c \in Batches : batch'[c].at \notin LiveSteps
  BY <1>1, <1>2, <1>3 DEF LiveSteps, Writable
<1> QED
  BY <1>5, <1>6 DEF ReadRight, LiveSteps, Writable

LEMMA BeginsKeepStore ==
  ASSUME StoreInv, NEW b, NEW s, Begins(b, s)
  PROVE  StoreInv'
<1>1. /\ batch' \in [Batches -> RunStates] /\ batch'[b] = s /\ b \in Batches
      /\ \A c \in Batches \ {b} : batch'[c] = batch[c]
      /\ \A c \in Batches : Sorted(batch'[c])
      /\ board' \in [Offers -> Contents]
  BY TurnFacts DEF Begins, StoreInv
<1>2. /\ UNCHANGED <<db, draft, writer>> /\ batch[b].at \notin LiveSteps /\ s.good = {}
      /\ s.at # "returned"
  BY DEF Begins
<1>3. BatchTypes'
  BY <1>1, <1>2 DEF StoreInv, BatchTypes
<1>4. writer # NoBatch => /\ writer \in Batches /\ batch'[writer].at \in Writable
                          /\ Keeps(db, draft)
  BY <1>1, <1>2 DEF StoreInv, LiveSteps
<1>5. \A c \in Batches :
        /\ (batch'[c].at \in Writable /\ batch'[c].good # {}) => writer = c /\ StoredIn(draft, batch'[c])
        /\ batch'[c].at = "source" => batch'[c].good = {}
        /\ batch'[c].at = "returned" => StoredIn(db, batch'[c])
  BY <1>1, <1>2 DEF StoreInv
<1>6. \A c \in Batches : batch'[c].at = "update" => HasJob(View(c), batch[c].item)'
  <2> SUFFICES ASSUME NEW c \in Batches, batch'[c].at = "update" PROVE HasJob(View(c)', batch'[c].item)
    BY DEF HasJob
  <2>1. c # b /\ batch'[c] = batch[c]
    BY <1>1 DEF Begins
  <2> QED
    BY <1>2, <2>1 DEF StoreInv, View
<1> QED
  BY <1>2, <1>3, <1>4, <1>5, <1>6, StoreInvPrimed

LEMMA BeginsKeepSingle ==
  ASSUME StoreInv, SingleInv, NEW b, NEW s, Begins(b, s)
  PROVE  SingleInv'
<1>1. /\ batch'[b] = s /\ b \in Batches /\ \A c \in Batches \ {b} : batch'[c] = batch[c]
  BY TurnFacts DEF Begins, StoreInv
<1>2. /\ UNCHANGED <<db, draft, writer>> /\ s.at \in {"source", "search", "next"}
      /\ overlapped' = (overlapped \/ \E c \in Batches \ {b} : batch[c].at \in LiveSteps)
  BY DEF Begins
<1> SUFFICES ASSUME ~overlapped'
             PROVE  /\ \A c, e \in Batches : (batch'[c].at \in LiveSteps /\ batch'[e].at \in LiveSteps) => c = e
                    /\ Single(db)' /\ (writer' # NoBatch => Single(draft)')
                    /\ \A c \in Batches : ReadRight(c)'
  BY DEF SingleInv
<1>3. ~overlapped /\ \A c \in Batches \ {b} : batch'[c].at \notin LiveSteps
  BY <1>1, <1>2
<1>4. Single(db)' /\ (writer' # NoBatch => Single(draft)')
  BY <1>2, <1>3 DEF SingleInv, Single
<1>5. \A c \in Batches : batch'[c].at \notin {"addCompany", "insert"}
  BY <1>1, <1>2, <1>3 DEF LiveSteps, Writable
<1> QED
  BY <1>3, <1>4, <1>5 DEF ReadRight

-----------------------------------------------------------------------------
(* Which step is of which kind. *)

LEMMA NoRunType == NoBatchRun \in RunStates /\ Sorted(NoBatchRun) /\ NoBatchRun.good = {}
BY DEF NoBatchRun, RunStates, Items, Contents, Sorted

LEMMA DatabaseDomains ==
  ASSUME NEW d \in Databases
  PROVE  /\ d.jobs \in Seq(JobRows) /\ Len(d.jobs) \in Nat /\ DOMAIN d.jobs = 1..Len(d.jobs)
         /\ d.matches \in Seq(Nat) /\ Len(d.matches) \in Nat /\ DOMAIN d.matches = 1..Len(d.matches)
BY LenProperties DEF Databases

LEMMA RowsAreJobs ==
  ASSUME NEW d \in Databases, NEW p
  PROVE  RowsFor(d, p) = {} <=> ~HasJob(d, p)
BY DatabaseDomains DEF RowsFor, HasJob

\* Going on to another step with the same item.
LEMMA ProceedTurns ==
  ASSUME BatchTypes, NEW b \in Batches, NEW at \in LiveSteps \cup {"raised", "returned"}, Proceed(b, at),
         UNCHANGED board,
         at \in {"company", "addCompany", "select", "insert", "update"} =>
           batch[b].kind = "scan" /\ batch[b].item \in Offers,
         at \notin {"save", "source"}, at = "search" => batch[b].at = "source"
  PROVE  /\ Turn(b, [batch[b] EXCEPT !.at = at])
         /\ [batch[b] EXCEPT !.at = at].at = at
         /\ [batch[b] EXCEPT !.at = at].good = batch[b].good
         /\ [batch[b] EXCEPT !.at = at].kind = batch[b].kind
         /\ [batch[b] EXCEPT !.at = at].item = batch[b].item
<1>1. batch[b] \in RunStates /\ Sorted(batch[b])
  BY DEF BatchTypes
<1> DEFINE s == [batch[b] EXCEPT !.at = at]
<1>2. /\ s \in RunStates /\ s.at = at /\ s.good = batch[b].good /\ s.kind = batch[b].kind
      /\ s.item = batch[b].item /\ s.todo = batch[b].todo
  BY <1>1 DEF RunStates
<1>3. batch' = [batch EXCEPT ![b] = s]
  BY DEF Proceed
<1> HIDE DEF s
<1>4. Sorted(s)
  BY <1>1, <1>2 DEF Sorted
<1> QED
  BY <1>2, <1>3, <1>4 DEF Turn, s

LEMMA SkipTurns ==
  ASSUME BatchTypes, NEW b \in Batches, SkipItem(b), UNCHANGED board
  PROVE  \E s : /\ Turn(b, s) /\ s.at = "next" /\ s.good = batch[b].good /\ s.kind = batch[b].kind
<1>1. batch[b] \in RunStates /\ Sorted(batch[b])
  BY DEF BatchTypes
<1> DEFINE s == [batch[b] EXCEPT !.at = "next", !.todo = @ \ {batch[b].item}]
<1>2. /\ s \in RunStates /\ s.at = "next" /\ s.good = batch[b].good /\ s.kind = batch[b].kind
      /\ s.todo \subseteq batch[b].todo
  BY <1>1 DEF RunStates, LiveSteps, Writable
<1>3. batch' = [batch EXCEPT ![b] = s]
  BY DEF SkipItem, BatchTypes
<1> HIDE DEF s
<1>4. Sorted(s)
  BY <1>1, <1>2 DEF Sorted
<1> QED
  BY <1>2, <1>3, <1>4 DEF Turn

LEMMA FinishTurns ==
  ASSUME BatchTypes, NEW b \in Batches, FinishItem(b), UNCHANGED board
  PROVE  \E s : /\ Turn(b, s) /\ s.at = "next" /\ s.good = batch[b].good \cup {batch[b].item}
                /\ s.kind = batch[b].kind
<1>1. batch[b] \in RunStates /\ Sorted(batch[b])
  BY DEF BatchTypes
<1> DEFINE s == [batch[b] EXCEPT !.at = "next", !.todo = @ \ {batch[b].item},
                                 !.good = @ \cup {batch[b].item}]
<1>2. /\ s \in RunStates /\ s.at = "next" /\ s.good = batch[b].good \cup {batch[b].item}
      /\ s.kind = batch[b].kind /\ s.todo \subseteq batch[b].todo
  BY <1>1 DEF RunStates, LiveSteps, Writable
<1>3. batch' = [batch EXCEPT ![b] = s]
  BY DEF FinishItem, BatchTypes
<1> HIDE DEF s
<1>4. Sorted(s)
  BY <1>1, <1>2 DEF Sorted
<1> QED
  BY <1>2, <1>3, <1>4 DEF Turn

LEMMA ScansBegin ==
  ASSUME BatchTypes, NEW b \in Batches, BeginScan(b)
  PROVE  \E s : Begins(b, s)
<1> DEFINE s == [NoBatchRun EXCEPT !.at = IF db.source THEN "search" ELSE "source"]
<1>1. /\ s \in RunStates /\ s.at \in {"search", "source"} /\ s.good = {}
      /\ s.todo = NoBatchRun.todo /\ s.kind = NoBatchRun.kind /\ s.kind = "scan"
  BY NoRunType DEF NoBatchRun, RunStates, LiveSteps, Writable
<1>2. BeginRun(b, s)
  BY DEF BeginScan
<1> HIDE DEF s
<1>3. Sorted(s)
  BY <1>1, NoRunType DEF Sorted
<1>4. \A c \in Batches : batch[c].at \in LiveSteps <=> batch[c].at \notin {"idle", "returned", "raised"}
  BY DEF BatchTypes, RunStates, LiveSteps, Writable
<1> QED
  BY <1>1, <1>2, <1>3, <1>4 DEF Begins, BeginRun, Turn, jobDataVars

LEMMA MatchesBegin ==
  ASSUME BatchTypes, NEW b \in Batches, BeginMatch(b)
  PROVE  \E s : Begins(b, s)
<1> DEFINE s == [NoBatchRun EXCEPT !.at = "next", !.kind = "match", !.todo = DOMAIN db.jobs]
<1>0. DOMAIN db.jobs \subseteq Nat
  BY DatabaseDomains DEF BatchTypes
<1>1. /\ s \in RunStates /\ s.at = "next" /\ s.good = {} /\ s.todo = DOMAIN db.jobs /\ s.kind = "match"
  BY <1>0, NoRunType DEF RunStates, LiveSteps, Writable, Items
<1>2. BeginRun(b, s)
  BY DEF BeginMatch
<1> HIDE DEF s
<1>3. Sorted(s)
  BY <1>0, <1>1 DEF Sorted
<1>4. \A c \in Batches : batch[c].at \in LiveSteps <=> batch[c].at \notin {"idle", "returned", "raised"}
  BY DEF BatchTypes, RunStates, LiveSteps, Writable
<1> QED
  BY <1>1, <1>2, <1>3, <1>4 DEF Begins, BeginRun, Turn, jobDataVars

\* The steps that only read.
LEMMA ReadSteps ==
  ASSUME BatchTypes, NEW b \in Batches,
         \/ SourceExists(b) \/ SearchFails(b) \/ FindCompany(b) \/ FindJob(b) \/ Handled(b)
         \/ CommitRaises(b) \/ MatchRaises(b) \/ Search(b) \/ NextPosting(b) \/ NextJob(b)
  PROVE  \E s : Reads(b, s)
<1>0. batch[b] \in RunStates /\ Sorted(batch[b]) /\ board \in [Offers -> Contents]
  BY DEF BatchTypes
<1>1. ASSUME NEW at \in LiveSteps \cup {"raised"}, Proceed(b, at), UNCHANGED <<jobDataVars, overlapped>>,
             batch[b].at \in LiveSteps, batch[b].at \in Writable <=> at \in Writable,
             at \in {"company", "addCompany", "select", "insert", "update"} =>
               batch[b].kind = "scan" /\ batch[b].item \in Offers,
             at \notin {"save", "source", "search"},
             at = "addCompany" => View(b).companies = 0,
             at = "insert" => ~HasJob(View(b), batch[b].item),
             at = "update" => HasJob(View(b), batch[b].item)
      PROVE  \E s : Reads(b, s)
  <2> DEFINE s == [batch[b] EXCEPT !.at = at]
  <2>1. /\ Turn(b, s) /\ s.at = at /\ s.good = batch[b].good /\ s.kind = batch[b].kind
        /\ s.item = batch[b].item
    BY <1>1, ProceedTurns DEF jobDataVars
  <2> HIDE DEF s
  <2>2. at # "returned"
    BY <1>1 DEF LiveSteps, Writable
  <2> QED
    BY <1>1, <2>1, <2>2 DEF Reads, jobDataVars
<1>2. ASSUME SkipItem(b), UNCHANGED <<jobDataVars, overlapped>>, batch[b].at \in Writable
      PROVE  \E s : Reads(b, s)
  <2>1. PICK s : Turn(b, s) /\ s.at = "next" /\ s.good = batch[b].good /\ s.kind = batch[b].kind
    BY <1>2, SkipTurns DEF jobDataVars
  <2> QED
    BY <1>2, <2>1 DEF Reads, jobDataVars, LiveSteps, Writable
<1>3. CASE SourceExists(b)
  BY <1>3, <1>1 DEF SourceExists, LiveSteps, Writable
<1>4. CASE SearchFails(b)
  BY <1>4, <1>1 DEF SearchFails, LiveSteps, Writable
<1>5. CASE Handled(b)
  BY <1>5, <1>1 DEF Handled, LiveSteps, Writable
<1>6. CASE CommitRaises(b)
  BY <1>6, <1>1 DEF CommitRaises, LiveSteps, Writable
<1>7. CASE FindCompany(b)
  <2>0. batch[b].at = "company" /\ batch[b].kind = "scan" /\ batch[b].item \in Offers
    BY <1>7, <1>0 DEF FindCompany, Sorted
  <2>1. CASE View(b).companies = 0
    BY <1>7, <2>0, <2>1, <1>1 DEF FindCompany, LiveSteps, Writable
  <2>2. CASE View(b).companies = 1
    BY <1>7, <2>0, <2>2, <1>1 DEF FindCompany, LiveSteps, Writable
  <2>3. CASE View(b).companies \notin {0, 1}
    BY <1>7, <2>0, <2>3, <1>2 DEF FindCompany, Writable
  <2> QED
    BY <2>1, <2>2, <2>3
<1>8. CASE FindJob(b)
  <2> DEFINE found == RowsFor(View(b), batch[b].item)
  <2>0. batch[b].at = "select" /\ batch[b].kind = "scan" /\ batch[b].item \in Offers
    BY <1>8, <1>0 DEF FindJob, Sorted
  <2>1. CASE found = {}
    <3>1. Proceed(b, "insert") /\ UNCHANGED <<jobDataVars, overlapped>>
      BY <1>8, <2>1, FS_EmptySet DEF FindJob
    <3>2. ~HasJob(View(b), batch[b].item)
      BY <2>1, RowsAreJobs, ViewType
    <3> QED
      BY <2>0, <3>1, <3>2, <1>1 DEF LiveSteps, Writable
  <2>2. CASE found # {} /\ Cardinality(found) = 1
    <3>1. Proceed(b, "update") /\ UNCHANGED <<jobDataVars, overlapped>>
      BY <1>8, <2>2 DEF FindJob
    <3>2. HasJob(View(b), batch[b].item)
      BY <2>2, RowsAreJobs, ViewType
    <3> QED
      BY <2>0, <3>1, <3>2, <1>1 DEF LiveSteps, Writable
  <2>3. CASE found # {} /\ Cardinality(found) # 1
    <3>1. SkipItem(b) /\ UNCHANGED <<jobDataVars, overlapped>>
      BY <1>8, <2>3 DEF FindJob
    <3> QED
      BY <2>0, <3>1, <1>2 DEF Writable
  <2> QED
    BY <2>1, <2>2, <2>3
<1>9. CASE MatchRaises(b)
  BY <1>9, <1>2 DEF MatchRaises, Writable
<1>10. CASE Search(b)
  <2> DEFINE s == [batch[b] EXCEPT !.at = "next", !.says = board,
                                   !.todo = {p \in Offers : board[p] # "absent"}]
  <2>1. /\ s \in RunStates /\ s.at = "next" /\ s.good = batch[b].good /\ s.kind = batch[b].kind
        /\ s.todo \subseteq Offers
    BY <1>0 DEF RunStates, LiveSteps, Writable, Items
  <2>2. batch' = [batch EXCEPT ![b] = s] /\ UNCHANGED <<jobDataVars, overlapped>> /\ batch[b].at = "search"
    BY <1>10 DEF Search, BatchTypes
  <2> HIDE DEF s
  <2>3. Sorted(s)
    BY <2>1, <2>2, <1>0 DEF Sorted
  <2> QED
    BY <2>1, <2>2, <2>3 DEF Reads, Turn, jobDataVars, LiveSteps, Writable
<1>11. CASE NextPosting(b)
  <2>1. PICK p \in batch[b].todo :
          batch' = IF batch[b].says[p] = "malformed" THEN [batch EXCEPT ![b].todo = @ \ {p}]
                   ELSE [batch EXCEPT ![b].at = "company", ![b].item = p]
    BY <1>11 DEF NextPosting
  <2>2. /\ batch[b].at = "next" /\ batch[b].kind = "scan" /\ UNCHANGED <<jobDataVars, overlapped>>
        /\ p \in Offers
    BY <1>11, <1>0, <2>1 DEF NextPosting, Sorted
  <2> DEFINE s == IF batch[b].says[p] = "malformed" THEN [batch[b] EXCEPT !.todo = @ \ {p}]
                  ELSE [batch[b] EXCEPT !.at = "company", !.item = p]
  <2>3. /\ s \in RunStates /\ s.at \in {"next", "company"} /\ s.good = batch[b].good
        /\ s.kind = "scan" /\ s.todo \subseteq batch[b].todo
        /\ s.at = "company" => s.item = p
    BY <1>0, <2>2 DEF RunStates, LiveSteps, Writable, Items
  <2>4. batch' = [batch EXCEPT ![b] = s]
    BY <2>1 DEF BatchTypes
  <2> HIDE DEF s
  <2>5. Sorted(s)
    BY <1>0, <2>2, <2>3 DEF Sorted
  <2> QED
    BY <2>2, <2>3, <2>4, <2>5 DEF Reads, Turn, jobDataVars, LiveSteps, Writable
<1>12. CASE NextJob(b)
  <2>1. PICK k \in batch[b].todo : batch' = [batch EXCEPT ![b].at = "save", ![b].item = k]
    BY <1>12 DEF NextJob
  <2>2. /\ batch[b].at = "next" /\ batch[b].kind = "match" /\ UNCHANGED <<jobDataVars, overlapped>>
        /\ k \in Nat
    BY <1>12, <1>0, <2>1 DEF NextJob, Sorted
  <2> DEFINE s == [batch[b] EXCEPT !.at = "save", !.item = k]
  <2>3. /\ s \in RunStates /\ s.at = "save" /\ s.good = batch[b].good
        /\ s.kind = "match" /\ s.todo = batch[b].todo /\ s.item = k
    BY <1>0, <2>2 DEF RunStates, LiveSteps, Writable, Items
  <2>4. batch' = [batch EXCEPT ![b] = s]
    BY <2>1 DEF BatchTypes
  <2> HIDE DEF s
  <2>5. Sorted(s)
    BY <1>0, <2>2, <2>3 DEF Sorted
  <2> QED
    BY <2>2, <2>3, <2>4, <2>5 DEF Reads, Turn, jobDataVars, LiveSteps, Writable
<1> QED
  BY <1>3, <1>4, <1>5, <1>6, <1>7, <1>8, <1>9, <1>10, <1>11, <1>12

LEMMA KeepsItself == ASSUME NEW d, NEW e, e.jobs = d.jobs, e.matches = d.matches PROVE Keeps(d, e)
BY DEF Keeps, HasJob, HasMatch

\* A write that goes on with the item in hand.
LEMMA GoingOnWrites ==
  ASSUME BatchTypes, NEW b \in Batches, NEW d \in Databases, Write(b, d),
         NEW at \in {"search", "select"}, Proceed(b, at), Keeps(View(b), d),
         batch[b].at = (IF at = "search" THEN "source" ELSE "addCompany"),
         (ReadRight(b) /\ Single(View(b))) => Single(d)
  PROVE  \E s : Writes(b, s, d)
<1> DEFINE s == [batch[b] EXCEPT !.at = at]
<1>1. batch[b] \in RunStates /\ Sorted(batch[b])
  BY DEF BatchTypes
<1>2. at = "select" => batch[b].kind = "scan" /\ batch[b].item \in Offers
  BY <1>1 DEF Sorted
<1>3. UNCHANGED board /\ at \in LiveSteps
  BY DEF Write, LiveSteps, Writable
<1>4. /\ Turn(b, s) /\ s.at = at /\ s.good = batch[b].good /\ s.kind = batch[b].kind
  BY <1>2, <1>3, ProceedTurns
<1> HIDE DEF s
<1>5. [s EXCEPT !.good = @ \ batch[b].good].good = {}
  BY <1>4 DEF Turn, RunStates
<1> QED
  BY <1>4, <1>5 DEF Writes, Write, StoredIn, LiveSteps, Writable

\* A write that is done with the item in hand.
LEMMA FinishingWrites ==
  ASSUME BatchTypes, NEW b \in Batches, NEW d \in Databases, Write(b, d), FinishItem(b),
         batch[b].at \in {"insert", "update", "save"}, Keeps(View(b), d),
         (ReadRight(b) /\ Single(View(b))) => Single(d),
         IF batch[b].kind = "scan" THEN HasJob(d, batch[b].item) ELSE HasMatch(d, batch[b].item)
  PROVE  \E s : Writes(b, s, d)
<1>1. UNCHANGED board
  BY DEF Write
<1>2. PICK s : /\ Turn(b, s) /\ s.at = "next" /\ s.good = batch[b].good \cup {batch[b].item}
               /\ s.kind = batch[b].kind
  BY <1>1, FinishTurns
<1> DEFINE t == [s EXCEPT !.good = @ \ batch[b].good]
<1>3. t.good \subseteq {batch[b].item} /\ t.kind = batch[b].kind
  BY <1>2 DEF Turn, RunStates
<1> HIDE DEF t
<1>4. StoredIn(d, t)
  BY <1>3 DEF StoredIn
<1> QED
  BY <1>2, <1>4 DEF Writes, Write, t, Writable

LEMMA SourcesWrite ==
  ASSUME BatchTypes, NEW b \in Batches, AddSource(b)
  PROVE  \E s, d : Writes(b, s, d)
<1> DEFINE d == [View(b) EXCEPT !.source = TRUE]
<1>1. /\ d \in Databases /\ d.jobs = View(b).jobs /\ d.matches = View(b).matches
      /\ d.companies = View(b).companies
  BY ViewType DEF Databases
<1>2. Write(b, d) /\ Proceed(b, "search") /\ batch[b].at = "source"
  BY DEF AddSource
<1> HIDE DEF d
<1>3. Single(View(b)) => Single(d)
  BY <1>1 DEF Single
<1> QED
  BY <1>1, <1>2, <1>3, KeepsItself, GoingOnWrites

LEMMA CompaniesWrite ==
  ASSUME BatchTypes, NEW b \in Batches, AddCompany(b)
  PROVE  \E s, d : Writes(b, s, d)
<1> DEFINE d == [View(b) EXCEPT !.companies = @ + 1]
<1>1. /\ d \in Databases /\ d.jobs = View(b).jobs /\ d.matches = View(b).matches
      /\ d.companies = View(b).companies + 1
  BY ViewType, SMTT(30) DEF Databases
<1>2. Write(b, d) /\ Proceed(b, "select") /\ batch[b].at = "addCompany"
  BY DEF AddCompany
<1> HIDE DEF d
<1>3. (ReadRight(b) /\ Single(View(b))) => Single(d)
  BY <1>1, <1>2 DEF Single, ReadRight
<1> QED
  BY <1>1, <1>2, <1>3, KeepsItself, GoingOnWrites

LEMMA InsertsWrite ==
  ASSUME BatchTypes, NEW b \in Batches, InsertJob(b)
  PROVE  \E s, d : Writes(b, s, d)
<1> DEFINE v == View(b)
           p == batch[b].item
           r == [posting |-> p, says |-> batch[b].says[p]]
           d == [v EXCEPT !.jobs = Append(@, r)]
<1>0. /\ Write(b, d) /\ FinishItem(b) /\ batch[b].at = "insert"
      /\ batch[b] \in RunStates /\ batch[b].kind = "scan" /\ p \in Offers /\ v \in Databases
  BY ViewType DEF InsertJob, BatchTypes, Sorted
<1>1. r \in JobRows /\ r.posting = p
  BY <1>0 DEF JobRows, RunStates
<1>2. v.jobs \in Seq(JobRows) /\ Len(v.jobs) \in Nat
  BY <1>0, DatabaseDomains
<1> HIDE DEF v, r
<1>3. /\ Append(v.jobs, r) \in Seq(JobRows) /\ Len(Append(v.jobs, r)) = Len(v.jobs) + 1
      /\ \A k \in 1..Len(v.jobs) : Append(v.jobs, r)[k] = v.jobs[k]
      /\ Append(v.jobs, r)[Len(v.jobs) + 1] = r
  BY <1>1, <1>2, AppendProperties
<1>4. d \in Databases /\ d.jobs = Append(v.jobs, r) /\ d.matches = v.matches /\ d.companies = v.companies
  BY <1>0, <1>3 DEF Databases
<1> HIDE DEF d, p
<1>5. HasJob(d, p)
  BY <1>1, <1>2, <1>3, <1>4 DEF HasJob
<1>6. \A i : HasJob(v, i) => HasJob(d, i)
  BY <1>2, <1>3, <1>4 DEF HasJob
<1>7. Keeps(v, d)
  BY <1>4, <1>6 DEF Keeps, HasMatch
<1>8. (ReadRight(b) /\ Single(v)) => Single(d)
  <2> SUFFICES ASSUME ReadRight(b), Single(v) PROVE Single(d)
    OBVIOUS
  <2>1. \A k \in 1..Len(v.jobs) : v.jobs[k].posting # p
    BY <1>0 DEF ReadRight, HasJob, v, p
  <2>2. ASSUME NEW k \in 1..Len(d.jobs), NEW l \in 1..Len(d.jobs), d.jobs[k].posting = d.jobs[l].posting
        PROVE  k = l
    <3>1. \A j \in 1..Len(d.jobs) : IF j \in 1..Len(v.jobs) THEN d.jobs[j] = v.jobs[j]
                                    ELSE j = Len(v.jobs) + 1 /\ d.jobs[j].posting = p
      BY <1>1, <1>2, <1>3, <1>4
    <3> QED
      BY <2>1, <2>2, <3>1 DEF Single
  <2> QED
    BY <1>4, <2>2 DEF Single
<1> QED
  BY <1>0, <1>4, <1>5, <1>7, <1>8, FinishingWrites DEF v, p, d, r

LEMMA UpdatesWrite ==
  ASSUME StoreInv, NEW b \in Batches, UpdateJob(b)
  PROVE  \E s, d : Writes(b, s, d)
<1> DEFINE v == View(b)
           p == batch[b].item
           k == CHOOSE k \in RowsFor(v, p) : TRUE
           r == [v.jobs[k] EXCEPT !.says = batch[b].says[p]]
           d == [v EXCEPT !.jobs = [@ EXCEPT ![k] = r]]
<1>0. /\ Write(b, [v EXCEPT !.jobs[k].says = batch[b].says[p]]) /\ FinishItem(b) /\ batch[b].at = "update"
      /\ batch[b] \in RunStates /\ batch[b].kind = "scan" /\ p \in Offers /\ v \in Databases
      /\ HasJob(v, p) /\ BatchTypes
  BY ViewType DEF UpdateJob, BatchTypes, Sorted, StoreInv
<1>1. v.jobs \in Seq(JobRows) /\ Len(v.jobs) \in Nat /\ DOMAIN v.jobs = 1..Len(v.jobs)
  BY <1>0, DatabaseDomains
<1>2. k \in RowsFor(v, p)
  BY <1>0, RowsAreJobs
<1>3. k \in 1..Len(v.jobs) /\ v.jobs[k].posting = p
  BY <1>1, <1>2 DEF RowsFor
<1>4. v.jobs[k] \in JobRows
  BY <1>1, <1>3, ElementOfSeq
<1>5. r \in JobRows /\ r.posting = p
  BY <1>0, <1>3, <1>4 DEF JobRows, RunStates
<1>6. Write(b, d)
  BY <1>0 DEF Databases
<1> HIDE DEF v, k, r
<1> DEFINE jobs == [v.jobs EXCEPT ![k] = r]
<1>7. /\ jobs \in Seq(JobRows) /\ Len(jobs) = Len(v.jobs)
      /\ \A j \in 1..Len(v.jobs) : jobs[j] = IF j = k THEN r ELSE v.jobs[j]
  BY <1>1, <1>3, <1>5, ExceptSeq
<1>8. \A j \in 1..Len(v.jobs) : jobs[j].posting = v.jobs[j].posting
  BY <1>3, <1>5, <1>7
<1>9. d = [v EXCEPT !.jobs = jobs]
  OBVIOUS
<1> HIDE DEF jobs, d, p
<1>10. d \in Databases /\ d.jobs = jobs /\ d.matches = v.matches /\ d.companies = v.companies
  BY <1>0, <1>7, <1>9 DEF Databases
<1>11. \A i : HasJob(v, i) => HasJob(d, i)
  BY <1>7, <1>8, <1>10 DEF HasJob
<1>12. Keeps(v, d) /\ HasJob(d, p)
  BY <1>0, <1>10, <1>11 DEF Keeps, HasMatch
<1>13. Single(v) => Single(d)
  BY <1>7, <1>8, <1>10 DEF Single
<1> QED
  BY <1>0, <1>6, <1>10, <1>12, <1>13, FinishingWrites DEF v, p

LEMMA MatchesWrite ==
  ASSUME BatchTypes, NEW b \in Batches, SaveMatch(b)
  PROVE  \E s, d : Writes(b, s, d)
<1> DEFINE v == View(b)
           k == batch[b].item
           d == [v EXCEPT !.matches = Append(@, k)]
<1>0. /\ Write(b, d) /\ FinishItem(b) /\ batch[b].at = "save"
      /\ batch[b].kind = "match" /\ k \in Nat /\ v \in Databases
  BY ViewType DEF SaveMatch, BatchTypes, Sorted
<1>1. v.matches \in Seq(Nat) /\ Len(v.matches) \in Nat
  BY <1>0, DatabaseDomains
<1> HIDE DEF v, k
<1>2. /\ Append(v.matches, k) \in Seq(Nat) /\ Len(Append(v.matches, k)) = Len(v.matches) + 1
      /\ \A j \in 1..Len(v.matches) : Append(v.matches, k)[j] = v.matches[j]
      /\ Append(v.matches, k)[Len(v.matches) + 1] = k
  BY <1>0, <1>1, AppendProperties
<1>3. d \in Databases /\ d.matches = Append(v.matches, k) /\ d.jobs = v.jobs /\ d.companies = v.companies
  BY <1>0, <1>2 DEF Databases
<1> HIDE DEF d
<1>4. HasMatch(d, k)
  BY <1>1, <1>2, <1>3 DEF HasMatch
<1>5. \A i : HasMatch(v, i) => HasMatch(d, i)
  BY <1>1, <1>2, <1>3 DEF HasMatch
<1>6. Keeps(v, d) /\ (Single(v) => Single(d))
  BY <1>3, <1>5 DEF Keeps, HasJob, Single
<1> QED
  BY <1>0, <1>3, <1>4, <1>6, FinishingWrites DEF v, k, d

LEMMA EndSteps ==
  ASSUME StoreInv, NEW b \in Batches, FlushFails(b) \/ BatchDies(b)
  PROVE  \E s : Ends(b, s)
<1>1. PICK at \in {"raised", "poisoned"} : Proceed(b, at)
  BY DEF FlushFails, BatchDies
<1>2. /\ Release(b) /\ UNCHANGED <<board, db, overlapped>> /\ batch[b].at \in LiveSteps
  BY DEF FlushFails, BatchDies, Writing, LiveSteps, Writable, StoreInv, BatchTypes, RunStates
<1> DEFINE s == [batch[b] EXCEPT !.at = at]
<1>3. Turn(b, s) /\ s.at = at
  BY <1>1, <1>2, ProceedTurns DEF StoreInv, LiveSteps, Writable
<1> HIDE DEF s
<1> QED
  BY <1>1, <1>2, <1>3 DEF Ends

LEMMA CommitSteps ==
  ASSUME StoreInv, NEW b \in Batches, Commit(b)
  PROVE  \E s : Commits(b, s)
<1> DEFINE s == [batch[b] EXCEPT !.at = "returned"]
<1>1. Turn(b, s)
  BY ProceedTurns DEF Commit, StoreInv
<1> QED
  BY <1>1 DEF Commit, Commits

-----------------------------------------------------------------------------

LEMMA BatchInvInit == BatchInit => StoreInv /\ SingleInv
<1> SUFFICES ASSUME BatchInit PROVE StoreInv /\ SingleInv
  OBVIOUS
<1>1. batch \in [Batches -> RunStates] /\ \A b \in Batches : batch[b] = NoBatchRun
  BY NoRunType DEF BatchInit
<1>2. NoBatchRun.at = "idle"
  BY DEF NoBatchRun
<1>3. BatchTypes
  BY <1>1, NoRunType, NewDatabaseType DEF BatchInit, BatchTypes, Contents
<1>4. Single(NewDatabase)
  BY EmptySeq DEF Single, NewDatabase
<1> QED
  BY <1>1, <1>2, <1>3, <1>4
  DEF BatchInit, StoreInv, SingleInv, ReadRight, LiveSteps, Writable

LEMMA BatchInvStep == StoreInv /\ SingleInv /\ [BatchNext]_batchVars => StoreInv' /\ SingleInv'
<1> SUFFICES ASSUME StoreInv, SingleInv, [BatchNext]_batchVars PROVE StoreInv' /\ SingleInv'
  OBVIOUS
<1>0. BatchTypes
  BY DEF StoreInv
<1>1. ASSUME NEW b \in Batches, BeginScan(b) \/ BeginMatch(b) PROVE StoreInv' /\ SingleInv'
  BY <1>0, <1>1, ScansBegin, MatchesBegin, BeginsKeepStore, BeginsKeepSingle
<1>2. ASSUME NEW b \in Batches,
             \/ SourceExists(b) \/ SearchFails(b) \/ FindCompany(b) \/ FindJob(b) \/ Handled(b)
             \/ CommitRaises(b) \/ MatchRaises(b) \/ Search(b) \/ NextPosting(b) \/ NextJob(b)
      PROVE  StoreInv' /\ SingleInv'
  <2>1. PICK s : Reads(b, s)
    BY <1>0, <1>2, ReadSteps
  <2> QED
    BY <1>0, <2>1, ReadsKeepStore, ReadsKeepSingle
<1>3. ASSUME NEW b \in Batches,
             AddSource(b) \/ AddCompany(b) \/ InsertJob(b) \/ UpdateJob(b) \/ SaveMatch(b)
      PROVE  StoreInv' /\ SingleInv'
  <2>1. PICK s, d : Writes(b, s, d)
    BY <1>0, <1>3, SourcesWrite, CompaniesWrite, InsertsWrite, UpdatesWrite, MatchesWrite
  <2> QED
    BY <2>1, WritesKeepStore, WritesKeepSingle
<1>4. ASSUME NEW b \in Batches, FlushFails(b) \/ BatchDies(b) PROVE StoreInv' /\ SingleInv'
  BY <1>4, EndSteps, EndsKeepStore, EndsKeepSingle
<1>5. ASSUME NEW b \in Batches, Commit(b) PROVE StoreInv' /\ SingleInv'
  BY <1>5, CommitSteps, CommitsKeepStore, CommitsKeepSingle
<1>6. ASSUME UNCHANGED <<db, draft, writer, batch, overlapped>>, board' \in [Offers -> Contents]
      PROVE  StoreInv' /\ SingleInv'
  <2>1. \A b : View(b)' = View(b)
    BY <1>6 DEF View
  <2>2. BatchTypes' /\ (writer # NoBatch => Keeps(db, draft)')
    BY <1>6 DEF StoreInv, BatchTypes, Keeps, HasJob, HasMatch
  <2>3. \A b \in Batches : batch[b].at = "update" => HasJob(View(b), batch[b].item)'
    BY <1>6, <2>1 DEF StoreInv, HasJob
  <2>4. StoreInv'
    BY <1>6, <2>2, <2>3 DEF StoreInv, StoredIn, HasJob, HasMatch
  <2>5. \A b \in Batches : ReadRight(b) => ReadRight(b)'
    BY <1>6, <2>1 DEF ReadRight, HasJob
  <2> QED
    BY <1>6, <2>4, <2>5 DEF SingleInv, Single
<1>7. ASSUME NEW p \in Offers, NEW c \in Contents, BoardChanges(p, c) PROVE StoreInv' /\ SingleInv'
  BY <1>0, <1>6, <1>7 DEF BoardChanges, BatchTypes
<1>8. CASE UNCHANGED batchVars
  BY <1>0, <1>6, <1>8 DEF batchVars, jobDataVars, BatchTypes
<1> QED
  BY <1>1, <1>2, <1>3, <1>4, <1>5, <1>7, <1>8 DEF BatchNext

\* Rescans, failed writes, full disks and crashes leave a posting with one row
\* and the company with one, as long as no two batches overlap
\* (jobs/repository.py, upsert_job and get_or_create_company).
THEOREM PostingsHaveOneRow == BatchSpec => []OneRowPerPosting
<1>1. StoreInv /\ SingleInv => OneRowPerPosting
  <2> SUFFICES ASSUME StoreInv, SingleInv, ~overlapped
               PROVE  /\ \A p \in Offers : Cardinality(RowsFor(db, p)) <= 1
                      /\ db.companies <= 1
    BY DEF OneRowPerPosting
  <2>1. db \in Databases /\ Single(db)
    BY DEF StoreInv, BatchTypes, SingleInv
  <2>2. ASSUME NEW p \in Offers PROVE Cardinality(RowsFor(db, p)) <= 1
    <3>1. CASE RowsFor(db, p) = {}
      BY <3>1, FS_EmptySet
    <3>2. CASE RowsFor(db, p) # {}
      <4>1. PICK k : k \in RowsFor(db, p)
        BY <3>2
      <4>2. RowsFor(db, p) = {k}
        BY <2>1, <4>1, DatabaseDomains DEF RowsFor, Single
      <4>3. Cardinality({k}) = 1
        BY FS_Singleton
      <4> QED
        BY <4>2, <4>3
    <3> QED
      BY <3>1, <3>2
  <2> QED
    BY <2>1, <2>2 DEF Single
<1> QED
  BY <1>1, BatchInvInit, BatchInvStep, PTL DEF BatchSpec

\* A batch that returns has stored what it handled, also when other batches
\* wrote and failed beside it (jobs/service.py and matching/service.py).
THEOREM ReturnedBatchStored == BatchSpec => []ReturnedMeansStored
<1>1. StoreInv => ReturnedMeansStored
  <2> SUFFICES ASSUME StoreInv, NEW b \in Batches, batch[b].at = "returned", NEW i \in batch[b].good
               PROVE  IF batch[b].kind = "scan" THEN RowsFor(db, i) # {}
                      ELSE \E k \in DOMAIN db.matches : db.matches[k] = i
    BY DEF ReturnedMeansStored
  <2>1. db \in Databases /\ StoredIn(db, batch[b])
    BY DEF StoreInv, BatchTypes
  <2> QED
    BY <2>1, RowsAreJobs, DatabaseDomains DEF StoredIn, HasMatch
<1> QED
  BY <1>1, BatchInvInit, BatchInvStep, PTL DEF BatchSpec

-----------------------------------------------------------------------------
(* ProfileVersions: what "profile parse" reports is true. *)

\* A version says PASSED of what its own text bears out, and the version that a
\* command reports is of the profile and the files that the command has read.
ReportInv ==
  /\ ProfileTypeOK
  /\ \A n \in DOMAIN versions :
       versions[n].status = "PASSED" <=> Issues(versions[n].profile, versions[n].against) = {}
  /\ \A p \in Parsers : parsing[p].at = "reported" =>
       /\ parsing[p].row \in DOMAIN versions
       /\ versions[parsing[p].row].profile = Parsed(p)
       /\ versions[parsing[p].row].hashes = parsing[p].hashes

LEMMA NoParseType ==
  /\ NoParse \in ParseRecord /\ NoParse.at = "idle"
  /\ \A records \in BOOLEAN :
       /\ [NoParse EXCEPT !.at = "read", !.records = records] \in ParseRecord
       /\ [NoParse EXCEPT !.at = "read", !.records = records].at = "read"
<1>1. Unread \in FileSays /\ {} \in Texts
  <2>1. Unread \in FileSays
    BY DEF FileSays
  <2>2. Unread.text = {}
    BY DEF Unread
  <2> QED
    BY <2>1, <2>2 DEF Texts
<1>2. NoParse \in ParseRecord /\ NoParse.at = "idle"
  BY <1>1 DEF NoParse, ParseRecord, Ended
<1> QED
  BY <1>2 DEF ParseRecord, Ended

LEMMA ReportInvInit == ProfileInit => ReportInv
<1> SUFFICES ASSUME ProfileInit PROVE ReportInv
  OBVIOUS
<1>1. NoParse \in ParseRecord /\ NoParse.at = "idle"
  BY NoParseType
<1>2. source \in [SourceFiles -> FileSays]
  BY ProfileAssumption DEF ProfileInit, FileSays
<1>3. ProfileTypeOK
  BY <1>1, <1>2, ProfileAssumption DEF ProfileInit, ProfileTypeOK
<1> QED
  BY <1>1, <1>3 DEF ReportInv, ProfileInit

\* What holds of a reported version is not lost when a command other than the
\* one in p goes on, and as long as versions are only added.
ReportsOf(p) ==
  parsing[p].at = "reported" =>
       /\ parsing[p].row \in DOMAIN versions
       /\ versions[parsing[p].row].profile = Parsed(p)
       /\ versions[parsing[p].row].hashes = parsing[p].hashes

\* A step of a command that reports nothing and adds no version.
LEMMA QuietParseStep ==
  ASSUME ReportInv, NEW p \in Parsers, NEW r \in ParseRecord,
         parsing' = [parsing EXCEPT ![p] = r], r.at # "reported", versions' = versions,
         source' = source, candidateRows' \in Nat, parses' \in 0..MaxParses,
         disturbances' \in 0..MaxDisturbances
  PROVE  ReportInv'
<1>1. ProfileTypeOK'
  BY DEF ReportInv, ProfileTypeOK
<1>2. \A q \in Parsers : parsing'[q] = parsing[q] \/ parsing'[q].at # "reported"
  BY DEF ReportInv, ProfileTypeOK
<1> QED
  BY <1>1, <1>2, ZenonT(40) DEF ReportInv, Parsed

LEMMA ReportInvStep == ReportInv /\ [ProfileNext]_profileVars => ReportInv'
<1> SUFFICES ASSUME ReportInv, [ProfileNext]_profileVars PROVE ReportInv'
  OBVIOUS
<1> USE DEF KeepTables, parseBounds
<1>0. /\ source \in [SourceFiles -> FileSays] /\ candidateRows \in Nat /\ versions \in Seq(VersionRow)
      /\ parsing \in [Parsers -> ParseRecord]
      /\ parses \in 0..MaxParses /\ disturbances \in 0..MaxDisturbances
      /\ MaxParses \in Nat /\ MaxDisturbances \in Nat
  BY ProfileAssumption DEF ReportInv, ProfileTypeOK
<1>p. ASSUME NEW p \in Parsers
      PROVE  /\ parsing[p] \in ParseRecord /\ parsing[p].next + 1 \in Nat
             /\ Len(versions) + 1 \in Nat
  BY <1>0 DEF ParseRecord
<1>1. CASE UNCHANGED profileVars
  BY <1>1 DEF ReportInv, ProfileTypeOK, profileVars, Parsed
<1>2. ASSUME NEW f \in SourceFiles, EditSource(f) PROVE ReportInv'
  <2>1. source' \in [SourceFiles -> FileSays]
    BY <1>0, <1>2 DEF EditSource, FileSays
  <2>2. disturbances' \in 0..MaxDisturbances
    BY <1>0, <1>2 DEF EditSource
  <2> QED
    BY <1>2, <2>1, <2>2, ZenonT(40) DEF EditSource, ReportInv, ProfileTypeOK, Parsed
<1>3. ASSUME NEW p \in Parsers, NEW records \in BOOLEAN, BeginParse(p, records) PROVE ReportInv'
  <2> DEFINE r == [NoParse EXCEPT !.at = "read", !.records = records]
  <2>1. r \in ParseRecord /\ r.at = "read"
    BY NoParseType
  <2>2. parses' \in 0..MaxParses
    BY <1>0, <1>3 DEF BeginParse
  <2> QED
    BY <1>0, <1>3, <2>1, <2>2, QuietParseStep DEF BeginParse
\* The commands that only move on.
<1>4. ASSUME NEW p \in Parsers, NEW at \in {"raised", "find", "number"}, GoTo(p, at),
             UNCHANGED <<source, candidateRows, versions, parses>>, disturbances' \in 0..MaxDisturbances
      PROVE  ReportInv'
  <2> DEFINE r == [parsing[p] EXCEPT !.at = at]
  <2>1. r \in ParseRecord /\ r.at # "reported"
    BY <1>0, <1>4 DEF ParseRecord, Ended
  <2>2. parsing' = [parsing EXCEPT ![p] = r]
    BY <1>4 DEF GoTo
  <2> QED
    BY <1>0, <1>4, <2>1, <2>2, QuietParseStep
<1>5. ASSUME NEW p \in Parsers, ReadSource(p) PROVE ReportInv'
  <2> DEFINE f == ReadOrder[parsing[p].next]
             r == [parsing[p] EXCEPT !.read[f] = source[f], !.next = @ + 1,
                                     !.at = IF f = LastOf(ReadOrder) THEN "find" ELSE "read"]
  <2>1. CASE source[f].ok
    <3>1. [parsing[p].read EXCEPT ![f] = source[f]] \in [ProfileFiles -> FileSays]
      BY <1>0, ZenonT(40) DEF ParseRecord, SourceFiles
    <3>2. r \in ParseRecord /\ r.at # "reported"
      BY <1>p, <3>1 DEF ParseRecord, Ended
    <3> HIDE DEF r
    <3>3. parsing' = [parsing EXCEPT ![p] = r]
      BY <1>5, <2>1 DEF ReadSource, r
    <3> QED
      BY <1>0, <1>5, <3>2, <3>3, QuietParseStep DEF ReadSource
  <2>2. CASE ~source[f].ok
    BY <1>0, <1>4, <1>5, <2>2 DEF ReadSource
  <2> QED
    BY <2>1, <2>2
<1>6. ASSUME NEW p \in Parsers, FindCandidate(p) PROVE ReportInv'
  <2> DEFINE r == [parsing[p] EXCEPT !.at = "save", !.candidate = candidateRows]
  <2>1. CASE candidateRows > 1
    BY <1>0, <1>4, <1>6, <2>1 DEF FindCandidate
  <2>2. CASE ~(candidateRows > 1)
    <3>1. r \in ParseRecord /\ r.at # "reported"
      BY <1>0, ZenonT(40) DEF ParseRecord, Ended
    <3>2. parsing' = [parsing EXCEPT ![p] = r]
      BY <1>6, <2>2 DEF FindCandidate
    <3> QED
      BY <1>0, <1>6, <3>1, <3>2, QuietParseStep DEF FindCandidate
  <2> QED
    BY <2>1, <2>2
<1>7. ASSUME NEW p \in Parsers, SaveCandidate(p) PROVE ReportInv'
  <2> DEFINE c == IF parsing[p].candidate = 0 THEN candidateRows + 1 ELSE parsing[p].candidate
             r == [parsing[p] EXCEPT !.at = IF parsing[p].records THEN "extract" ELSE "saved", !.next = 1,
                                     !.candidate = c]
  <2>1. r \in ParseRecord /\ r.at # "reported"
    <3>1. c \in Nat
      BY <1>0 DEF ParseRecord
    <3> HIDE DEF c
    <3> QED
      BY <1>0, <3>1, ZenonT(40) DEF ParseRecord, Ended
  <2>2. candidateRows' \in Nat
    BY <1>0, <1>7 DEF SaveCandidate
  <2>3. parsing' = [parsing EXCEPT ![p] = r]
    BY <1>7 DEF SaveCandidate
  <2> QED
    BY <1>0, <1>7, <2>1, <2>2, <2>3, QuietParseStep DEF SaveCandidate
<1>8. ASSUME NEW p \in Parsers, ExtractResume(p) PROVE ReportInv'
  <2> DEFINE r == [parsing[p] EXCEPT !.at = "hash", !.text = source[ResumeFile].text]
  <2>1. CASE source[ResumeFile].ok
    <3>1. source[ResumeFile].text \in Texts
      BY <1>0 DEF Texts, SourceFiles
    <3>2. r \in ParseRecord /\ r.at # "reported"
      BY <1>0, <3>1, ZenonT(40) DEF ParseRecord, Ended
    <3>3. parsing' = [parsing EXCEPT ![p] = r]
      BY <1>8, <2>1 DEF ExtractResume
    <3> QED
      BY <1>0, <1>8, <3>2, <3>3, QuietParseStep DEF ExtractResume
  <2>2. CASE ~source[ResumeFile].ok
    BY <1>0, <1>4, <1>8, <2>2 DEF ExtractResume
  <2> QED
    BY <2>1, <2>2
<1>9. ASSUME NEW p \in Parsers, HashSource(p) PROVE ReportInv'
  <2> DEFINE f == HashOrder[parsing[p].next]
             r == [parsing[p] EXCEPT !.hashes[f] = source[f], !.next = @ + 1,
                                     !.at = IF f = LastOf(HashOrder) THEN "look" ELSE "hash"]
  <2>1. [parsing[p].hashes EXCEPT ![f] = source[f]] \in [SourceFiles -> FileSays]
    BY <1>0 DEF ParseRecord
  <2>2. r \in ParseRecord /\ r.at # "reported"
    BY <1>p, <2>1 DEF ParseRecord, Ended
  <2> HIDE DEF r
  <2>3. parsing' = [parsing EXCEPT ![p] = r]
    BY <1>9 DEF HashSource, r
  <2> QED
    BY <1>0, <1>9, <2>2, <2>3, QuietParseStep DEF HashSource
<1>10. ASSUME NEW p \in Parsers, LastIsSame(p) PROVE ReportInv'
  <2>1. PICK n \in DOMAIN versions :
          /\ Unchanged(versions[n], p)
          /\ parsing' = [parsing EXCEPT ![p].at = "reported", ![p].row = n]
    BY <1>10 DEF LastIsSame, Latest, VersionsOf
  <2> DEFINE r == [parsing[p] EXCEPT !.at = "reported", !.row = n]
  <2>2. n \in Nat
    BY <1>0
  <2>3. /\ r \in ParseRecord /\ r.at = "reported" /\ r.row = n
        /\ r.read = parsing[p].read /\ r.hashes = parsing[p].hashes
    BY <1>0, <2>2, ZenonT(40) DEF ParseRecord, Ended
  <2>4. parsing' = [parsing EXCEPT ![p] = r]
    BY <2>1
  <2> HIDE DEF r
  <2>5. ProfileTypeOK'
    BY <1>0, <1>10, <2>3, <2>4 DEF LastIsSame, ProfileTypeOK
  <2>6. ReportsOf(p)'
    <3>1. parsing'[p] = r /\ versions' = versions
      BY <1>0, <1>10, <2>4 DEF LastIsSame
    <3>2. Parsed(p)' = Parsed(p)
      BY <2>3, <3>1 DEF Parsed
    <3> QED
      BY <2>1, <2>3, <3>1, <3>2 DEF ReportsOf, Unchanged
  <2>7. ASSUME NEW q \in Parsers, q # p PROVE ReportsOf(q)'
    BY <1>0, <1>10, <2>4, <2>7 DEF ReportsOf, ReportInv, Parsed, LastIsSame
  <2> QED
    BY <1>10, <2>5, <2>6, <2>7 DEF ReportInv, ReportsOf, LastIsSame
<1>11. ASSUME NEW p \in Parsers, LastDiffers(p) PROVE ReportInv'
  BY <1>0, <1>4, <1>11 DEF LastDiffers
<1>12. ASSUME NEW p \in Parsers, NextNumber(p) PROVE ReportInv'
  <2>1. PICK highest \in IF VersionsOf(p) = {} THEN {0} ELSE {versions[n].number : n \in Latest(p)} :
          parsing' = [parsing EXCEPT ![p].at = "insert", ![p].number = highest + 1]
    BY <1>12 DEF NextNumber
  <2>2. highest \in Nat
    <3>1. \A n \in DOMAIN versions : versions[n] \in VersionRow
      BY <1>0
    <3>2. \A n \in Latest(p) : versions[n].number \in Nat
      BY <3>1 DEF VersionRow, Latest, VersionsOf
    <3>3. CASE VersionsOf(p) = {}
      BY <3>3
    <3>4. CASE VersionsOf(p) # {}
      BY <3>2, <3>4
    <3> QED
      BY <3>3, <3>4
  <2> DEFINE r == [parsing[p] EXCEPT !.at = "insert", !.number = highest + 1]
  <2>3. r \in ParseRecord /\ r.at # "reported"
    <3>1. highest + 1 \in Nat
      BY <2>2
    <3> QED
      BY <1>p, <3>1 DEF ParseRecord, Ended
  <2>4. parsing' = [parsing EXCEPT ![p] = r]
    BY <2>1
  <2> QED
    BY <1>0, <1>12, <2>3, <2>4, QuietParseStep DEF NextNumber
<1>13. ASSUME NEW p \in Parsers, InsertVersion(p) PROVE ReportInv'
  <2> DEFINE v == [candidate |-> parsing[p].candidate, number |-> parsing[p].number,
                   profile |-> Parsed(p), hashes |-> parsing[p].hashes,
                   status |-> IF Issues(Parsed(p), parsing[p].text) = {} THEN "PASSED" ELSE "FAILED",
                   against |-> parsing[p].text]
             r == [parsing[p] EXCEPT !.at = "reported", !.row = Len(versions) + 1]
  <2>1. Parsed(p) \in [ProfileFiles -> {d.claims : d \in FileSays}]
    BY <1>0 DEF Parsed, ParseRecord
  <2>2. v \in VersionRow
    BY <1>0, <2>1 DEF VersionRow, ParseRecord
  <2>3. /\ v.profile = Parsed(p) /\ v.hashes = parsing[p].hashes
        /\ v.status = "PASSED" <=> Issues(v.profile, v.against) = {}
    OBVIOUS
  <2>4. /\ r \in ParseRecord /\ r.at = "reported" /\ r.row = Len(versions) + 1
        /\ r.read = parsing[p].read /\ r.hashes = parsing[p].hashes
    BY <1>p DEF ParseRecord, Ended
  <2>5. parsing' = [parsing EXCEPT ![p] = r] /\ versions' = Append(versions, v)
    BY <1>13 DEF InsertVersion
  <2> HIDE DEF v, r
  <2>6. /\ versions' \in Seq(VersionRow) /\ DOMAIN versions' = 1..Len(versions) + 1
        /\ versions'[Len(versions) + 1] = v
        /\ DOMAIN versions = 1..Len(versions) /\ Len(versions) \in Nat
        /\ \A n \in DOMAIN versions : versions'[n] = versions[n]
    BY <1>0, <2>2, <2>5, AppendProperties
  <2>7. ProfileTypeOK'
    BY <1>0, <1>13, <2>4, <2>5, <2>6 DEF InsertVersion, ProfileTypeOK
  <2>8. ReportsOf(p)'
    <3>1. parsing'[p] = r
      BY <1>0, <2>5
    <3>2. Parsed(p)' = Parsed(p)
      BY <2>4, <3>1 DEF Parsed
    <3>3. parsing'[p].row \in DOMAIN versions' /\ versions'[parsing'[p].row] = v
      BY <2>4, <2>6, <3>1
    <3> QED
      BY <2>3, <2>4, <3>1, <3>2, <3>3 DEF ReportsOf
  <2>9. ASSUME NEW q \in Parsers, q # p PROVE ReportsOf(q)'
    BY <1>0, <2>5, <2>6, <2>9 DEF ReportsOf, ReportInv, Parsed
  <2>10. \A n \in DOMAIN versions' :
           versions'[n].status = "PASSED" <=> Issues(versions'[n].profile, versions'[n].against) = {}
    <3>1. ASSUME NEW n \in DOMAIN versions
          PROVE  versions'[n].status = "PASSED" <=> Issues(versions'[n].profile, versions'[n].against) = {}
      BY <2>6 DEF ReportInv
    <3>2. versions'[Len(versions) + 1].status = "PASSED"
            <=> Issues(versions'[Len(versions) + 1].profile, versions'[Len(versions) + 1].against) = {}
      BY <2>3, <2>6
    <3>3. \A n \in DOMAIN versions' : n \in DOMAIN versions \/ n = Len(versions) + 1
      BY <2>6
    <3> QED
      BY <3>1, <3>2, <3>3
  <2> QED
    BY <2>7, <2>8, <2>9, <2>10 DEF ReportInv, ReportsOf
<1>14. ASSUME NEW p \in Parsers, ParseDies(p) PROVE ReportInv'
  <2>1. disturbances' \in 0..MaxDisturbances
    BY <1>0, <1>14 DEF ParseDies
  <2> QED
    BY <1>4, <1>14, <2>1 DEF ParseDies
<1> QED
  BY <1>1, <1>2, <1>3, <1>5, <1>6, <1>7, <1>8, <1>9, <1>10, <1>11, <1>12, <1>13, <1>14
     DEF ProfileNext, ParseStep

\* "profile parse": the status it reports is true of the profile and the resume
\* it has read, whoever edits and whoever else runs, unless the resume changed
\* between the taking of its text and its hashing.
THEOREM ReportsAreTrue == ProfileSpec => []ReportIsTrue
<1>1. ReportInv => ReportIsTrue
  BY SMTT(30) DEF ReportInv, ReportIsTrue, Untorn
<1> QED
  BY <1>1, ReportInvInit, ReportInvStep, PTL DEF ProfileSpec

-----------------------------------------------------------------------------
(* JobMatching: the shortcut past the model. *)

\* What rounding does to a number that is not negative.
LEMMA RoundedHundredth ==
  ASSUME NEW n \in Nat
  PROVE  Rounded(n, 100) \in Nat /\ 100 * Rounded(n, 100) <= n + 50
BY SMTT(30) DEF Rounded

LEMMA RoundedNat ==
  ASSUME NEW n \in Nat, NEW d \in Nat \ {0}
  PROVE  Rounded(n, d) \in Nat
BY SMTT(30) DEF Rounded

\* The keyword scores of a posting, as far as they bound its overall score.
LEMMA KeywordScores ==
  ASSUME NEW p \in JobPostings
  PROVE  /\ Skills(p) \in Nat /\ Project(p) \in Nat
         /\ Experience(p) \in Nat /\ 25 <= Experience(p) /\ Role(p) \in Nat
         /\ Education(p) \in Nat /\ Education(p) <= 90 /\ Location(p) \in Nat /\ Location(p) <= 90
         /\ Seniority(p) \in Nat /\ Seniority(p) <= 90 /\ Eligibility(p) \in Nat /\ Eligibility(p) <= 80
<1>1. PICK e \in Evidences : p.evidence = e /\ p.inProjects \in 0..Len(e)
  BY DEF JobPostings
<1>2. p.evidence \in Seq({"DEMONSTRATED", "HAS", "ADJACENT", "MISSING"})
  BY <1>1, MatchingAssumption
<1>3. /\ DOMAIN p.evidence = 1..Len(p.evidence) /\ Len(p.evidence) \in Nat
      /\ p.evidence # <<>> => Len(p.evidence) \in Nat \ {0}
  BY <1>2, EmptySeq
<1>4. Candidate.months \in Nat /\ p.years \in Int
  <2>1. Candidate.months \in Nat
    BY MatchingAssumption DEF CandidateProfiles
  <2>2. p.years \in Years
    BY DEF JobPostings
  <2> QED  BY <2>1, <2>2 DEF Years
<1>5. Skills(p) \in Nat
  <2> DEFINE Mentions(level) == {k \in DOMAIN p.evidence : p.evidence[k] = level}
  <2>1. ASSUME NEW level PROVE Cardinality(Mentions(level)) \in Nat
    <3>1. IsFiniteSet(DOMAIN p.evidence)
      <4>1. PICK a \in Int, b \in Int : a = 1 /\ b = Len(p.evidence)
        BY <1>3
      <4>2. IsFiniteSet(a..b)
        BY FS_Interval
      <4> QED  BY <1>3, <4>1, <4>2
    <3>2. Mentions(level) \subseteq DOMAIN p.evidence
      OBVIOUS
    <3> HIDE DEF Mentions
    <3> QED  BY <3>1, <3>2, FS_Subset, FS_CardinalityType
  <2>2. PICK d \in Nat, h \in Nat, a \in Nat :
          /\ d = Cardinality(Mentions("DEMONSTRATED")) /\ h = Cardinality(Mentions("HAS"))
          /\ a = Cardinality(Mentions("ADJACENT"))
    BY <2>1
  <2>3. CASE p.evidence # <<>>
    <3>1. Skills(p) = Rounded(10 * (10 * d + 8 * h + 4 * a), Len(p.evidence))
      BY <2>2, <2>3 DEF Skills, EvidenceWeight
    <3>2. 10 * (10 * d + 8 * h + 4 * a) \in Nat
      OBVIOUS
    <3> QED  BY <1>3, <2>3, <3>1, <3>2, RoundedNat
  <2> QED  BY <2>3 DEF Skills, Neutral
<1>6. Project(p) \in Nat
  <2>1. 100 * p.inProjects \in Nat
    BY <1>1, <1>3
  <2> QED  BY <1>3, <2>1, RoundedNat DEF Project, Neutral
<1>7. Experience(p) \in Nat /\ 25 <= Experience(p)
  BY <1>4 DEF Experience, Neutral
<1>8. /\ Role(p) \in Nat
      /\ Education(p) \in Nat /\ Education(p) <= 90 /\ Location(p) \in Nat /\ Location(p) <= 90
      /\ Seniority(p) \in Nat /\ Seniority(p) <= 90 /\ Eligibility(p) \in Nat /\ Eligibility(p) <= 80
  BY DEF Role, Education, Location, Seniority, Eligibility, Neutral
<1> QED  BY <1>5, <1>6, <1>7, <1>8

\* automation.yaml as it comes with the program; the upper thresholds may be
\* any that are not below the lowest.
ShippedScoring ==
  /\ Weights = [skills |-> 25, experience |-> 20, role |-> 20, project |-> 10, education |-> 10,
                location |-> 5, seniority |-> 5, eligibility |-> 5]
  /\ BlendWeight = 40
  /\ {Save, Review, AutoApply} \subseteq Nat /\ 70 <= Save /\ Save <= Review /\ Save <= AutoApply

\* How much an opinion can lift a score that it refines.
LEMMA BlendBound ==
  ASSUME ShippedScoring, NEW d, NEW k \in Refined, d[k] \in Nat, NEW o \in Opinions
  PROVE  Blend(d, o, k) \in Nat /\ 100 * Blend(d, o, k) <= 60 * d[k] + 4050
<1>1. o \in [Refined -> 0..100]
  BY MatchingAssumption
<1>2. o[k] \in 0..100 /\ DOMAIN o = Refined /\ Refined # {}
  BY <1>1 DEF Refined
<1>3. o # <<>>
  BY <1>2
<1>4. PICK n \in Nat : n = d[k] * 60 + o[k] * 40
  BY <1>2
<1>5. Blend(d, o, k) = Rounded(n, 100)
  BY <1>3, <1>4 DEF Blend, ShippedScoring
<1>6. n <= 60 * d[k] + 4000
  BY <1>2, <1>4
<1> QED  BY <1>5, <1>6, RoundedHundredth

\* The arithmetic of it: the scores that no opinion refines are at their highest.
LEMMA WeighedLow ==
  ASSUME NEW sk \in Nat, NEW pr \in Nat, NEW ex \in Nat, NEW ro \in Nat, ex >= 25, sk + ro + ex + pr < 120,
         NEW be \in Nat, NEW br \in Nat, NEW bp \in Nat,
         100 * be <= 60 * ex + 4050, 100 * br <= 60 * ro + 4050, 100 * bp <= 60 * pr + 4050,
         NEW ed \in Nat, NEW lo \in Nat, NEW se \in Nat, NEW el \in Nat,
         ed <= 90, lo <= 90, se <= 90, el <= 80
  PROVE  sk * 25 + be * 20 + br * 20 + bp * 10 + ed * 10 + lo * 5 + se * 5 + el * 5 < 6900
BY SMTT(30)

\* No opinion lifts an estimate that is too low to ask for one to the lowest
\* threshold.
LEMMA LowStaysLow ==
  ASSUME ShippedScoring, NEW p \in JobPostings, LowEstimate(p), NEW o \in Opinions \cup {<<>>}
  PROVE  Overall(Deterministic(p), o) \in Nat /\ Overall(Deterministic(p), o) < Save
<1> DEFINE d == Deterministic(p)
           weighed == Blend(d, o, "skills") * 25 + Blend(d, o, "experience") * 20 + Blend(d, o, "role") * 20
                        + Blend(d, o, "project") * 10 + Blend(d, o, "education") * 10
                        + Blend(d, o, "location") * 5 + Blend(d, o, "seniority") * 5
                        + Blend(d, o, "eligibility") * 5
<1>1. /\ d.skills \in Nat /\ d.project \in Nat /\ d.experience \in Nat /\ d.role \in Nat
      /\ d.education \in Nat /\ d.location \in Nat /\ d.seniority \in Nat /\ d.eligibility \in Nat
  BY KeywordScores DEF Deterministic
<1>2. /\ d.skills + d.role + d.experience + d.project < 120 /\ 25 <= d.experience
      /\ d.education <= 90 /\ d.location <= 90 /\ d.seniority <= 90 /\ d.eligibility <= 80
  BY KeywordScores DEF Deterministic, LowEstimate, SkipScore
<1>3. d["experience"] = d.experience /\ d["role"] = d.role /\ d["project"] = d.project
  BY DEF Deterministic
<1> HIDE DEF d
<1>4. /\ Blend(d, o, "skills") = d.skills /\ Blend(d, o, "education") = d.education
      /\ Blend(d, o, "location") = d.location /\ Blend(d, o, "seniority") = d.seniority
      /\ Blend(d, o, "eligibility") = d.eligibility
  BY DEF Blend, Refined
<1>5. weighed \in Nat /\ weighed < 6900
  <2>1. PICK sk \in Nat, pr \in Nat, ex \in Nat, ro \in Nat,
             ed \in Nat, lo \in Nat, se \in Nat, el \in Nat :
          /\ sk = d.skills /\ pr = d.project /\ ex = d.experience /\ ro = d.role
          /\ ed = d.education /\ lo = d.location /\ se = d.seniority /\ el = d.eligibility
    BY <1>1
  <2>2. sk + ro + ex + pr < 120 /\ 25 <= ex /\ ed <= 90 /\ lo <= 90 /\ se <= 90 /\ el <= 80
    BY <1>2, <2>1
  <2>3. PICK be, br, bp : /\ be = Blend(d, o, "experience") /\ br = Blend(d, o, "role")
                          /\ bp = Blend(d, o, "project")
    OBVIOUS
  <2>4. weighed = sk * 25 + be * 20 + br * 20 + bp * 10 + ed * 10 + lo * 5 + se * 5 + el * 5
    BY <1>4, <2>1, <2>3
  <2> HIDE DEF weighed
  <2>5. CASE o \in Opinions
    <3>1. d["experience"] \in Nat /\ d["role"] \in Nat /\ d["project"] \in Nat
      BY <1>3, <1>1
    <3>2. /\ be \in Nat /\ 100 * be <= 60 * d["experience"] + 4050
          /\ br \in Nat /\ 100 * br <= 60 * d["role"] + 4050
          /\ bp \in Nat /\ 100 * bp <= 60 * d["project"] + 4050
      <4>1. be \in Nat /\ 100 * be <= 60 * d["experience"] + 4050
        BY <2>3, <2>5, <3>1, BlendBound DEF Refined
      <4>2. br \in Nat /\ 100 * br <= 60 * d["role"] + 4050
        BY <2>3, <2>5, <3>1, BlendBound DEF Refined
      <4>3. bp \in Nat /\ 100 * bp <= 60 * d["project"] + 4050
        BY <2>3, <2>5, <3>1, BlendBound DEF Refined
      <4> QED  BY <4>1, <4>2, <4>3
    <3>3. /\ be \in Nat /\ br \in Nat /\ bp \in Nat
          /\ 100 * be <= 60 * ex + 4050 /\ 100 * br <= 60 * ro + 4050 /\ 100 * bp <= 60 * pr + 4050
      BY <1>3, <2>1, <3>2
    <3>4. sk * 25 + be * 20 + br * 20 + bp * 10 + ed * 10 + lo * 5 + se * 5 + el * 5 < 6900
      <4>1. /\ sk + ro + ex + pr < 120 /\ ex >= 25 /\ ed <= 90 /\ lo <= 90 /\ se <= 90 /\ el <= 80
        BY <2>2
      <4> QED  BY <3>3, <4>1, WeighedLow
    <3>5. sk * 25 + be * 20 + br * 20 + bp * 10 + ed * 10 + lo * 5 + se * 5 + el * 5 \in Nat
      BY <3>3
    <3> QED  BY <2>4, <3>4, <3>5
  <2>6. CASE o = <<>>
    <3>1. be = ex /\ br = ro /\ bp = pr
      BY <2>1, <2>3, <2>6 DEF Blend
    <3>2. sk + ro + ex + pr < 120 /\ ed <= 90 /\ lo <= 90 /\ se <= 90 /\ el <= 80
      BY <2>2
    <3>3. weighed = sk * 25 + ex * 20 + ro * 20 + pr * 10 + ed * 10 + lo * 5 + se * 5 + el * 5
      BY <2>4, <3>1
    <3> QED  BY <3>2, <3>3
  <2> QED  BY <2>5, <2>6
<1>6. Overall(d, o) = Min({100, Rounded(weighed, 100)})
  BY DEF Overall, ShippedScoring
<1> HIDE DEF weighed
<1>7. Rounded(weighed, 100) \in Nat /\ Rounded(weighed, 100) < 70
  <2>1. PICK n \in Nat : n = weighed
    BY <1>5
  <2>2. Rounded(n, 100) \in Nat /\ 100 * Rounded(n, 100) <= n + 50
    BY RoundedHundredth
  <2> QED  BY <1>5, <2>1, <2>2
<1>8. \A n \in Nat : n < 70 => Min({100, n}) = n
  <2> TAKE n \in Nat
  <2> HAVE n < 70
  <2> QED  BY Z3 DEF Min
<1> QED  BY <1>6, <1>7, <1>8 DEF d, ShippedScoring

\* match_job is about the posting that it began with.
MatchInv == match.at # "idle" => ad \in JobPostings

LEMMA MatchInvStep == MatchInv /\ [MatchingNext]_matchingVars => MatchInv'
BY DEF MatchInv, MatchingNext, BeginJob, ScoreJob, Answered, Unavailable, InvalidAnswer, FinalizeJob,
       matchingVars

\* With the weights that the program comes with, the call of the model that a
\* low keyword estimate saves (_SEMANTIC_SKIP_SCORE) would have changed nothing,
\* for every profile, posting and answer of the model.
THEOREM NothingIsLost == ASSUME ShippedScoring PROVE MatchingSpec => []ShortcutLosesNothing
<1>1. MatchingInit => MatchInv
  BY DEF MatchingInit, MatchInv, NoMatch
<1>2. MatchInv => ShortcutLosesNothing
  <2> SUFFICES ASSUME ad \in JobPostings, ~Excluded(ad), ~HardStop(ad), LowEstimate(ad),
                      NEW o \in Opinions \cup {<<>>}
               PROVE  Decide(ad, o) = "SKIP"
    BY DEF MatchInv, ShortcutLosesNothing
  <2>1. PICK score : score = Overall(Deterministic(ad), o)
    OBVIOUS
  <2>2. score \in Nat /\ score < Save
    BY <2>1, LowStaysLow
  <2> QED  BY <2>1, <2>2 DEF Decide, ShippedScoring
<1> QED  BY <1>1, <1>2, MatchInvStep, PTL DEF MatchingSpec

=============================================================================
