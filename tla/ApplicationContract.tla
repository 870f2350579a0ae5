-------------------------- MODULE ApplicationContract --------------------------
(***************************************************************************)
(* What the candidate may rely on, whatever commands run one after the     *)
(* other and wherever one dies: an application leads one life.  Its status *)
(* moves along the graph; the candidate consents to the letter that is     *)
(* stored for it, a new letter voids every consent, and a consent is good  *)
(* for one sending, while the application is PREPARED.  The answer of the  *)
(* platform is recorded, or lost when the command that has it dies.        *)
(*                                                                         *)
(* The sessions of the commands, the gates and the two steps in which an   *)
(* approval is chosen and spent are not part of it: here a consent is used *)
(* and the letter sent in one step.                                        *)
(***************************************************************************)
EXTENDS Naturals, Sequences

CONSTANTS Jobs, AnswerSets, Open,
          Transitions  \* Transitions[s]: the statuses that may follow s

VARIABLES
  status,   \* the status of the application to each job, or "none"
  letter,   \* the answers stored for it: how often each answer set
  consents, \* the consents ever given: for which job, and whether each is live or void
  calls,    \* how often it was sent
  taken,    \* how often the platform took it
  pending,  \* the answer of the platform that is not recorded yet, or "none"
  lost      \* the answers that never will be

vars == <<status, letter, consents, calls, taken, pending, lost>>

Blank == [v \in AnswerSets |-> 0]

\* The status for an answer of the platform.
Recorded == [accepted |-> "SUBMITTED", unknown |-> "SUBMISSION_UNCERTAIN", refused |-> "FAILED"]

Complete(text) == \A v \in Open : text[v] = 0

Init ==
  /\ status = [j \in Jobs |-> "none"]
  /\ letter = [j \in Jobs |-> Blank]
  /\ consents = <<>>
  /\ calls = [j \in Jobs |-> 0] /\ taken = [j \in Jobs |-> 0] /\ lost = [j \in Jobs |-> 0]
  /\ pending = [j \in Jobs |-> "none"]

Create(j, first) ==
  /\ status[j] = "none"
  /\ first \in {"DISCOVERED", "MATCHED", "HUMAN_REQUIRED", "SKIPPED"}
  /\ status' = [status EXCEPT ![j] = first]
  /\ UNCHANGED <<letter, consents, calls, taken, pending, lost>>

\* PREPARED needs a letter, SUBMITTED and SUBMISSION_UNCERTAIN an answer, and
\* VERIFIED an application that the platform has.
Move(j, target) ==
  /\ status[j] # "none" /\ pending[j] = "none"
  /\ target \in Transitions[status[j]] \ {"PREPARED", "SUBMITTED", "SUBMISSION_UNCERTAIN"}
  /\ target = "VERIFIED" => taken[j] > 0
  /\ status' = [status EXCEPT ![j] = target]
  /\ UNCHANGED <<letter, consents, calls, taken, pending, lost>>

\* A letter is written, which nobody has consented to.
Write(j, target) ==
  /\ status[j] \in {"MATCHED", "HUMAN_REQUIRED"} /\ pending[j] = "none"
  /\ letter'[j] # letter[j]
  /\ letter' = [letter EXCEPT ![j] = letter'[j]]
  /\ target \in {"PREPARED", "HUMAN_REQUIRED"}
  /\ status' = [status EXCEPT ![j] = target]
  /\ consents' = [i \in DOMAIN consents |->
                    IF consents[i].job = j THEN [consents[i] EXCEPT !.state = "void"] ELSE consents[i]]
  /\ UNCHANGED <<calls, taken, pending, lost>>

Consent(j) ==
  /\ status[j] = "PREPARED" /\ Complete(letter[j])
  /\ consents' = Append(consents, [job |-> j, state |-> "live"])
  /\ UNCHANGED <<status, letter, calls, taken, pending, lost>>

\* A consent is revoked, expires, or goes with a command that dies.
Withdraw(i) ==
  /\ consents[i].state = "live"
  /\ consents' = [consents EXCEPT ![i].state = "void"]
  /\ UNCHANGED <<status, letter, calls, taken, pending, lost>>

\* The letter is sent, and the platform takes it or not.
Send(i, answer, took) ==
  LET j == consents[i].job IN
  /\ consents[i].state = "live"
  /\ status[j] = "PREPARED" /\ pending[j] = "none"
  /\ answer = "accepted" => took = 1
  /\ answer = "refused" => took = 0
  /\ consents' = [consents EXCEPT ![i].state = "void"]
  /\ calls' = [calls EXCEPT ![j] = @ + 1]
  /\ taken' = [taken EXCEPT ![j] = @ + took]
  /\ pending' = [pending EXCEPT ![j] = answer]
  /\ UNCHANGED <<status, letter, lost>>

Record(j) ==
  /\ pending[j] # "none"
  /\ status' = [status EXCEPT ![j] = Recorded[pending[j]]]
  /\ pending' = [pending EXCEPT ![j] = "none"]
  /\ UNCHANGED <<letter, consents, calls, taken, lost>>

Lose(j) ==
  /\ pending[j] # "none"
  /\ lost' = [lost EXCEPT ![j] = @ + 1]
  /\ pending' = [pending EXCEPT ![j] = "none"]
  /\ UNCHANGED <<status, letter, consents, calls, taken>>

Next ==
  \/ \E j \in Jobs :
       \/ Consent(j) \/ Record(j) \/ Lose(j)
       \/ \E target \in DOMAIN Transitions : Create(j, target) \/ Move(j, target) \/ Write(j, target)
  \/ \E i \in DOMAIN consents :
       \/ Withdraw(i)
       \/ \E answer \in DOMAIN Recorded, took \in {0, 1} : Send(i, answer, took)

Spec == Init /\ [][Next]_vars
=============================================================================
