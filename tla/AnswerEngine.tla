------------------------------ MODULE AnswerEngine ------------------------------
(***************************************************************************)
(* How the questions of one form are answered                              *)
(* (applications/answer_engine.py, answer_bank.py, answer_validator.py,    *)
(* llm/provider.py), and how a person's own answers are laid over the      *)
(* result (human_input.py).                                                *)
(*                                                                         *)
(* A question is the set of key phrases that its text contains; a draft of *)
(* the language model is the set of claims that it makes.                  *)
(***************************************************************************)
EXTENDS Integers, Sequences, FiniteSets, SequencesExt

CONSTANTS
  HardPhrases,     \* the phrases of the SALARY, VISA, LEGAL and DEMOGRAPHIC questions
  FactPhrases,     \* "full name", "email", ..., in the order of the table
  VerifiedFacts,   \* those whose fact is verified and known
  EmployerPhrase,  \* "current company", "current employer"
  SlugPhrases,     \* the phrases of the answer bank's slugs, in the order of the table
  BankEntries,     \* the slugs with a file in candidate/answers
  BankHuman,       \* the entries that say requires_human
  PlainPhrase,     \* a phrase that no table has
  Claims,          \* what a draft may claim
  Checkable,       \* a name of two capitalized words, or a number of two digits
  KnownClaims,     \* what the profile or the resume says
  MaxQuestions     \* bound: questions on a form

Phrases == HardPhrases \cup ToSet(FactPhrases) \cup {EmployerPhrase} \cup ToSet(SlugPhrases)
             \cup {PlainPhrase}

ASSUME AnswerAssumption ==
  /\ VerifiedFacts \subseteq ToSet(FactPhrases)
  /\ BankHuman \subseteq BankEntries /\ BankEntries \subseteq ToSet(SlugPhrases)
  /\ "none" \notin Phrases
  /\ Checkable \subseteq Claims /\ KnownClaims \subseteq Claims
  /\ MaxQuestions \in Nat

VARIABLES
  form,      \* the questions, in the order of the form
  engine,    \* "asking" for a form, "answering", "drafting" an answer, "done"
  attempt,   \* attempts at the draft of this question
  generated, \* the answers as generate_answer returned them
  given      \* the answers after the human's are laid over

answerVars == <<form, engine, attempt, generated, given>>

Questions == {q \in SUBSET Phrases : q # {} /\ Cardinality(q) <= 2}

\* text: who wrote the answer; claims: what it says.
Human(source)        == [source |-> source, human |-> TRUE, text |-> "none", claims |-> {}]
Answer(source, text) == [source |-> source, human |-> FALSE, text |-> text, claims |-> {}]

AnswersIn(s) == \A i \in DOMAIN s :
                  /\ s[i].source \in {"hard_block", "fact", "no_fact", "employer", "bank",
                                      "unavailable", "invalid", "llm", "human_input"}
                  /\ s[i].human \in BOOLEAN /\ s[i].claims \subseteq Claims
                  /\ s[i].human = (s[i].text = "none")

AnswerTypeOK ==
  /\ form \in Seq(Questions)
  /\ engine \in {"asking", "answering", "drafting", "done"} /\ attempt \in 0..2
  /\ AnswersIn(generated) /\ AnswersIn(given)

AnswerInit ==
  form = <<>> /\ engine = "asking" /\ attempt = 0 /\ generated = <<>> /\ given = <<>>

Question == form[Len(generated) + 1]

AskQuestion(q) ==
  /\ engine = "asking" /\ Len(form) < MaxQuestions
  /\ form' = Append(form, q)
  /\ UNCHANGED <<engine, attempt, generated, given>>

FormRead ==
  /\ engine = "asking" /\ form # <<>>
  /\ engine' = "answering"
  /\ UNCHANGED <<form, attempt, generated, given>>

Give(a) == generated' = Append(generated, a) /\ engine' = "answering" /\ attempt' = 0

-----------------------------------------------------------------------------
(* generate_answer: the tiers, in their order. *)

\* The first phrase of a table that the question contains, or "none".
FirstOf(table, q) ==
  LET hits == {i \in DOMAIN table : table[i] \in q}
  IN IF hits = {} THEN "none" ELSE table[CHOOSE i \in hits : \A j \in hits : i <= j]

HardBlocked(q) == q \cap HardPhrases # {}

MutantTiers(q) ==
  LET fact == FirstOf(FactPhrases, q)
      slug == FirstOf(SlugPhrases, q)
  IN IF HardBlocked(q)             THEN Human("hard_block")
     ELSE IF fact \in VerifiedFacts THEN Answer("fact", fact)
     ELSE IF fact # "none"          THEN Human("no_fact")
     ELSE IF slug \in BankHuman     THEN Human("bank")
     ELSE IF slug \in BankEntries   THEN Answer("bank", slug)
     ELSE IF EmployerPhrase \in q   THEN Human("employer")
     ELSE Human("none")

\* What the tables say; "none" if none of them says anything.
Tiers(q) ==
  LET fact == FirstOf(FactPhrases, q)
      slug == FirstOf(SlugPhrases, q)
  IN IF HardBlocked(q)             THEN Human("hard_block")
     ELSE IF fact \in VerifiedFacts THEN Answer("fact", fact)
     ELSE IF fact # "none"          THEN Human("no_fact")
     ELSE IF EmployerPhrase \in q   THEN Human("employer")
     ELSE IF slug \in BankHuman     THEN Human("bank")
     ELSE IF slug \in BankEntries   THEN Answer("bank", slug)
     ELSE Human("none")

AnswerFromTables ==
  /\ engine = "answering" /\ Len(generated) < Len(form)
  /\ IF Tiers(Question).source = "none"
     THEN engine' = "drafting" /\ attempt' = 1 /\ UNCHANGED generated
     ELSE Give(Tiers(Question))
  /\ UNCHANGED <<form, given>>

\* validate_generated_answer looks at what can be checked.
Validated(claims) == claims \cap Checkable \subseteq KnownClaims

Draft(claims) ==
  /\ engine = "drafting"
  /\ Give(IF Validated(claims) THEN [Answer("llm", "draft") EXCEPT !.claims = claims]
          ELSE Human("llm"))
  /\ UNCHANGED <<form, given>>

\* No provider is configured.
NoModel ==
  /\ engine = "drafting" /\ attempt = 1
  /\ Give(Human("unavailable"))
  /\ UNCHANGED <<form, given>>

MutantDraftInvalid ==
  /\ engine = "drafting"
  /\ IF attempt > 2 THEN Give(Human("invalid"))
     ELSE attempt' = attempt + 1 /\ UNCHANGED <<engine, generated>>
  /\ UNCHANGED <<form, given>>

\* The call fails, or its answer does not fit: once more.
DraftInvalid ==
  /\ engine = "drafting"
  /\ IF attempt = 2 THEN Give(Human("invalid")) ELSE attempt' = 2 /\ UNCHANGED <<engine, generated>>
  /\ UNCHANGED <<form, given>>

-----------------------------------------------------------------------------
(* apply_human_input_overrides: the person names questions by their text. *)

Overridden(a, q, named) ==
  IF q \in named /\ a.human THEN Answer("human_input", "typed") ELSE a

LayOver(named) ==
  /\ engine = "answering" /\ Len(generated) = Len(form)
  /\ given' = [i \in DOMAIN generated |-> Overridden(generated[i], form[i], named)]
  /\ engine' = "done"
  /\ UNCHANGED <<form, attempt, generated>>

AnswerNext ==
  \/ \E q \in Questions : AskQuestion(q)
  \/ FormRead \/ AnswerFromTables \/ NoModel \/ DraftInvalid
  \/ \E c \in SUBSET Claims : Draft(c)
  \/ \E named \in SUBSET ToSet(form) : LayOver(named)

AnswerSpec == AnswerInit /\ [][AnswerNext]_answerVars

-----------------------------------------------------------------------------
(* Properties. *)

\* Whatever else its text mentions, a question of salary, visa, law or
\* demography, and one about the current employer, is answered by the person
\* or by nobody: neither the bank nor the model is let near it ("no exceptions,
\* no LLM override"; "before the answer bank or the LLM is ever consulted").
\* The profile answers for the employer question that also names a fact.
ProtectedQuestionsStayHuman ==
  \A i \in DOMAIN given :
     /\ HardBlocked(form[i]) => given[i].human \/ given[i].source = "human_input"
     /\ EmployerPhrase \in form[i] => given[i].source \notin {"bank", "llm"}

=============================================================================
