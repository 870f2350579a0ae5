--------------------------- MODULE DeliveryContract ---------------------------
(***************************************************************************)
(* What the pipeline promises about a video, whoever processes it, however *)
(* often it is retried and whenever the application dies: the sheet only   *)
(* lists what is on Drive, COMPLETED is only said of a video that is       *)
(* delivered, DUPLICATE only of a video whose content is on Drive.  The    *)
(* phase of a job is what its row in the jobs table tells the operator.    *)
(***************************************************************************)
CONSTANTS Jobs, Contents, Content, SheetConfigured

VARIABLES phase,  \* unseen, open, completed, duplicate, attention, forgotten
          stored, \* the jobs with a file on Drive
          listed  \* the jobs with a row in the sheet

vars == <<phase, stored, listed>>

Phases == {"unseen", "open", "completed", "duplicate", "attention", "forgotten"}

Delivered(j) == j \in stored /\ (SheetConfigured => j \in listed)

Copied(j) == \E k \in stored : Content[k] = Content[j]

Init ==
  /\ phase = [j \in Jobs |-> "unseen"]
  /\ stored = {}
  /\ listed = {}

Arrive(j) ==
  /\ phase[j] = "unseen"
  /\ phase' = [phase EXCEPT ![j] = "open"]
  /\ UNCHANGED <<stored, listed>>

Store(j) ==
  /\ phase[j] # "unseen"
  /\ stored' = stored \cup {j}
  /\ UNCHANGED <<phase, listed>>

List(j) ==
  /\ j \in stored
  /\ listed' = listed \cup {j}
  /\ UNCHANGED <<phase, stored>>

\* A result is reported, or taken back when the video is worked on again.
Report(j, result) ==
  /\ phase[j] # "unseen"
  /\ result = "completed" => Delivered(j)
  /\ result = "duplicate" => Copied(j)
  /\ phase' = [phase EXCEPT ![j] = result]
  /\ UNCHANGED <<stored, listed>>

\* Rows of finished videos may be dropped from the working table.
Forget(S) ==
  /\ \A j \in S : phase[j] \in {"completed", "duplicate"}
  /\ phase' = [j \in Jobs |-> IF j \in S THEN "forgotten" ELSE phase[j]]
  /\ UNCHANGED <<stored, listed>>

Next ==
  \/ \E j \in Jobs :
       \/ Arrive(j) \/ Store(j) \/ List(j)
       \/ \E result \in Phases \ {"unseen", "forgotten"} : Report(j, result)
  \/ \E S \in SUBSET Jobs : Forget(S)

Spec == Init /\ [][Next]_vars
=============================================================================
