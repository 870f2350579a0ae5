------------------------ MODULE MCApplicationLifecycle ------------------------
(* Instances of ApplicationLifecycle for TLC. *)
EXTENDS ApplicationLifecycleProperties, TLC

CONSTANTS q1, q2, q3

\* Two addresses of one posting, as a tracking parameter makes them; q3 is another.
OneFingerprint == [q \in Postings |-> IF q = q3 THEN q3 ELSE q1]

\* All jobs are at one company, and come from one source.
Same == [j \in Jobs |-> "one"]

Symmetry == Permutations(Procs) \cup Permutations(Jobs) \cup Permutations(AnswerSets \ Open)

-----------------------------------------------------------------------------
(* One process: one application with everything that can happen to it, or two
   that compete for the limits.  The second job is another posting, and a good
   match. *)

First == CHOOSE j \in Jobs : TRUE

MCInit ==
  /\ Init
  /\ posting = [j \in Jobs |-> IF j = First THEN q1 ELSE q3]
  /\ \A j \in Jobs \ {First} : decision[j] = "APPLY"

Begun == {j \in Jobs : status[j] # "none"}

Bounded ==
  /\ Begun # {} => First \in Begun
  /\ \A j \in Jobs \ {First} : posting[j] = q3 /\ decision[j] = "APPLY"
  /\ posting[First] # q3
  /\ \A i \in DOMAIN listings : listings[i].posting = q3 => Cardinality(Begun) > 1
  /\ Cardinality(Begun) > 1 =>
       /\ rescans + deaths = 0
       /\ \A j \in Jobs : \A v \in AnswerSets : answers[j][v] <= (IF v \in Open THEN 0 ELSE 1)
       /\ \A i \in DOMAIN approvals : approvals[i].state # "void"
       /\ \A i \in DOMAIN listings : listings[i].live

MCSpec == MCInit /\ [][Next]_vars
=============================================================================
