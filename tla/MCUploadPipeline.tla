--------------------------- MODULE MCUploadPipeline ---------------------------
(* Instances of UploadPipeline for TLC. *)
EXTENDS UploadPipelineProperties, TLC

\* All videos are copies of one.
OneContent == [j \in Jobs |-> CHOOSE c \in Contents : TRUE]

\* Jobs with equal digests, and objects, are interchangeable.
Symmetry == Permutations(Jobs) \cup Permutations(Objects)

\* Two videos that nothing disturbs, or one with the operator and failing writes;
\* which of two equal videos comes first makes no difference.  The constraint only cuts
\* moves of those that are under no obligation: what fairness asks for is still possible.
Known == {j \in Jobs : disk[j] # "absent"}
First == CHOOSE j \in Jobs : TRUE
Bounded ==
  /\ Known # {} => First \in Known
  /\ interventions + dbErrors <= 1
  /\ Cardinality(Known) > 1 => interventions + dbErrors + pauses = 0
=============================================================================
