----------------------------- MODULE MCStudyRun -----------------------------
(* Words of the model-checked instances of the study run. *)
EXTENDS StudyRun

CONSTANTS w1, w2
WordSymmetry == Permutations({w1, w2})
=============================================================================
