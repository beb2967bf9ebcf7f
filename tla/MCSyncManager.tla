----------------------------- MODULE MCSyncManager -----------------------------
(* Words of the model-checked instances of the sync manager. *)
EXTENDS SyncManager, TLC

CONSTANTS w1, w2
WordSymmetry == Permutations({w1, w2})
=============================================================================
