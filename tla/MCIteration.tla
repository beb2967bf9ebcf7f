----------------------------- MODULE MCIteration -----------------------------
(* Words and snapshots of the model-checked instances of the iteration. *)
EXTENDS Iteration

CONSTANTS w1, w2
Stuck  == [fam |-> 5, reviews |-> 4]
Better == [fam |-> 20, reviews |-> 12]
Strong == [fam |-> 40, reviews |-> 40]
MCProgress == {<<>>, <<Stuck>>, <<Stuck, Better>>}
MCLearned  == {Better, Strong}
WordSymmetry == Permutations({w1, w2})
=============================================================================
