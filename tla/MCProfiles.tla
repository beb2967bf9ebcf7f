----------------------------- MODULE MCProfiles -----------------------------
(* Instances of Profiles for TLC: two profiles, of which the process was     *)
(* started with the first.                                                   *)
EXTENDS Profiles, TLC

ThreadSymmetry == Permutations(Threads)

=============================================================================
