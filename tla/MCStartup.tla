----------------------------- MODULE MCStartup ------------------------------
(* Instances of Startup for TLC: three processes, two migrations, of which   *)
(* the second is the one that fills baselines.                               *)
EXTENDS Startup, TLC

ProcessSymmetry == Permutations(Processes)

=============================================================================
