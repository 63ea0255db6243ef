-------------------------- MODULE MCVotingSettings --------------------------
(* VotingSettings on small instances. *)
EXTENDS VotingSettings, TLC

ProcessSymmetry == Permutations(Processes)
=============================================================================
