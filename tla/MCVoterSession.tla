---------------------------- MODULE MCVoterSession ----------------------------
(* VoterSession on small instances. *)
EXTENDS VoterSession, TLC

Symmetry == Permutations(Tabs) \cup Permutations(Slots) \cup Permutations(Candidates)
=============================================================================
