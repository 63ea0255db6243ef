---------------------------- MODULE MCDomainCache ----------------------------
(* DomainCache on small instances. *)
EXTENDS DomainCache, TLC

ProcessSymmetry == Permutations(Processes)
=============================================================================
