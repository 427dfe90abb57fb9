------------------------------ MODULE MCHostRepo ------------------------------
(* Symmetry for the instances of HostRepo.tla checked by TLC. *)
EXTENDS HostRepo, TLC

CONSTANTS w1, w2, h1, h2

Workers == {w1, w2}
Hosts == {h1, h2}

Symmetry == Permutations(Workers) \cup Permutations(Hosts)
===============================================================================
