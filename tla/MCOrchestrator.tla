-------------------------- MODULE MCOrchestrator --------------------------
(* Orchestrator on a small instance.  The ids of each kind are alike, so   *)
(* the safety run may take one representative of each permutation.         *)
EXTENDS Orchestrator, TLC

Symmetric == Permutations(Users) \cup Permutations(Machines)
               \cup Permutations(Volumes) \cup Permutations(Tokens)
               \cup Permutations(Starters)
=============================================================================
