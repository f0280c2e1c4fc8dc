----------------------- MODULE MCWorkspaceOnboarding -----------------------
(* WorkspaceOnboarding on a small instance.                                *)
EXTENDS WorkspaceOnboarding, TLC

Symmetric == Permutations(Machines) \cup Permutations(Volumes)
               \cup Permutations(Workers)
=============================================================================
