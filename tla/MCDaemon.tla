------------------------------ MODULE MCDaemon ------------------------------
(* Three lives of a daemon, two shells, one hook.                          *)
EXTENDS Daemon, TLC
CONSTANTS d1, d2, d3, k1, k2, h1
MCDaemons == {d1, d2, d3}
MCShells  == {k1, k2}
MCHooks   == {h1}
Symmetry  == Permutations(MCDaemons) \cup Permutations(MCShells)
=============================================================================
