-------------------------- MODULE MCTerminalServer --------------------------
(* Two connections and two process ids for TerminalServer.                 *)
EXTENDS TerminalServer, TLC
CONSTANTS c1, c2, p1, p2
MCConns == {c1, c2}
MCPids  == {p1, p2}
Symmetry == Permutations(MCConns) \cup Permutations(MCPids)
=============================================================================
