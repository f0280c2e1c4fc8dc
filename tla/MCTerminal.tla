----------------------------- MODULE MCTerminal -----------------------------
(* Instances of TerminalClient, and with it TerminalServer, for TLC.       *)
EXTENDS TerminalClient
CONSTANTS c1, p1
MCConns == {c1}
MCPids  == {p1}
=============================================================================
