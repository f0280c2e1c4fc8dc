---------------------------- MODULE MCAgentMail ----------------------------
(* One agent that writes two messages, in one second or in two, for two    *)
(* admins.                                                                 *)
EXTENDS AgentMail
CONSTANTS a1, u1, u2
MCAgents == {a1}
MCUsers  == {u1, u2}
=============================================================================
