----------------------------- MODULE MCAIModes -----------------------------
(* Two providers with keys, and the owner of the bot, in workspace mode: a *)
(* text may take any route, and a key may be of either provider.           *)
EXTENDS AIModes
MCProviders == {"claude", "openai"}
MCInstalled == {"claude", "codex"}
=============================================================================
