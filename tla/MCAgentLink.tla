----------------------------- MODULE MCAgentLink -----------------------------
(* Two keys, one of them in the agent, two pieces of data to sign or decrypt, *)
(* and up to two operations on one connection.                              *)
EXTENDS AgentLink
=============================================================================
