----------------------------- MODULE MCMcpCalls -----------------------------
(***************************************************************************)
(* Instances of McpCalls for TLC.                                          *)
(***************************************************************************)
EXTENDS McpCalls
=============================================================================
