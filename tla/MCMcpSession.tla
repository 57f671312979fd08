---------------------------- MODULE MCMcpSession ----------------------------
(* McpSession with two servers, the second with OAuth, one Tool name both   *)
(* may use, the owner and one subagent at a time.                           *)
EXTENDS McpSession
=============================================================================
