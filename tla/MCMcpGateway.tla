---------------------------- MODULE MCMcpGateway ----------------------------
(* Small instances of McpGateway: two concurrent requests.                 *)
EXTENDS McpGateway

CONSTANTS q1, q2
=============================================================================
