---------------------------- MODULE MCP2PServer ----------------------------
(* P2PServer for TLC.  No symmetry: the run checks liveness.               *)
EXTENDS P2PServer

=============================================================================
