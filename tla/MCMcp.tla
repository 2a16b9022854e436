-------------------------------- MODULE MCMcp --------------------------------
(* One user and one MCP server that dies again and again. *)
EXTENDS Mcp
CONSTANT u
=============================================================================
