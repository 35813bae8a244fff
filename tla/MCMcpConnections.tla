------------------------- MODULE MCMcpConnections --------------------------
EXTENDS McpConnections
=============================================================================
