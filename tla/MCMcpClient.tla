----------------------------- MODULE MCMcpClient -----------------------------
EXTENDS McpClient

CONSTANTS c1, c2

TwoCalls == {c1, c2}
===============================================================================
