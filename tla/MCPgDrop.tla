------------------------------ MODULE MCPgDrop ------------------------------
EXTENDS PgDrop, TLC

CONSTANTS c1, c2
=============================================================================
