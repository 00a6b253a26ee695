--------------------------- MODULE MCOpcuaSession ---------------------------
EXTENDS OpcuaSession

CONSTANTS t1, t2

=============================================================================
