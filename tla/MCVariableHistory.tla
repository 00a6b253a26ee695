------------------------- MODULE MCVariableHistory -------------------------
\* Two nodes; a node can be selected again under a new id.
EXTENDS VariableHistory, TLC

CONSTANTS i1, i2, x, y

=============================================================================
