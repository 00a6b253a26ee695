---------------------------- MODULE MCDhcpLeases ----------------------------
EXTENDS DhcpLeases, TLC

CONSTANTS c1, c2, c3

Symmetry == Permutations(Clients)

=============================================================================
