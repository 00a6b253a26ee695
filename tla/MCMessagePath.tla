--------------------------- MODULE MCMessagePath ---------------------------
\* Three mappings of one topic (fan-out), of which one has no node; rules
\* between two topics and to a node.
EXTENDS MessagePath, TLC

CONSTANTS a, b, n, k, t1

FanOut == 1 :> [topic |-> a, key |-> k, node |-> n, store |-> TRUE]
       @@ 2 :> [topic |-> a, key |-> k, node |-> NoNode, store |-> TRUE]
       @@ 3 :> [topic |-> a, key |-> k, node |-> n, store |-> TRUE]

=============================================================================
