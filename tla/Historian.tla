----------------------------- MODULE Historian -----------------------------
(***************************************************************************)
(* What the gateway promises of the stored history of a PLC variable: the  *)
(* stored values are values the PLC has had, in the order in which it had  *)
(* them, and a value is stored again only after monitoring was restarted.  *)
(* The n-th value of a node is written n: a PLC that changes counts on.    *)
(***************************************************************************)
EXTENDS Integers, Sequences

CONSTANTS Ids, Nodes, NoNode

VARIABLES
    plc,     \* the value each node of the PLC has now
    node,    \* the node each variable of the gateway stands for
    log,     \* the values stored for each variable
    fresh    \* the gateway does not know what it has stored last

None == -1
Last(s) == IF s = <<>> THEN None ELSE s[Len(s)]

Init ==
    /\ plc = [n \in Nodes |-> 0]
    /\ node = [i \in Ids |-> NoNode]
    /\ log = [i \in Ids |-> <<>>]
    /\ fresh = [i \in Ids |-> TRUE]

Change(n) ==
    /\ plc' = [plc EXCEPT ![n] = @ + 1]
    /\ UNCHANGED <<node, log, fresh>>

Register(i, n) ==
    /\ node[i] = NoNode
    /\ node' = [node EXCEPT ![i] = n]
    /\ UNCHANGED <<plc, log, fresh>>

Record(i) ==
    /\ node[i] # NoNode
    /\ \E v \in 0..plc[node[i]] :
          /\ Last(log[i]) < v \/ (fresh[i] /\ Last(log[i]) = v)
          /\ log' = [log EXCEPT ![i] = Append(@, v)]
    /\ UNCHANGED <<plc, node, fresh>>

Know(i) ==
    /\ fresh' = [fresh EXCEPT ![i] = FALSE]
    /\ UNCHANGED <<plc, node, log>>

Forget ==
    /\ fresh' = [i \in Ids |-> TRUE]
    /\ UNCHANGED <<plc, node, log>>

Next ==
    \/ \E n \in Nodes : Change(n)
    \/ \E i \in Ids, n \in Nodes : Register(i, n)
    \/ \E i \in Ids : Record(i) \/ Know(i)
    \/ Forget

vars == <<plc, node, log, fresh>>
Spec == Init /\ [][Next]_vars

=============================================================================
