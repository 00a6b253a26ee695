---------------------------- MODULE OpcuaSearch ----------------------------
(***************************************************************************)
(* search_variables of the gateway's OPC UA client: a breadth-first walk   *)
(* through the server's address space, bounded in depth, in nodes and in   *)
(* results, in which every read of a node may fail and is then passed over.*)
(*                                                                         *)
(* The queue of (node, depth) and the set of visited nodes are kept as the *)
(* level at which each node was queued and the set of those still queued.  *)
(* The queue hands out nodes level by level; the order within a level is   *)
(* the server's and left open.  A node of another class (a method, a type) *)
(* is neither matched nor entered, as a variable of another name.          *)
(***************************************************************************)
EXTENDS Integers, FiniteSets

CONSTANTS
    Objects, Root,    \* objects, views and folders, and the start node i=85
    Exact,            \* variables whose browse name is the text searched for
    Similar,          \* variables whose browse name contains it
    Other,            \* variables of any other name
    Spaces,           \* the address spaces: of each object, its children
    MaxResults, MaxDepth, MaxNodes    \* the limits of the search

Matching == Exact \cup Similar
Nodes == Objects \cup Matching \cup Other
ASSUME SearchAssumption ==
    /\ Root \in Objects
    /\ Objects \cap (Matching \cup Other) = {} /\ Other \cap Matching = {}
    /\ Exact \cap Similar = {}
    /\ Spaces \subseteq [Objects -> SUBSET Nodes]
    /\ MaxDepth \in Nat /\ MaxResults \in Nat \ {0} /\ MaxNodes \in Nat \ {0}

VARIABLES
    children,    \* the address space the search walks through
    level,       \* the depth at which a node was queued, Unseen before
    pending,     \* the nodes still queued
    found,       \* results
    processed,   \* nodes_processed
    failed       \* history: a read of a node failed

searchVars == <<children, level, pending, found, processed, failed>>

Unseen == MaxDepth + 1
NoSpace == [o \in Objects |-> {}]

SearchTypeOK ==
    /\ children \in [Objects -> SUBSET Nodes]
    /\ level \in [Nodes -> 0..Unseen]
    /\ pending \subseteq Nodes
    /\ found \subseteq Nodes
    /\ processed \in 0..MaxNodes
    /\ failed \in BOOLEAN

\* No search is under way; its queue, its results and what it met are gone
NoSearch ==
    /\ children = NoSpace
    /\ level = [n \in Nodes |-> Unseen]
    /\ pending = {} /\ found = {} /\ processed = 0 /\ failed = FALSE

StartSearch ==
    /\ children' \in Spaces
    /\ level' = [n \in Nodes |-> IF n = Root THEN 0 ELSE Unseen]
    /\ pending' = {Root}
    /\ found' = {} /\ processed' = 0 /\ failed' = FALSE

EndSearch ==
    /\ children' = NoSpace
    /\ level' = [n \in Nodes |-> Unseen]
    /\ pending' = {} /\ found' = {} /\ processed' = 0 /\ failed' = FALSE

-----------------------------------------------------------------------------

\* Mutant: the walk has no limit on nodes.
MoreUnlimited == pending # {} /\ Cardinality(found) < MaxResults

\* while queue and len(results) < max_results and nodes_processed < max_nodes
More ==
    /\ pending # {}
    /\ Cardinality(found) < MaxResults
    /\ processed < MaxNodes

\* Mutant: the queue is a stack of its latest nodes.
NextInLineStack(n) == n \in pending /\ \A m \in pending : level[m] <= level[n]

\* queue.pop(0)
NextInLine(n) == n \in pending /\ \A m \in pending : level[n] <= level[m]

\* Mutant: the children of the last level are queued too.
EntersLast(n) == n \in Objects

Enters(n) == n \in Objects /\ level[n] < MaxDepth

\* The children that have not been queued before
Fresh(n) == {m \in children[n] : level[m] = Unseen}

\* One turn of the loop.  Whether its class, its name or its children cannot
\* be read, a node that fails adds neither a result nor children.
Visit(n) ==
    /\ More /\ NextInLine(n)
    /\ processed' = processed + 1
    /\ UNCHANGED children
    /\ \/ /\ failed' = TRUE
          /\ pending' = pending \ {n}
          /\ UNCHANGED <<level, found>>
       \/ LET fresh == IF Enters(n) THEN Fresh(n) ELSE {} IN
          /\ pending' = (pending \ {n}) \cup fresh
          /\ level' = [m \in Nodes |-> IF m \in fresh THEN level[n] + 1 ELSE level[m]]
          /\ found' = found \cup ({n} \cap Matching)
          /\ UNCHANGED failed

-----------------------------------------------------------------------------
(* What a search promises *)

\* In the address space c there is a way of k steps from the start node to n,
\* through objects
Way(c, n, k) ==
    \E p \in [0..k -> Nodes] :
        /\ p[0] = Root /\ p[k] = n
        /\ \A i \in 0..k - 1 : p[i] \in Objects /\ p[i + 1] \in c[p[i]]

InReach(n) == \E k \in 0..MaxDepth : Way(children, n, k)

\* Whatever fails on the way, each result is a variable of a matching name
\* that lies within the depth asked for (opcua_client_service.py:783-825)
FoundInReach == \A n \in found : n \in Matching /\ InReach(n)

\* A search that no failure and no limit cut short has found every match
\* within its depth, although a node is queued once only, at the depth at
\* which it is met first (opcua_client_service.py:818-824)
FoundAll ==
    pending = {} /\ ~failed => \A n \in Matching : InReach(n) => n \in found

=============================================================================
