----------------------------- MODULE RuleTarget -----------------------------
(***************************************************************************)
(* A bridge rule that writes to the PLC under a browse name: the first     *)
(* message searches the address space for the variable, which is chosen    *)
(* only if the name settles it, and remembered with the rule; each message *)
(* is then written to it (mqtt_service.py).  The page for diagnosis calls  *)
(* the same write.                                                         *)
(***************************************************************************)
EXTENDS OpcuaSearch, PlcWrite

CONSTANT None    \* the rule has no target_opcua_node_id
ASSUME NoneAssumption == None \notin Nodes

VARIABLES
    at,        \* what the message the rule works on waits for
    target     \* target_opcua_node_id

vars == <<searchVars, writeVars, at, target>>

TypeOK ==
    /\ SearchTypeOK
    /\ node \in NodeTypes /\ variant \in Types /\ step \in WriteSteps
    /\ valueOnly \in BOOLEAN /\ lost \in BOOLEAN
    /\ at \in {"idle", "search", "chosen", "write", "diagnose"}
    /\ target \in Matching \cup {None}

Init == NoSearch /\ NoWrite /\ at = "idle" /\ target = None

\* A message comes in for a rule without a node id, or with one.  (Without a
\* connection it is given up: nothing changes.)
MessageUnresolved ==
    /\ at = "idle" /\ target = None
    /\ at' = "search" /\ StartSearch
    /\ UNCHANGED <<writeVars, target>>

MessageResolved(m) ==
    /\ at = "idle" /\ target # None
    /\ at' = "write" /\ StartWrite(Coerced(m))
    /\ UNCHANGED <<searchVars, target>>

SearchTurn ==
    /\ at = "search" /\ \E n \in Nodes : Visit(n)
    /\ UNCHANGED <<writeVars, at, target>>

\* Mutant: the first match is as good as any.
ChosenAny == found

\* The one exact match, or else the one match there is
Chosen ==
    LET exact == found \cap Exact IN
    IF Cardinality(exact) = 1 THEN exact
    ELSE IF Cardinality(found) = 1 THEN found ELSE {}

\* The search is over.  What it leaves undecided is given up for this message.
Resolve ==
    /\ at = "search" /\ ~More
    /\ \/ Chosen # {} /\ target' \in Chosen /\ at' = "chosen" /\ UNCHANGED searchVars
       \/ Chosen = {} /\ at' = "idle" /\ EndSearch /\ UNCHANGED target
    /\ UNCHANGED writeVars

WriteResolved(m) ==
    /\ at = "chosen"
    /\ at' = "write" /\ StartWrite(Coerced(m)) /\ EndSearch
    /\ UNCHANGED target

\* By now the client is not connected.
WriteSkipped ==
    /\ at = "chosen"
    /\ at' = "idle" /\ EndSearch
    /\ UNCHANGED <<writeVars, target>>

Writing ==
    /\ at \in {"write", "diagnose"} /\ WriteStep
    /\ UNCHANGED <<searchVars, at, target>>

MessageDone ==
    /\ at = "write" /\ step \in {"ok", "error"}
    /\ at' = "idle" /\ EndWrite
    /\ UNCHANGED <<searchVars, target>>

\* POST /opcua/diagnostics/write: a value of the request's, as it is
Diagnose(p) ==
    /\ at = "idle"
    /\ at' = "diagnose" /\ StartWrite(p)
    /\ UNCHANGED <<searchVars, target>>

\* and it is read back, which changes nothing.
Readback ==
    /\ at = "diagnose" /\ step \in {"ok", "error"}
    /\ at' = "idle" /\ EndWrite
    /\ UNCHANGED <<searchVars, target>>

Next ==
    \/ MessageUnresolved \/ SearchTurn \/ Resolve
    \/ \E m \in Messages : MessageResolved(m) \/ WriteResolved(m)
    \/ WriteSkipped \/ Writing \/ MessageDone
    \/ \E p \in Payloads : Diagnose(p)
    \/ Readback

Spec == Init /\ [][Next]_vars

\* The variable a rule settles on after a search that nothing cut short is the
\* only one of that name within reach, or the only match at all, so that no
\* message goes to a namesake (mqtt_service.py:518-530)
ResolvedUnambiguously ==
    at = "chosen" /\ pending = {} /\ ~failed =>
        LET reach == {n \in Matching : InReach(n)} IN
        \/ reach \cap Exact = {target}
        \/ reach = {target}

=============================================================================
