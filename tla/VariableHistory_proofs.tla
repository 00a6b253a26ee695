----------------------- MODULE VariableHistory_proofs -----------------------
(***************************************************************************)
(* For every set of variables and nodes and all bounds: the types, what    *)
(* previous_values knows, and that the monitoring thread and the requests  *)
(* implement the Historian.                                                *)
(***************************************************************************)
EXTENDS VariableHistory, SequenceTheorems, TLAPS

\* A variable that is polled has a node.
HasNode ==
    /\ \A i \in table \cup todo : node[i] # NoNode
    /\ at \in {"write", "remember"} =>
          current \in Ids /\ node[current] # NoNode /\ value \in Values

TypeInv == TypeOK /\ HasNode

LEMMA TypeStep == ASSUME TypeInv, [Next]_vars PROVE TypeInv'
<1> USE Assumptions DEF TypeInv, TypeOK, HasNode, Values, None
<1>1. ASSUME NEW i \in Ids, NEW n \in Nodes, NEW stored \in BOOLEAN,
             Select(i, n) \/ AddManual(i, n, stored)
      PROVE  TypeInv'
  BY <1>1 DEF Select, InsertDefault, AddManual, Insert, threadVars
<1>2. ASSUME NEW i \in Ids, Remove(i) PROVE TypeInv'
  BY <1>2 DEF Remove, DeleteRow, threadVars
<1>3. CASE Start BY <1>3 DEF Start, tableVars, Steps
<1>4. CASE StopFlag
  <2>1. stops' \in 0..MaxStops BY <1>4 DEF StopFlag
  <2>2. QED BY <1>4, <2>1 DEF StopFlag, tableVars
<1>5. CASE StopClear BY <1>5 DEF StopClear, tableVars
<1>6. CASE Test BY <1>6 DEF Test, tableVars, Steps
<1>7. CASE List BY <1>7 DEF List, Listed, tableVars, Steps
<1>8. CASE Poll
  <2>1. CASE todo = {} /\ at' = "test" /\ UNCHANGED <<todo, current, value, fails>>
    BY <1>8, <2>1 DEF Poll, tableVars, Steps
  <2>2. ASSUME NEW i \in todo, todo' = todo \ {i}, current' = i, value' = plc[node[i]],
               at' \in {"write", "poll"}, UNCHANGED fails
        PROVE  TypeInv'
    BY <1>8, <2>2 DEF Poll, tableVars, Steps
  <2>3. ASSUME NEW i \in todo, todo' = todo \ {i}, current' = i, fails < MaxFails,
               fails' = fails + 1, UNCHANGED <<at, value>>
        PROVE  TypeInv'
    BY <1>8, <2>3 DEF Poll, tableVars, Steps
  <2>4. QED BY <1>8, <2>1, <2>2, <2>3 DEF Poll
<1>9. CASE Write
  <2>1. log' \in [Ids -> Seq(Values)]
    <3>1. Append(log[current], value) \in Seq(0..MaxChanges)
      BY <1>9 DEF Write, WriteSensorData
    <3>2. QED BY <1>9, <3>1 DEF Write, WriteSensorData
  <2>2. QED BY <1>9, <2>1 DEF Write, WriteSensorData, tableVars, Steps
<1>10. CASE Remember BY <1>10 DEF Remember, tableVars, Steps
<1>11. ASSUME NEW n \in Nodes, Change(n) PROVE TypeInv'
  BY <1>11 DEF Change, tableVars, threadVars
<1>12. CASE UNCHANGED vars
  BY <1>12 DEF vars, tableVars, threadVars
<1> HIDE DEF TypeInv, TypeOK, HasNode, Values, None
<1>13. QED
  BY <1>1, <1>2, <1>3, <1>4, <1>5, <1>6, <1>7, <1>8, <1>9, <1>10, <1>11, <1>12
     DEF Next, Request, Thread

LEMMA TypeInit == ASSUME Init PROVE TypeInv
<1>1. fails \in 0..MaxFails /\ stops \in 0..MaxStops /\ 0 \in Values
  BY Assumptions DEF Init, Values
<1>2. log \in [Ids -> Seq(Values)] /\ plc \in [Nodes -> Values]
  BY <1>1 DEF Init
<1>3. TypeOK BY <1>1, <1>2 DEF Init, TypeOK, Steps, None
<1>4. QED BY <1>3 DEF Init, TypeInv, HasNode

\* VariableHistory: every value has its type.
THEOREM TypeCorrect == Spec => []TypeOK
<1>1. TypeInv => TypeOK BY DEF TypeInv
<1>2. QED BY <1>1, TypeInit, TypeStep, PTL DEF Spec

-----------------------------------------------------------------------------
(* The implementation of the Historian.                                    *)

\* What the thread holds or has remembered is not newer than the PLC and not
\* older than what is stored; a value on its way into the table is newer than
\* the last one stored, or the previous value has been cleared.
HistoryInv ==
    /\ \A i \in Ids : node[i] # NoNode =>
          /\ Last(log[i]) <= plc[node[i]]
          /\ previous[i] <= plc[node[i]]
          /\ \/ previous[i] = None
             \/ Last(log[i]) <= previous[i]
             \/ at = "remember" /\ current = i
    /\ \A i \in Ids : node[i] = NoNode => previous[i] = None /\ log[i] = <<>>
    /\ at \in {"write", "remember"} =>
          value <= plc[node[current]] /\ Last(log[current]) <= value
    /\ at = "write" /\ previous[current] # None => previous[current] < value

LEMMA LastType == ASSUME NEW s \in Seq(Values) PROVE Last(s) \in Values \cup {None}
BY DEF Last

LEMMA LastAppend == ASSUME NEW s \in Seq(Values), NEW v \in Values
                    PROVE  Last(Append(s, v)) = v
BY DEF Last

LEMMA HistoryStep == ASSUME TypeInv, HistoryInv, [Next]_vars PROVE HistoryInv'
<1> USE Assumptions, LastType DEF TypeInv, TypeOK, HasNode, Values, None, HistoryInv
<1>1. ASSUME NEW i \in Ids, NEW n \in Nodes, NEW stored \in BOOLEAN,
             Select(i, n) \/ AddManual(i, n, stored)
      PROVE  HistoryInv'
  <2>1. node[i] = NoNode /\ previous[i] = None /\ Last(log[i]) = None
    BY <1>1 DEF Select, InsertDefault, AddManual, Insert, Last
  <2>2. node' = [node EXCEPT ![i] = n] /\ UNCHANGED <<plc, log, previous, at, current, value>>
    BY <1>1 DEF Select, InsertDefault, AddManual, Insert, threadVars
  <2>3. at \in {"write", "remember"} => current # i
    BY <2>1
  <2>4. QED BY <2>1, <2>2, <2>3
<1>2. ASSUME NEW i \in Ids, Remove(i) PROVE HistoryInv'
  BY <1>2 DEF Remove, DeleteRow, threadVars
<1>3. CASE Start BY <1>3 DEF Start, tableVars
<1>4. CASE StopFlag BY <1>4 DEF StopFlag, tableVars
<1>5. CASE StopClear BY <1>5 DEF StopClear, tableVars
<1>6. CASE Test BY <1>6 DEF Test, tableVars
<1>7. CASE List BY <1>7 DEF List, Listed, tableVars
<1>8. CASE Poll
  <2>1. ASSUME NEW i \in todo, at' = "write", value' = plc[node[i]], current' = i,
               previous[i] = None \/ plc[node[i]] # previous[i]
        PROVE  HistoryInv'
    <3>1. i \in Ids /\ node[i] \in Nodes OBVIOUS
    <3>2. Last(log[i]) <= plc[node[i]] /\ previous[i] <= plc[node[i]]
      BY <3>1
    <3>3. QED BY <1>8, <2>1, <3>1, <3>2 DEF Poll, tableVars
  <2>2. CASE at' # "write"
    BY <1>8, <2>2 DEF Poll, tableVars
  <2>3. QED BY <1>8, <2>1, <2>2 DEF Poll
<1>9. CASE Write
  <2>1. CASE log' = [log EXCEPT ![current] = Append(@, value)] /\ at' = "remember"
    <3>1. Last(log'[current]) = value
      BY <1>9, <2>1, LastAppend DEF Write, WriteSensorData
    <3>2. \A i \in Ids : i # current => log'[i] = log[i]
      BY <2>1
    <3>3. \/ previous[current] = None
          \/ value <= plc[node[current]] /\ previous[current] < value
      BY <1>9 DEF Write, WriteSensorData
    <3>4. QED
      BY <1>9, <2>1, <3>1, <3>2, <3>3 DEF Write, WriteSensorData, tableVars
  <2>2. CASE UNCHANGED log
    BY <1>9, <2>2 DEF Write, WriteSensorData, tableVars
  <2>3. QED BY <1>9, <2>1, <2>2 DEF Write, WriteSensorData
<1>10. CASE Remember BY <1>10 DEF Remember, tableVars
<1>11. ASSUME NEW n \in Nodes, Change(n) PROVE HistoryInv'
  <2>1. \A m \in Nodes : plc'[m] \in Int /\ plc[m] \in Int /\ plc[m] <= plc'[m]
    BY <1>11 DEF Change
  <2>2. UNCHANGED <<table, node, log, previous, at, current, value>>
    BY <1>11 DEF Change, tableVars, threadVars
  <2>3. \A i \in Ids : Last(log[i]) \in Int /\ previous[i] \in Int
    OBVIOUS
  <2>4. \A i \in Ids : node[i] # NoNode =>
            Last(log[i]) <= plc'[node[i]] /\ previous[i] <= plc'[node[i]]
    BY <2>1, <2>3
  <2>5. at \in {"write", "remember"} => value <= plc'[node[current]]
    BY <2>1
  <2>6. QED BY <2>2, <2>4, <2>5
<1>12. CASE UNCHANGED vars
  BY <1>12 DEF vars, tableVars, threadVars
<1> HIDE DEF TypeInv, TypeOK, HasNode, Values, None, HistoryInv
<1>13. QED
  BY <1>1, <1>2, <1>3, <1>4, <1>5, <1>6, <1>7, <1>8, <1>9, <1>10, <1>11, <1>12
     DEF Next, Request, Thread

LEMMA HistoryInit == Init => HistoryInv
BY Assumptions DEF Init, HistoryInv, Last, None

\* Every step of the gateway is a step of the Historian or leaves it alone.
LEMMA HistorianStep == ASSUME TypeInv, HistoryInv, [Next]_vars PROVE [H!Next]_(H!vars)
<1> DEFINE isFresh == [i \in Ids |-> previous[i] = None]
<1> USE Assumptions DEF TypeInv, TypeOK, HasNode, Values
<1>0. ASSUME UNCHANGED <<plc, node, log, previous>> PROVE UNCHANGED H!vars
  BY <1>0 DEF H!vars
<1>1. ASSUME NEW i \in Ids, NEW n \in Nodes, NEW stored \in BOOLEAN,
             Select(i, n) \/ AddManual(i, n, stored)
      PROVE  H!Next
  <2>1. H!Register(i, n)
    BY <1>1 DEF Select, InsertDefault, AddManual, Insert, H!Register
  <2>2. QED BY <2>1 DEF H!Next
<1>2. ASSUME NEW i \in Ids, Remove(i) PROVE UNCHANGED H!vars
  BY <1>0, <1>2 DEF Remove, DeleteRow
<1>3. CASE Start \/ StopFlag \/ Test \/ List
  BY <1>0, <1>3 DEF Start, StopFlag, Test, List, Listed, tableVars
<1>4. CASE StopClear
  <2>1. H!Forget
    BY <1>4 DEF StopClear, H!Forget, tableVars, None
  <2>2. QED BY <2>1 DEF H!Next
<1>5. CASE Poll
  BY <1>0, <1>5 DEF Poll, tableVars
<1>6. CASE Write
  <2>1. CASE UNCHANGED log
    BY <1>0, <1>6, <2>1 DEF Write, WriteSensorData, tableVars
  <2>2. CASE log' = [log EXCEPT ![current] = Append(@, value)]
    <3>1. current \in Ids /\ value \in Values /\ node[current] # NoNode
      BY <1>6 DEF Write, WriteSensorData
    <3>2. node[current] \in Nodes /\ plc[node[current]] \in Values
      BY <3>1
    <3>3. value \in 0..plc[node[current]]
      BY <1>6, <3>1, <3>2 DEF Write, WriteSensorData, HistoryInv
    <3>4. Last(log[current]) < value \/ (previous[current] = None /\ Last(log[current]) = value)
      <4>1. Last(log[current]) \in Values \cup {None}
        BY <3>1, LastType
      <4>2. Last(log[current]) <= value
        BY <1>6 DEF Write, WriteSensorData, HistoryInv
      <4>3. previous[current] # None => Last(log[current]) < value
        BY <1>6, <3>1, <4>1 DEF Write, WriteSensorData, HistoryInv, None
      <4>4. QED BY <3>1, <4>1, <4>2, <4>3 DEF None
    <3>5. H!Last(log[current]) = Last(log[current])
      BY DEF H!Last, Last, H!None, None
    <3>6. H!Record(current)
      BY <1>6, <2>2, <3>1, <3>3, <3>4, <3>5 DEF Write, WriteSensorData, H!Record, tableVars
    <3>7. QED BY <3>1, <3>6 DEF H!Next
  <2>3. QED BY <1>6, <2>1, <2>2 DEF Write, WriteSensorData
<1>7. CASE Remember
  <2>1. current \in Ids /\ value # None
    BY <1>7 DEF Remember, None
  <2>2. PICK i \in Ids : i = current
    BY <2>1
  <2>3. H!Know(i)
    BY <1>7, <2>1, <2>2 DEF Remember, H!Know, tableVars
  <2>4. QED BY <2>3 DEF H!Next
<1>8. ASSUME NEW n \in Nodes, Change(n) PROVE H!Next
  <2>1. H!Change(n)
    BY <1>8 DEF Change, H!Change, tableVars
  <2>2. QED BY <2>1 DEF H!Next
<1>9. CASE UNCHANGED vars
  BY <1>0, <1>9 DEF vars, tableVars
<1> HIDE DEF TypeInv, TypeOK, HasNode, Values
<1>10. QED
  BY <1>1, <1>2, <1>3, <1>4, <1>5, <1>6, <1>7, <1>8, <1>9 DEF Next, Request, Thread

\* VariableHistory implements the Historian: values of the PLC in their order,
\* none twice unless monitoring was restarted.
THEOREM Implementation == Spec => IsHistory
<1>1. ASSUME Init PROVE H!Init
  BY <1>1 DEF Init, H!Init
<1>2. Init => TypeInv
  BY TypeInit
<1>3. QED
  BY <1>1, <1>2, HistoryInit, TypeStep, HistoryStep, HistorianStep, PTL
     DEF Spec, IsHistory, H!Spec

-----------------------------------------------------------------------------
(* previous_values and the history.                                        *)

\* What is about to be remembered is what was stored.
StoredInv ==
    /\ PreviousStored
    /\ at = "remember" /\ current \notin missed => value = Last(log[current])

LEMMA StoredStep == ASSUME TypeInv, StoredInv, [Next]_vars PROVE StoredInv'
<1> USE Assumptions DEF TypeInv, TypeOK, HasNode, StoredInv, PreviousStored
<1>1. ASSUME NEW i \in Ids, NEW n \in Nodes, NEW stored \in BOOLEAN,
             Select(i, n) \/ AddManual(i, n, stored)
      PROVE  StoredInv'
  BY <1>1 DEF Select, InsertDefault, AddManual, Insert, threadVars
<1>2. ASSUME NEW i \in Ids, Remove(i) PROVE StoredInv'
  BY <1>2 DEF Remove, DeleteRow, threadVars
<1>3. CASE Start \/ StopFlag \/ Test \/ List
  BY <1>3 DEF Start, StopFlag, Test, List, Listed, tableVars
<1>4. CASE StopClear
  BY <1>4 DEF StopClear, tableVars
<1>5. CASE Poll
  BY <1>5 DEF Poll, tableVars
<1>6. CASE Write
  <2>1. CASE at' = "remember" /\ log' = [log EXCEPT ![current] = Append(@, value)]
    <3>1. Last(log'[current]) = value
      BY <1>6, <2>1, LastAppend DEF Write, WriteSensorData
    <3>2. \A i \in Ids : i # current => log'[i] = log[i]
      BY <2>1
    <3>3. missed' = missed \ {current} \/ missed' = missed \cup {current}
      BY <1>6, <2>1 DEF Write, WriteSensorData
    <3>4. QED BY <1>6, <2>1, <3>1, <3>2, <3>3 DEF Write, WriteSensorData, tableVars
  <2>2. CASE UNCHANGED log
    BY <1>6, <2>2 DEF Write, WriteSensorData, tableVars
  <2>3. QED BY <1>6, <2>1, <2>2 DEF Write, WriteSensorData
<1>7. CASE Remember BY <1>7 DEF Remember, tableVars
<1>8. ASSUME NEW n \in Nodes, Change(n) PROVE StoredInv'
  BY <1>8 DEF Change, tableVars, threadVars
<1>9. CASE UNCHANGED vars
  BY <1>9 DEF vars, tableVars, threadVars
<1> HIDE DEF TypeInv, TypeOK, HasNode, StoredInv, PreviousStored
<1>10. QED
  BY <1>1, <1>2, <1>3, <1>4, <1>5, <1>6, <1>7, <1>8, <1>9 DEF Next, Request, Thread

\* VariableHistory: between two polls of a variable its previous value is the
\* last row of its history, unless a statement on it failed.
THEOREM PreviousIsStored == Spec => []PreviousStored
<1>1. Init => StoredInv
  BY DEF Init, StoredInv, PreviousStored
<1>2. StoredInv => PreviousStored
  BY DEF StoredInv
<1>3. QED BY <1>1, <1>2, TypeInit, TypeStep, StoredStep, PTL DEF Spec

=============================================================================
