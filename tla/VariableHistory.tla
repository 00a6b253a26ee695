-------------------------- MODULE VariableHistory --------------------------
(***************************************************************************)
(* The monitored variables and their history: the monitoring thread of     *)
(* opcua_client_service (_monitoring_loop) polls the variables that the    *)
(* routes select and remove, compares each value with previous_values and  *)
(* stores what changed; stop_monitoring ends the thread and clears         *)
(* previous_values, connect() starts another one.                          *)
(*                                                                         *)
(* One thread monitors at a time (OpcuaSession!OneMonitor).  The n-th      *)
(* value of a node of the PLC is written n; a value is never None.         *)
(***************************************************************************)
EXTENDS Integers, Sequences

CONSTANTS
    Ids,          \* ids of rows of opcua_monitored_variables
    Nodes,        \* nodes of the PLC
    NoNode,
    MaxChanges,   \* bound on the changes of a node
    MaxFails,     \* bound on the failures of the PLC and the database
    MaxStops      \* bound on the times monitoring is stopped

ASSUME Assumptions ==
    /\ NoNode \notin Nodes
    /\ MaxChanges \in Nat /\ MaxFails \in Nat /\ MaxStops \in Nat

VARIABLES
    plc,       \* the value each node of the PLC has now
    table,     \* the ids of the rows
    node,      \* node_id of each row, once it has been inserted
    store,     \* store_to_postgres of each row
    log,       \* the rows of sensor_data for each variable, oldest first
    previous,  \* self.previous_values
    running,   \* self.running
    at,        \* where the monitoring thread is
    todo,      \* the listed variables that the thread has not polled yet
    current,   \* the variable the thread works on
    value,     \* current_value
    stopping,  \* stop_monitoring waits for the thread
    missed,    \* variables of which a statement failed since the last success
    fails, stops

threadVars == <<running, at, todo, current, value, stopping>>
tableVars  == <<table, node, store>>
vars == <<plc, tableVars, log, previous, threadVars, missed, fails, stops>>

None == -1
Values == 0..MaxChanges
Last(s) == IF s = <<>> THEN None ELSE s[Len(s)]
Steps == {"ended", "test", "list", "poll", "write", "remember"}

TypeOK ==
    /\ plc \in [Nodes -> Values]
    /\ table \subseteq Ids
    /\ node \in [Ids -> Nodes \cup {NoNode}]
    /\ store \in [Ids -> BOOLEAN]
    /\ log \in [Ids -> Seq(Values)]
    /\ previous \in [Ids -> Values \cup {None}]
    /\ running \in BOOLEAN
    /\ at \in Steps
    /\ todo \subseteq Ids
    /\ current \in Ids \cup {NoNode}
    /\ value \in Values \cup {None}
    /\ stopping \in BOOLEAN
    /\ missed \subseteq Ids
    /\ fails \in 0..MaxFails
    /\ stops \in 0..MaxStops

Init ==
    /\ plc = [n \in Nodes |-> 0]
    /\ table = {}
    /\ node = [i \in Ids |-> NoNode]
    /\ store = [i \in Ids |-> FALSE]
    /\ log = [i \in Ids |-> <<>>]
    /\ previous = [i \in Ids |-> None]
    /\ running = FALSE
    /\ at = "ended"
    /\ todo = {}
    /\ current = NoNode
    /\ value = None
    /\ stopping = FALSE
    /\ missed = {}
    /\ fails = 0
    /\ stops = 0

-----------------------------------------------------------------------------
(* Requests.                                                               *)

\* add_opcua_variable: node_id is UNIQUE and ids are never used again.
Insert(i, n, stored) ==
    /\ node[i] = NoNode
    /\ \A j \in table : node[j] # n
    /\ table' = table \cup {i}
    /\ node' = [node EXCEPT ![i] = n]
    /\ store' = [store EXCEPT ![i] = stored]

\* add_monitored_variable: store_to_postgres has its default.
InsertDefault(i, n) == Insert(i, n, TRUE)

\* remove_monitored_variable
DeleteRow(i) == table' = table \ {i}

\* POST /opcua/variables/select.
Select(i, n) ==
    /\ InsertDefault(i, n)
    /\ UNCHANGED <<plc, log, previous, threadVars, missed, fails, stops>>

\* POST /opcua/variables/add-manual (which answers 500 although it stored).
AddManual(i, n, stored) ==
    /\ Insert(i, n, stored)
    /\ UNCHANGED <<plc, log, previous, threadVars, missed, fails, stops>>

\* DELETE /opcua/variables/<id>; previous_values is left alone.
Remove(i) ==
    /\ i \in table
    /\ DeleteRow(i)
    /\ UNCHANGED <<plc, node, store, log, previous, threadVars, missed, fails, stops>>

\* start_monitoring, at the end of connect().
Start ==
    /\ at = "ended" /\ ~stopping
    /\ running' = TRUE
    /\ at' = "test"
    /\ todo' = {}
    /\ UNCHANGED <<plc, tableVars, log, previous, current, value, stopping, missed, fails, stops>>

\* stop_monitoring, at the start of disconnect().
StopFlag ==
    /\ running /\ ~stopping /\ stops < MaxStops
    /\ running' = FALSE
    /\ stopping' = TRUE
    /\ stops' = stops + 1
    /\ UNCHANGED <<plc, tableVars, log, previous, at, todo, current, value, missed, fails>>

\* previous_values.clear(): after the thread has ended, or after a join that
\* gave up on it.
StopClear ==
    /\ stopping
    /\ stopping' = FALSE
    /\ previous' = [i \in Ids |-> None]
    /\ UNCHANGED <<plc, tableVars, log, running, at, todo, current, value, missed, fails, stops>>

Request ==
    \/ \E i \in Ids, n \in Nodes : Select(i, n) \/ \E stored \in BOOLEAN : AddManual(i, n, stored)
    \/ \E i \in Ids : Remove(i)
    \/ Start \/ StopFlag

-----------------------------------------------------------------------------
(* The monitoring thread.                                                  *)

\* while self.running.
Test ==
    /\ at = "test"
    /\ at' = IF running THEN "list" ELSE "ended"
    /\ UNCHANGED <<plc, tableVars, log, previous, running, todo, current, value, stopping,
                   missed, fails, stops>>

\* What the iteration goes through: all rows are enabled (the route that
\* disables one fails), those without store_to_postgres are passed over.
Listed == {i \in table : store[i]}

\* get_monitored_variables; without a database the iteration is over.
List ==
    /\ at = "list"
    /\ \/ /\ todo' = Listed
          /\ at' = "poll"
          /\ UNCHANGED fails
       \/ /\ fails < MaxFails
          /\ fails' = fails + 1
          /\ at' = "test"
          /\ UNCHANGED todo
    /\ UNCHANGED <<plc, tableVars, log, previous, running, current, value, stopping, missed, stops>>

\* Mutant: the value that was just stored is not looked at.
PollAlways ==
    /\ at = "poll"
    /\ \/ /\ todo = {}
          /\ at' = "test"
          /\ UNCHANGED <<todo, current, value, fails>>
       \/ \E i \in todo :
          /\ todo' = todo \ {i}
          /\ current' = i
          /\ value' = plc[node[i]]
          /\ at' = "write"
          /\ UNCHANGED fails
    /\ UNCHANGED <<plc, tableVars, log, previous, running, stopping, missed, stops>>

\* Mutant: a read that fails counts as a value.
PollFailed ==
    /\ at = "poll"
    /\ \/ /\ todo = {}
          /\ at' = "test"
          /\ UNCHANGED <<todo, current, value, fails>>
       \/ \E i \in todo :
          /\ todo' = todo \ {i}
          /\ current' = i
          /\ at' = "write"
          /\ \/ value' = plc[node[i]] /\ UNCHANGED fails
             \/ fails < MaxFails /\ fails' = fails + 1 /\ value' = None
    /\ UNCHANGED <<plc, tableVars, log, previous, running, stopping, missed, stops>>

\* One variable is read and compared with its previous value; a read that
\* fails skips it.
Poll ==
    /\ at = "poll"
    /\ \/ /\ todo = {}
          /\ at' = "test"
          /\ UNCHANGED <<todo, current, value, fails>>
       \/ \E i \in todo :
          /\ todo' = todo \ {i}
          /\ current' = i
          /\ \/ /\ value' = plc[node[i]]
                /\ at' = IF previous[i] = None \/ plc[node[i]] # previous[i] THEN "write" ELSE "poll"
                /\ UNCHANGED fails
             \/ /\ fails < MaxFails
                /\ fails' = fails + 1
                /\ UNCHANGED <<at, value>>
    /\ UNCHANGED <<plc, tableVars, log, previous, running, stopping, missed, stops>>

\* Mutant: an insert that raises counts as done.
WriteAnyway ==
    /\ at = "write"
    /\ at' = "remember"
    /\ \/ /\ log' = [log EXCEPT ![current] = Append(@, value)]
          /\ missed' = missed \ {current}
          /\ UNCHANGED fails
       \/ /\ fails < MaxFails
          /\ fails' = fails + 1
          /\ UNCHANGED <<log, missed>>
    /\ UNCHANGED <<plc, tableVars, previous, running, todo, current, value, stopping, stops>>

\* write_sensor_data returns: a statement that fails is only logged inside.
WriteSensorData(i, v) ==
    \/ /\ log' = [log EXCEPT ![i] = Append(@, v)]
       /\ missed' = missed \ {i}
       /\ UNCHANGED fails
    \/ /\ fails < MaxFails
       /\ fails' = fails + 1
       /\ missed' = missed \cup {i}
       /\ UNCHANGED log

\* Without a pool it raises instead, and the value is not remembered.
Write ==
    /\ at = "write"
    /\ \/ /\ WriteSensorData(current, value)
          /\ at' = "remember"
       \/ /\ fails < MaxFails
          /\ fails' = fails + 1
          /\ at' = "poll"
          /\ UNCHANGED <<log, missed>>
    /\ UNCHANGED <<plc, tableVars, previous, running, todo, current, value, stopping, stops>>

\* Mutant: remembers what the PLC has by now instead of what was stored.
RememberNow ==
    /\ at = "remember"
    /\ previous' = [previous EXCEPT ![current] = plc[node[current]]]
    /\ at' = "poll"
    /\ UNCHANGED <<plc, tableVars, log, running, todo, current, value, stopping, missed, fails, stops>>

Remember ==
    /\ at = "remember"
    /\ previous' = [previous EXCEPT ![current] = value]
    /\ at' = "poll"
    /\ UNCHANGED <<plc, tableVars, log, running, todo, current, value, stopping, missed, fails, stops>>

Thread == Test \/ List \/ Poll \/ Write \/ Remember

-----------------------------------------------------------------------------

Change(n) ==
    /\ plc[n] < MaxChanges
    /\ plc' = [plc EXCEPT ![n] = @ + 1]
    /\ UNCHANGED <<tableVars, log, previous, threadVars, missed, fails, stops>>

Next == Request \/ StopClear \/ Thread \/ \E n \in Nodes : Change(n)

Spec == Init /\ [][Next]_vars /\ WF_vars(Thread) /\ WF_vars(StopClear)

-----------------------------------------------------------------------------
(* Properties.                                                             *)

H == INSTANCE Historian WITH fresh <- [i \in Ids |-> previous[i] = None]

\* The history is one the gateway promises: values of the PLC in their order,
\* none twice unless monitoring was restarted ("write to PostgreSQL only when
\* values change", opcua_client_service.py:307), also when stop_monitoring
\* clears previous_values under a thread that it gave up on (:304).
IsHistory == H!Spec

Monitored(i) == i \in table /\ store[i] /\ running

\* A change reaches the history: while the variable is monitored and no
\* statement on it has failed, what the PLC has is stored sooner or later.
\* (A statement that failed was logged by write_sensor_data itself, and the
\* loop takes its value for stored, opcua_client_service.py:360.)
ChangesStored ==
    \A i \in Ids :
        Monitored(i) ~> (~Monitored(i) \/ i \in missed \/ Last(log[i]) = plc[node[i]])

\* previous_values tells what is stored: between two polls, a variable that
\* has a previous value has it as the last row of its history, unless a
\* statement on it failed.
PreviousStored ==
    \A i \in Ids :
        previous[i] # None /\ i \notin missed /\ ~(at = "remember" /\ current = i)
            => previous[i] = Last(log[i])

=============================================================================
