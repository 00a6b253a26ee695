---------------------------- MODULE MessagePath ----------------------------
(***************************************************************************)
(* What the gateway does with an MQTT message (on_message in               *)
(* app/services/mqtt_service.py): paho's loop thread forwards it along the *)
(* bridge rules, to other topics and to nodes of the PLC, then writes its  *)
(* fields to the PLC and to the database as the mappings say.  Meanwhile   *)
(* request threads add and remove rules in the list the loop thread walks, *)
(* without a lock: an append changes that list, a removal replaces it.     *)
(*                                                                         *)
(* The session with the broker is up and the mappings do not change:       *)
(* MqttSubscriptions models their life.  A payload is the set of the JSON  *)
(* fields it has a value for.                                              *)
(***************************************************************************)
EXTENDS Naturals, Sequences, FiniteSets

CONSTANTS
    Topics,       \* topics of messages
    AllTopics,    \* the pattern "#"
    Nodes,        \* nodes of the PLC
    NoNode,       \* a blank opcua_node_id
    Fields,       \* JSON fields of payloads
    Mappings,     \* ids in mqtt_opcua_mappings
    MappingOf,    \* the row of each id: topic, json_key, node, store_to_postgres
    Threads,      \* request threads of the web server
    MaxMessages,  \* bound on the messages other clients publish
    MaxQueue,     \* bound on the messages the broker holds for the gateway
    MaxRules,     \* bound on the rules that are ever added
    MaxDbFails    \* bound on failed statements and outages of the pool

Rows == [topic : Topics, key : Fields, node : Nodes \cup {NoNode}, store : BOOLEAN]

ASSUME MappingAssumption == Mappings \subseteq Nat /\ MappingOf \in [Mappings -> Rows]
ASSUME NameAssumption == AllTopics \notin Topics /\ NoNode \notin Nodes /\ Topics \cap Nodes = {}
ASSUME BoundAssumption ==
    MaxMessages \in Nat /\ MaxQueue \in Nat /\ MaxRules \in Nat /\ MaxDbFails \in Nat

VARIABLES
    inbox,      \* messages the broker holds for the gateway
    sent,       \* how many messages other clients have published
    subs,       \* topics and patterns the gateway is subscribed to
    rules,      \* mqtt_service.bridge_rules
    job,        \* what each request thread is doing
    created,    \* how many rules have been created
    at,         \* where the loop thread is
    msg,        \* the message it works on
    walk,       \* its place in the list of rules it walks
    todo,       \* mappings of the message that are left
    db, dbFails,   \* the pool answers; how often the database has failed
    due, served,   \* history: rules in the list when msg came; rules applied to it
    wanted,     \* history: mappings of msg that ask for a row
    settled     \* history: mappings whose INSERT was tried, or given up without a pool

ruleVars == <<subs, rules, job, created>>
dbVars   == <<db, dbFails>>
history  == <<due, served, wanted, settled>>
vars == <<inbox, sent, ruleVars, at, msg, walk, todo, dbVars, history>>

Messages == [topic : Topics, fields : SUBSET Fields]
NoMessage == [topic |-> AllTopics]
Patterns == Topics \cup {AllTopics}

\* A rule dictionary: uid is the object, id what the user calls it.
Rules == [uid : 1..MaxRules, id : 1..MaxRules, source : Patterns, target : Topics \cup Nodes]

NoWalk == [live |-> FALSE, list |-> <<>>, pos |-> 1]

Idle == [at |-> "idle"]
Jobs == [at : {"append"}, rule : Rules]
        \cup [at : {"subscribe"}, topic : Patterns]
        \cup [at : {"assign"}, kept : Seq(Rules)]

TypeOK ==
    /\ inbox \in Seq(Messages) /\ Len(inbox) <= MaxQueue
    /\ sent \in 0..MaxMessages
    /\ subs \subseteq Patterns
    /\ rules \in Seq(Rules)
    /\ job \in [Threads -> Jobs \cup {Idle}]
    /\ created \in 0..MaxRules
    /\ at \in {"wait", "rules", "lookup", "write", "store"}
    /\ msg \in Messages \cup {NoMessage}
    /\ walk \in [live : BOOLEAN, list : Seq(Rules), pos : Nat \ {0}]
    /\ todo \subseteq Mappings
    /\ db \in BOOLEAN /\ dbFails \in 0..MaxDbFails
    /\ due \subseteq 1..MaxRules /\ served \in Seq(1..MaxRules)
    /\ wanted \subseteq Mappings /\ settled \subseteq Mappings

\* The gateway has subscribed to the topics of its mappings.
Init ==
    /\ inbox = <<>> /\ sent = 0
    /\ subs = {MappingOf[m].topic : m \in Mappings}
    /\ rules = <<>> /\ created = 0
    /\ job = [t \in Threads |-> Idle]
    /\ at = "wait"
    /\ msg = NoMessage
    /\ walk = NoWalk
    /\ todo = {}
    /\ db = TRUE /\ dbFails = 0
    /\ due = {} /\ served = <<>> /\ wanted = {} /\ settled = {}

-----------------------------------------------------------------------------
(* The broker.                                                             *)

\* _topic_matches, for topics and "#".
TopicMatches(topic, pattern) == pattern \in {topic, AllTopics}

Deliver(m) ==
    inbox' = IF Len(inbox) < MaxQueue /\ \E p \in subs : TopicMatches(m.topic, p)
             THEN Append(inbox, m) ELSE inbox

\* Another client, such as a sensor, publishes.
PublishOther(m) ==
    /\ sent < MaxMessages
    /\ sent' = sent + 1
    /\ Deliver(m)
    /\ UNCHANGED <<ruleVars, at, msg, walk, todo, dbVars, history>>

-----------------------------------------------------------------------------
(* The loop thread: on_message.                                            *)

\* A message comes; the loop over self.bridge_rules begins.
Receive ==
    /\ at = "wait" /\ inbox # <<>>
    /\ inbox' = Tail(inbox)
    /\ msg' = Head(inbox)
    /\ at' = "rules"
    /\ walk' = [live |-> TRUE, list |-> <<>>, pos |-> 1]
    /\ due' = {rules[i].uid : i \in {j \in DOMAIN rules : TopicMatches(msg'.topic, rules[j].source)}}
    /\ wanted' = {} /\ settled' = {}
    /\ UNCHANGED <<sent, ruleVars, todo, dbVars, served>>

\* The list under the loop: self.bridge_rules itself until that is replaced.
Walked == IF walk.live THEN rules ELSE walk.list

\* Mutant: the arguments of publish are those of the incoming message.
ForwardBack(rule) ==
    IF rule.target \in Topics THEN Deliver(msg) ELSE UNCHANGED inbox

\* The message goes to the rule's target, or is lost: no connection, the PLC
\* rejects the value, the transform or the condition raises or says no.
Forward(rule) ==
    \/ rule.target \in Topics /\ Deliver([msg EXCEPT !.topic = rule.target])
    \/ UNCHANGED inbox

\* _process_bridge_rules, one turn of its loop.
NextRule ==
    /\ at = "rules" /\ walk.pos <= Len(Walked)
    /\ walk' = [walk EXCEPT !.pos = @ + 1]
    /\ LET rule == Walked[walk.pos] IN
       IF TopicMatches(msg.topic, rule.source)
       THEN Forward(rule) /\ served' = Append(served, rule.uid)
       ELSE UNCHANGED <<inbox, served>>
    /\ UNCHANGED <<sent, ruleVars, at, msg, todo, dbVars, due, wanted, settled>>

RulesDone ==
    /\ at = "rules" /\ walk.pos > Len(Walked)
    /\ at' = "lookup"
    /\ walk' = NoWalk
    /\ UNCHANGED <<inbox, sent, ruleVars, msg, todo, dbVars, history>>

\* on_message returns.
Return == at' = "wait" /\ msg' = NoMessage

\* _process_message: the mappings of the topic; without a pool it raises.
Lookup ==
    LET mine == {m \in Mappings : MappingOf[m].topic = msg.topic} IN
    /\ at = "lookup"
    /\ IF db /\ mine # {}
       THEN /\ at' = "write"
            /\ todo' = mine
            /\ wanted' = {m \in mine : /\ MappingOf[m].key \in msg.fields
                                       /\ MappingOf[m].node # NoNode
                                       /\ MappingOf[m].store}
            /\ UNCHANGED msg
       ELSE Return /\ UNCHANGED <<todo, wanted>>
    /\ due' = {} /\ served' = <<>>
    /\ UNCHANGED <<inbox, sent, ruleVars, walk, dbVars, settled>>

\* ORDER BY id
Current == CHOOSE m \in todo : \A n \in todo : m <= n

\* The current mapping is through, or all that are left are given up.
Proceed(left) ==
    /\ todo' = left
    /\ IF left = {} THEN Return ELSE at' = "write" /\ UNCHANGED msg

\* Mutant: a mapping the PLC does not take ends the loop.
WriteOrStop ==
    /\ at = "write"
    /\ LET m == Current IN
       IF MappingOf[m].key \notin msg.fields \/ MappingOf[m].node = NoNode \/ ~MappingOf[m].store
       THEN Proceed(todo \ {m})
       ELSE \/ at' = "store" /\ UNCHANGED <<todo, msg>>
            \/ Proceed({})
    /\ UNCHANGED <<inbox, sent, ruleVars, walk, dbVars, history>>

\* The field's value goes to the PLC, if the field and the node are there; the
\* outcome, which is logged, does not matter to the rest.
WriteToPlc ==
    /\ at = "write"
    /\ LET m == Current IN
       IF MappingOf[m].key \notin msg.fields \/ MappingOf[m].node = NoNode \/ ~MappingOf[m].store
       THEN Proceed(todo \ {m})
       ELSE at' = "store" /\ UNCHANGED <<todo, msg>>
    /\ UNCHANGED <<inbox, sent, ruleVars, walk, dbVars, history>>

\* write_sensor_data; an INSERT that fails is logged and forgotten, but without a
\* pool it raises out of the loop over the mappings.
Store ==
    /\ at = "store"
    /\ \/ /\ db
          /\ dbFails' \in {dbFails, dbFails + 1} /\ dbFails' <= MaxDbFails
          /\ settled' = settled \cup {Current}
          /\ Proceed(todo \ {Current})
       \/ /\ ~db
          /\ settled' = settled \cup todo
          /\ Proceed({})
          /\ UNCHANGED dbFails
    /\ UNCHANGED <<inbox, sent, ruleVars, walk, db, due, served, wanted>>

OnMessage == Receive \/ NextRule \/ RulesDone \/ Lookup \/ WriteToPlc \/ Store

-----------------------------------------------------------------------------
(* Request threads.                                                        *)

Goto(t, step) == job' = [job EXCEPT ![t] = step]

\* Mutant: ids count from zero.
CreateRuleFromZero(t, source, target) ==
    /\ job[t] = Idle /\ created < MaxRules
    /\ created' = created + 1
    /\ Goto(t, [at |-> "append",
                rule |-> [uid |-> created', id |-> Len(rules), source |-> source, target |-> target]])
    /\ UNCHANGED <<inbox, sent, subs, rules, at, msg, walk, todo, dbVars, history>>

\* add_bridge_rule: the dictionary, with the length of the list for an id,
CreateRule(t, source, target) ==
    /\ job[t] = Idle /\ created < MaxRules
    /\ created' = created + 1
    /\ Goto(t, [at |-> "append",
                rule |-> [uid |-> created', id |-> Len(rules) + 1, source |-> source, target |-> target]])
    /\ UNCHANGED <<inbox, sent, subs, rules, at, msg, walk, todo, dbVars, history>>

\* Mutant: the newest rule comes first.
AppendRuleFirst(t) ==
    /\ job[t].at = "append"
    /\ rules' = <<job[t].rule>> \o rules
    /\ Goto(t, [at |-> "subscribe", topic |-> job[t].rule.source])
    /\ UNCHANGED <<inbox, sent, subs, created, at, msg, walk, todo, dbVars, history>>

\* then the append, to the list the loop thread may be walking,
AppendRule(t) ==
    /\ job[t].at = "append"
    /\ rules' = Append(rules, job[t].rule)
    /\ Goto(t, [at |-> "subscribe", topic |-> job[t].rule.source])
    /\ UNCHANGED <<inbox, sent, subs, created, at, msg, walk, todo, dbVars, history>>

\* then the subscription, which may fail.
SubscribeRule(t) ==
    /\ job[t].at = "subscribe"
    /\ \/ subs' = subs \cup {job[t].topic}
       \/ UNCHANGED subs
    /\ Goto(t, Idle)
    /\ UNCHANGED <<inbox, sent, rules, created, at, msg, walk, todo, dbVars, history>>

\* The n-th of a set of numbers
Nth(n, S) == CHOOSE i \in S : Cardinality({j \in S : j <= i}) = n

\* [r for r in list if r['id'] != id]: the other rules, in their order
Without(list, id) ==
    LET left == {i \in DOMAIN list : list[i].id # id}
    IN  [n \in 1..Cardinality(left) |-> list[Nth(n, left)]]

\* remove_bridge_rule: the list without the id,
FilterRules(t, id) ==
    /\ job[t] = Idle
    /\ Goto(t, [at |-> "assign", kept |-> Without(rules, id)])
    /\ UNCHANGED <<inbox, sent, subs, rules, created, at, msg, walk, todo, dbVars, history>>

\* Mutant: the rules are removed from the list itself.
AssignInPlace(t) ==
    /\ job[t].at = "assign"
    /\ rules' = job[t].kept
    /\ Goto(t, Idle)
    /\ UNCHANGED <<inbox, sent, subs, created, at, msg, walk, todo, dbVars, history>>

\* then its assignment: a loop under way goes on with the old list.
AssignRules(t) ==
    /\ job[t].at = "assign"
    /\ rules' = job[t].kept
    /\ walk' = IF walk.live THEN [walk EXCEPT !.live = FALSE, !.list = rules] ELSE walk
    /\ Goto(t, Idle)
    /\ UNCHANGED <<inbox, sent, subs, created, at, msg, todo, dbVars, history>>

Continue(t) == AppendRule(t) \/ SubscribeRule(t) \/ AssignRules(t)

Request(t) ==
    \/ \E source \in Patterns, target \in Topics \cup Nodes : CreateRule(t, source, target)
    \/ \E id \in 1..MaxRules : FilterRules(t, id)

-----------------------------------------------------------------------------
\* The pool goes away and back.
DbDown ==
    /\ db /\ dbFails < MaxDbFails
    /\ db' = FALSE
    /\ dbFails' = dbFails + 1
    /\ UNCHANGED <<inbox, sent, ruleVars, at, msg, walk, todo, history>>

DbUp ==
    /\ ~db
    /\ db' = TRUE
    /\ UNCHANGED <<inbox, sent, ruleVars, at, msg, walk, todo, dbFails, history>>

Next ==
    \/ OnMessage
    \/ \E m \in Messages : PublishOther(m)
    \/ \E t \in Threads : Request(t) \/ Continue(t)
    \/ DbDown \/ DbUp

\* The loop thread runs.
Spec == Init /\ [][Next]_vars /\ WF_vars(OnMessage)

-----------------------------------------------------------------------------
(* Properties.                                                             *)

\* Every rule that was there when a message came is applied to it, and none is
\* applied twice.
ServedOnce ==
    /\ at = "lookup" => \A u \in due : \E i \in DOMAIN served : served[i] = u
    /\ \A i, j \in DOMAIN served : served[i] = served[j] => i = j

\* They are applied as they stand in the list that is walked, whatever list that
\* has become.
ServedInOrder ==
    at = "rules" => \A i, j \in DOMAIN served, p, q \in DOMAIN Walked :
        i < j /\ Walked[p].uid = served[i] /\ Walked[q].uid = served[j] => p < q

\* "Bridge rules are processed in order" (MQTT_SUBSCRIPTION_GUIDE.md:313), each of
\* them once, whatever is added and removed while the loop of
\* mqtt_service.py:543 walks the list: it rests on a rule coming last (:443) and
\* on a removal building a new list (:456).
RulesServed == ServedOnce /\ ServedInOrder

\* What goes wrong with one mapping does not keep the next from its INSERT: a
\* value the PLC does not take, an INSERT that fails (mqtt_service.py:208-226,
\* database_service.py:460); only a missing pool gives up the rest.
MappingsStored == at = "wait" => wanted \subseteq settled

\* The rules, the list being walked and those to come have no cycle.
Bridged(from, to) ==
    \E i \in DOMAIN rules : TopicMatches(from, rules[i].source) /\ rules[i].target = to
Acyclic ==
    \E rank \in [Topics -> 1..Cardinality(Topics)] :
        \A from, to \in Topics : Bridged(from, to) => rank[from] < rank[to]

\* Forwarding comes to an end: a burst of messages is worked off, unless the
\* rules lead a message back to where it came from.
Drains == (at # "wait" \/ inbox # <<>>) ~> (at = "wait" /\ inbox = <<>>) \/ ~Acyclic

=============================================================================
