------------------------- MODULE MqttSubscriptions -------------------------
(***************************************************************************)
(* Subscriptions of the gateway's MQTT service (app/services/mqtt_service) *)
(* while one paho client lives: the client's network-loop thread runs the  *)
(* callbacks on_connect and on_disconnect, request threads run the routes  *)
(* that expose and remove mappings and that subscribe and unsubscribe      *)
(* topics, the broker keeps the subscriptions of the current clean         *)
(* session, and the link and the database may fail.                        *)
(*                                                                         *)
(* A request is a job that goes through the steps                          *)
(*     check -> send -> finish                                             *)
(* (test of self.connected, packet handed to the client, bookkeeping),     *)
(* with other threads running in between.                                  *)
(***************************************************************************)
EXTENDS Naturals

CONSTANTS
    Rows,        \* row ids of mqtt_opcua_mappings (SERIAL: never reused)
    Topics,      \* MQTT topics
    TopicOf,     \* the topic of each row
    Threads,     \* request threads of the web server
    Ops,         \* the requests a run issues
    MaxLosses,   \* bound on the losses of the link
    MaxDbFails   \* bound on the outages of the database pool

ASSUME RowTopics == TopicOf \in [Rows -> Topics]
ASSUME KnownOps == Ops \subseteq {"expose", "remove", "subscribe", "unsubscribe"}
ASSUME Bounds == MaxLosses \in Nat /\ MaxDbFails \in Nat

VARIABLES
    connected,   \* mqtt_service.connected
    link,        \* the client's socket: down, up, or lost and not yet noticed
    loop,        \* where the network-loop thread is
    todo,        \* topics on_connect has still to subscribe
    subs,        \* subscriptions of the session, held by the broker
    rows,        \* rows present in mqtt_opcua_mappings
    used,        \* rows inserted so far
    dynamic,     \* mqtt_service.dynamic_subscriptions
    device,      \* status of the row 'Mosquitto Broker' in devices
    job,         \* what each request thread is doing
    db,          \* db_service.pg_pool answers
    losses, dbFails,   \* how often the environment has failed
    cut          \* history: topics nobody may expect messages of, since an
                 \* unsubscribe or a session set up without the database

linkVars == <<link, losses>>
envVars  == <<db, dbFails>>
vars == <<connected, link, loop, todo, subs, rows, used, dynamic, device, job,
          db, losses, dbFails, cut>>

LoopSteps == {"idle", "flag", "row", "read", "subscribe", "lostFlag", "lostRow", "dead"}
JobSteps  == {"check", "send", "finish"}
Status    == {"connected", "disconnected"}
Jobs      == [op : Ops, at : JobSteps, topic : Topics, row : SUBSET Rows]
Idle      == [op |-> "none"]

TypeOK ==
    /\ connected \in BOOLEAN
    /\ link \in {"down", "up", "lost"}
    /\ loop \in LoopSteps
    /\ todo \subseteq Topics
    /\ subs \subseteq Topics
    /\ rows \subseteq used
    /\ used \subseteq Rows
    /\ dynamic \subseteq Topics
    /\ device \in Status
    /\ job \in [Threads -> Jobs \cup {Idle}]
    /\ db \in BOOLEAN
    /\ losses \in 0..MaxLosses
    /\ dbFails \in 0..MaxDbFails
    /\ cut \subseteq Topics

\* MQTTService.start() has returned: the loop thread runs, no CONNACK yet.
\* The rows of both tables are what an earlier run of the gateway left.
Init ==
    /\ connected = FALSE
    /\ link = "down"
    /\ loop = "idle"
    /\ todo = {}
    /\ subs = {}
    /\ rows \in SUBSET Rows
    /\ used = rows
    /\ dynamic = {}
    /\ device \in Status
    /\ job = [t \in Threads |-> Idle]
    /\ db = TRUE
    /\ losses = 0
    /\ dbFails = 0
    /\ cut = {}

-----------------------------------------------------------------------------
(* The network-loop thread: paho reconnects and calls back.                *)

\* CONNACK with rc = 0: a clean session, without subscriptions.
Connack ==
    /\ loop = "idle" /\ link = "down"
    /\ link' = "up"
    /\ loop' = "flag"
    /\ subs' = {}
    /\ cut' = {}
    /\ UNCHANGED <<connected, todo, rows, used, dynamic, device, job, losses, envVars>>

\* CONNACK with rc # 0: connected is cleared, then the device row written.
Refused ==
    /\ loop = "idle" /\ link = "down"
    /\ connected' = FALSE
    /\ loop' = "lostRow"
    /\ UNCHANGED <<todo, subs, rows, used, dynamic, device, job, linkVars, envVars, cut>>

OnConnectFlag ==
    /\ loop = "flag"
    /\ connected' = TRUE
    /\ loop' = "row"
    /\ UNCHANGED <<todo, subs, rows, used, dynamic, device, job, linkVars, envVars, cut>>

\* update_device_status: without a pool it raises out of the callback, which
\* ends the loop thread; a statement that fails is only logged.
WriteDevice(status, next) ==
    /\ \/ /\ db
          /\ device' = status
          /\ loop' = next
       \/ /\ ~db
          /\ loop' \in {next, "dead"}
          /\ UNCHANGED device
    /\ UNCHANGED <<connected, todo, subs, rows, used, dynamic, job, linkVars, envVars, cut>>

OnConnectRow == loop = "row" /\ WriteDevice("connected", "read")

\* Mutant: subscribes at the first connect only, as if the session were kept.
OnFirstConnectRead ==
    /\ loop = "read"
    /\ todo' = IF losses = 0 THEN {TopicOf[m] : m \in rows} ELSE {}
    /\ loop' = "subscribe"
    /\ UNCHANGED <<connected, subs, rows, used, dynamic, device, job, linkVars, envVars, cut>>

\* Mutant: the rows themselves are taken for topics.
OnConnectReadRows ==
    /\ loop = "read"
    /\ todo' = rows
    /\ loop' = "subscribe"
    /\ UNCHANGED <<connected, subs, rows, used, dynamic, device, job, linkVars, envVars, cut>>

\* get_mqtt_mappings
MappedTopics == {TopicOf[m] : m \in rows}

\* _subscribe_to_configured_topics catches what the database raises and then
\* subscribes to nothing.
OnConnectRead ==
    /\ loop = "read"
    /\ \/ /\ db
          /\ todo' = MappedTopics
          /\ loop' = "subscribe"
          /\ UNCHANGED cut
       \/ /\ ~db
          /\ loop' = "idle"
          /\ cut' = Topics
          /\ UNCHANGED todo
    /\ UNCHANGED <<connected, subs, rows, used, dynamic, device, job, linkVars, envVars>>

\* A SUBSCRIBE reaches the broker only on a live link; on a lost one it is
\* queued and dropped by the reconnect.
Subscribe(topic) ==
    /\ subs' = IF link = "up" THEN subs \cup {topic} ELSE subs
    /\ cut' = IF link = "up" THEN cut \ {topic} ELSE cut

Unsubscribe(topic) ==
    /\ subs' = IF link = "up" THEN subs \ {topic} ELSE subs
    /\ cut' = IF link = "up" THEN cut \cup {topic} ELSE cut

OnConnectSubscribe ==
    /\ loop = "subscribe"
    /\ \/ \E topic \in todo :
             /\ Subscribe(topic)
             /\ todo' = todo \ {topic}
             /\ UNCHANGED loop
       \/ /\ todo = {}
          /\ loop' = "idle"
          /\ UNCHANGED <<todo, subs, cut>>
    /\ UNCHANGED <<connected, rows, used, dynamic, device, job, linkVars, envVars>>

\* The loop notices the loss between two callbacks, closes the socket and
\* calls on_disconnect.
NoticeLoss ==
    /\ loop = "idle" /\ link = "lost"
    /\ link' = "down"
    /\ loop' = "lostFlag"
    /\ UNCHANGED <<connected, todo, subs, rows, used, dynamic, device, job, losses, envVars, cut>>

\* Mutant: on_disconnect does not clear self.connected.
OnDisconnectKeepFlag ==
    /\ loop = "lostFlag"
    /\ loop' = "lostRow"
    /\ UNCHANGED <<connected, todo, subs, rows, used, dynamic, device, job, linkVars, envVars, cut>>

\* Mutant: on_disconnect leaves the devices table alone.
OnDisconnectNoRow ==
    /\ loop = "lostFlag"
    /\ connected' = FALSE
    /\ loop' = "idle"
    /\ UNCHANGED <<todo, subs, rows, used, dynamic, device, job, linkVars, envVars, cut>>

OnDisconnectFlag ==
    /\ loop = "lostFlag"
    /\ connected' = FALSE
    /\ loop' = "lostRow"
    /\ UNCHANGED <<todo, subs, rows, used, dynamic, device, job, linkVars, envVars, cut>>

OnDisconnectRow == loop = "lostRow" /\ WriteDevice("disconnected", "idle")

LoopThread ==
    \/ Connack \/ Refused
    \/ OnConnectFlag \/ OnConnectRow \/ OnConnectRead \/ OnConnectSubscribe
    \/ NoticeLoss \/ OnDisconnectFlag \/ OnDisconnectRow

-----------------------------------------------------------------------------
(* Request threads.                                                        *)

Begin(t, op, topic, row) ==
    /\ op \in Ops
    /\ job[t] = Idle
    /\ job' = [job EXCEPT ![t] = [op |-> op, at |-> "check", topic |-> topic, row |-> row]]

Goto(t, step) == job' = [job EXCEPT ![t].at = step]
Return(t)     == job' = [job EXCEPT ![t] = Idle]

\* add_mqtt_mapping: ids are never used again.  (A row that violates the
\* unique index, or no database: the request ends without an effect.)
Insert(m) ==
    /\ db
    /\ m \notin used
    /\ rows' = rows \cup {m}
    /\ used' = used \cup {m}

\* delete_mqtt_mapping; without a database it raises.
Delete(ms) == rows' = IF db THEN rows \ ms ELSE rows

\* Mutant: the mapping is stored and left to the next reconnect.
ExposeOnly(t, m) ==
    /\ Insert(m)
    /\ "expose" \in Ops /\ job[t] = Idle
    /\ UNCHANGED <<connected, loop, todo, subs, dynamic, device, job, linkVars, envVars, cut>>

\* POST /mqtt/expose: the INSERT commits first.
Expose(t, m) ==
    /\ Insert(m)
    /\ Begin(t, "expose", TopicOf[m], {m})
    /\ UNCHANGED <<connected, loop, todo, subs, dynamic, device, linkVars, envVars, cut>>

\* DELETE /mqtt/mappings/<id>: the mapping is looked up first.
Remove(t, m) ==
    /\ db
    /\ m \in rows
    /\ Begin(t, "remove", TopicOf[m], {m})
    /\ UNCHANGED <<connected, loop, todo, subs, rows, used, dynamic, device, linkVars, envVars, cut>>

\* POST /mqtt/subscribe, and the subscription made by add_bridge_rule.
SubscribeDynamic(t, topic) ==
    /\ Begin(t, "subscribe", topic, {})
    /\ UNCHANGED <<connected, loop, todo, subs, rows, used, dynamic, device, linkVars, envVars, cut>>

UnsubscribeDynamic(t, topic) ==
    /\ Begin(t, "unsubscribe", topic, {})
    /\ UNCHANGED <<connected, loop, todo, subs, rows, used, dynamic, device, linkVars, envVars, cut>>

At(t, step) == job[t] # Idle /\ job[t].at = step

\* The test of self.connected; only the removal of a mapping goes on without.
Check(t) ==
    /\ At(t, "check")
    /\ \/ connected /\ Goto(t, "send")
       \/ ~connected /\ job[t].op = "remove" /\ Goto(t, "finish")
       \/ ~connected /\ job[t].op # "remove" /\ Return(t)
    /\ UNCHANGED <<connected, loop, todo, subs, rows, used, dynamic, device, linkVars, envVars, cut>>

\* self.client.subscribe / unsubscribe; without a socket it answers NO_CONN,
\* on which the dynamic requests stop.
Send(t) ==
    /\ At(t, "send")
    /\ IF job[t].op \in {"expose", "subscribe"}
       THEN Subscribe(job[t].topic)
       ELSE Unsubscribe(job[t].topic)
    /\ IF job[t].op = "remove" \/ (job[t].op # "expose" /\ link # "down")
       THEN Goto(t, "finish")
       ELSE Return(t)
    /\ UNCHANGED <<connected, loop, todo, rows, used, dynamic, device, linkVars, envVars>>

\* Bookkeeping after the packet: the set of dynamic subscriptions, or the
\* DELETE of the row.
Finish(t) ==
    /\ At(t, "finish")
    /\ Return(t)
    /\ dynamic' = CASE job[t].op = "subscribe"   -> dynamic \cup {job[t].topic}
                    [] job[t].op = "unsubscribe" -> dynamic \ {job[t].topic}
                    [] OTHER                     -> dynamic
    /\ IF job[t].op = "remove" THEN Delete(job[t].row) ELSE UNCHANGED rows
    /\ UNCHANGED <<connected, loop, todo, subs, used, device, linkVars, envVars, cut>>

Continue(t) == Check(t) \/ Send(t) \/ Finish(t)

Request(t) ==
    \/ \E m \in Rows : Expose(t, m) \/ Remove(t, m)
    \/ \E topic \in Topics : SubscribeDynamic(t, topic) \/ UnsubscribeDynamic(t, topic)

-----------------------------------------------------------------------------
(* The environment.                                                        *)

\* The broker or the network drops the session; the broker forgets it.
LoseLink ==
    /\ link = "up" /\ losses < MaxLosses
    /\ link' = "lost"
    /\ subs' = {}
    /\ losses' = losses + 1
    /\ UNCHANGED <<connected, loop, todo, rows, used, dynamic, device, job, envVars, cut>>

\* The pool goes away (a database outage, POST /database/disconnect) and back.
DbDown ==
    /\ db /\ dbFails < MaxDbFails
    /\ db' = FALSE
    /\ dbFails' = dbFails + 1
    /\ UNCHANGED <<connected, loop, todo, subs, rows, used, dynamic, device, job, linkVars, cut>>

DbUp ==
    /\ ~db
    /\ db' = TRUE
    /\ UNCHANGED <<connected, loop, todo, subs, rows, used, dynamic, device, job, linkVars, dbFails, cut>>

Environment == LoseLink \/ DbDown \/ DbUp

Next == LoopThread \/ (\E t \in Threads : Request(t) \/ Continue(t)) \/ Environment

\* Threads that have work run; the broker accepts a client that keeps trying,
\* and a failed database comes back.
Fairness ==
    /\ WF_vars(LoopThread) /\ SF_vars(Connack)
    /\ \A t \in Threads : WF_vars(Continue(t))
    /\ WF_vars(DbUp)

Spec == Init /\ [][Next]_vars /\ Fairness

-----------------------------------------------------------------------------
(* Properties.                                                             *)

\* Row m is being exposed: its own SUBSCRIBE is still to come.
Exposing(m) == \E t \in Threads : job[t] # Idle /\ job[t].op = "expose" /\ m \in job[t].row

\* A mapping never falls between on_connect and a concurrent expose: once both
\* are through and the session lives, the broker delivers the mapping's topic,
\* unless an unsubscribe (or the missing database) took it away.  It rests on
\* on_connect setting self.connected (mqtt_service.py:38) before it reads the
\* mappings (:248), and on expose storing the mapping (mqtt_routes.py:66)
\* before it tests self.connected (mqtt_service.py:269).
MappingsSubscribed ==
    \A m \in rows :
        link = "up" /\ loop = "idle" /\ ~Exposing(m) => TopicOf[m] \in subs \cup cut

\* Between two callbacks, self.connected says whether the client has a socket
\* with a session (on_connect :38, on_disconnect :74).
FlagFollowsSession == loop = "idle" => connected = (link # "down")

\* While the database has never failed, the devices table shows the state of
\* the connection between callbacks; before the first session it may still
\* show what the previous run of the gateway left.
DeviceRowFollows ==
    dbFails = 0 /\ loop = "idle" =>
        /\ connected => device = "connected"
        /\ ~connected /\ losses > 0 => device = "disconnected"

\* The client comes back by itself (mqtt_service.py:332, "Enable automatic
\* reconnection") and delivers: whatever the loop thread and the requests were
\* doing, there is a time when the session is up, self.connected is set and all
\* mappings stored by then are subscribed, and after each loss there is one
\* again, unless a callback raised for want of a database (:46, :85) and the
\* loop thread ended with it.
Recovers ==
    []<>(\/ link = "up" /\ connected /\ \A m \in rows : TopicOf[m] \in subs \cup cut
         \/ loop = "dead")

\* MQTT_SUBSCRIPTION_GUIDE.md:312: a dynamic subscription persists until it is
\* explicitly removed: with the session up and nothing in progress, its topic
\* is subscribed.
SubscriptionsPersist ==
    link = "up" /\ loop = "idle" /\ (\A t \in Threads : job[t] = Idle)
        => dynamic \subseteq subs \cup cut

=============================================================================
