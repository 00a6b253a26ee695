# A verification of the IoT gateway and its WiFi sensor

TLA+ models of the two programs of this repository that run for months without
anybody watching: the IIoT gateway on a Raspberry Pi
(`src/IIoT_Gateway_on_Raspberry_Pi-Upgrade`, Python) and the WiFi sensor on a
Pico W (`src/Pico_W_WiFi_sensor`, C).  TLC checks small instances; TLAPS proves
the properties that matter most for every value of the constants.

## The system

A sensor reads a DHT22 and publishes to an MQTT broker.  The gateway subscribes
to topics, writes message fields to an S7-1500 PLC by OPC UA, polls variables of
the PLC, and stores both in PostgreSQL.  A web interface configures all of it.

| component | state it keeps | operations | talks to |
|---|---|---|---|
| MQTT service (`mqtt_service.py`, `mqtt_routes.py`) | `client`, `connected`, `dynamic_subscriptions`, `bridge_rules`; table `mqtt_opcua_mappings` | paho callbacks in the loop thread; routes in request threads | broker, database, OPC UA client |
| OPC UA client (`opcua_client_service.py`, `opcua_routes.py`) | `client`, `connected`, `running`, `monitoring_thread`, `previous_values` | `connect`, `disconnect`, `run`, monitoring loop, `write_variable` | PLC, database |
| Database service (`database_service.py`, `data_routes.py`) | `pg_pool`; tables `devices`, `sensor_data`, `opcua_monitored_variables` | one statement per call, errors partly swallowed | PostgreSQL |
| Settings (`config.py`, the configure routes, `configuration.js`) | `.env`, `os.environ`, class `Config` | read-modify-write of `.env` by four routes, reload by the connect route, start, restart by systemd | all of the above |
| Bridge rules by name (`_resolve_opcua_node_id_for_rule`, `search_variables`, `write_variable`) | `target_opcua_node_id` of a rule; queue, visited set and results of a search | search, choice, conversion and write of a value | OPC UA server |
| Web pages, browsing | none of its own | requests | the routes |
| Sensor main loop (`main.c`) and MQTT client (`mqtt_client.c`) | `current_state`, test flags, retry timer | boot, check, retry, publish, restart | lwIP, broker |
| Sensor settings (`access_point.c`, `http_server.c`, `api_server.c`, `flash_program.c`) | flash page, `g_config`, `restart_requested` | setup form, REST API, boot, flash write | user, flash |
| DHCP server (`dhcp_server.c`) | `lease`: of each address the client and 16 bits of the end | DISCOVER, REQUEST, start with setup mode | clients of the access point, clock |
| DHT22, display, TCP test server | timing, frame buffer | reading, drawing | main loop, lwIP |

What makes it hard: the gateway's threads (paho's loop thread, one request thread
per request, the OPC UA service thread, monitoring threads) share attributes
without locks; network, PLC and database each come and go; errors are swallowed
in some layers and raised in others.  On the sensor lwIP's callbacks and web
handlers are interrupts in the middle of `main()`, and power may fail while
settings are written; the DHCP server keeps half of each time stamp and compares
it with a clock that wraps.

What makes each part correct, in short: subscriptions follow the mappings; the
flags and the devices table say what the connections are; every rule and mapping
is applied to every message once; one thread polls and a connected client is
polled; the history is a faithful, complete trace of the PLC; a rule given by
name writes to the one variable of that name, and a write that says it succeeded
did; no two clients of the access point have one address; the sensor reconnects,
spaced; what a user was told is saved is what the device runs with.

Every hazard found while reading is listed in `PROJECT.json` at its line, with
the property that covers it or the reason why none does.

## Modules

| module | models | actions and code |
|---|---|---|
| `MqttSubscriptions` | one paho client's life, mappings, dynamic subscriptions | `Connack`..`OnDisconnectRow`: the loop thread through `on_connect` (mqtt_service.py:35), `_subscribe_to_configured_topics`, `on_disconnect`; `Expose`, `Remove`, `SubscribeDynamic`, `UnsubscribeDynamic`: routes, as jobs with the steps check, send, finish; `LoseLink`, `DbDown`, `DbUp`: environment |
| `MessagePath` | `on_message` | `Receive`, `NextRule`, `RulesDone`: the walk over `bridge_rules`; `Lookup`, `WriteToPlc`, `Store`: `_process_message`; `CreateRule`, `AppendRule`, `SubscribeRule`, `FilterRules`, `AssignRules`: the two rule routes |
| `OpcuaSession` | threads around the OPC UA client | `Create`..`LaunchMonitor`: `connect` and `start_monitoring`; `StopMonitoring`..`ClearRow`: `disconnect`; `Svc*`: `run`; `MonitorTest`, `MonitorWork`: monitoring threads |
| `Historian` | the promise of the history: an abstract specification | `Record` a value the PLC has had, after what is stored; `Forget` at a restart of monitoring |
| `VariableHistory` | `_monitoring_loop` and the variable routes | `Test`, `List`, `Poll`, `Write`, `Remember`; `Select`, `AddManual`, `Remove`, `Start`, `StopFlag`, `StopClear` |
| `GatewayConfig` | the gateway's settings and what is connected with them | `ReadLines`, `Truncate`, `WriteLines`, `SetConfig`: the four configure routes; `Point`, `Leave`, `Join`: the end of `configure_opcua_client`; `Load`, `Adopt`: the reload in `connect_opcua_client`; `Stop`, `Start`: the MQTT service, where `Start` leaves behind (`strays`) an earlier client whose loop runs; `Build`, `Assign`, `Tables`: `init_postgresql`; `Boot`, `Crash`: `run.py`, `init_services`, systemd; `BrokerAnswers`, `BrokerLost`, `PlcLost`: environment |
| `OpcuaSearch` | `search_variables` | `StartSearch`, `Visit` (one turn of the loop, whatever fails in it), `EndSearch`; `level` and `pending` are the queue and the visited set |
| `PlcWrite` | `write_variable` | `Coerced`: `_coerce_payload_value`; `Convert`; `SetValue`, `WriteRaw`, `SetAttribute`, `SetInferred`: the forms of the write that are tried in turn |
| `RuleTarget` | a rule given by name: composes the two above | `MessageUnresolved`, `SearchTurn`, `Resolve`: `_resolve_opcua_node_id_for_rule`; `MessageResolved`, `WriteResolved`, `WriteSkipped`, `Writing`, `MessageDone`: the write of `_process_bridge_rules`; `Diagnose`, `Readback`: the diagnosis route |
| `DhcpLeases` | the sensor's DHCP server | `Discover`, `Request`: `dhcp_server_process`; `Tick`: the clock; `Restart`: `dhcp_server_init` |
| `PicoMqtt` | sensor `main()` loop and MQTT client | `Guards`..`OpenConnection`: `mqtt_sensor_connect`, with the time its waits take (`Wait`, `turnAge`); `TurnLoop`, `ReadSensor`, `Sleep`, `Restart`: the loop; `TestConnected`..`ConnectionLost`: interrupts |
| `PicoConfig` | sensor settings | `EraseSector`, `ProgramPage`: a flash write in two steps; `EnterSetup`..`ArmWatchdog`: `main()` from boot to restart; `Submit`: `cgi_handler`; `Post`: `api_handle_post_config`; `WatchdogReset`, `PowerCut`: the hardware, which may cut a flash write (`Reset`) |

`MC*` modules give constants values that a cfg cannot hold.  `*_proofs` modules
hold the theorems.  A definition whose comment begins with *Mutant* is a bug the
code might have had; it is not part of any specification and shows that the
property it is listed for can fail.

How the modules fit together: `MqttSubscriptions` establishes that messages of
mapped topics arrive, `MessagePath` starts with such a message and takes the
session as up.  `OpcuaSession` establishes when one thread monitors
(`OneMonitor`), which `VariableHistory` takes for granted.  `VariableHistory`
implements `Historian` by `fresh <- previous = None`.  `MessagePath`
takes a write to the PLC as one step; `RuleTarget` is what that step does for a
rule given by name.  `PicoMqtt`'s `Configure` and `Restart` are the outside of
`PicoConfig`'s `Post` and `StopLoop`.  Data is abstract throughout: a topic, a
node and a variable are model values, the n-th value of a PLC node is n, a
payload is the set of fields it has (in `PlcWrite` a kind and a number), settings
are records of the values the code tells apart.

## Runs

| run | what it shows |
|---|---|
| `mqtt_mappings` | Two request threads, a loss of the link and an outage of the database: `MappingsSubscribed` (no mapping falls between `on_connect` and a concurrent expose), `FlagFollowsSession`, `DeviceRowFollows`, and under fairness `Recovers`: again and again the session is up, the flag is set and every mapping is subscribed, unless the loop thread has died of an exception. |
| `mqtt_dynamic_lost` | *Violation* of `SubscriptionsPersist`: dynamic subscriptions do not survive a reconnect, against MQTT_SUBSCRIPTION_GUIDE.md:312. |
| `message_path` | `RulesServed` (every rule that was there when the message came is applied, none twice, in the order of the list) while rules are added and removed under the loop, `MappingsStored` under failing statements, `Drains` when the rules have no cycle. |
| `opcua_session` | Two request threads and the service thread from the boot on, a loss and a join that gives up: `OneMonitor`, and if no join gives up `MonitoringFollows` (a connected client is polled, and no session is closed over a thread that polls), as long as calls do not overlap; `LossNoticedByLoop` and `StopsMonitoring` in any order of calls. |
| `opcua_loss_unseen` | *Violation* of `LossNoticed`: after a disconnect or configure nobody watches the connection. |
| `variable_history` | `IsHistory` (the implementation of `Historian`), `ChangesStored`, `PreviousStored`. |
| `plc_target` | Over many address spaces and all failures: `FoundInReach`, `FoundAll` (what a search returns and misses), `ResolvedUnambiguously` (which variable a rule settles on), `WriteTruthful` (what the answer of a write says of the PLC). |
| `gateway_config` | Two requests at a time, crashes and failing connections at every step: `SettingsSurvive`, `ConfigIsStored`, `ConnectionsMatch` (the PLC session, the service's MQTT client and the pool belong to what is configured, and the MQTT flag speaks of that client or of one that was left running). |
| `gateway_timeout` | *Violation* of `ComesBack`: an empty timeout field is stored as `None` and no later start succeeds, against CONFIGURATION_UPGRADE.md:309. |
| `pico_mqtt` | All interleavings of loop and interrupts: `OneConnection`, `TestSound`, `RetriesSpaced` (30 seconds from a loss, or from the beginning of one attempt, to the beginning of the next; the pause after a failure is shorter by as long as the attempt took), `Reconnects`. |
| `pico_config` | Every order of boots, forms, posts, restarts by the watchdog and power cuts: `AckedIsStored`, `RunsStored`, `JoinsPatched` (MQTT starts with a broker and without an empty topic; erased bytes are not taken for missing), `SaveTakesEffect`. |
| `dhcp_leases` | Three clients for two addresses over all phases of the wrapping clock: `NoDoubleLease`, `RefusedOnlyWhenFull`. |

Every passing run also has the `TypeOK` of its module (`DhcpTypeOK` in
`DhcpLeases`, whose `Init`, `Next`, `Spec` and `vars` have the prefix too: one
proof module extends it together with `PicoConfig`).

### Bounds

- `MqttMappings`: two mappings on one topic are fan-out and share a
  subscription; two request threads give every pair of concurrent requests; one
  loss and one outage of the database put a failure at every step, also of the
  reconnection.
- `MqttDynamicLost`: one thread and one loss are enough to lose a subscription.
- `MessagePath`: two rules are the smallest cycle, chain and list from which one
  is removed under the loop; one message from outside becomes several through
  the rules; the queue of the broker holds two (beyond that the broker drops, as
  with `max_queued_messages`). It has one request thread: with two, an append is
  lost in a concurrent removal (a hazard without a property); the theorems hold
  for any number.
- `OpcuaSession`: two requests beside the service thread's own attempt give
  every overlap of two callers; requests bound the `Client` and `Thread`
  objects; one join may give up.
- `RuleTarget`: 256 address spaces of eight nodes with a cycle, a node to be met
  at two depths and namesakes at different depths; depth 3, two results and
  seven nodes are limits that are each met and not met; the payloads are of each
  kind, the numbers on either side of each limit of width, sign and truth; the
  messages have each form, and objects each set of the three fields.
- `DhcpLeases`: the smallest number of clients for which an address is wanted by
  one more than there are; a coarse unit of 4, half a clock of 8 and a lease of
  3 keep the order of 2^16, 2^31 and a day (the assumption `LeaseTime + Coarse
  <= Half`), and the clock goes round without a bound.
- `VariableHistory`: two ids on two nodes, one change of each, one failure, one
  stop.
- `PicoMqtt`: times are scaled (check 2, delay 5, turn at most 2, each of the two
  waits of an attempt at most 1), which keeps their order and lets turns be late
  and attempts take any part of the delay up to their limit; there is no other
  bound.
- `GatewayConfig`: two request threads, as every race is one of two requests;
  two endpoints, one of them the default, and one address for the server, the
  broker and the database besides the default, so that old and new differ; the
  threads are symmetric, and what follows a race (`raced`) is cut off by a
  constraint, since no property but the flag's says anything of it. The run has
  no other bound: any number of requests, crashes, losses and clients left
  running.
- `GatewayTimeout` has one request thread, which is enough to store the field.
- `PicoConfig`: one value of each kind besides the special ones, as the code
  only copies them; there is no other bound.

`CHECK_DEADLOCK FALSE` is given where all bounded requests and failures may be
used up; the three sensor models and `RuleTarget` never stop.

### Fairness

Threads that can run do run (weak fairness of the loop thread, of requests in
progress, of the service and monitoring threads, of `main()`): they are
scheduled by the operating system and their waits are timed.  Nobody has to
issue a request, and failures need not happen.  Strong fairness is used where a
retry is repeated against something outside: the broker accepts a client that
keeps trying (`Connack`; on the sensor the answers to the port test and to
CONNECT, and lwIP having memory for one), and `main()` of `PicoConfig` gets on
between requests.  A watchdog that is armed fires, whatever the handlers do.  A database that is down comes back (`DbUp`).
`ComesBack` has a start that can succeed taken at last (`Restart=always` in
iiot-gateway.service).

## Proofs

All for arbitrary constants that satisfy the named assumptions (bounds are
natural numbers, special values differ from ordinary ones).

- `MqttSubscriptions_proofs`: `TypeCorrect`, `FlagCorrect`, `MappingsCorrect`,
  `DeviceRowCorrect`.  The invariant says for each place of the loop thread what
  `connected` and `link` are, and for each mapping who is still going to subscribe it: the loop
  thread (not yet read, or in `todo`), the exposing request (its packet is to
  come and the flag is set), or nobody because it is subscribed or cut.  For the
  devices table `DeviceInv` says for each place of the loop thread what the row
  shows if no statement has failed.
- `MessagePath_proofs`: `TypeCorrect`, `RulesAreServed`, `MappingsAreStored`,
  for any number of request threads.  `WalkInv` divides the rules that are due into those served and those ahead of the loop's place in
  the list it walks, and puts every served one behind that place; that takes
  `RuleInv`: no rule is twice in the list, in a list on its way to be assigned or
  in the one the loop goes on with, and the rule a request is about to append is
  in neither of the first two.  `ServedInOrder` is inductive with these.  `MappingInv` says
  that a mapping that asks for a row is settled or still to come.  What the
  filter leaves (`Without`) is given by the indices it keeps, so that its lemma
  (`WithoutFacts`: no rule twice, no new one) follows from counting, without an
  induction over lists; that a list is no longer than the rules created, which
  bounds the ids, is a pigeonhole argument (`FewRules`).
- `OpcuaSession_proofs`: `TypeCorrect`, `OneMonitorPolls`,
  `ConnectedIsMonitored` and `DisconnectStopsFirst` (together
  `MonitoringFollowsSession`).  `OneMonitorPolls`: as long as no two
  calls of `connect` and `disconnect` overlap, at most one thread monitors, for
  any number of request threads.  `OneMonitor` alone is not inductive: one has to
  know that every thread but `self.monitoring_thread` has ended before another is
  launched, and which steps its caller can be in.  If no join has given up either,
  `MonitoredInv` adds who may set `connected`, and that a thread
  that is alive finds `running` set or has its stopper waiting for it; `StoppedInv` that
  past the join no thread is alive until `disconnect` has returned.
- `VariableHistory_proofs`: `TypeCorrect`, `Implementation`
  (`Spec => H!Spec`) and `PreviousIsStored`.  The invariant relates the value in
  the thread's hand, the previous value and the last stored one.
- `PicoMqtt_proofs`: `TypeCorrect`, `StateIsConn`, `TestIsSound`,
  `AttemptsSpaced`.  The retry timer is never older than the last loss and the
  beginning of the last attempt (`errorAge` and `turnAge` against `quietFor`),
  however long an attempt takes, and an interrupt finds `main()` in a step in
  which the state it writes is not overwritten.
- `PicoSetup_proofs`, the settings: `TypeCorrect`, `AcknowledgedIsKept`,
  `RunsWithStored`, `JoinsWithPatched`.  The invariant says which settings are in
  memory, in the flash and on their way there in each step of `main()`; patching
  settings twice changes nothing (`PatchedFacts`), which is why main's second
  write keeps what was acknowledged.  `ResetInv` covers the watchdog and the
  power cut at once, in a write and outside one.  `TopicInv` says that, once a
  topic was acknowledged and until a write is cut, neither memory nor flash has
  one of erased bytes, after rejected forms too.
- `GatewayConfig_proofs`: `TypeCorrect`, `StoredIsKept`, `RunsWithStored`,
  `ConnectionsFollow`.  The invariant `IInv` has a part for each thing that is on
  its way: while no two requests are on one section and no two rewrite the file
  (`SoleInv`), what is stored is in the file or in the hands of the one who
  emptied it (`FileInv`), in `Config` or with the one who is to set it
  (`StoredInv`), in the environment when the connect route takes it
  (`EnvironInv`), and a connection that differs from `Config` is one a request
  has still to end (`OpcuaInv`, `MqttInv`, `PoolInv`).  None of these is
  inductive alone.  `FlagInv`, kept raced or not, says that the MQTT flag is set
  only where some loop runs that may have set it.  One lemma per action shows that the invariant is kept.
- `PicoSetup_proofs`, the DHCP server: `DhcpTypeCorrect`, `LeasesExclusive`,
  `AddressesComeBack`.  The invariant says that an entry in use keeps the coarse end of the lease its
  last grant began (`ExpiryFollows`, across the wrap of the clock) and that who may
  still use an address has its entry (`HoldersKept`); lemmas about `%` say what
  the sign of the difference then means.
- `RuleTarget_proofs`: `TypeCorrect`, `SearchSound`, `SearchComplete`,
  `RuleUnambiguous`, `WriteIsTruthful`.  The search keeps `Traced` (the level of a
  node is the length of a way to it) and `BreadthFirst` (the queue spans two
  levels, and what has left it has its children on the next level or above).
  That no node is queued too deep follows along a way to it: the lemma `Least`
  picks the first node of the way that would be, from the fact that inclusion of
  finite sets is well-founded.  The write keeps that every type the value may be
  written as, if it is the variable's, gives it the payload's number.

Every invariant the runs check is a theorem, and so is the refinement of
`Historian`.  Only model-checked are the liveness properties (`Recovers`,
`Drains`, `LossNoticedByLoop`, `StopsMonitoring`, `Reconnects`,
`SaveTakesEffect`, `ChangesStored`): TLAPS has no support for fairness and
ENABLED.  The three violated properties are counterexamples, not theorems.  The
provers cannot use an induction theorem that takes an operator; where a proof
needs induction over numbers or sets, it takes the least element of a set that
is not empty (`Least`).

## What properties exempt

Some properties hold only outside a situation the code does not handle, and say
so: topics an unsubscribe took away (`cut`) and a loop thread that died (both
`MqttSubscriptions`), calls that overlap (`OneMonitor`,
`MonitoringFollows`) and joins that gave up (the latter), searches that a
failure or a limit cut short (`FoundAll`, `ResolvedUnambiguously`), answers that
were lost (`WriteTruthful`), texts as payloads of which the number is not
compared (the same), grants older than half the clock's range
(`RefusedOnlyWhenFull`), statements that failed inside `write_sensor_data`
(`missed`), a flash write that was cut, by a power failure or by the watchdog
that `main()` arms while handlers still take requests (`cut`), and a rejected
form (both `AckedIsStored`), a topic of erased bytes before any was acknowledged
(`JoinsPatched`: a first setup without MQTT fields or an old page leaves one,
main.c:293), the time an attempt took (`RetriesSpaced`: the next one may begin
that much sooner than 30 seconds after the failure, main.c:450), a
missing pool and cycles of rules (`MessagePath`), two requests at once on one
section or in the file and a crash that finds the file empty (`GatewayConfig`),
broker settings stored without a reconnect (`deferred`), the MQTT clients that a
connect while disconnected leaves running (`strays`: they go on trying their own
broker, of which `ConnectionsMatch` says nothing but that they may hold the
flag), a `main()` that ended before its loop (`SaveTakesEffect`: a join of the
WiFi that failed, or a second `httpd_init()` that does not return, as
access_point.c:173 has bound the port before main.c:365).  Most of these are hazards in `PROJECT.json`.

## Not modelled

What several MQTT clients at once do to subscriptions and messages
(`GatewayConfig` has only which of them may hold the flag), the database pool as an object, wildcard patterns
other than `#`, the life of a connection of the sensor's
REST server and the DHT22's bits are in the plan below.  `_extract_json_value`
and `_topic_matches` parse text character by character; `MessagePath` takes what
they answer.  The connection tests of the three services open a client of their
own and keep nothing.  The route that disables a variable calls a method that
does not exist: it changes nothing.  Pages, browsing, the disabled OPC UA
server, `*_old.py`, scripts, display, generated pages, the TIA project,
dashboards and drawings have no state of their own or are not this system's
program text.  `mqtt_sensor_disconnect` and `mqtt_update_config` have no caller;
`topic_callbacks` is never filled by a route.

## Plan

Done: the core components, the message path, the settings, rules given by name
with their search and write, the DHCP server.  Next, in order:

1. `ApiServer` (sensor): `api_accept`, `api_conn_recv`, `api_dispatch_request`,
   `api_conn_sent`, `api_conn_err`; one answer per request, every connection's
   state freed once.  Bounds: two connections, three chunks.
2. `MqttLifecycle` (gateway): `start`, `stop` and the routes connect, disconnect
   and configure with several clients, their sessions and the messages they
   process twice, on top of `MqttSubscriptions` and of `GatewayConfig`'s `strays`.
3. `DbPool`: borrowed connections against a pool that is replaced; the leak of
   `get_database_status`.
4. `TopicMatch`, `_extract_json_value` and the DHT22's decoding as operators
   against a reference over bounded inputs.
5. Proofs of the safety of `ApiServer`, `MqttLifecycle` and `DbPool`, in the
   proof modules of the sensor's settings, the subscriptions and the gateway's
   settings.
