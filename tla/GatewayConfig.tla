--------------------------- MODULE GatewayConfig ---------------------------
(***************************************************************************)
(* The settings of the gateway: the file .env, the class Config that is    *)
(* loaded from it at the start, and the connections made with them.        *)
(*                                                                         *)
(* Four routes store settings.  Each reads all lines of .env, opens the    *)
(* file for writing, which empties it, writes the lines back with its own  *)
(* replaced or added, sets the attributes of Config, and then reconnects.  *)
(* Every request has a thread of its own and no lock is taken.  A crash    *)
(* may come at any point; systemd starts the gateway again.                *)
(*                                                                         *)
(* The lines one route writes are one entry here, a host (or endpoint, or  *)
(* broker) and whether its numbers are numbers.                            *)
(***************************************************************************)
CONSTANTS
    Threads,            \* request threads
    Endpoints,          \* what a user may enter for the PLC
    Addresses,          \* ... and for the server, the broker and the database
    Default,            \* what config.py falls back to
    TimeoutMayBeEmpty   \* whether the user may clear the timeout field
ASSUME HostsAssumption == "none" \notin Endpoints \cup Addresses \cup {Default}
ASSUME TimeoutAssumption == TimeoutMayBeEmpty \in BOOLEAN

VARIABLES
    env,        \* .env: the lines of each section
    environ,    \* OPCUA_CLIENT_ENDPOINT in os.environ
    config,     \* the class Config
    up,         \* the process runs
    job,        \* what each request thread is doing
    serverUrl,  \* opcua_client.server_url
    session,    \* the endpoint the OPC UA client is connected to
    broker,     \* mqtt_service.current_broker, of the last start()
    looping,    \* mqtt_service.client is there and its loop runs
    strays,     \* brokers of earlier clients whose loops were never stopped
    connected,  \* mqtt_service.connected, which all these loops write
    pool,       \* the host db_service.pg_pool was built for
    deferred,   \* history: broker settings were stored without reconnecting
    saved,      \* history: the lines last written for each section, since the
                \* file was last lost
    raced       \* history: two requests got in each other's way

mqtt == <<broker, looping, strays, connected>>
memory == <<environ, config, serverUrl, session, mqtt, pool, deferred>>
vars == <<memory, env, up, job, saved, raced>>

Sections == {"opcua", "server", "mqtt", "database"}
Hosts == Endpoints \cup Addresses \cup {Default}
Places == Hosts \cup {"none"}

NoLine == [to |-> "none", number |-> TRUE]
Line == [to : Hosts, number : BOOLEAN] \cup {NoLine}
EmptyFile == [s \in Sections |-> NoLine]

Idle == [at |-> "idle", section |-> "opcua", line |-> NoLine, again |-> FALSE, copy |-> EmptyFile]
Steps == {"idle", "read", "truncate", "write", "set", "point", "leave", "join",
          "load", "adopt", "hangup", "start", "stop", "build", "assign", "tables", "close"}
Job == [at : Steps, section : Sections, line : Line, again : BOOLEAN, copy : [Sections -> Line]]

TypeOK ==
    /\ env \in [Sections -> Line]
    /\ config \in [Sections -> Hosts]
    /\ up \in BOOLEAN
    /\ job \in [Threads -> Job]
    /\ serverUrl \in Hosts
    /\ {environ, session, broker, pool} \subseteq Places
    /\ looping => broker \in Hosts
    /\ strays \subseteq Hosts
    /\ looping \in BOOLEAN /\ connected \in BOOLEAN /\ deferred \in BOOLEAN
    /\ saved \in [Sections -> Line]
    /\ raced \in BOOLEAN

\* Mutant: os.getenv() without its second argument.
LoadedRaw(file) == [s \in Sections |-> file[s].to]

\* What the class body of Config makes of the file.
Loaded(file) == [s \in Sections |-> IF file[s] = NoLine THEN Default ELSE file[s].to]

\* int() accepts every number in the file.
Loads(file) == \A s \in Sections : file[s].number

Init ==
    /\ env = EmptyFile
    /\ saved = EmptyFile
    /\ environ = "none" /\ config = Loaded(EmptyFile) /\ serverUrl = Default
    /\ session = "none" /\ pool = "none"
    /\ broker = "none" /\ looping = FALSE /\ strays = {} /\ connected = FALSE
    /\ deferred = FALSE
    /\ up = FALSE
    /\ job = [t \in Threads |-> Idle]
    /\ raced = FALSE

-----------------------------------------------------------------------------
(* The life of the process.                                                *)

\* main() and init_services(): without the numbers or the database they raise,
\* main() exits, and systemd tries again.  Then the MQTT client is started and
\* the OPC UA thread connects once.
Boot ==
    /\ ~up /\ Loads(env)
    /\ up' = TRUE
    /\ environ' = env["opcua"].to
    /\ config' = Loaded(env)
    /\ pool' = config'["database"]
    /\ broker' = config'["mqtt"]
    /\ looping' \in BOOLEAN
    /\ serverUrl' = config'["opcua"]
    /\ session' \in {"none", serverUrl'}
    /\ UNCHANGED <<env, job, strays, connected, deferred, saved, raced>>

\* What is in the file is lost with the process that was rewriting it.
Crash ==
    /\ up
    /\ up' = FALSE
    /\ environ' = "none" /\ config' = Loaded(EmptyFile) /\ serverUrl' = Default
    /\ session' = "none" /\ pool' = "none"
    /\ broker' = "none" /\ looping' = FALSE /\ strays' = {} /\ connected' = FALSE
    /\ deferred' = FALSE
    /\ job' = [t \in Threads |-> Idle]
    /\ saved' = IF \E t \in Threads : job[t].at = "write" THEN EmptyFile ELSE saved
    /\ UNCHANGED <<env, raced>>

\* The broker of the client, or one an earlier client still tries, answers; the
\* PLC and the brokers come and go.
BrokerAnswers ==
    /\ looping \/ strays # {}
    /\ ~connected
    /\ connected' = TRUE
    /\ UNCHANGED <<environ, config, serverUrl, session, broker, looping, strays, pool, deferred,
                   env, up, job, saved, raced>>

BrokerLost ==
    /\ connected
    /\ connected' = FALSE
    /\ UNCHANGED <<environ, config, serverUrl, session, broker, looping, strays, pool, deferred,
                   env, up, job, saved, raced>>

PlcLost ==
    /\ session # "none"
    /\ session' = "none"
    /\ UNCHANGED <<environ, config, serverUrl, mqtt, pool, deferred, env, up, job, saved, raced>>

-----------------------------------------------------------------------------
(* Requests begin.                                                         *)

\* The file is between its two states.
Rewriting(t) == job[t].at \in {"truncate", "write"}
Quiet(s) == \A t \in Threads : job[t].at = "idle" \/ job[t].section # s

\* A request with this first step; it should not meet another on its section.
Begin(t, s, step, line, again) ==
    /\ up /\ job[t].at = "idle"
    /\ job' = [job EXCEPT ![t] = [at |-> step, section |-> s, line |-> line,
                                  again |-> again, copy |-> EmptyFile]]
    /\ raced' = (raced \/ ~Quiet(s))
    /\ UNCHANGED <<env, up, saved>>

\* What the page sends: parseInt() of an empty field is NaN, which JSON makes
\* null and str() "None".
OpcuaInputs == [to : Endpoints, number : {TRUE, ~TimeoutMayBeEmpty}]
\* A port that is not a number becomes 1883.
MqttInputs == [to : Addresses, number : {TRUE}]
\* A number field: its value is a number or empty, and then 5432.
DatabaseInputs == [to : Addresses, number : {TRUE}]

ConfigureOpcua(t) ==
    /\ \E line \in OpcuaInputs : Begin(t, "opcua", "read", line, FALSE)
    /\ UNCHANGED memory

ConfigureServer(t) ==
    /\ \E h \in Addresses : Begin(t, "server", "read", [to |-> h, number |-> TRUE], FALSE)
    /\ UNCHANGED memory

\* The page asks to reconnect, a request without the field does not.
ConfigureMqtt(t) ==
    /\ \E line \in MqttInputs, reconnect \in BOOLEAN : Begin(t, "mqtt", "read", line, reconnect)
    /\ UNCHANGED memory

ConfigureDatabase(t) ==
    /\ \E line \in DatabaseInputs : Begin(t, "database", "read", line, FALSE)
    /\ UNCHANGED memory

ConnectOpcua(t) ==
    /\ session = "none"
    /\ Begin(t, "opcua", "load", NoLine, FALSE)
    /\ UNCHANGED memory

DisconnectOpcua(t) ==
    /\ session # "none"
    /\ Begin(t, "opcua", "leave", NoLine, FALSE)
    /\ UNCHANGED memory

\* A request that finds nothing to do.
Answer(t) ==
    /\ up /\ job[t].at = "idle"
    /\ UNCHANGED <<env, up, job, saved, raced>>

\* Mutant: a connected client is left alone, whatever its broker.
ConnectMqttOnce(t) ==
    /\ \/ ~connected /\ Begin(t, "mqtt", "start", NoLine, TRUE)
       \/ connected /\ Answer(t)
    /\ deferred' = FALSE
    /\ UNCHANGED <<environ, config, serverUrl, session, mqtt, pool>>

\* "If already connected but config changed, force reconnect".
ConnectMqtt(t) ==
    /\ \/ ~connected /\ Begin(t, "mqtt", "start", NoLine, TRUE)
       \/ connected /\ broker # config["mqtt"] /\ Begin(t, "mqtt", "hangup", NoLine, TRUE)
       \/ connected /\ broker = config["mqtt"] /\ Answer(t)
    /\ deferred' = FALSE
    /\ UNCHANGED <<environ, config, serverUrl, session, mqtt, pool>>

DisconnectMqtt(t) ==
    /\ connected
    /\ Begin(t, "mqtt", "stop", NoLine, FALSE)
    /\ UNCHANGED memory

InitDatabase(t) == Begin(t, "database", "build", NoLine, FALSE) /\ UNCHANGED memory

DisconnectDatabase(t) == Begin(t, "database", "close", NoLine, FALSE) /\ UNCHANGED memory

Request(t) ==
    \/ ConfigureOpcua(t) \/ ConfigureServer(t) \/ ConfigureMqtt(t) \/ ConfigureDatabase(t)
    \/ ConnectOpcua(t) \/ DisconnectOpcua(t)
    \/ ConnectMqtt(t) \/ DisconnectMqtt(t)
    \/ InitDatabase(t) \/ DisconnectDatabase(t)

-----------------------------------------------------------------------------
(* Storing settings.                                                       *)

Goto(t, step) == job' = [job EXCEPT ![t].at = step]
Finish(t) == job' = [job EXCEPT ![t] = Idle]

ReadLines(t) ==
    /\ job[t].at = "read"
    /\ job' = [job EXCEPT ![t].at = "truncate", ![t].copy = env]
    /\ raced' = (raced \/ \E u \in Threads \ {t} : Rewriting(u))
    /\ UNCHANGED <<memory, env, up, saved>>

\* open(env_path, 'w')
Truncate(t) ==
    /\ job[t].at = "truncate"
    /\ env' = EmptyFile
    /\ Goto(t, "write")
    /\ UNCHANGED <<memory, up, saved, raced>>

\* Mutant: only the lines that were there before are written.
RewrittenPresent(file, s, line) ==
    IF file[s] = NoLine THEN file ELSE [file EXCEPT ![s] = line]

\* The lines of the section are replaced where they are, or added.
Rewritten(file, s, line) == [file EXCEPT ![s] = line]

WriteLines(t) ==
    /\ job[t].at = "write"
    /\ env' = Rewritten(job[t].copy, job[t].section, job[t].line)
    /\ saved' = [saved EXCEPT ![job[t].section] = job[t].line]
    /\ job' = [job EXCEPT ![t].at = "set", ![t].copy = EmptyFile]
    /\ UNCHANGED <<memory, up, raced>>

\* What a route does when Config is set.
AfterSet(t) ==
    CASE job[t].section = "opcua"    -> Goto(t, "point")
      [] job[t].section = "server"   -> Finish(t)
      [] job[t].section = "mqtt"     -> IF job[t].again THEN Goto(t, "hangup") ELSE Finish(t)
      [] job[t].section = "database" -> Goto(t, "build")

SetConfig(t) ==
    /\ job[t].at = "set"
    /\ config' = [config EXCEPT ![job[t].section] = job[t].line.to]
    /\ deferred' = IF job[t].section = "mqtt" THEN ~job[t].again ELSE deferred
    /\ AfterSet(t)
    /\ UNCHANGED <<environ, serverUrl, session, mqtt, pool, env, up, saved, raced>>

-----------------------------------------------------------------------------
(* OPC UA: the end of the configure route, and the connect route.          *)

Point(t) ==
    /\ job[t].at = "point"
    /\ serverUrl' = job[t].line.to
    /\ Goto(t, "leave")
    /\ UNCHANGED <<environ, config, session, mqtt, pool, deferred, env, up, saved, raced>>

\* disconnect(): connected is false after it, even when it raised.
Leave(t) ==
    /\ job[t].at = "leave"
    /\ session' = "none"
    /\ IF job[t].line = NoLine THEN Finish(t) ELSE Goto(t, "join")
    /\ UNCHANGED <<environ, config, serverUrl, mqtt, pool, deferred, env, up, saved, raced>>

\* Mutant: load_dotenv() without override=True.
LoadOnce(t) ==
    /\ job[t].at = "load"
    /\ environ' = IF environ = "none" THEN env["opcua"].to ELSE environ
    /\ raced' = (raced \/ \E u \in Threads \ {t} : Rewriting(u))
    /\ Goto(t, "adopt")
    /\ UNCHANGED <<config, serverUrl, session, mqtt, pool, deferred, env, up, saved>>

\* load_dotenv(override=True): a line that is missing changes nothing.
Load(t) ==
    /\ job[t].at = "load"
    /\ environ' = IF env["opcua"] = NoLine THEN environ ELSE env["opcua"].to
    /\ raced' = (raced \/ \E u \in Threads \ {t} : Rewriting(u))
    /\ Goto(t, "adopt")
    /\ UNCHANGED <<config, serverUrl, session, mqtt, pool, deferred, env, up, saved>>

Adopt(t) ==
    /\ job[t].at = "adopt"
    /\ LET endpoint == IF environ = "none" THEN config["opcua"] ELSE environ
       IN  IF endpoint # serverUrl
           THEN serverUrl' = endpoint /\ config' = [config EXCEPT !["opcua"] = endpoint]
           ELSE UNCHANGED <<serverUrl, config>>
    /\ Goto(t, "join")
    /\ UNCHANGED <<environ, session, mqtt, pool, deferred, env, up, saved, raced>>

\* connect(endpoint) of the configure route sets the endpoint once more.
Join(t) ==
    /\ job[t].at = "join"
    /\ IF job[t].line = NoLine
       THEN UNCHANGED <<serverUrl, config>>
       ELSE /\ serverUrl' = job[t].line.to
            /\ config' = [config EXCEPT !["opcua"] = job[t].line.to]
    /\ session' \in {"none", serverUrl'}
    /\ Finish(t)
    /\ UNCHANGED <<environ, mqtt, pool, deferred, env, up, saved, raced>>

-----------------------------------------------------------------------------
(* MQTT: stop() and start().                                               *)

\* Mutant: the flag is left to the callbacks.
StopQuietly(t) ==
    /\ job[t].at \in {"hangup", "stop"}
    /\ looping' = FALSE
    /\ IF job[t].at = "hangup" THEN Goto(t, "start") ELSE Finish(t)
    /\ UNCHANGED <<environ, config, serverUrl, session, broker, strays, connected, pool, deferred,
                   env, up, saved, raced>>

\* stop(), in the configure and connect routes and in the disconnect route,
\* ends the loop of the service's own client and no other.
Stop(t) ==
    /\ job[t].at \in {"hangup", "stop"}
    /\ looping' = FALSE
    /\ connected' = FALSE
    /\ IF job[t].at = "hangup" THEN Goto(t, "start") ELSE Finish(t)
    /\ UNCHANGED <<environ, config, serverUrl, session, broker, strays, pool, deferred,
                   env, up, saved, raced>>

\* start() runs in a thread of its own and reads Config in the two seconds the
\* route waits.  It only overwrites the client: one whose loop runs, which the
\* connect route does not stop when it is not connected, goes on trying its own
\* broker.  Where connect() raises, the new client never gets a loop and the
\* flag is cleared; when the broker answers it is another matter.
Start(t) ==
    /\ job[t].at = "start"
    /\ broker' = config["mqtt"]
    /\ strays' = IF looping THEN strays \cup {broker} ELSE strays
    /\ looping' \in BOOLEAN
    /\ connected' = (connected /\ looping')
    /\ Finish(t)
    /\ UNCHANGED <<environ, config, serverUrl, session, pool, deferred, env, up, saved, raced>>

-----------------------------------------------------------------------------
(* PostgreSQL: init_postgresql() and the disconnect route.                 *)

\* The arguments of the new pool.
Build(t) ==
    /\ job[t].at = "build"
    /\ job' = [job EXCEPT ![t].at = "assign", ![t].line = [to |-> config["database"], number |-> TRUE]]
    /\ UNCHANGED <<memory, env, up, saved, raced>>

\* The pool opens its first connection when it is made; if that fails, there
\* is no pool.
Assign(t) ==
    /\ job[t].at = "assign"
    /\ \/ pool' = job[t].line.to /\ Goto(t, "tables")
       \/ pool' = "none" /\ Finish(t)
    /\ UNCHANGED <<environ, config, serverUrl, session, mqtt, deferred, env, up, saved, raced>>

\* A statement that fails, or a pool that is gone, costs the pool.
Tables(t) ==
    /\ job[t].at = "tables"
    /\ pool' \in {pool, "none"}
    /\ Finish(t)
    /\ UNCHANGED <<environ, config, serverUrl, session, mqtt, deferred, env, up, saved, raced>>

Close(t) ==
    /\ job[t].at = "close"
    /\ pool' = "none"
    /\ Finish(t)
    /\ UNCHANGED <<environ, config, serverUrl, session, mqtt, deferred, env, up, saved, raced>>

Work(t) ==
    \/ ReadLines(t) \/ Truncate(t) \/ WriteLines(t) \/ SetConfig(t)
    \/ Point(t) \/ Leave(t) \/ Load(t) \/ Adopt(t) \/ Join(t)
    \/ Stop(t) \/ Start(t)
    \/ Build(t) \/ Assign(t) \/ Tables(t) \/ Close(t)

-----------------------------------------------------------------------------
Next ==
    \/ Boot \/ Crash
    \/ BrokerAnswers \/ BrokerLost \/ PlcLost
    \/ \E t \in Threads : Request(t) \/ Work(t)

\* systemd starts the gateway again and again (Restart=always), and the
\* database answers at last.
Fairness == WF_vars(Boot)

Spec == Init /\ [][Next]_vars /\ Fairness

-----------------------------------------------------------------------------
(* Properties.                                                             *)

\* No request loses what another has stored, through every restart, unless two
\* rewrote the file at once (the read-modify-write of .env in the four
\* configure routes).  A crash loses settings only where it finds the file
\* empty (see Crash).
SettingsSurvive ==
    ~raced /\ (\A t \in Threads : job[t].at # "write") => env = saved

\* The gateway runs with what it would load at the next start: Config has the
\* stored value of every section no request is just storing (what a route sets
\* after the file, and the reload of the connect route, opcua_routes.py:812).
ConfigIsStored ==
    up /\ ~raced /\ (\A t \in Threads : job[t].at # "write") =>
        \A s \in Sections :
            (\A t \in Threads : job[t].at = "set" => job[t].section # s)
                => config[s] = Loaded(env)[s]

\* Between requests about the PLC its client has the configured endpoint, and
\* is connected there or not at all (opcua_routes.py:498-507).
SessionFollows ==
    up /\ ~raced /\ Quiet("opcua") =>
        serverUrl = config["opcua"] /\ session \in {"none", config["opcua"]}

\* The service's MQTT client was made for the configured broker, unless the
\* settings were stored without a reconnect and nobody has asked for one since
\* (mqtt_routes.py:253, :361); and the flag speaks of that client, or else of an
\* earlier one whose loop was left running: a connect while disconnected does
\* that (mqtt_routes.py:264-274), and such a client may still reach the broker
\* of before the last save.
BrokerFollows ==
    /\ up /\ ~raced /\ Quiet("mqtt") /\ looping => broker = config["mqtt"] \/ deferred
    /\ connected => looping \/ strays # {}

\* No connection of the pool leads to another database than the configured
\* one, whatever failed on the way (database_service.py:163).
PoolFollows ==
    up /\ ~raced /\ Quiet("database") => pool \in {"none", config["database"]}

\* Whatever was stored, connected, disconnected and lost in between: the PLC
\* client's session, the service's MQTT client and the pool belong to the
\* configured endpoint, broker and database (the three properties above, with
\* their exceptions).
ConnectionsMatch == SessionFollows /\ BrokerFollows /\ PoolFollows

\* A gateway that stopped comes back: the settings that were stored load
\* (config.py:43, run.py:73).
ComesBack == ~up ~> up
=============================================================================
