---------------------------- MODULE OpcuaSession ----------------------------
(***************************************************************************)
(* The OPC UA client of the gateway (app/services/opcua_client_service):   *)
(* the service thread in run(), which connects once and then watches the   *)
(* connection, the request threads of the routes connect, disconnect and   *)
(* configure, and the monitoring threads they start and stop.  All of them *)
(* share self.client, self.connected, self.running and                     *)
(* self.monitoring_thread without a lock.                                  *)
(*                                                                         *)
(* A call of connect() or disconnect() is a walk of its caller through the *)
(* steps below; between two steps any other thread may run.  What the      *)
(* monitoring loop reads and stores is in VariableHistory.                 *)
(***************************************************************************)
EXTENDS Naturals

CONSTANTS
    Threads,        \* request threads
    MaxRequests,    \* bound on the requests that are issued
    MaxBreaks,      \* bound on the losses of the link to the PLC
    MaxTimeouts,    \* bound on the joins that give up after 5 seconds
    DbFails         \* the devices table cannot always be written

CONSTANT Svc        \* the service thread
ASSUME CallerAssumption == Svc \notin Threads
ASSUME BoundAssumption ==
    /\ MaxRequests \in Nat /\ MaxBreaks \in Nat /\ MaxTimeouts \in Nat
    /\ DbFails \in BOOLEAN

Callers  == Threads \cup {Svc}
Sessions == 1..(MaxRequests + 1)   \* opcua.Client objects, one per connect()
Monitors == 1..(MaxRequests + 1)   \* Thread objects, at most one per connect()
None     == 0

VARIABLES
    endpoint,    \* Config.OPCUA_CLIENT_ENDPOINT is set
    client,      \* self.client
    session,     \* the session of each client with the PLC
    connected,   \* self.connected
    running,     \* self.running
    monitor,     \* self.monitoring_thread
    mon,         \* where each monitoring thread is
    device,      \* status of the row 'S7-1500 PLC' in devices
    at,          \* where each caller is
    op,          \* the request a request thread works on
    requests, breaks, timeouts,  \* how much of each bound is used
    overlap      \* history: two callers were connecting or disconnecting at once

counters == <<requests, breaks, timeouts, overlap>>
vars == <<endpoint, client, session, connected, running, monitor, mon, device,
          at, op, counters>>

SvcSteps == {"start", "wait", "try", "loop", "probe", "mark", "ended"}
ConnectSteps == {"create", "open", "flag", "row", "guard", "thread", "launch"}
DisconnectSteps == {"stop", "join", "join2", "close", "drop", "fail", "clearRow"}
Status == {"connected", "disconnected"}

TypeOK ==
    /\ endpoint \in BOOLEAN
    /\ client \in Sessions \cup {None}
    /\ session \in [Sessions -> {"unused", "new", "open", "broken", "closed"}]
    /\ connected \in BOOLEAN
    /\ running \in BOOLEAN
    /\ monitor \in Monitors \cup {None}
    /\ mon \in [Monitors -> {"unused", "made", "test", "work", "done"}]
    /\ device \in Status
    /\ at \in [Callers -> SvcSteps \cup ConnectSteps \cup DisconnectSteps \cup {"idle"}]
    /\ op \in [Threads -> {"none", "connect", "disconnect", "configure"}]
    /\ requests \in 0..MaxRequests
    /\ breaks \in 0..MaxBreaks
    /\ timeouts \in 0..MaxTimeouts
    /\ overlap \in BOOLEAN

Init ==
    /\ endpoint \in BOOLEAN
    /\ client = None
    /\ session = [c \in Sessions |-> "unused"]
    /\ connected = FALSE
    /\ running = FALSE
    /\ monitor = None
    /\ mon = [k \in Monitors |-> "unused"]
    /\ device \in Status
    /\ at = [p \in Callers |-> IF p = Svc THEN "start" ELSE "idle"]
    /\ op = [t \in Threads |-> "none"]
    /\ requests = 0 /\ breaks = 0 /\ timeouts = 0 /\ overlap = FALSE

\* i is the next object of its kind to be created.
IsNext(i, state) == state[i] = "unused" /\ \A j \in DOMAIN state : state[j] = "unused" => i <= j

Alive(k) == k # None /\ mon[k] \in {"test", "work"}
Goto(p, step) == at' = [at EXCEPT ![p] = step]
Busy(p) == at[p] \in ConnectSteps \cup DisconnectSteps

\* A caller sets out to connect or disconnect, perhaps not as the only one.
SetsOut(p, step) ==
    /\ Goto(p, step)
    /\ overlap' = (overlap \/ \E q \in Callers : q # p /\ Busy(q))

\* The caller returns from connect(): the service thread to its loop, a
\* request thread to the web server.
Return(p) ==
    IF p = Svc
    THEN Goto(p, "loop") /\ UNCHANGED op
    ELSE Goto(p, "idle") /\ op' = [op EXCEPT ![p] = "none"]

-----------------------------------------------------------------------------
(* connect()                                                               *)

\* self.client = Client(self.server_url); without an endpoint it gives up.
Create(p) ==
    /\ at[p] = "create"
    /\ \/ /\ endpoint
          /\ \E c \in Sessions :
                /\ IsNext(c, session)
                /\ client' = c
                /\ session' = [session EXCEPT ![c] = "new"]
          /\ Goto(p, "open")
          /\ UNCHANGED op
       \/ /\ ~endpoint
          /\ Return(p)
          /\ UNCHANGED <<client, session>>
    /\ UNCHANGED <<endpoint, connected, running, monitor, mon, device, counters>>

\* self.client.connect(): on whatever self.client is by now; a failure ends
\* in the except branch.
Open(p) ==
    /\ at[p] = "open"
    /\ \/ /\ session' = [session EXCEPT ![client] = "open"]
          /\ Goto(p, "flag")
          /\ UNCHANGED <<connected, op>>
       \/ /\ connected' = FALSE
          /\ Return(p)
          /\ UNCHANGED session
    /\ UNCHANGED <<endpoint, client, running, monitor, mon, device, counters>>

SetConnected(p) ==
    /\ at[p] = "flag"
    /\ connected' = TRUE
    /\ Goto(p, "row")
    /\ UNCHANGED <<endpoint, client, session, running, monitor, mon, device, op, counters>>

\* update_device_status; what it raises is caught.
WriteDevice(status) == device' \in {status} \cup (IF DbFails THEN {device} ELSE {})

SetRow(p) ==
    /\ at[p] = "row"
    /\ WriteDevice("connected")
    /\ Goto(p, "guard")
    /\ UNCHANGED <<endpoint, client, session, connected, running, monitor, mon, op, counters>>

\* Mutant: start_monitoring does not look for an earlier thread.
GuardNoThread(p) ==
    /\ at[p] = "guard"
    /\ IF ~connected THEN Return(p) ELSE Goto(p, "thread") /\ UNCHANGED op
    /\ UNCHANGED <<endpoint, client, session, connected, running, monitor, mon, device, counters>>

\* start_monitoring: an earlier thread that is alive is kept as it is.
GuardMonitor(p) ==
    /\ at[p] = "guard"
    /\ IF Alive(monitor) \/ ~connected
       THEN Return(p)
       ELSE Goto(p, "thread") /\ UNCHANGED op
    /\ UNCHANGED <<endpoint, client, session, connected, running, monitor, mon, device, counters>>

MakeMonitor(p) ==
    /\ at[p] = "thread"
    /\ running' = TRUE
    /\ \E k \in Monitors :
          /\ IsNext(k, mon)
          /\ monitor' = k
          /\ mon' = [mon EXCEPT ![k] = "made"]
    /\ Goto(p, "launch")
    /\ UNCHANGED <<endpoint, client, session, connected, device, op, counters>>

\* self.monitoring_thread.start(): a thread that was started already raises,
\* which the except branch of connect() answers with connected = False.
LaunchMonitor(p) ==
    /\ at[p] = "launch"
    /\ \/ /\ mon[monitor] = "made"
          /\ mon' = [mon EXCEPT ![monitor] = "test"]
          /\ UNCHANGED connected
       \/ /\ mon[monitor] # "made"
          /\ connected' = FALSE
          /\ UNCHANGED mon
    /\ Return(p)
    /\ UNCHANGED <<endpoint, client, session, running, monitor, device, counters>>

Connect(p) == \/ Create(p) \/ Open(p) \/ SetConnected(p) \/ SetRow(p)
              \/ GuardMonitor(p) \/ MakeMonitor(p) \/ LaunchMonitor(p)

-----------------------------------------------------------------------------
(* disconnect()                                                            *)

\* stop_monitoring: the flag first, then the join.
StopMonitoring(t) ==
    /\ at[t] = "stop"
    /\ running' = FALSE
    /\ Goto(t, "join")
    /\ UNCHANGED <<endpoint, client, session, connected, monitor, mon, device, op, counters>>

\* Mutant: the thread is told to stop and not waited for.
JoinNothing(t) ==
    /\ at[t] \in {"join", "join2"}
    /\ Goto(t, IF at[t] = "join" THEN "join2" ELSE "close")
    /\ UNCHANGED <<endpoint, client, session, connected, running, monitor, mon, device, op, counters>>

\* join(timeout=5), in stop_monitoring and again in disconnect: it ends when
\* the thread has, or gives up: an iteration that waits for a PLC that does
\* not answer takes four seconds per variable.
Join(t) ==
    /\ at[t] \in {"join", "join2"}
    /\ \/ ~Alive(monitor) /\ UNCHANGED timeouts
       \/ Alive(monitor) /\ timeouts < MaxTimeouts /\ timeouts' = timeouts + 1
    /\ Goto(t, IF at[t] = "join" THEN "join2" ELSE "close")
    /\ UNCHANGED <<endpoint, client, session, connected, running, monitor, mon, device, op,
                   requests, breaks, overlap>>

\* The caller returns from disconnect(): configure goes on to connect().
AfterDisconnect(t) ==
    IF op[t] = "configure"
    THEN Goto(t, "create") /\ UNCHANGED op
    ELSE Return(t)

\* client.disconnect(): it raises when the link is broken or the session closed.
Close(t) ==
    /\ at[t] = "close"
    /\ \/ /\ client # None /\ connected
          /\ session' = [session EXCEPT ![client] = "closed"]
          /\ Goto(t, IF session[client] = "open" THEN "drop" ELSE "fail")
          /\ UNCHANGED op
       \/ /\ client = None \/ ~connected
          /\ AfterDisconnect(t)
          /\ UNCHANGED session
    /\ UNCHANGED <<endpoint, client, connected, running, monitor, mon, device, counters>>

\* The flag follows; the except branch leaves the devices table alone.
ClearConnected(t) ==
    /\ at[t] \in {"drop", "fail"}
    /\ connected' = FALSE
    /\ IF at[t] = "drop" THEN Goto(t, "clearRow") /\ UNCHANGED op ELSE AfterDisconnect(t)
    /\ UNCHANGED <<endpoint, client, session, running, monitor, mon, device, counters>>

\* Mutant: a status the devices table does not know.
ClearRowOffline(t) ==
    /\ at[t] = "clearRow"
    /\ WriteDevice("offline")
    /\ AfterDisconnect(t)
    /\ UNCHANGED <<endpoint, client, session, connected, running, monitor, mon, counters>>

ClearRow(t) ==
    /\ at[t] = "clearRow"
    /\ WriteDevice("disconnected")
    /\ AfterDisconnect(t)
    /\ UNCHANGED <<endpoint, client, session, connected, running, monitor, mon, counters>>

Disconnect(t) ==
    StopMonitoring(t) \/ Join(t) \/ Close(t) \/ ClearConnected(t) \/ ClearRow(t)

-----------------------------------------------------------------------------
(* Requests.                                                               *)

\* The service thread has made its attempt and is in the keep-alive loop, or
\* has left it.
Booted == at[Svc] \in {"loop", "probe", "mark", "ended"}

Begin(t, request, step) ==
    /\ at[t] = "idle" /\ requests < MaxRequests
    /\ op' = [op EXCEPT ![t] = request]
    /\ SetsOut(t, step)
    /\ requests' = requests + 1
    /\ UNCHANGED <<client, session, connected, running, monitor, mon, device, breaks, timeouts>>

\* POST /opcua/client/connect, /disconnect: refused when there is nothing to
\* do.  POST /opcua/client/configure: stores the endpoint, then reconnects.
RequestConnect(t) == ~connected /\ Begin(t, "connect", "create") /\ UNCHANGED endpoint

RequestDisconnect(t) == connected /\ Begin(t, "disconnect", "stop") /\ UNCHANGED endpoint

RequestConfigure(t) ==
    /\ Begin(t, "configure", IF connected THEN "stop" ELSE "create")
    /\ endpoint' = TRUE

Request(t) == RequestConnect(t) \/ RequestDisconnect(t) \/ RequestConfigure(t)

-----------------------------------------------------------------------------
(* run(), the service thread.                                              *)

SvcStart ==
    /\ at[Svc] = "start"
    /\ running' = TRUE
    /\ Goto(Svc, "wait")
    /\ UNCHANGED <<endpoint, client, session, connected, monitor, mon, device, op, counters>>

\* Waits for an endpoint, tries once to connect unless a request has.
SvcWait ==
    /\ at[Svc] = "wait"
    /\ endpoint \/ ~running
    /\ Goto(Svc, IF running THEN "try" ELSE "ended")
    /\ UNCHANGED <<endpoint, client, session, connected, running, monitor, mon, device, op, counters>>

SvcTry ==
    /\ at[Svc] = "try"
    /\ IF connected THEN Goto(Svc, "loop") /\ UNCHANGED overlap ELSE SetsOut(Svc, "create")
    /\ UNCHANGED <<endpoint, client, session, connected, running, monitor, mon, device, op,
                   requests, breaks, timeouts>>

\* One turn of the keep-alive loop: the loop ends with self.running.
SvcLoop ==
    /\ at[Svc] = "loop"
    /\ Goto(Svc, IF running THEN "probe" ELSE "ended")
    /\ UNCHANGED <<endpoint, client, session, connected, running, monitor, mon, device, op, counters>>

\* Mutant: the probe only sees a client that was closed.
SvcProbeClosed ==
    /\ at[Svc] = "probe"
    /\ Goto(Svc, IF connected /\ client # None /\ session[client] = "closed" THEN "mark" ELSE "loop")
    /\ UNCHANGED <<endpoint, client, session, connected, running, monitor, mon, device, op, counters>>

SvcProbe ==
    /\ at[Svc] = "probe"
    /\ Goto(Svc, IF connected /\ client # None /\ session[client] # "open" THEN "mark" ELSE "loop")
    /\ UNCHANGED <<endpoint, client, session, connected, running, monitor, mon, device, op, counters>>

\* The answer to the probe is applied to whatever the connection is by now.
SvcMark ==
    /\ at[Svc] = "mark"
    /\ connected' = FALSE
    /\ Goto(Svc, "loop")
    /\ UNCHANGED <<endpoint, client, session, running, monitor, mon, device, op, counters>>

Service == SvcStart \/ SvcWait \/ SvcTry \/ SvcLoop \/ SvcProbe \/ SvcMark

-----------------------------------------------------------------------------
(* The monitoring threads and the link.                                    *)

\* Mutant: the loop runs on while the client is connected.
MonitorTestConnected(k) ==
    /\ mon[k] = "test"
    /\ mon' = [mon EXCEPT ![k] = IF running \/ connected THEN "work" ELSE "done"]
    /\ UNCHANGED <<endpoint, client, session, connected, running, monitor, device, at, op, counters>>

MonitorTest(k) ==
    /\ mon[k] = "test"
    /\ mon' = [mon EXCEPT ![k] = IF running THEN "work" ELSE "done"]
    /\ UNCHANGED <<endpoint, client, session, connected, running, monitor, device, at, op, counters>>

MonitorWork(k) ==
    /\ mon[k] = "work"
    /\ mon' = [mon EXCEPT ![k] = "test"]
    /\ UNCHANGED <<endpoint, client, session, connected, running, monitor, device, at, op, counters>>

BreakLink ==
    /\ breaks < MaxBreaks
    /\ \E c \in Sessions : session[c] = "open"
    /\ session' = [c \in Sessions |-> IF session[c] = "open" THEN "broken" ELSE session[c]]
    /\ breaks' = breaks + 1
    /\ UNCHANGED <<endpoint, client, connected, running, monitor, mon, device, at, op,
                   requests, timeouts, overlap>>

Next ==
    \/ \E p \in Callers : Connect(p)
    \/ \E t \in Threads : Disconnect(t) \/ Request(t)
    \/ Service
    \/ \E k \in Monitors : MonitorTest(k) \/ MonitorWork(k)
    \/ BreakLink

\* Every thread that can run does; nobody has to issue a request.
Fairness ==
    /\ WF_vars(Service)
    /\ \A p \in Callers : WF_vars(Connect(p))
    /\ \A t \in Threads : WF_vars(Disconnect(t))
    /\ \A k \in Monitors : WF_vars(MonitorTest(k)) /\ WF_vars(MonitorWork(k))

Spec == Init /\ [][Next]_vars /\ Fairness

-----------------------------------------------------------------------------
(* Properties.                                                             *)

Quiet == \A t \in Threads : at[t] = "idle"

\* As long as calls of connect() and disconnect() have come one after the
\* other, whatever joins gave up, at most one monitoring thread polls the PLC:
\* two would store every change twice (start_monitoring,
\* opcua_client_service.py:279).
OneMonitor == ~overlap => \A k, l \in Monitors : Alive(k) /\ Alive(l) => k = l

\* Once the service thread is up and no request is in progress, a connected
\* client is monitored: connect() returned, so the variables are polled.  It
\* takes calls one after the other, and joins that do not give up:
\* start_monitoring keeps a thread that is in its last iteration (:279) and
\* nobody starts another.
MonitoredWhileConnected ==
    Quiet /\ Booted /\ connected /\ timeouts = 0 /\ ~overlap => Alive(monitor) /\ running

\* disconnect() does not close the session over a thread that polls, nor does
\* one begin before it has returned ("Stop monitoring first",
\* opcua_client_service.py:92): on the same terms, calls one after the other and
\* joins that do not give up.
StoppedFirst ==
    timeouts = 0 /\ ~overlap =>
        \A t \in Threads : at[t] \in {"close", "drop", "fail", "clearRow"} =>
            \A k \in Monitors : ~Alive(k)

\* With calls one after the other and joins that do not give up, monitoring and
\* session go together: a connected client is polled, and no session is closed
\* over a thread that polls.
MonitoringFollows == MonitoredWhileConnected /\ StoppedFirst

Lost == connected /\ client # None /\ session[client] = "broken"

\* A lost link is noticed: sooner or later self.connected is cleared, or the
\* session has been replaced.
LossNoticed == Lost ~> ~Lost

\* As long as the keep-alive loop of run() goes on, a lost link is noticed.
LossNoticedByLoop == Lost ~> (~Lost \/ at[Svc] = "ended")

\* disconnect() ends the monitoring: a thread that was stopped ends unless
\* somebody starts monitoring again.
StopsMonitoring == (~running) ~> (running \/ \A k \in Monitors : ~Alive(k))

=============================================================================
