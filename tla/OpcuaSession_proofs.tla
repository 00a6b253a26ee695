------------------------ MODULE OpcuaSession_proofs ------------------------
(***************************************************************************)
(* For every number of request threads, requests, losses and timeouts: the *)
(* types, and that calls of connect() and disconnect() that do not overlap *)
(* never leave two monitoring threads polling the PLC; that, if the joins  *)
(* wait long enough too, a connected client is monitored, and disconnect() *)
(* closes no session over a thread that polls.                             *)
(***************************************************************************)
EXTENDS OpcuaSession, TLAPS

LEMMA CallersFacts ==
    /\ Svc \in Callers
    /\ Threads \subseteq Callers
    /\ None \notin Sessions /\ None \notin Monitors
BY BoundAssumption DEF Callers, None, Sessions, Monitors

AllSteps == SvcSteps \cup ConnectSteps \cup DisconnectSteps \cup {"idle"}
Ops == {"none", "connect", "disconnect", "configure"}

\* A caller that goes to a step of the program is at a step of the program.
LEMMA GotoType ==
    ASSUME TypeOK, NEW p \in Callers, NEW step \in AllSteps, Goto(p, step)
    PROVE  at' \in [Callers -> AllSteps]
BY DEF TypeOK, Goto, AllSteps

LEMMA ReturnType ==
    ASSUME TypeOK, NEW p \in Callers, Return(p)
    PROVE  at' \in [Callers -> AllSteps] /\ op' \in [Threads -> Ops]
<1>1. {"loop", "idle"} \subseteq AllSteps
  BY DEF AllSteps, SvcSteps
<1>2. CASE p = Svc
  BY <1>1, <1>2, GotoType DEF Return, TypeOK, Ops
<1>3. CASE p # Svc
  BY <1>1, <1>3, GotoType DEF Return, TypeOK, Ops
<1>4. QED BY <1>2, <1>3

\* connect() keeps the types.
LEMMA ConnectType ==
    ASSUME TypeOK, NEW p \in Callers, Connect(p)
    PROVE  TypeOK'
<1> USE DEF TypeOK, counters, Ops
<1>0. ConnectSteps \subseteq AllSteps
  BY DEF AllSteps
<1>1. CASE Create(p)
  <2>1. CASE endpoint
    <3>1. at' \in [Callers -> AllSteps]
      BY <1>0, <1>1, <2>1, GotoType DEF Create, ConnectSteps
    <3>2. client' \in Sessions /\ session' \in [Sessions -> {"unused", "new", "open", "broken", "closed"}]
      BY <1>1, <2>1 DEF Create
    <3>3. QED BY <1>1, <2>1, <3>1, <3>2 DEF Create, AllSteps
  <2>2. CASE ~endpoint
    BY <1>1, <2>2, ReturnType DEF Create, AllSteps
  <2>3. QED BY <2>1, <2>2
<1>2. CASE Open(p)
  <2>1. CASE Goto(p, "flag") /\ UNCHANGED <<connected, op>>
    BY <1>0, <1>2, <2>1, GotoType DEF Open, ConnectSteps, AllSteps
  <2>2. CASE Return(p) /\ connected' = FALSE
    BY <1>2, <2>2, ReturnType DEF Open, AllSteps
  <2>3. QED BY <1>2, <2>1, <2>2 DEF Open
<1>3. CASE SetConnected(p)
  BY <1>0, <1>3, GotoType DEF SetConnected, ConnectSteps, AllSteps
<1>4. CASE SetRow(p)
  BY <1>0, <1>4, GotoType DEF SetRow, WriteDevice, Status, ConnectSteps, AllSteps
<1>5. CASE GuardMonitor(p)
  <2>1. CASE Return(p)
    BY <1>5, <2>1, ReturnType DEF GuardMonitor, AllSteps
  <2>2. CASE ~Return(p)
    BY <1>0, <1>5, <2>2, GotoType DEF GuardMonitor, ConnectSteps, AllSteps
  <2>3. QED BY <2>1, <2>2
<1>6. CASE MakeMonitor(p)
  <2>1. at' \in [Callers -> AllSteps]
    BY <1>0, <1>6, GotoType DEF MakeMonitor, ConnectSteps
  <2>2. monitor' \in Monitors /\ mon' \in [Monitors -> {"unused", "made", "test", "work", "done"}]
    BY <1>6 DEF MakeMonitor
  <2>3. QED BY <1>6, <2>1, <2>2 DEF MakeMonitor, AllSteps
<1>7. CASE LaunchMonitor(p)
  BY <1>7, ReturnType DEF LaunchMonitor, AllSteps
<1>8. QED
  BY <1>1, <1>2, <1>3, <1>4, <1>5, <1>6, <1>7 DEF Connect

LEMMA AfterDisconnectType ==
    ASSUME TypeOK, NEW t \in Threads, AfterDisconnect(t)
    PROVE  at' \in [Callers -> AllSteps] /\ op' \in [Threads -> Ops]
<1>1. t \in Callers /\ "create" \in AllSteps
  BY CallersFacts DEF AllSteps, ConnectSteps
<1>2. CASE Return(t) BY <1>1, <1>2, ReturnType
<1>3. CASE Goto(t, "create") /\ UNCHANGED op
  BY <1>1, <1>3, GotoType DEF TypeOK, Ops
<1>4. QED BY <1>2, <1>3 DEF AfterDisconnect

\* disconnect() keeps the types.
LEMMA DisconnectType ==
    ASSUME TypeOK, NEW t \in Threads, Disconnect(t)
    PROVE  TypeOK'
<1> USE DEF TypeOK, counters, Ops
<1>0. t \in Callers /\ DisconnectSteps \subseteq AllSteps
  BY CallersFacts DEF AllSteps
<1>1. CASE StopMonitoring(t)
  BY <1>0, <1>1, GotoType DEF StopMonitoring, DisconnectSteps, AllSteps
<1>2. CASE Join(t)
  <2>1. at' \in [Callers -> AllSteps]
    BY <1>0, <1>2, GotoType DEF Join, DisconnectSteps
  <2>2. timeouts' \in 0..MaxTimeouts
    BY <1>2, BoundAssumption DEF Join
  <2>3. QED BY <1>2, <2>1, <2>2 DEF Join, AllSteps
<1>3. CASE Close(t)
  <2>1. CASE AfterDisconnect(t)
    BY <1>3, <2>1, AfterDisconnectType DEF Close, AllSteps
  <2>2. CASE ~AfterDisconnect(t)
    <3>1. at' \in [Callers -> AllSteps]
      BY <1>0, <1>3, <2>2, GotoType DEF Close, DisconnectSteps
    <3>2. QED BY <1>3, <2>2, <3>1 DEF Close, AllSteps
  <2>3. QED BY <2>1, <2>2
<1>4. CASE ClearConnected(t)
  <2>1. CASE AfterDisconnect(t)
    BY <1>4, <2>1, AfterDisconnectType DEF ClearConnected, AllSteps
  <2>2. CASE ~AfterDisconnect(t)
    BY <1>0, <1>4, <2>2, GotoType DEF ClearConnected, DisconnectSteps, AllSteps
  <2>3. QED BY <2>1, <2>2
<1>5. CASE ClearRow(t)
  BY <1>5, AfterDisconnectType DEF ClearRow, WriteDevice, Status, AllSteps
<1>6. QED BY <1>1, <1>2, <1>3, <1>4, <1>5 DEF Disconnect

\* A request keeps the types.
LEMMA RequestType ==
    ASSUME TypeOK, NEW t \in Threads, Request(t)
    PROVE  TypeOK'
<1> USE DEF TypeOK, counters, Ops
<1>1. PICK request \in Ops, step \in {"create", "stop"} : Begin(t, request, step)
  BY DEF Request, RequestConnect, RequestDisconnect, RequestConfigure
<1>2. endpoint' \in BOOLEAN
  BY DEF Request, RequestConnect, RequestDisconnect, RequestConfigure
<1>3. at' \in [Callers -> AllSteps]
  BY <1>1, CallersFacts, GotoType DEF Begin, SetsOut, AllSteps, ConnectSteps, DisconnectSteps
<1>4. requests' \in 0..MaxRequests /\ overlap' \in BOOLEAN
  BY <1>1, BoundAssumption DEF Begin, SetsOut
<1>5. QED BY <1>1, <1>2, <1>3, <1>4 DEF Begin, AllSteps

\* OpcuaSession: every value has its type.
LEMMA TypeStep == ASSUME TypeOK, [Next]_vars PROVE TypeOK'
<1>1. ASSUME NEW p \in Callers, Connect(p) PROVE TypeOK'
  BY <1>1, ConnectType
<1>2. ASSUME NEW t \in Threads, Disconnect(t) \/ Request(t) PROVE TypeOK'
  BY <1>2, DisconnectType, RequestType
<1>3. CASE Service
  <2> USE CallersFacts DEF TypeOK, counters
  <2>1. SvcSteps \subseteq AllSteps BY DEF AllSteps
  <2>2. at' \in [Callers -> AllSteps] /\ connected' \in BOOLEAN /\ running' \in BOOLEAN
    <3>1. CASE SvcStart BY <2>1, <3>1, GotoType DEF SvcStart, SvcSteps, AllSteps
    <3>2. CASE SvcWait BY <2>1, <3>2, GotoType DEF SvcWait, SvcSteps, AllSteps
    <3>3. CASE SvcTry
      <4>1. {"loop", "create"} \subseteq AllSteps BY DEF AllSteps, SvcSteps, ConnectSteps
      <4>2. QED BY <3>3, <4>1, GotoType DEF SvcTry, SetsOut
    <3>4. CASE SvcLoop BY <2>1, <3>4, GotoType DEF SvcLoop, SvcSteps, AllSteps
    <3>5. CASE SvcProbe
      <4>1. PICK step \in {"mark", "loop"} : Goto(Svc, step) BY <3>5 DEF SvcProbe
      <4>2. step \in AllSteps BY <2>1, <4>1 DEF SvcSteps
      <4>3. QED BY <3>5, <4>1, <4>2, GotoType DEF SvcProbe
    <3>6. CASE SvcMark BY <2>1, <3>6, GotoType DEF SvcMark, SvcSteps, AllSteps
    <3>7. QED BY <1>3, <3>1, <3>2, <3>3, <3>4, <3>5, <3>6 DEF Service
  <2>3. /\ UNCHANGED <<endpoint, client, session, monitor, mon, device, op, requests, breaks, timeouts>>
        /\ overlap' \in BOOLEAN
    BY <1>3 DEF Service, SvcStart, SvcWait, SvcTry, SvcLoop, SvcProbe, SvcMark, SetsOut
  <2>4. QED BY <2>2, <2>3 DEF AllSteps
<1>4. ASSUME NEW k \in Monitors, MonitorTest(k) \/ MonitorWork(k) PROVE TypeOK'
  BY <1>4 DEF MonitorTest, MonitorWork, TypeOK, counters
<1>5. CASE BreakLink
  BY <1>5, BoundAssumption DEF BreakLink, TypeOK
<1>6. CASE UNCHANGED vars
  BY <1>6 DEF vars, counters, TypeOK
<1>7. QED BY <1>1, <1>2, <1>3, <1>4, <1>5, <1>6 DEF Next

\* OpcuaSession: every value has its type.
THEOREM TypeCorrect == Spec => []TypeOK
<1>1. ASSUME Init PROVE TypeOK
  <2>1. at \in [Callers -> AllSteps]
    BY <1>1 DEF Init, AllSteps, SvcSteps
  <2>2. requests \in 0..MaxRequests /\ breaks \in 0..MaxBreaks /\ timeouts \in 0..MaxTimeouts
    BY <1>1, BoundAssumption DEF Init
  <2>3. QED BY <1>1, <2>1, <2>2 DEF Init, TypeOK, AllSteps
<1>2. QED BY <1>1, TypeStep, PTL DEF Spec

-----------------------------------------------------------------------------
(* At most one monitoring thread                                           *)

\* As long as no calls have overlapped, one caller at a time is on its way, an
\* alive thread is the one self.monitoring_thread names, and whoever is about
\* to create a thread has seen none alive.
OneMonitorInv ==
    ~overlap =>
        /\ \A p, q \in Callers : Busy(p) /\ Busy(q) => p = q
        /\ \A k \in Monitors : Alive(k) => k = monitor
        /\ \A p \in Callers : at[p] = "thread" => ~Alive(monitor)

\* A step of a caller that is alone on its way, and leaves the threads as they
\* are, unless it brings the caller to create one.
LEMMA LoneStep ==
    ASSUME TypeOK, ~overlap, OneMonitorInv, NEW p \in Callers, NEW step \in AllSteps, Goto(p, step),
           \A q \in Callers : q # p => ~Busy(q),
           UNCHANGED <<monitor, mon>>, step = "thread" => ~Alive(monitor)
    PROVE  OneMonitorInv'
<1>1. \A q \in Callers : at'[q] = IF q = p THEN step ELSE at[q]
  BY DEF Goto, TypeOK
<1>2. \A q \in Callers : q # p => ~Busy(q)' /\ at'[q] # "thread"
  BY <1>1 DEF Busy, ConnectSteps
<1>3. \A k \in Monitors \cup {None} : Alive(k)' = Alive(k)
  BY DEF Alive
<1>4. Alive(monitor)' = Alive(monitor)
  BY DEF Alive
<1>5. QED
  BY <1>1, <1>2, <1>3, <1>4 DEF OneMonitorInv

LEMMA OneMonitorStep ==
    ASSUME TypeOK, OneMonitorInv, [Next]_vars
    PROVE  OneMonitorInv'
<1> SUFFICES ASSUME ~overlap' PROVE OneMonitorInv'
  BY DEF OneMonitorInv
<1> USE CallersFacts
<1>0. TypeOK' BY TypeStep
<1>o. ~overlap
  BY DEF Next, Connect, Create, Open, SetConnected, SetRow, GuardMonitor, MakeMonitor,
         LaunchMonitor, Disconnect, StopMonitoring, Join, Close, ClearConnected, ClearRow,
         Request, RequestConnect, RequestDisconnect, RequestConfigure, Begin, SetsOut,
         Service, SvcStart, SvcWait, SvcTry, SvcLoop, SvcProbe, SvcMark,
         MonitorTest, MonitorWork, BreakLink, vars, counters
<1>1. ASSUME NEW p \in Callers, Connect(p) PROVE OneMonitorInv'
  <2>0. Busy(p) /\ \A q \in Callers : q # p => ~Busy(q)
    BY <1>1, <1>o DEF Connect, Create, Open, SetConnected, SetRow, GuardMonitor, MakeMonitor,
                      LaunchMonitor, ConnectSteps, Busy, OneMonitorInv
  <2>1. PICK step \in AllSteps : Goto(p, step)
    BY <1>1 DEF Connect, Create, Open, SetConnected, SetRow, GuardMonitor, MakeMonitor,
                LaunchMonitor, Return, AllSteps, ConnectSteps, SvcSteps
  <2>2. \A q \in Callers : at'[q] = IF q = p THEN step ELSE at[q]
    BY <2>1 DEF Goto, TypeOK
  <2>3. CASE Create(p) \/ Open(p) \/ SetConnected(p) \/ SetRow(p)
    <3>1. step # "thread"
      BY <2>2, <2>3 DEF Create, Open, SetConnected, SetRow, Goto, Return, TypeOK
    <3>2. UNCHANGED <<monitor, mon>>
      BY <2>3 DEF Create, Open, SetConnected, SetRow
    <3>3. QED BY <1>o, <2>0, <2>1, <3>1, <3>2, LoneStep
  <2>4. CASE GuardMonitor(p)
    <3>1. step = "thread" => ~Alive(monitor)
      BY <2>2, <2>4 DEF GuardMonitor, Goto, Return, TypeOK
    <3>2. UNCHANGED <<monitor, mon>>
      BY <2>4 DEF GuardMonitor
    <3>3. QED BY <1>o, <2>0, <2>1, <3>1, <3>2, LoneStep
  <2>5. CASE MakeMonitor(p)
    <3>1. \A k \in Monitors : ~Alive(k)
      BY <1>o, <2>5 DEF MakeMonitor, OneMonitorInv
    <3>2. \A k \in Monitors : ~Alive(k)'
      BY <2>5, <3>1 DEF MakeMonitor, Alive, TypeOK
    <3>3. ~Alive(monitor)'
      BY <3>2, <1>0 DEF TypeOK, Alive
    <3>4. \A q \in Callers : q # p => ~Busy(q)'
      BY <2>0, <2>2 DEF Busy
    <3>5. QED BY <3>2, <3>3, <3>4 DEF OneMonitorInv
  <2>6. CASE LaunchMonitor(p)
    <3>1. step # "thread"
      BY <2>2, <2>6 DEF LaunchMonitor, Goto, Return, TypeOK
    <3>2. UNCHANGED monitor /\ \A k \in Monitors : Alive(k)' => Alive(k) \/ k = monitor
      BY <2>6 DEF LaunchMonitor, Alive, TypeOK
    <3>3. \A q \in Callers : q # p => ~Busy(q)' /\ at'[q] # "thread"
      BY <2>0, <2>2 DEF Busy, ConnectSteps
    <3>4. QED BY <1>o, <2>2, <3>1, <3>2, <3>3 DEF OneMonitorInv
  <2>7. QED BY <1>1, <2>3, <2>4, <2>5, <2>6 DEF Connect
<1>2. ASSUME NEW t \in Threads, Disconnect(t) PROVE OneMonitorInv'
  <2>0. UNCHANGED <<monitor, mon>> /\ Busy(t)
    BY <1>2 DEF Disconnect, StopMonitoring, Join, Close, ClearConnected, ClearRow, DisconnectSteps, Busy
  <2>1. PICK step \in AllSteps \ {"thread"} : Goto(t, step)
    <3>1. ASSUME AfterDisconnect(t) PROVE \E step \in AllSteps \ {"thread"} : Goto(t, step)
      BY <3>1 DEF AfterDisconnect, Return, AllSteps, ConnectSteps, SvcSteps
    <3>2. QED
      BY <1>2, <3>1 DEF Disconnect, StopMonitoring, Join, Close, ClearConnected, ClearRow,
                        AllSteps, DisconnectSteps
  <2>2. \A q \in Callers : q # t => ~Busy(q)
    BY <1>o, <2>0 DEF OneMonitorInv
  <2>3. QED BY <1>o, <2>0, <2>1, <2>2, LoneStep
<1>3. ASSUME NEW t \in Threads, Request(t) PROVE OneMonitorInv'
  <2>1. PICK request \in Ops, step \in {"create", "stop"} : Begin(t, request, step)
    BY <1>3 DEF Request, RequestConnect, RequestDisconnect, RequestConfigure, Ops
  <2>2. \A q \in Callers : q # t => ~Busy(q)
    BY <2>1 DEF Begin, SetsOut
  <2>3. QED BY <1>o, <2>1, <2>2, LoneStep DEF Begin, SetsOut, AllSteps, ConnectSteps, DisconnectSteps
<1>4. CASE Service
  <2>1. UNCHANGED <<monitor, mon>>
    BY <1>4 DEF Service, SvcStart, SvcWait, SvcTry, SvcLoop, SvcProbe, SvcMark
  <2>2. CASE SvcTry /\ ~connected
    <3>1. \A q \in Callers : q # Svc => ~Busy(q)
      BY <2>2 DEF SvcTry, SetsOut
    <3>2. QED BY <1>o, <2>1, <2>2, <3>1, LoneStep DEF SvcTry, SetsOut, AllSteps, ConnectSteps
  <2>3. CASE ~(SvcTry /\ ~connected)
    <3>1. PICK step \in SvcSteps : Goto(Svc, step)
      BY <1>4, <2>3 DEF Service, SvcStart, SvcWait, SvcTry, SvcLoop, SvcProbe, SvcMark, SvcSteps
    <3>2. \A q \in Callers : at'[q] = IF q = Svc THEN step ELSE at[q]
      BY <3>1 DEF Goto, TypeOK
    <3>3. \A q \in Callers : /\ Busy(q)' => Busy(q)
                             /\ at'[q] = "thread" => at[q] = "thread"
      BY <3>2 DEF Busy, SvcSteps, ConnectSteps, DisconnectSteps
    <3>4. QED BY <1>o, <2>1, <3>3 DEF OneMonitorInv, Alive
  <2>4. QED BY <2>2, <2>3
<1>5. ASSUME NEW k \in Monitors, MonitorTest(k) \/ MonitorWork(k) PROVE OneMonitorInv'
  <2>1. UNCHANGED <<monitor, at>> /\ \A l \in Monitors \cup {None} : Alive(l)' => Alive(l)
    BY <1>5 DEF MonitorTest, MonitorWork, Alive, TypeOK
  <2>2. QED BY <1>o, <2>1 DEF OneMonitorInv, Busy, TypeOK
<1>6. CASE BreakLink \/ UNCHANGED vars
  BY <1>6, <1>o DEF BreakLink, vars, OneMonitorInv, Busy, Alive
<1>7. QED BY <1>1, <1>2, <1>3, <1>4, <1>5, <1>6 DEF Next

\* OpcuaSession: at most one monitoring thread polls the PLC, however many
\* request threads there are and however often the joins of disconnect() give
\* up, as long as no two calls overlap.
THEOREM OneMonitorPolls == Spec => []OneMonitor
<1>1. Init => OneMonitorInv
  BY CallersFacts, CallerAssumption DEF Init, OneMonitorInv, Busy, ConnectSteps, DisconnectSteps, Alive, Callers
<1>2. OneMonitorInv => OneMonitor
  BY DEF OneMonitorInv, OneMonitor
<1>3. TypeOK /\ OneMonitorInv /\ [Next]_vars => OneMonitorInv'
  BY OneMonitorStep
<1>4. QED BY <1>1, <1>2, <1>3, TypeCorrect, PTL DEF Spec

-----------------------------------------------------------------------------
(* A connected client is monitored                                         *)

\* As long as no calls have overlapped and no join gave up: whoever is about to
\* set self.connected finds it cleared and has a client, self.running is set
\* before a thread is started and cleared only by a caller that then waits for
\* the thread to end, and when nobody is on his way a connected client has its
\* thread.
MonitoredInv ==
    ~overlap /\ timeouts = 0 =>
        /\ client = None => ~connected
        /\ \A p \in Callers : at[p] \in {"create", "open", "flag", "clearRow"} => ~connected
        /\ \A p \in Callers : at[p] \in {"open", "flag"} => client # None
        /\ \A p \in Callers : at[p] = "launch" => running /\ monitor # None
        /\ Alive(monitor) => running \/ \E p \in Callers : at[p] = "join"
        /\ connected /\ (\A p \in Callers : ~Busy(p)) => Alive(monitor) /\ running

\* What the step of a lone caller has to establish.
LEMMA LoneMonitored ==
    ASSUME TypeOK, NEW p \in Callers, NEW step \in AllSteps, Goto(p, step),
           \A q \in Callers : q # p => ~Busy(q),
           client' = None => ~connected',
           step \in {"create", "open", "flag", "clearRow"} => ~connected',
           step \in {"open", "flag"} => client' # None,
           step = "launch" => running' /\ monitor' # None,
           Alive(monitor)' => running' \/ step = "join",
           connected' /\ step \notin ConnectSteps \cup DisconnectSteps => Alive(monitor)' /\ running'
    PROVE  MonitoredInv'
<1>1. at'[p] = step /\ \A q \in Callers : q # p => at'[q] = at[q]
  BY DEF Goto, TypeOK
<1>2. \A q \in Callers : q # p => at'[q] \notin ConnectSteps \cup DisconnectSteps
  BY <1>1 DEF Busy
<1>3. \A q \in Callers : at'[q] \in {"create", "open", "flag", "clearRow", "launch"} => q = p
  BY <1>2 DEF ConnectSteps, DisconnectSteps
<1>4. (\A q \in Callers : ~Busy(q)') => step \notin ConnectSteps \cup DisconnectSteps
  BY <1>1 DEF Busy
<1>5. QED BY <1>1, <1>3, <1>4 DEF MonitoredInv

\* connect(), whose caller is the only one on his way.
LEMMA ConnectMonitors ==
    ASSUME TypeOK, TypeOK', MonitoredInv, ~overlap, timeouts = 0, NEW p \in Callers, Connect(p),
           \A q \in Callers : q # p => ~Busy(q)
    PROVE  MonitoredInv'
<1>1. PICK step \in AllSteps : Goto(p, step)
  BY DEF Connect, Create, Open, SetConnected, SetRow, GuardMonitor, MakeMonitor,
         LaunchMonitor, Return, AllSteps, ConnectSteps, SvcSteps
<1>2. at'[p] = step
  BY <1>1 DEF Goto, TypeOK
<1>3. ASSUME Return(p) PROVE step \in {"loop", "idle"}
  BY <1>2, <1>3 DEF Return, Goto, TypeOK
<1>4. \A q \in Callers : at[q] = "join" => q = p
  BY DEF Busy, DisconnectSteps
<1>5. at[p] \in ConnectSteps
  BY DEF Connect, Create, Open, SetConnected, SetRow, GuardMonitor, MakeMonitor, LaunchMonitor,
         ConnectSteps
<1>6. Alive(monitor) => running
  BY <1>4, <1>5 DEF MonitoredInv, ConnectSteps
<1>7. {"loop", "idle"} \cap (ConnectSteps \cup DisconnectSteps) = {}
  BY DEF ConnectSteps, DisconnectSteps
<1>8. "guard" \in ConnectSteps /\ "thread" \in ConnectSteps /\ "row" \in ConnectSteps
      /\ "open" \in ConnectSteps /\ "flag" \in ConnectSteps /\ "launch" \in ConnectSteps
  BY DEF ConnectSteps
<1>9. CASE Create(p)
  <2>1. ~connected' /\ Alive(monitor)' = Alive(monitor) /\ running' = running
    BY <1>9 DEF Create, MonitoredInv, Alive
  <2>2. step = "open" => client' # None
    <3>1. CASE endpoint
      BY <1>9, <3>1, CallersFacts DEF Create
    <3>2. CASE ~endpoint
      BY <1>3, <1>9, <3>2 DEF Create
    <3>3. QED BY <3>1, <3>2
  <2>3. step \in {"open", "loop", "idle"}
    BY <1>2, <1>3, <1>9 DEF Create, Goto, TypeOK
  <2>4. QED BY <1>1, <1>6, <1>7, <1>8, <2>1, <2>2, <2>3, LoneMonitored
<1>10. CASE Open(p)
  <2>1. ~connected' /\ Alive(monitor)' = Alive(monitor) /\ running' = running /\ client' = client
    BY <1>10 DEF Open, MonitoredInv, Alive
  <2>2. client # None
    BY <1>10 DEF Open, MonitoredInv
  <2>3. step \in {"flag", "loop", "idle"}
    BY <1>2, <1>3, <1>10 DEF Open, Goto, TypeOK
  <2>4. QED BY <1>1, <1>6, <1>7, <1>8, <2>1, <2>2, <2>3, LoneMonitored
<1>11. CASE SetConnected(p)
  <2>1. Alive(monitor)' = Alive(monitor) /\ running' = running /\ client' = client
    BY <1>11 DEF SetConnected, Alive
  <2>2. client # None
    BY <1>11 DEF SetConnected, MonitoredInv
  <2>3. step = "row"
    BY <1>2, <1>11 DEF SetConnected, Goto, TypeOK
  <2>4. QED BY <1>1, <1>6, <1>8, <2>1, <2>2, <2>3, LoneMonitored
<1>12. CASE SetRow(p)
  <2>1. Alive(monitor)' = Alive(monitor) /\ UNCHANGED <<running, client, connected>>
    BY <1>12 DEF SetRow, Alive
  <2>2. step = "guard"
    BY <1>2, <1>12 DEF SetRow, Goto, TypeOK
  <2>3. QED BY <1>1, <1>6, <1>8, <2>1, <2>2, LoneMonitored DEF MonitoredInv
<1>13. CASE GuardMonitor(p)
  <2>1. Alive(monitor)' = Alive(monitor) /\ UNCHANGED <<running, client, connected>>
    BY <1>13 DEF GuardMonitor, Alive
  <2>2. step \in {"thread", "loop", "idle"}
    BY <1>2, <1>3, <1>13 DEF GuardMonitor, Goto, TypeOK
  <2>3. step # "thread" /\ connected => Alive(monitor)
    BY <1>1, <1>2, <1>13 DEF GuardMonitor, Goto, TypeOK
  <2>4. QED BY <1>1, <1>6, <1>7, <1>8, <2>1, <2>2, <2>3, LoneMonitored DEF MonitoredInv
<1>14. CASE MakeMonitor(p)
  <2>1. running' = TRUE /\ monitor' # None /\ UNCHANGED <<client, connected>>
    BY <1>14, CallersFacts DEF MakeMonitor
  <2>2. step = "launch"
    BY <1>2, <1>14 DEF MakeMonitor, Goto, TypeOK
  <2>3. QED BY <1>1, <1>8, <2>1, <2>2, LoneMonitored DEF MonitoredInv
<1>15. CASE LaunchMonitor(p)
  <2>1. running /\ UNCHANGED <<running, client, monitor>> /\ (connected' => connected)
    BY <1>15 DEF LaunchMonitor, MonitoredInv
  <2>2. step \in {"loop", "idle"}
    BY <1>3, <1>15 DEF LaunchMonitor
  <2>3. connected' => mon[monitor] = "made" /\ mon' = [mon EXCEPT ![monitor] = "test"]
    BY <1>15 DEF LaunchMonitor
  \* A client that is connected has just had its thread started.
  <2>4. connected' => Alive(monitor)'
    <3>1. monitor \in Monitors /\ monitor # None
      BY <1>15 DEF LaunchMonitor, MonitoredInv, TypeOK
    <3>2. QED BY <2>1, <2>3, <3>1 DEF Alive, TypeOK
  <2>5. QED BY <1>1, <1>7, <2>1, <2>2, <2>4, LoneMonitored DEF MonitoredInv
<1>16. QED
  BY <1>9, <1>10, <1>11, <1>12, <1>13, <1>14, <1>15 DEF Connect

\* disconnect(): the join ends with the thread, and from there on none is alive
\* until the next connect().
LEMMA DisconnectMonitors ==
    ASSUME TypeOK, TypeOK', MonitoredInv, ~overlap, timeouts = 0, timeouts' = 0,
           NEW t \in Threads, Disconnect(t), \A q \in Callers : q # t => ~Busy(q)
    PROVE  MonitoredInv'
<1>0. t \in Callers
  BY CallersFacts
<1>1. at[t] \in DisconnectSteps
  BY DEF Disconnect, StopMonitoring, Join, Close, ClearConnected, ClearRow, DisconnectSteps
<1>2. ASSUME AfterDisconnect(t) PROVE at'[t] \in {"create", "loop", "idle"}
  BY <1>0, <1>2 DEF AfterDisconnect, Return, Goto, TypeOK
<1>3. PICK step \in AllSteps : Goto(t, step)
  <2>1. ASSUME AfterDisconnect(t) PROVE \E step \in AllSteps : Goto(t, step)
    BY <2>1 DEF AfterDisconnect, Return, AllSteps, ConnectSteps, SvcSteps
  <2>2. QED
    BY <2>1 DEF Disconnect, StopMonitoring, Join, Close, ClearConnected, ClearRow,
                AllSteps, DisconnectSteps
<1>4. at'[t] = step
  BY <1>0, <1>3 DEF Goto, TypeOK
<1>5. \A q \in Callers : at[q] = "join" => q = t
  BY DEF Busy, DisconnectSteps
<1>6. Alive(monitor) => running \/ at[t] = "join"
  BY <1>5 DEF MonitoredInv
<1>7. UNCHANGED <<client, monitor, mon>> /\ Alive(monitor)' = Alive(monitor)
  BY DEF Disconnect, StopMonitoring, Join, Close, ClearConnected, ClearRow, Alive
<1>8. \A s \in {"join", "join2", "close", "drop", "fail", "clearRow"} : s \in DisconnectSteps
  BY DEF DisconnectSteps
<1>9. "create" \in ConnectSteps
  BY DEF ConnectSteps
<1>10. CASE StopMonitoring(t)
  <2>1. step = "join" /\ connected' = connected
    BY <1>0, <1>4, <1>10 DEF StopMonitoring, Goto, TypeOK
  <2>2. QED BY <1>0, <1>3, <1>7, <1>8, <2>1, LoneMonitored DEF MonitoredInv
<1>11. CASE Join(t)
  <2>1. step \in {"join2", "close"} /\ UNCHANGED <<connected, running>>
    BY <1>0, <1>4, <1>11 DEF Join, Goto, TypeOK
  <2>2. ~Alive(monitor)
    BY <1>11 DEF Join
  <2>3. QED BY <1>0, <1>3, <1>7, <1>8, <2>1, <2>2, LoneMonitored DEF MonitoredInv
<1>12. CASE Close(t)
  <2>1. UNCHANGED <<connected, running>>
    BY <1>12 DEF Close
  <2>2. Alive(monitor) => running
    BY <1>6, <1>12 DEF Close
  <2>3. CASE client # None /\ connected
    <3>1. step \in {"drop", "fail"}
      BY <1>0, <1>4, <1>12, <2>3 DEF Close, Goto, TypeOK
    <3>2. QED BY <1>0, <1>3, <1>7, <1>8, <2>1, <2>2, <3>1, LoneMonitored DEF MonitoredInv
  <2>4. CASE client = None \/ ~connected
    <3>1. ~connected /\ step \in {"create", "loop", "idle"}
      BY <1>2, <1>4, <1>12, <2>4 DEF Close, MonitoredInv
    <3>2. QED BY <1>0, <1>3, <1>7, <1>9, <2>1, <2>2, <3>1, LoneMonitored DEF MonitoredInv
  <2>5. QED BY <2>3, <2>4
<1>13. CASE ClearConnected(t)
  <2>1. ~connected' /\ running' = running
    BY <1>13 DEF ClearConnected
  <2>2. Alive(monitor) => running
    BY <1>6, <1>13 DEF ClearConnected
  <2>3. step \in {"clearRow", "create", "loop", "idle"}
    BY <1>0, <1>2, <1>4, <1>13 DEF ClearConnected, Goto, TypeOK
  <2>4. QED BY <1>0, <1>3, <1>7, <2>1, <2>2, <2>3, LoneMonitored
<1>14. CASE ClearRow(t)
  <2>1. ~connected' /\ running' = running
    BY <1>0, <1>14 DEF ClearRow, MonitoredInv
  <2>2. Alive(monitor) => running
    BY <1>6, <1>14 DEF ClearRow
  <2>3. step \in {"create", "loop", "idle"}
    BY <1>2, <1>4, <1>14 DEF ClearRow
  <2>4. QED BY <1>0, <1>3, <1>7, <2>1, <2>2, <2>3, LoneMonitored
<1>15. QED
  BY <1>10, <1>11, <1>12, <1>13, <1>14 DEF Disconnect

\* A step that sets nobody on his way or off it.
LEMMA OthersMonitor ==
    ASSUME TypeOK, MonitoredInv, ~overlap, timeouts = 0,
           \A q \in Callers : at'[q] = at[q] \/ {at[q], at'[q]} \subseteq SvcSteps,
           UNCHANGED <<client, monitor>>, connected' => connected, running => running',
           Alive(monitor)' => Alive(monitor),
           connected' /\ running' => Alive(monitor)' = Alive(monitor)
    PROVE  MonitoredInv'
<1>1. SvcSteps \cap (ConnectSteps \cup DisconnectSteps) = {}
  BY DEF SvcSteps, ConnectSteps, DisconnectSteps
<1>2. \A q \in Callers : /\ Busy(q)' = Busy(q)
                         /\ Busy(q) => at'[q] = at[q]
  BY <1>1 DEF Busy
<1>3. \A q \in Callers : \A s \in ConnectSteps \cup DisconnectSteps : at'[q] = s <=> at[q] = s
  BY <1>2 DEF Busy
<1>4. {"create", "open", "flag", "launch"} \subseteq ConnectSteps
      /\ {"clearRow", "join"} \subseteq DisconnectSteps
  BY DEF ConnectSteps, DisconnectSteps
<1>5. QED BY <1>2, <1>3, <1>4 DEF MonitoredInv

\* What the history and the joins that gave up count is never taken back.
LEMMA HistoryGrows ==
    ASSUME TypeOK, [Next]_vars, ~overlap', timeouts' = 0
    PROVE  ~overlap /\ timeouts = 0
<1>0. overlap => overlap'
  BY DEF Next, Connect, Create, Open, SetConnected, SetRow, GuardMonitor, MakeMonitor,
         LaunchMonitor, Disconnect, StopMonitoring, Join, Close, ClearConnected, ClearRow,
         Request, RequestConnect, RequestDisconnect, RequestConfigure, Begin, SetsOut,
         Service, SvcStart, SvcWait, SvcTry, SvcLoop, SvcProbe, SvcMark,
         MonitorTest, MonitorWork, BreakLink, vars, counters
<1>1. timeouts' = timeouts \/ timeouts' = timeouts + 1
  BY DEF Next, Connect, Create, Open, SetConnected, SetRow, GuardMonitor, MakeMonitor,
         LaunchMonitor, Disconnect, StopMonitoring, Join, Close, ClearConnected, ClearRow,
         Request, RequestConnect, RequestDisconnect, RequestConfigure, Begin, SetsOut,
         Service, SvcStart, SvcWait, SvcTry, SvcLoop, SvcProbe, SvcMark,
         MonitorTest, MonitorWork, BreakLink, vars, counters
<1>2. timeouts \in Nat
  BY BoundAssumption DEF TypeOK
<1>3. QED BY <1>0, <1>1, <1>2

LEMMA MonitoredStep ==
    ASSUME TypeOK, OneMonitorInv, MonitoredInv, [Next]_vars
    PROVE  MonitoredInv'
<1> SUFFICES ASSUME ~overlap', timeouts' = 0 PROVE MonitoredInv'
  BY DEF MonitoredInv
<1> USE CallersFacts
<1>0. TypeOK' BY TypeStep
<1>1. ~overlap /\ timeouts = 0
  BY HistoryGrows
<1>2. ASSUME NEW p \in Callers, Connect(p) PROVE MonitoredInv'
  <2>1. Busy(p)
    BY <1>2 DEF Connect, Create, Open, SetConnected, SetRow, GuardMonitor, MakeMonitor,
                LaunchMonitor, ConnectSteps, Busy
  <2>2. \A q \in Callers : q # p => ~Busy(q)
    BY <1>1, <2>1 DEF OneMonitorInv
  <2>3. QED BY <1>0, <1>1, <1>2, <2>2, ConnectMonitors
<1>3. ASSUME NEW t \in Threads, Disconnect(t) PROVE MonitoredInv'
  <2>1. Busy(t)
    BY <1>3 DEF Disconnect, StopMonitoring, Join, Close, ClearConnected, ClearRow,
                DisconnectSteps, Busy
  <2>2. \A q \in Callers : q # t => ~Busy(q)
    BY <1>1, <2>1 DEF OneMonitorInv
  <2>3. QED BY <1>0, <1>1, <1>3, <2>2, DisconnectMonitors
<1>4. ASSUME NEW t \in Threads, Request(t) PROVE MonitoredInv'
  <2>1. PICK request \in Ops, step \in {"create", "stop"} : Begin(t, request, step)
    BY <1>4 DEF Request, RequestConnect, RequestDisconnect, RequestConfigure, Ops
  <2>2. \A q \in Callers : q # t => ~Busy(q)
    BY <1>1, <2>1 DEF Begin, SetsOut
  <2>3. UNCHANGED <<client, connected, running, monitor, mon>> /\ at[t] = "idle"
        /\ Alive(monitor)' = Alive(monitor)
    BY <2>1 DEF Begin, Alive
  <2>4. step \in AllSteps /\ step \in ConnectSteps \cup DisconnectSteps /\ Goto(t, step)
    BY <2>1 DEF Begin, SetsOut, AllSteps, ConnectSteps, DisconnectSteps
  <2>5. at'[t] = step
    BY <2>4 DEF Goto, TypeOK
  <2>6. step = "create" => ~connected
    BY <1>4, <2>5 DEF Request, RequestConnect, RequestDisconnect, RequestConfigure, Begin,
                      SetsOut, Goto, TypeOK
  \* Nobody was on his way, so nobody was waiting for a thread.
  <2>7. Alive(monitor) => running
    <3>1. \A q \in Callers : at[q] # "join"
      BY <2>2, <2>3 DEF Busy, DisconnectSteps
    <3>2. QED BY <1>1, <3>1 DEF MonitoredInv
  <2>8. QED BY <1>1, <2>2, <2>3, <2>4, <2>6, <2>7, LoneMonitored DEF MonitoredInv
<1>5. CASE Service
  <2>1. CASE SvcTry /\ ~connected
    <3>1. \A q \in Callers : q # Svc => ~Busy(q)
      BY <1>1, <2>1 DEF SvcTry, SetsOut
    <3>2. UNCHANGED <<client, connected, running, monitor, mon>> /\ at[Svc] = "try"
          /\ Alive(monitor)' = Alive(monitor) /\ Goto(Svc, "create")
      BY <2>1 DEF SvcTry, SetsOut, Alive
    <3>3. \A q \in Callers : at[q] # "join"
      BY <3>1, <3>2 DEF Busy, DisconnectSteps
    <3>4. Alive(monitor) => running
      BY <1>1, <3>3 DEF MonitoredInv
    <3>5. "create" \in AllSteps /\ "create" \in ConnectSteps
      BY DEF AllSteps, ConnectSteps
    <3>6. QED BY <2>1, <3>1, <3>2, <3>4, <3>5, LoneMonitored
  <2>2. CASE ~(SvcTry /\ ~connected)
    <3>1. PICK step \in SvcSteps : Goto(Svc, step)
      BY <1>5, <2>2 DEF Service, SvcStart, SvcWait, SvcTry, SvcLoop, SvcProbe, SvcMark, SvcSteps
    <3>2. at[Svc] \in SvcSteps
      BY <1>5 DEF Service, SvcStart, SvcWait, SvcTry, SvcLoop, SvcProbe, SvcMark, SvcSteps
    <3>3. \A q \in Callers : at'[q] = at[q] \/ {at[q], at'[q]} \subseteq SvcSteps
      BY <3>1, <3>2 DEF Goto, TypeOK
    <3>4. /\ UNCHANGED <<client, monitor, mon>> /\ Alive(monitor)' = Alive(monitor)
          /\ connected' => connected
          /\ running => running'
      BY <1>5 DEF Service, SvcStart, SvcWait, SvcTry, SvcLoop, SvcProbe, SvcMark, Alive
    <3>5. QED BY <1>1, <3>3, <3>4, OthersMonitor
  <2>3. QED BY <2>1, <2>2
<1>6. ASSUME NEW k \in Monitors, MonitorTest(k) \/ MonitorWork(k) PROVE MonitoredInv'
  <2>1. UNCHANGED <<client, monitor, at, connected, running>>
    BY <1>6 DEF MonitorTest, MonitorWork
  <2>2. /\ Alive(monitor)' => Alive(monitor)
        /\ running => Alive(monitor)' = Alive(monitor)
    BY <1>6 DEF MonitorTest, MonitorWork, Alive, TypeOK
  <2>3. QED BY <1>1, <2>1, <2>2, OthersMonitor
<1>7. CASE BreakLink \/ UNCHANGED vars
  <2>1. UNCHANGED <<client, monitor, mon, at, connected, running>> /\ Alive(monitor)' = Alive(monitor)
    BY <1>7 DEF BreakLink, vars, Alive
  <2>2. QED BY <1>1, <2>1, OthersMonitor
<1>8. QED BY <1>2, <1>3, <1>4, <1>5, <1>6, <1>7 DEF Next

\* MonitoredWhileConnected: with calls one after the other and joins that wait
\* long enough, a client that is connected between requests is monitored, for
\* any number of request threads and however often the link is lost.
THEOREM ConnectedIsMonitored == Spec => []MonitoredWhileConnected
<1>1. Init => OneMonitorInv /\ MonitoredInv
  BY CallersFacts, CallerAssumption
     DEF Init, OneMonitorInv, MonitoredInv, Busy, ConnectSteps, DisconnectSteps, Alive, Callers
<1>2. TypeOK /\ OneMonitorInv /\ MonitoredInv /\ [Next]_vars => OneMonitorInv' /\ MonitoredInv'
  BY OneMonitorStep, MonitoredStep
<1>3. TypeOK /\ MonitoredInv => MonitoredWhileConnected
  <2> SUFFICES ASSUME MonitoredInv, Quiet, Booted PROVE \A p \in Callers : ~Busy(p)
    BY DEF MonitoredInv, MonitoredWhileConnected
  <2>1. \A t \in Threads : ~Busy(t)
    BY DEF Quiet, Busy, ConnectSteps, DisconnectSteps
  <2>2. ~Busy(Svc)
    BY DEF Booted, Busy, ConnectSteps, DisconnectSteps
  <2>3. QED BY <2>1, <2>2 DEF Callers
<1>4. QED BY <1>1, <1>2, <1>3, TypeCorrect, PTL DEF Spec

-----------------------------------------------------------------------------
(* The thread first, then the session                                      *)

Stopped == {"join2", "close", "drop", "fail", "clearRow"}

\* On the same terms, once the join of stop_monitoring is over no thread is
\* alive until disconnect() has returned.
StoppedInv ==
    ~overlap /\ timeouts = 0 =>
        \A p \in Callers : at[p] \in Stopped => ~Alive(monitor)

\* A step that takes nobody past the join and starts no thread.
LEMMA KeepsStopped ==
    ASSUME StoppedInv, ~overlap, timeouts = 0, Alive(monitor)' => Alive(monitor),
           \A q \in Callers : at'[q] \in Stopped => at[q] \in Stopped
    PROVE  StoppedInv'
BY DEF StoppedInv

LEMMA StoppedStep ==
    ASSUME TypeOK, OneMonitorInv, StoppedInv, [Next]_vars, ~overlap, timeouts = 0,
           ~overlap', timeouts' = 0
    PROVE  StoppedInv'
<1> USE CallersFacts
<1>0. \A s \in Stopped : s \in DisconnectSteps /\ s \notin ConnectSteps
  BY DEF Stopped, DisconnectSteps, ConnectSteps
<1>1. ASSUME NEW p \in Callers, Connect(p) PROVE StoppedInv'
  <2>1. Busy(p)
    BY <1>1 DEF Connect, Create, Open, SetConnected, SetRow, GuardMonitor, MakeMonitor,
                LaunchMonitor, ConnectSteps, Busy
  <2>2. \A q \in Callers : q # p => at[q] \notin Stopped
    BY <1>0, <2>1 DEF OneMonitorInv, Busy
  <2>3. PICK step \in ConnectSteps \cup {"loop", "idle"} : Goto(p, step)
    BY <1>1 DEF Connect, Create, Open, SetConnected, SetRow, GuardMonitor, MakeMonitor,
                LaunchMonitor, Return, ConnectSteps
  <2>4. step \notin Stopped
    BY DEF Stopped, ConnectSteps
  <2>5. \A q \in Callers : at'[q] \notin Stopped
    BY <2>2, <2>3, <2>4 DEF Goto, TypeOK
  <2> QED BY <2>5 DEF StoppedInv
<1>2. ASSUME NEW t \in Threads, Disconnect(t) PROVE StoppedInv'
  <2>1. UNCHANGED <<monitor, mon>> /\ Alive(monitor)' = Alive(monitor)
    BY <1>2 DEF Disconnect, StopMonitoring, Join, Close, ClearConnected, ClearRow, Alive
  <2>2. \A q \in Callers : q # t => at'[q] = at[q]
    BY <1>2 DEF Disconnect, StopMonitoring, Join, Close, ClearConnected, ClearRow,
                AfterDisconnect, Return, Goto, TypeOK
  <2>3. CASE StopMonitoring(t)
    <3>1. at'[t] = "join"
      BY <2>3 DEF StopMonitoring, Goto, TypeOK
    <3> QED BY <2>1, <2>2, <3>1, KeepsStopped DEF Stopped
  <2>4. CASE Join(t)
    <3>1. ~Alive(monitor)
      BY <2>4 DEF Join
    <3> QED BY <2>1, <3>1 DEF StoppedInv
  <2>5. CASE Close(t) \/ ClearConnected(t) \/ ClearRow(t)
    <3>1. at[t] \in Stopped
      BY <2>5 DEF Close, ClearConnected, ClearRow, Stopped
    <3> QED BY <2>1, <2>2, <3>1, KeepsStopped
  <2> QED BY <1>2, <2>3, <2>4, <2>5 DEF Disconnect
<1>3. ASSUME NEW t \in Threads, Request(t) PROVE StoppedInv'
  <2>1. UNCHANGED <<monitor, mon>> /\ Alive(monitor)' = Alive(monitor)
    BY <1>3 DEF Request, RequestConnect, RequestDisconnect, RequestConfigure, Begin, Alive
  <2>2. PICK step \in {"create", "stop"} : Goto(t, step)
    BY <1>3 DEF Request, RequestConnect, RequestDisconnect, RequestConfigure, Begin, SetsOut
  <2>3. \A q \in Callers : at'[q] \in Stopped => at[q] \in Stopped
    BY <2>2 DEF Goto, TypeOK, Stopped
  <2> QED BY <2>1, <2>3, KeepsStopped
<1>4. CASE Service
  <2>1. UNCHANGED <<monitor, mon>> /\ Alive(monitor)' = Alive(monitor)
    BY <1>4 DEF Service, SvcStart, SvcWait, SvcTry, SvcLoop, SvcProbe, SvcMark, Alive
  <2>2. PICK step \in SvcSteps \cup {"create"} : Goto(Svc, step)
    BY <1>4 DEF Service, SvcStart, SvcWait, SvcTry, SvcLoop, SvcProbe, SvcMark, SetsOut, SvcSteps
  <2>3. \A q \in Callers : at'[q] \in Stopped => at[q] \in Stopped
    BY <2>2 DEF Goto, TypeOK, Stopped, SvcSteps
  <2> QED BY <2>1, <2>3, KeepsStopped
<1>5. ASSUME NEW k \in Monitors, MonitorTest(k) \/ MonitorWork(k) PROVE StoppedInv'
  <2>1. UNCHANGED at /\ (Alive(monitor)' => Alive(monitor))
    BY <1>5 DEF MonitorTest, MonitorWork, Alive, TypeOK
  <2> QED BY <2>1, KeepsStopped
<1>6. CASE BreakLink \/ UNCHANGED vars
  <2>1. UNCHANGED at /\ Alive(monitor)' = Alive(monitor)
    BY <1>6 DEF BreakLink, vars, Alive
  <2> QED BY <2>1, KeepsStopped
<1> QED BY <1>1, <1>2, <1>3, <1>4, <1>5, <1>6 DEF Next

\* StoppedFirst: with calls one after the other and joins that wait long enough,
\* no session is closed over a thread that polls (opcua_client_service.py:92),
\* for any number of request threads and however often the link is lost.
THEOREM DisconnectStopsFirst == Spec => []StoppedFirst
<1>1. Init => OneMonitorInv /\ StoppedInv
  BY CallersFacts, CallerAssumption
     DEF Init, OneMonitorInv, StoppedInv, Busy, ConnectSteps, DisconnectSteps, Alive, Callers
<1>2. ASSUME TypeOK, OneMonitorInv, StoppedInv, [Next]_vars PROVE OneMonitorInv' /\ StoppedInv'
  <2>1. CASE overlap' \/ timeouts' # 0
    BY <1>2, <2>1, OneMonitorStep DEF StoppedInv
  <2>2. CASE ~overlap' /\ timeouts' = 0
    <3>1. ~overlap /\ timeouts = 0
      BY <1>2, <2>2, HistoryGrows
    <3> QED BY <1>2, <2>2, <3>1, OneMonitorStep, StoppedStep
  <2> QED BY <2>1, <2>2
<1>3. TypeOK /\ OneMonitorInv /\ StoppedInv => StoppedFirst
  <2> SUFFICES ASSUME OneMonitorInv, StoppedInv, timeouts = 0, ~overlap, NEW t \in Threads,
                      at[t] \in {"close", "drop", "fail", "clearRow"}, NEW k \in Monitors, Alive(k)
               PROVE  FALSE
    BY DEF StoppedFirst
  <2>1. k = monitor
    BY DEF OneMonitorInv
  <2>2. ~Alive(monitor)
    BY CallersFacts DEF StoppedInv, Stopped
  <2> QED BY <2>1, <2>2
<1>4. QED BY <1>1, <1>2, <1>3, TypeCorrect, PTL DEF Spec

\* Both: monitoring follows the session through connect() and disconnect()
\* (opcua_client_service.py:92, :279).
THEOREM MonitoringFollowsSession == Spec => []MonitoringFollows
<1>1. MonitoredWhileConnected /\ StoppedFirst => MonitoringFollows
  BY DEF MonitoringFollows
<1>2. QED BY <1>1, ConnectedIsMonitored, DisconnectStopsFirst, PTL

=============================================================================
