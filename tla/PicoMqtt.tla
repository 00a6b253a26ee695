------------------------------ MODULE PicoMqtt ------------------------------
(***************************************************************************)
(* The MQTT client of the Pico W sensor (mqtt_client.c) and the main loop  *)
(* that drives it (main.c).  main() runs in thread mode; the callbacks of  *)
(* lwIP run in interrupts (pico_cyw43_arch_lwip_threadsafe_background) and *)
(* so between any two steps of main().  Both write current_state and the   *)
(* two flags of the port test.                                             *)
(*                                                                         *)
(* A time stamp is kept as its age, which stops growing where the code no  *)
(* longer tells ages apart.  Time passes where main() sleeps or waits: in  *)
(* the port test, in the pauses after it, and at the end of a turn.  The   *)
(* loop reads the clock once a turn, and an attempt may follow: a stamp    *)
(* that is set to now after it is as old as the turn (turnAge).            *)
(***************************************************************************)
EXTENDS Naturals

CONSTANTS
    CheckInterval,   \* MQTT_CHECK_INTERVAL_MS
    RetryDelay,      \* the 30 seconds before a new attempt
    MaxWait,         \* the longest an attempt waits for its test, and then pauses
    MaxTurn          \* the longest a turn of the loop takes besides
ASSUME TimeAssumption ==
    /\ CheckInterval \in Nat /\ RetryDelay \in Nat \ {0}
    /\ MaxWait \in Nat /\ MaxTurn \in Nat \ {0}

VARIABLES
    config,         \* cfg: MQTT disabled, enabled with an unusable broker, or fine
    client,         \* mqtt_client has been created
    state,          \* current_state
    conn,           \* lwIP's connection with the broker
    pcb,            \* the connection of the port test
    testConnected, testFailed,   \* tcp_test_connected, tcp_test_failed
    at,             \* where main() is
    booting,        \* the attempt is the one before the loop
    checkAge,       \* now - mqtt_connection_check
    errorAge,       \* now - error_start_time
    turnAge,        \* in an attempt: how long ago now was read
    restart,        \* restart_requested
    link,           \* no network, a network, or one on which the broker answers
    quietFor        \* history: time since the connection was lost, or an attempt begun

mqttVars == <<client, state, conn, pcb, testConnected, testFailed>>
ages     == <<checkAge, errorAge, turnAge, quietFor>>
loopVars == <<at, booting, checkAge, errorAge, turnAge>>
envVars  == <<config, restart, link>>
vars == <<mqttVars, loopVars, envVars, quietFor>>

Unset == RetryDelay + 1     \* error_start_time = 0
AttemptSteps == {"guards", "network", "test", "wait", "abort", "settle", "open",
                 "succeeded", "failed"}
LoopSteps == {"boot", "loop", "sensor", "sleep", "reset"}
States == {"disconnected", "connecting", "connected", "error"}

TypeOK ==
    /\ config \in {"off", "bad", "good"}
    /\ client \in BOOLEAN
    /\ state \in States
    /\ conn \in {"down", "opening", "up"}
    /\ pcb \in {"none", "syn", "closed"}
    /\ testConnected \in BOOLEAN /\ testFailed \in BOOLEAN
    /\ at \in AttemptSteps \cup LoopSteps
    /\ booting \in BOOLEAN
    /\ checkAge \in 0..CheckInterval
    /\ errorAge \in 0..Unset
    /\ turnAge \in 0..2 * MaxWait
    /\ restart \in BOOLEAN
    /\ link \in {"none", "network", "broker"}
    /\ quietFor \in 0..RetryDelay

\* After power-on.  mqtt_connection_check is 0 and now counts from the boot:
\* how old it is when the loop begins depends on how long that took.
Init ==
    /\ client = FALSE
    /\ state = "disconnected"
    /\ conn = "down"
    /\ pcb = "none"
    /\ testConnected = FALSE /\ testFailed = FALSE
    /\ at = "boot"
    /\ booting = TRUE
    /\ checkAge \in 0..CheckInterval
    /\ errorAge = Unset
    /\ turnAge = 0
    /\ config \in {"off", "bad", "good"}
    /\ restart = FALSE
    /\ link \in {"none", "network", "broker"}
    /\ quietFor = 0

Goto(step) == at' = step /\ UNCHANGED booting

\* The smaller of an age and the limit at which it stops to matter.
Capped(age, limit) == IF age < limit THEN age ELSE limit

\* d units of time pass.
Pass(d) ==
    /\ checkAge' = Capped(checkAge + d, CheckInterval)
    /\ errorAge' = IF errorAge = Unset THEN Unset ELSE Capped(errorAge + d, RetryDelay)
    /\ quietFor' = Capped(quietFor + d, RetryDelay)

\* main() waits within an attempt; none is waited for longer than MaxWait.
Wait == \E d \in 0..MaxWait : Pass(d) /\ turnAge' = turnAge + d

-----------------------------------------------------------------------------
(* mqtt_sensor_connect()                                                   *)

\* Whoever called it failed to connect and marks the state as given.
Fail(s) ==
    /\ state' = s
    /\ Goto("failed")

\* The early returns leave current_state alone.
Guards ==
    /\ at = "guards"
    /\ IF client /\ config = "good"
       THEN Goto("network") /\ UNCHANGED state
       ELSE Fail(state)
    /\ UNCHANGED <<ages, envVars, client, conn, pcb, testConnected, testFailed>>

\* The interface is up, has an address and a route to the broker.
Network ==
    /\ at = "network"
    /\ IF link # "none"
       THEN Goto("test") /\ UNCHANGED state
       ELSE Fail("error")
    /\ UNCHANGED <<ages, envVars, client, conn, pcb, testConnected, testFailed>>

\* Mutant: the flags of the last test are not reset.
StartTestDirty ==
    /\ at = "test"
    /\ pcb' = "syn" /\ Goto("wait")
    /\ UNCHANGED <<ages, envVars, client, conn, state, testConnected, testFailed>>

\* test_tcp_port(): no memory for another connection, or a connection on its way.
StartTest ==
    /\ at = "test"
    /\ testConnected' = FALSE /\ testFailed' = FALSE
    /\ \/ pcb' = "none" /\ Fail("error")
       \/ pcb' = "syn" /\ Goto("wait") /\ UNCHANGED state
    /\ UNCHANGED <<ages, envVars, client, conn>>

\* The loop ends when a callback has set a flag, or after three seconds.
AwaitTest ==
    /\ at = "wait"
    /\ Wait
    /\ \/ testConnected /\ Goto("settle") /\ UNCHANGED state
       \/ ~testConnected /\ testFailed /\ Fail("error")
       \/ ~testConnected /\ ~testFailed /\ Goto("abort") /\ UNCHANGED state
    /\ UNCHANGED <<envVars, client, conn, pcb, testConnected, testFailed>>

\* tcp_abort() calls the error callback; a callback that came since the flags
\* were read has closed the connection, or lwIP has freed it, already.
AbortTest ==
    /\ at = "abort"
    /\ pcb' = "none"
    /\ testFailed' = (testFailed \/ pcb = "syn")
    /\ Fail("error")
    /\ UNCHANGED <<ages, envVars, client, conn, testConnected>>

\* The two pauses for lwIP, half a second and a second, as one.
Settle ==
    /\ at = "settle"
    /\ Wait
    /\ state' = "connecting"
    /\ Goto("open")
    /\ UNCHANGED <<envVars, client, conn, pcb, testConnected, testFailed>>

\* mqtt_client_connect() refuses a client that is not disconnected.
OpenConnection ==
    /\ at = "open"
    /\ \/ /\ conn = "down"
          /\ conn' = "opening"
          /\ Goto("succeeded")
          /\ UNCHANGED state
       \/ Fail("error") /\ UNCHANGED conn
    /\ UNCHANGED <<ages, envVars, client, pcb, testConnected, testFailed>>

Connect == \/ Guards \/ Network \/ StartTest \/ AwaitTest \/ AbortTest \/ Settle
           \/ OpenConnection

-----------------------------------------------------------------------------
(* main()                                                                  *)

\* Mutant: a successful attempt leaves error_start_time set.
AttemptEndsKeeping ==
    /\ at \in {"succeeded", "failed"}
    /\ at' = IF booting THEN "loop" ELSE "sensor"
    /\ booting' = FALSE
    /\ errorAge' = IF at = "failed" /\ ~booting THEN Capped(turnAge, RetryDelay) ELSE errorAge
    /\ checkAge' = IF booting THEN checkAge ELSE Capped(turnAge, CheckInterval)
    /\ turnAge' = 0
    /\ UNCHANGED <<mqttVars, envVars, quietFor>>

\* mqtt_sensor_connect() returns to the boot sequence, or to the check, which
\* notes the failure with the time read before the attempt.
AttemptEnds ==
    /\ at \in {"succeeded", "failed"}
    /\ at' = IF booting THEN "loop" ELSE "sensor"
    /\ booting' = FALSE
    /\ errorAge' = IF booting THEN errorAge
                   ELSE IF at = "succeeded" THEN Unset ELSE Capped(turnAge, RetryDelay)
    /\ checkAge' = IF booting THEN checkAge ELSE Capped(turnAge, CheckInterval)
    /\ turnAge' = 0
    /\ UNCHANGED <<mqttVars, envVars, quietFor>>

\* The client is only created here, when MQTT is enabled at boot.
BootMqtt ==
    /\ at = "boot"
    /\ \/ /\ config # "off"
          /\ client' = TRUE
          /\ at' = "guards"
          /\ quietFor' = 0
          /\ UNCHANGED booting
       \/ \* disabled, or no memory for the client
          /\ at' = "loop"
          /\ booting' = FALSE
          /\ UNCHANGED <<client, quietFor>>
    /\ UNCHANGED <<checkAge, errorAge, turnAge, state, conn, pcb, testConnected, testFailed, envVars>>

Trouble == state \in {"error", "disconnected"}

\* Mutant: every check starts the 30 seconds again.
CheckStatusRestarting ==
    \/ /\ Trouble /\ errorAge \in RetryDelay..(Unset - 1)
       /\ at' = "guards"
       /\ quietFor' = 0
       /\ UNCHANGED <<errorAge, checkAge>>
    \/ /\ ~(Trouble /\ errorAge \in RetryDelay..(Unset - 1))
       /\ errorAge' = IF Trouble THEN 0 ELSE Unset
       /\ checkAge' = 0
       /\ at' = "sensor"
       /\ UNCHANGED quietFor

\* The check of the connection, every ten seconds.
CheckStatus ==
    \/ /\ Trouble /\ errorAge = RetryDelay
       /\ at' = "guards"
       /\ quietFor' = 0
       /\ UNCHANGED <<errorAge, checkAge>>
    \/ /\ ~(Trouble /\ errorAge = RetryDelay)
       /\ errorAge' = IF ~Trouble THEN Unset
                      ELSE IF errorAge = Unset THEN 0 ELSE errorAge
       /\ checkAge' = 0
       /\ at' = "sensor"
       /\ UNCHANGED quietFor

TurnLoop ==
    /\ at = "loop"
    /\ ~restart
    /\ \/ config # "off" /\ checkAge = CheckInterval /\ CheckStatus
       \/ /\ ~(config # "off" /\ checkAge = CheckInterval)
          /\ at' = "sensor"
          /\ UNCHANGED <<errorAge, checkAge, quietFor>>
    /\ turnAge' = 0
    /\ UNCHANGED <<booting, mqttVars, envVars>>

\* The sensor is read and, while connected, published: QoS 0, so that nothing
\* is remembered of it.
ReadSensor ==
    /\ at = "sensor"
    /\ Goto("sleep")
    /\ UNCHANGED <<ages, mqttVars, envVars>>

\* The turn ends: with the reading of the sensor it has taken a while.
Sleep ==
    /\ at = "sleep"
    /\ Goto("loop")
    /\ \E d \in 1..MaxTurn : Pass(d)
    /\ UNCHANGED <<turnAge, mqttVars, envVars>>

\* Three seconds for the answer, then the watchdog.
Restart ==
    /\ at = "loop" /\ restart
    /\ Goto("reset")
    /\ UNCHANGED <<ages, mqttVars, envVars>>

\* Everything but the flash starts afresh.
Reboot ==
    /\ at = "reset"
    /\ client' = FALSE
    /\ state' = "disconnected"
    /\ conn' = "down"
    /\ pcb' = "none"
    /\ testConnected' = FALSE /\ testFailed' = FALSE
    /\ at' = "boot"
    /\ booting' = TRUE
    /\ checkAge' \in 0..CheckInterval
    /\ errorAge' = Unset
    /\ turnAge' = 0
    /\ restart' = FALSE
    /\ quietFor' = 0
    /\ UNCHANGED <<config, link>>

Main == \/ Connect \/ AttemptEnds \/ BootMqtt \/ TurnLoop \/ ReadSensor \/ Sleep
        \/ Restart \/ Reboot

-----------------------------------------------------------------------------
(* Interrupts and the world outside.                                       *)

\* tcp_test_connected_cb: closes the connection and takes its callbacks off.
TestConnected ==
    /\ pcb = "syn" /\ link = "broker"
    /\ testConnected' = TRUE
    /\ pcb' = "closed"
    /\ UNCHANGED <<client, state, conn, testFailed, loopVars, envVars, quietFor>>

\* tcp_test_error_cb: lwIP has freed the connection.
TestError ==
    /\ pcb = "syn"
    /\ testFailed' = TRUE
    /\ pcb' = "none"
    /\ UNCHANGED <<client, state, conn, testConnected, loopVars, envVars, quietFor>>

\* mqtt_connection_cb(MQTT_CONNECT_ACCEPTED)
ConnectionAccepted ==
    /\ conn = "opening" /\ link = "broker"
    /\ conn' = "up"
    /\ state' = "connected"
    /\ UNCHANGED <<client, pcb, testConnected, testFailed, loopVars, envVars, quietFor>>

\* Mutant: a loss after the connection was accepted is only logged.
ConnectionLostLogged ==
    /\ conn # "down"
    /\ conn' = "down"
    /\ state' = IF conn = "opening" THEN "error" ELSE state
    /\ quietFor' = 0
    /\ UNCHANGED <<client, pcb, testConnected, testFailed, loopVars, envVars>>

\* Mutant: a state of its own for the keep-alive timeout.
ConnectionLostTimeout ==
    /\ conn # "down"
    /\ conn' = "down"
    /\ state' = IF conn = "opening" THEN "error" ELSE "timeout"
    /\ quietFor' = 0
    /\ UNCHANGED <<client, pcb, testConnected, testFailed, loopVars, envVars>>

\* mqtt_connection_cb with any other status: refused, lost or timed out.
ConnectionLost ==
    /\ conn # "down"
    /\ conn' = "down"
    /\ state' = "error"
    /\ quietFor' = 0
    /\ UNCHANGED <<client, pcb, testConnected, testFailed, loopVars, envVars>>

\* POST /api/config: takes effect at the restart it asks for.
Configure ==
    /\ config' \in {"off", "bad", "good"}
    /\ restart' = TRUE
    /\ UNCHANGED <<mqttVars, loopVars, link, quietFor>>

LinkChanges ==
    /\ link' \in {"none", "network", "broker"} \ {link}
    /\ UNCHANGED <<mqttVars, loopVars, config, restart, quietFor>>

Interrupt == TestConnected \/ TestError \/ ConnectionAccepted \/ ConnectionLost

Next == Main \/ Interrupt \/ Configure \/ LinkChanges

\* main() runs on.  A broker that is asked again and again answers at some
\* point before the port test gives up, and accepts a connection.
Fairness ==
    /\ WF_vars(Main)
    /\ SF_vars(at = "wait" /\ TestConnected)
    /\ SF_vars(ConnectionAccepted)
    /\ SF_vars(at = "open" /\ conn = "down" /\ Goto("succeeded") /\ OpenConnection)
    /\ SF_vars(at = "test" /\ Goto("wait") /\ StartTest)

Spec == Init /\ [][Next]_vars /\ Fairness

-----------------------------------------------------------------------------
(* Properties.                                                             *)

\* The device shows "connected" exactly while lwIP's connection is up,
\* whatever interrupt comes between two steps of an attempt (current_state is
\* written at mqtt_client.c:48, :83, :301 and on every failure).
StateFollowsConn == state = "connected" <=> conn = "up"

\* A connection is only opened when there is none: main() never starts an
\* attempt while an earlier one is under way, so that mqtt_client_connect()
\* (mqtt_client.c:310) never meets a client that is in use.
OpensWhenDown == at \in AttemptSteps \ {"succeeded", "failed"} => conn = "down"

\* What main() takes for the state of the connection is lwIP's, and no second
\* connection is opened beside one that is up or under way.
OneConnection == StateFollowsConn /\ OpensWhenDown

\* The port test leaves no half-open connection behind, neither for lwIP's
\* pool nor for its callbacks to write the flags of the next test
\* (mqtt_client.c:177).
NoPendingTest == pcb = "syn" => at \in {"wait", "abort"}

\* The port test only succeeds when the port has answered this test
\* (mqtt_client.c:141, :181).
TestTruthful == at = "settle" => pcb = "closed" /\ testConnected

\* The port test neither leaks a connection nor lies about the port.
TestSound == NoPendingTest /\ TestTruthful

\* The loop begins an attempt no sooner than 30 seconds after the connection
\* was lost or refused, and no sooner than 30 seconds after it began the last
\* one (main.c:433).  It may begin one sooner than 30 seconds after the last one
\* failed: error_start_time is then set to the time read before the attempt
\* (main.c:450 and :420), so that the pause is shorter by as long as the attempt
\* took, three seconds of the port test and more, whatever the comment at
\* main.c:431 says of the time in the error state.
RetriesSpaced == [][at = "loop" /\ at' = "guards" => quietFor = RetryDelay]_vars

\* A device whose broker stays reachable is connected again and again, however
\* often it was refused or thrown out before.
Reconnects ==
    <>[](config = "good" /\ client /\ ~restart /\ link = "broker")
        => []<>(state = "connected")

=============================================================================
