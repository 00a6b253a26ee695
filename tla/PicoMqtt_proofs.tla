--------------------------- MODULE PicoMqtt_proofs ---------------------------
(***************************************************************************)
(* Proofs about the sensor's MQTT client, for every interval and delay.    *)
(* They rest on the inductive invariant IInv, which says what main() knows *)
(* of the connection at each step of an attempt, and why no time stamp is  *)
(* older than the loss or the attempt it was taken for.                    *)
(***************************************************************************)
EXTENDS PicoMqtt, TLAPS

\* TypeOK in two parts: the ages, which take arithmetic, and the rest.
Ages ==
    /\ checkAge \in 0..CheckInterval
    /\ errorAge \in 0..Unset
    /\ turnAge \in 0..2 * MaxWait
    /\ quietFor \in 0..RetryDelay

Flags ==
    /\ config \in {"off", "bad", "good"}
    /\ client \in BOOLEAN
    /\ state \in States
    /\ conn \in {"down", "opening", "up"}
    /\ pcb \in {"none", "syn", "closed"}
    /\ testConnected \in BOOLEAN /\ testFailed \in BOOLEAN
    /\ at \in AttemptSteps \cup LoopSteps
    /\ booting \in BOOLEAN
    /\ restart \in BOOLEAN
    /\ link \in {"none", "network", "broker"}

\* main() is in an attempt that has not handed the connection to lwIP.
Attempting == at \in AttemptSteps \ {"succeeded"}

\* A connection under way is one main() knows of, and none exists before an
\* attempt hands one to lwIP.
ConnInv ==
    /\ StateFollowsConn
    /\ conn = "opening" => state = "connecting"
    /\ Attempting \/ at = "boot" => conn = "down"
    /\ at = "open" => state = "connecting"

\* A test connection exists only while main() waits for it, and the flags of
\* this test are set only by its own answer.
TestInv ==
    /\ NoPendingTest
    /\ at \in {"wait", "settle"} /\ testConnected => pcb = "closed"
    /\ at = "wait" /\ testFailed => pcb # "syn"
    /\ at = "settle" => testConnected

\* A time stamp is only kept of an error that still lasts.  It is no older
\* than the loss or the attempt it is taken for, nor is the time that was read
\* before the attempt.
TimerInv ==
    /\ booting => errorAge = Unset /\ at \notin {"loop", "sensor", "sleep"}
    /\ at \notin AttemptSteps /\ errorAge # Unset => conn = "down" /\ errorAge <= quietFor
    /\ Attempting /\ ~booting => Capped(turnAge, RetryDelay) <= quietFor

\* An attempt waits twice at most.
WaitInv ==
    /\ at \in LoopSteps \cup {"guards", "network", "test", "wait"} => turnAge = 0
    /\ at \in {"settle", "abort"} => turnAge <= MaxWait

IInv == TypeOK /\ ConnInv /\ TestInv /\ TimerInv /\ WaitInv

LEMMA InitInv == Init => IInv
<1> SUFFICES ASSUME Init PROVE IInv
  OBVIOUS
<1>1. TypeOK
  <2>1. Ages
    BY TimeAssumption DEF Init, Ages, Unset
  <2>2. Flags
    BY DEF Init, Flags, AttemptSteps, LoopSteps, States
  <2>3. QED
    BY <2>1, <2>2 DEF Ages, Flags, TypeOK
<1>2. ConnInv /\ TestInv /\ TimerInv /\ WaitInv
  BY DEF Init, ConnInv, TestInv, TimerInv, WaitInv, Attempting, AttemptSteps,
         StateFollowsConn, NoPendingTest
<1>3. QED
  BY <1>1, <1>2 DEF IInv

\* An age grows to its limit and not beyond, and the older of two stays so.
LEMMA CappedType ==
    ASSUME NEW limit \in Nat, NEW age \in Nat
    PROVE  Capped(age, limit) \in 0..limit /\ Capped(age, limit) <= age
BY DEF Capped

LEMMA CappedMonotone ==
    ASSUME NEW limit \in Nat, NEW age \in Nat, NEW other \in Nat, NEW d \in Nat,
           Capped(age, limit) <= other
    PROVE  Capped(age + d, limit) <= Capped(other + d, limit)
BY DEF Capped

\* What time that passes does to the ages.
LEMMA PassFacts ==
    ASSUME TypeOK, NEW d \in Nat, Pass(d)
    PROVE  /\ checkAge' \in 0..CheckInterval
           /\ errorAge' \in 0..Unset
           /\ quietFor' \in 0..RetryDelay
           /\ errorAge' = Unset <=> errorAge = Unset
           /\ errorAge # Unset /\ errorAge <= quietFor => errorAge' <= quietFor'
           /\ Capped(turnAge, RetryDelay) <= quietFor =>
                  Capped(turnAge + d, RetryDelay) <= quietFor'
<1> USE TimeAssumption
<1>1. /\ checkAge \in 0..CheckInterval /\ errorAge \in 0..Unset /\ quietFor \in 0..RetryDelay
      /\ turnAge \in Nat
  BY DEF TypeOK
<1>2. checkAge' \in 0..CheckInterval /\ quietFor' \in 0..RetryDelay
  <2>1. checkAge + d \in Nat /\ quietFor + d \in Nat /\ CheckInterval \in Nat /\ RetryDelay \in Nat
    BY <1>1
  <2>2. QED
    BY <2>1, CappedType DEF Pass
<1>3. CASE errorAge = Unset
  BY <1>1, <1>2, <1>3, CappedMonotone DEF Pass, Unset
<1>4. CASE errorAge # Unset
  <2>1. errorAge \in 0..RetryDelay /\ errorAge' = Capped(errorAge + d, RetryDelay)
    BY <1>1, <1>4 DEF Pass, Unset
  <2>2. errorAge' \in 0..RetryDelay
    <3>1. errorAge + d \in Nat /\ RetryDelay \in Nat
      BY <2>1
    <3>2. QED
      BY <2>1, <3>1, CappedType
  <2>3. errorAge <= quietFor => errorAge' <= quietFor'
    <3>1. ASSUME errorAge <= quietFor PROVE Capped(errorAge, RetryDelay) <= quietFor
      BY <1>1, <2>1, <3>1 DEF Capped
    <3>2. QED
      BY <1>1, <2>1, <3>1, CappedMonotone DEF Pass
  <2>4. QED
    BY <1>1, <1>2, <1>4, <2>2, <2>3, CappedMonotone DEF Pass, Unset
<1>5. QED
  BY <1>3, <1>4

\* In the same words, for the waits of an attempt.
LEMMA WaitFacts ==
    ASSUME IInv, Wait, at \in {"wait", "settle"}
    PROVE  /\ Ages'
           /\ errorAge' = Unset <=> errorAge = Unset
           /\ ~booting => Capped(turnAge, RetryDelay)' <= quietFor'
           /\ at = "wait" => turnAge' <= MaxWait
<1>1. PICK d \in 0..MaxWait : Pass(d) /\ turnAge' = turnAge + d
  BY DEF Wait
<1>2. d \in Nat /\ MaxWait \in Nat /\ RetryDelay \in Nat /\ TypeOK
  BY TimeAssumption DEF IInv
<1>3. turnAge \in Nat /\ turnAge <= MaxWait /\ (at = "wait" => turnAge = 0)
  BY <1>2 DEF IInv, TypeOK, WaitInv
<1>4. turnAge' \in 0..2 * MaxWait /\ (at = "wait" => turnAge' <= MaxWait)
  BY <1>1, <1>2, <1>3
<1>5. ~booting => Capped(turnAge, RetryDelay) <= quietFor
  BY DEF IInv, TimerInv, Attempting, AttemptSteps
<1>6. Capped(turnAge, RetryDelay)' = Capped(turnAge + d, RetryDelay)
  BY <1>1 DEF Capped
<1>7. QED
  BY <1>1, <1>2, <1>4, <1>5, <1>6, PassFacts DEF Ages

\* The steps of an attempt.
LEMMA ConnectInv ==
    ASSUME IInv, Connect
    PROVE  IInv'
<1> USE DEF IInv, TypeOK, ConnInv, TestInv, TimerInv, WaitInv, Attempting, AttemptSteps,
        LoopSteps, States, StateFollowsConn, NoPendingTest, Goto, Fail, mqttVars, envVars, ages
<1>1. CASE Guards
  BY <1>1, TimeAssumption DEF Guards, Capped
<1>2. CASE Network
  BY <1>2, TimeAssumption DEF Network, Capped
<1>3. CASE StartTest
  <2>1. Ages' /\ Flags'
    BY <1>3 DEF StartTest, Ages, Flags, Unset
  <2>2. ConnInv'
    BY <1>3 DEF StartTest
  <2>3. TestInv'
    BY <1>3 DEF StartTest
  <2>4. TimerInv' /\ WaitInv'
    BY <1>3 DEF StartTest, Capped, Unset
  <2>5. QED
    BY <2>1, <2>2, <2>3, <2>4 DEF Ages, Flags
<1>4. CASE AwaitTest
  <2>1. at = "wait" /\ at' \in {"settle", "failed", "abort"} /\ booting' = booting
    BY <1>4 DEF AwaitTest
  <2>2. /\ Ages' /\ (errorAge' = Unset <=> errorAge = Unset) /\ turnAge' <= MaxWait
        /\ ~booting => Capped(turnAge, RetryDelay)' <= quietFor'
    BY <1>4, <2>1, WaitFacts DEF AwaitTest
  <2>3. Flags'
    BY <1>4 DEF AwaitTest, Flags
  <2>4. ConnInv'
    BY <1>4 DEF AwaitTest
  <2>5. TestInv'
    BY <1>4 DEF AwaitTest
  <2>6. TimerInv' /\ WaitInv'
    BY <2>1, <2>2 DEF Unset
  <2>7. QED
    BY <2>2, <2>3, <2>4, <2>5, <2>6 DEF Ages, Flags
<1>5. CASE AbortTest
  BY <1>5, TimeAssumption DEF AbortTest, Capped, Unset
<1>6. CASE Settle
  <2>1. at = "settle" /\ at' = "open" /\ booting' = booting
    BY <1>6 DEF Settle
  <2>2. /\ Ages' /\ (errorAge' = Unset <=> errorAge = Unset)
        /\ ~booting => Capped(turnAge, RetryDelay)' <= quietFor'
    BY <1>6, <2>1, WaitFacts DEF Settle
  <2>3. Flags'
    BY <1>6 DEF Settle, Flags
  <2>4. ConnInv' /\ TestInv'
    BY <1>6 DEF Settle
  <2>5. TimerInv' /\ WaitInv'
    BY <2>1, <2>2 DEF Unset
  <2>6. QED
    BY <2>2, <2>3, <2>4, <2>5 DEF Ages, Flags
<1>7. CASE OpenConnection
  BY <1>7, TimeAssumption DEF OpenConnection, Capped, Unset
<1>8. QED
  BY <1>1, <1>2, <1>3, <1>4, <1>5, <1>6, <1>7 DEF Connect

LEMMA SleepInv ==
    ASSUME IInv, Sleep
    PROVE  IInv'
<1>1. PICK d \in 1..MaxTurn : Pass(d)
  BY DEF Sleep
<1>2. d \in Nat /\ TypeOK
  BY TimeAssumption DEF IInv
<1>3. /\ checkAge' \in 0..CheckInterval /\ errorAge' \in 0..Unset /\ quietFor' \in 0..RetryDelay
      /\ errorAge' = Unset <=> errorAge = Unset
      /\ errorAge # Unset /\ errorAge <= quietFor => errorAge' <= quietFor'
  BY <1>1, <1>2, PassFacts
<1>4. /\ at = "sleep" /\ at' = "loop" /\ UNCHANGED <<booting, turnAge, mqttVars, envVars>>
      /\ errorAge # Unset => conn = "down" /\ errorAge <= quietFor
      /\ (errorAge = Unset)' <=> errorAge' = Unset
  BY DEF Sleep, Goto, IInv, TimerInv, AttemptSteps, Unset
<1>5. TypeOK'
  BY <1>3, <1>4 DEF IInv, TypeOK, AttemptSteps, LoopSteps, Unset, mqttVars, envVars
<1>6. ConnInv' /\ TestInv'
  BY <1>4 DEF IInv, ConnInv, TestInv, Attempting, AttemptSteps, StateFollowsConn, NoPendingTest,
              mqttVars
<1>7. TimerInv' /\ WaitInv'
  BY <1>3, <1>4 DEF IInv, TimerInv, WaitInv, Attempting, AttemptSteps, LoopSteps, mqttVars
<1>8. QED
  BY <1>5, <1>6, <1>7 DEF IInv

\* The steps of main() around the attempts.
LEMMA MainInv ==
    ASSUME IInv, Main
    PROVE  IInv'
<1>1. CASE Connect
  BY <1>1, ConnectInv
<1>2. CASE Sleep
  BY <1>2, SleepInv
<1> USE TimeAssumption
    DEF IInv, TypeOK, ConnInv, TestInv, TimerInv, WaitInv, Attempting, AttemptSteps, LoopSteps,
        States, Unset, StateFollowsConn, NoPendingTest, Goto, mqttVars, envVars, ages
<1>3. CASE AttemptEnds
  <2>1. Ages'
    <3>1. turnAge \in Nat /\ 0 \in 0..2 * MaxWait
      OBVIOUS
    <3>2. Capped(turnAge, RetryDelay) \in 0..RetryDelay /\ Capped(turnAge, CheckInterval) \in 0..CheckInterval
      BY <3>1, CappedType
    <3>3. QED
      BY <1>3, <3>1, <3>2 DEF AttemptEnds, Ages
  <2>2. Flags'
    <3>1. at' \in AttemptSteps \cup LoopSteps /\ booting' \in BOOLEAN
      BY <1>3 DEF AttemptEnds
    <3>2. QED
      BY <1>3, <3>1 DEF AttemptEnds, Flags
  <2>3. ConnInv'
    BY <1>3 DEF AttemptEnds
  <2>4. TestInv'
    BY <1>3 DEF AttemptEnds
  <2>5. TimerInv'
    BY <1>3 DEF AttemptEnds
  <2>6. WaitInv'
    BY <1>3 DEF AttemptEnds
  <2>7. QED
    BY <2>1, <2>2, <2>3, <2>4, <2>5, <2>6 DEF Ages, Flags
<1>4. CASE BootMqtt
  <2>1. Ages' /\ Flags'
    <3>1. Ages'
      BY <1>4 DEF BootMqtt, Ages
    <3>2. Flags'
      BY <1>4 DEF BootMqtt, Flags
    <3>3. QED
      BY <3>1, <3>2
  <2>2. ConnInv'
    BY <1>4 DEF BootMqtt
  <2>3. TestInv'
    BY <1>4 DEF BootMqtt
  <2>4. TimerInv' /\ WaitInv'
    <3>1. CASE at' = "guards"
      BY <1>4, <3>1 DEF BootMqtt, Capped
    <3>2. CASE at' = "loop"
      BY <1>4, <3>2 DEF BootMqtt
    <3>3. QED
      BY <1>4, <3>1, <3>2 DEF BootMqtt
  <2>5. QED
    BY <2>1, <2>2, <2>3, <2>4 DEF Ages, Flags
<1>5. CASE TurnLoop
  <2>1. Ages' /\ Flags'
    BY <1>5 DEF TurnLoop, CheckStatus, Ages, Flags
  <2>2. ConnInv' /\ TestInv'
    BY <1>5 DEF TurnLoop, CheckStatus, Trouble
  <2>3. TimerInv' /\ WaitInv'
    BY <1>5 DEF TurnLoop, CheckStatus, Trouble, Capped
  <2>4. QED
    BY <2>1, <2>2, <2>3 DEF Ages, Flags
<1>6. CASE ReadSensor
  BY <1>6 DEF ReadSensor
<1>7. CASE Restart
  BY <1>7 DEF Restart
<1>8. CASE Reboot
  <2>1. Ages' /\ Flags'
    <3>1. Ages'
      BY <1>8 DEF Reboot, Ages
    <3>2. Flags'
      BY <1>8 DEF Reboot, Flags
    <3>3. QED
      BY <3>1, <3>2
  <2>2. ConnInv'
    BY <1>8 DEF Reboot
  <2>3. TestInv'
    BY <1>8 DEF Reboot
  <2>4. TimerInv' /\ WaitInv'
    BY <1>8 DEF Reboot
  <2>5. QED
    BY <2>1, <2>2, <2>3, <2>4 DEF Ages, Flags
<1>9. QED
  BY <1>1, <1>2, <1>3, <1>4, <1>5, <1>6, <1>7, <1>8 DEF Main

\* The callbacks, and the steps of the world outside.
LEMMA InterruptInv ==
    ASSUME IInv, Interrupt \/ Configure \/ LinkChanges
    PROVE  IInv'
<1> USE TimeAssumption
    DEF IInv, TypeOK, ConnInv, TestInv, TimerInv, WaitInv, Attempting, AttemptSteps, LoopSteps,
        States, Unset, Capped, StateFollowsConn, NoPendingTest, mqttVars, loopVars, envVars
<1>1. CASE TestConnected
  BY <1>1 DEF TestConnected
<1>2. CASE TestError
  BY <1>2 DEF TestError
<1>3. CASE ConnectionAccepted
  BY <1>3 DEF ConnectionAccepted
<1>4. CASE ConnectionLost
  BY <1>4 DEF ConnectionLost
<1>5. CASE Configure
  BY <1>5 DEF Configure
<1>6. CASE LinkChanges
  BY <1>6 DEF LinkChanges
<1>7. QED
  BY <1>1, <1>2, <1>3, <1>4, <1>5, <1>6 DEF Interrupt

LEMMA StutterInv ==
    ASSUME IInv, UNCHANGED vars
    PROVE  IInv'
BY DEF IInv, TypeOK, ConnInv, TestInv, TimerInv, WaitInv, Attempting, Capped, Unset,
       StateFollowsConn, NoPendingTest, vars, mqttVars, loopVars, envVars

LEMMA Inductive == Spec => []IInv
<1>1. IInv /\ [Next]_vars => IInv'
  BY MainInv, InterruptInv, StutterInv DEF Next
<1>2. QED
  BY InitInv, <1>1, PTL DEF Spec

\* Every variable keeps its type.
THEOREM TypeCorrect == Spec => []TypeOK
<1>1. IInv => TypeOK
  BY DEF IInv
<1>2. QED
  BY Inductive, <1>1, PTL

\* current_state is the state of lwIP's connection, and no attempt is made on
\* a connection that exists.
THEOREM StateIsConn == Spec => []OneConnection
<1>1. IInv => OneConnection
  BY DEF IInv, ConnInv, OneConnection, OpensWhenDown, Attempting
<1>2. QED
  BY Inductive, <1>1, PTL

\* The port test neither leaks a connection nor reports an answer it did not get.
THEOREM TestIsSound == Spec => []TestSound
<1>1. IInv => TestSound
  BY DEF IInv, TestInv, TestSound, TestTruthful
<1>2. QED
  BY Inductive, <1>1, PTL

\* No attempt of the loop comes within the delay after the connection was lost
\* or the last attempt begun, however long that took.
THEOREM AttemptsSpaced == Spec => RetriesSpaced
<1>1. IInv /\ [Next]_vars => [at = "loop" /\ at' = "guards" => quietFor = RetryDelay]_vars
  <2> SUFFICES ASSUME IInv, Next, at = "loop", at' = "guards"
               PROVE  quietFor = RetryDelay
    OBVIOUS
  <2>1. TurnLoop
    BY DEF Next, Main, Interrupt, Configure, LinkChanges, Connect, Guards, Network, StartTest,
           AwaitTest, AbortTest, Settle, OpenConnection, AttemptEnds, BootMqtt, ReadSensor,
           Sleep, Restart, Reboot, Goto, Fail, TestConnected, TestError, ConnectionAccepted,
           ConnectionLost, loopVars
  <2>2. errorAge = RetryDelay
    BY <2>1 DEF TurnLoop, CheckStatus
  <2>3. errorAge <= quietFor /\ quietFor \in 0..RetryDelay
    BY <2>2, TimeAssumption DEF IInv, TypeOK, TimerInv, Unset, AttemptSteps
  <2>4. QED
    BY <2>2, <2>3, TimeAssumption
<1>2. QED
  BY Inductive, <1>1, PTL DEF Spec, RetriesSpaced

=============================================================================
