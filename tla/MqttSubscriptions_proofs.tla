---------------------- MODULE MqttSubscriptions_proofs ----------------------
(***************************************************************************)
(* For every set of rows, topics and threads and every bound on failures:  *)
(* the types, the agreement of self.connected with the session, and that   *)
(* no mapping is lost between on_connect and a concurrent expose.          *)
(***************************************************************************)
EXTENDS MqttSubscriptions, TLAPS

\* MqttSubscriptions: every value has its type.
THEOREM TypeCorrect == Spec => []TypeOK
<1>1. Init => TypeOK
  <2> SUFFICES ASSUME Init PROVE TypeOK
    OBVIOUS
  <2>1. job \in [Threads -> Jobs \cup {Idle}]
    BY DEF Init
  <2>2. losses \in 0..MaxLosses /\ dbFails \in 0..MaxDbFails
    BY Bounds DEF Init
  <2>3. rows \subseteq used /\ used \subseteq Rows /\ loop \in LoopSteps
    BY DEF Init, LoopSteps
  <2>4. QED BY <2>1, <2>2, <2>3 DEF Init, TypeOK
<1>2. TypeOK /\ [Next]_vars => TypeOK'
  <2> SUFFICES ASSUME TypeOK, [Next]_vars PROVE TypeOK'
    OBVIOUS
  <2> USE DEF TypeOK, LoopSteps, Status, linkVars, envVars
  <2>1. CASE LoopThread
    <3>1. CASE Connack BY <3>1 DEF Connack
    <3>2. CASE Refused BY <3>2 DEF Refused
    <3>3. CASE OnConnectFlag BY <3>3 DEF OnConnectFlag
    <3>4. CASE OnConnectRow BY <3>4 DEF OnConnectRow, WriteDevice
    <3>5. CASE OnConnectRead BY <3>5, RowTopics DEF OnConnectRead, MappedTopics
    <3>6. CASE OnConnectSubscribe BY <3>6 DEF OnConnectSubscribe, Subscribe
    <3>7. CASE NoticeLoss BY <3>7 DEF NoticeLoss
    <3>8. CASE OnDisconnectFlag BY <3>8 DEF OnDisconnectFlag
    <3>9. CASE OnDisconnectRow BY <3>9 DEF OnDisconnectRow, WriteDevice
    <3>10. QED
      BY <2>1, <3>1, <3>2, <3>3, <3>4, <3>5, <3>6, <3>7, <3>8, <3>9 DEF LoopThread
  <2>2. ASSUME NEW t \in Threads, NEW m \in Rows, Expose(t, m) \/ Remove(t, m)
        PROVE  TypeOK'
    <3>1. TopicOf[m] \in Topics BY RowTopics
    <3>2. job' \in [Threads -> Jobs \cup {Idle}]
      BY <2>2, <3>1 DEF Expose, Insert, Remove, Begin, Jobs, JobSteps
    <3>3. QED BY <2>2, <3>2 DEF Expose, Insert, Remove
  <2>3. ASSUME NEW t \in Threads, NEW topic \in Topics,
               SubscribeDynamic(t, topic) \/ UnsubscribeDynamic(t, topic)
        PROVE  TypeOK'
    <3>1. job' \in [Threads -> Jobs \cup {Idle}]
      BY <2>3 DEF SubscribeDynamic, UnsubscribeDynamic, Begin, Jobs, JobSteps
    <3>2. QED BY <2>3, <3>1 DEF SubscribeDynamic, UnsubscribeDynamic
  <2>4. ASSUME NEW t \in Threads, Continue(t) PROVE TypeOK'
    <3>1. job[t] \in Jobs
      BY <2>4 DEF Continue, Check, Send, Finish, Delete, At
    <3>2. job[t].topic \in Topics
      BY <3>1 DEF Jobs
    <3>3. ASSUME NEW step \in JobSteps, Goto(t, step)
          PROVE  job' \in [Threads -> Jobs \cup {Idle}]
      BY <3>1, <3>3 DEF Goto, Jobs
    <3>4. Return(t) => job' \in [Threads -> Jobs \cup {Idle}]
      BY DEF Return
    <3>5. CASE Check(t) BY <3>3, <3>4, <3>5 DEF Check, JobSteps
    <3>6. CASE Send(t) BY <3>2, <3>3, <3>4, <3>6 DEF Send, Subscribe, Unsubscribe, JobSteps
    <3>7. CASE Finish(t)
      <4>1. dynamic' \subseteq Topics BY <3>2, <3>7 DEF Finish, Delete
      <4>2. QED BY <3>4, <3>7, <4>1 DEF Finish, Delete
    <3>8. QED BY <2>4, <3>5, <3>6, <3>7 DEF Continue
  <2>5. CASE Environment
    <3>1. CASE LoseLink
      <4>1. losses' \in 0..MaxLosses BY <3>1, Bounds DEF LoseLink
      <4>2. QED BY <3>1, <4>1 DEF LoseLink
    <3>2. CASE DbDown
      <4>1. dbFails' \in 0..MaxDbFails BY <3>2, Bounds DEF DbDown
      <4>2. QED BY <3>2, <4>1 DEF DbDown
    <3>3. CASE DbUp BY <3>3 DEF DbUp
    <3>4. QED BY <2>5, <3>1, <3>2, <3>3 DEF Environment
  <2>6. CASE UNCHANGED vars
    BY <2>6 DEF vars
  <2>7. QED
    BY <2>1, <2>2, <2>3, <2>4, <2>5, <2>6 DEF Next, Request
<1>3. QED
  BY <1>1, <1>2, PTL DEF Spec

-----------------------------------------------------------------------------
(* self.connected and the session.                                         *)

\* Where the loop thread is tells what the socket and the flag are.
FlagInv ==
    /\ loop \in {"flag", "row", "read", "subscribe"} => link # "down"
    /\ loop \in {"row", "read", "subscribe"} => connected = TRUE
    /\ loop = "idle" => connected = (link # "down")
    /\ loop \in {"lostFlag", "lostRow"} => link = "down"
    /\ loop = "lostRow" => connected = FALSE

\* Request threads leave the socket, the loop thread and the flag alone.
LEMMA RequestsKeepLoop ==
    ASSUME NEW t \in Threads, Request(t) \/ Continue(t)
    PROVE  UNCHANGED <<connected, link, loop>>
<1>1. ASSUME NEW m \in Rows, Expose(t, m) \/ Remove(t, m)
      PROVE  UNCHANGED <<connected, link, loop>>
  BY <1>1 DEF Expose, Insert, Remove, linkVars
<1>2. ASSUME NEW topic \in Topics, SubscribeDynamic(t, topic) \/ UnsubscribeDynamic(t, topic)
      PROVE  UNCHANGED <<connected, link, loop>>
  BY <1>2 DEF SubscribeDynamic, UnsubscribeDynamic, linkVars
<1>3. CASE Continue(t)
  BY <1>3 DEF Continue, Check, Send, Finish, Delete, linkVars
<1>4. QED BY <1>1, <1>2, <1>3 DEF Request

LEMMA FlagStep ==
    ASSUME TypeOK, FlagInv, [Next]_vars
    PROVE  FlagInv'
<1> USE DEF FlagInv, TypeOK, linkVars
<1>1. CASE LoopThread
  <2>1. CASE Connack BY <2>1 DEF Connack
  <2>2. CASE Refused BY <2>2 DEF Refused
  <2>3. CASE OnConnectFlag BY <2>3 DEF OnConnectFlag
  <2>4. CASE OnConnectRow BY <2>4 DEF OnConnectRow, WriteDevice
  <2>5. CASE OnConnectRead BY <2>5 DEF OnConnectRead, MappedTopics
  <2>6. CASE OnConnectSubscribe BY <2>6 DEF OnConnectSubscribe
  <2>7. CASE NoticeLoss BY <2>7 DEF NoticeLoss
  <2>8. CASE OnDisconnectFlag BY <2>8 DEF OnDisconnectFlag
  <2>9. CASE OnDisconnectRow BY <2>9 DEF OnDisconnectRow, WriteDevice
  <2>10. QED
    BY <1>1, <2>1, <2>2, <2>3, <2>4, <2>5, <2>6, <2>7, <2>8, <2>9 DEF LoopThread
<1>2. ASSUME NEW t \in Threads, Request(t) \/ Continue(t) PROVE FlagInv'
  BY <1>2, RequestsKeepLoop
<1>3. CASE LoseLink BY <1>3 DEF LoseLink
<1>4. CASE DbDown \/ DbUp BY <1>4 DEF DbDown, DbUp
<1>5. CASE UNCHANGED vars BY <1>5 DEF vars
<1>6. QED BY <1>1, <1>2, <1>3, <1>4, <1>5 DEF Next, Environment

THEOREM FlagInvariant == Spec => []FlagInv
<1>1. Init => FlagInv
  BY DEF Init, FlagInv
<1>2. TypeOK /\ FlagInv /\ [Next]_vars => FlagInv'
  BY FlagStep
<1>3. QED BY <1>1, <1>2, TypeCorrect, PTL DEF Spec

\* FlagFollowsSession: between two callbacks self.connected is true exactly
\* when the client holds a session.
THEOREM FlagCorrect == Spec => []FlagFollowsSession
<1>1. FlagInv => FlagFollowsSession
  BY DEF FlagInv, FlagFollowsSession
<1>2. QED BY <1>1, FlagInvariant, PTL

-----------------------------------------------------------------------------
(* The row of the broker in the devices table.                             *)

\* While no statement can have failed: the row says connected from the write of
\* on_connect on, and at rest it agrees with self.connected, except that before
\* the first session it is what the previous run of the gateway left.
DeviceInv ==
    dbFails = 0 =>
        /\ db
        /\ loop \in {"read", "subscribe"} => device = "connected"
        /\ loop = "idle" /\ connected => device = "connected"
        /\ loop = "idle" /\ ~connected /\ losses > 0 => device = "disconnected"

LEMMA DeviceStep ==
    ASSUME TypeOK, FlagInv, DeviceInv, [Next]_vars
    PROVE  DeviceInv'
<1> USE DEF DeviceInv, linkVars, envVars
<1>1. CASE LoopThread
  <2>1. CASE Connack BY <2>1 DEF Connack
  <2>2. CASE Refused BY <2>2 DEF Refused
  <2>3. CASE OnConnectFlag BY <2>3 DEF OnConnectFlag
  <2>4. CASE OnConnectRow BY <2>4 DEF OnConnectRow, WriteDevice
  <2>5. CASE OnConnectRead BY <2>5 DEF OnConnectRead
  <2>6. CASE OnConnectSubscribe
    BY <2>6 DEF OnConnectSubscribe, FlagInv
  <2>7. CASE NoticeLoss BY <2>7 DEF NoticeLoss
  <2>8. CASE OnDisconnectFlag BY <2>8 DEF OnDisconnectFlag
  <2>9. CASE OnDisconnectRow
    BY <2>9 DEF OnDisconnectRow, WriteDevice, FlagInv
  <2>10. QED
    BY <1>1, <2>1, <2>2, <2>3, <2>4, <2>5, <2>6, <2>7, <2>8, <2>9 DEF LoopThread
<1>2. ASSUME NEW t \in Threads, Request(t) \/ Continue(t) PROVE DeviceInv'
  <2>1. UNCHANGED <<connected, loop, device, db, dbFails, losses>>
    BY <1>2 DEF Request, Continue, Expose, Insert, Remove, SubscribeDynamic,
                UnsubscribeDynamic, Check, Send, Finish
  <2>2. QED BY <2>1
\* A loss finds the loop thread at rest only with the flag set, so that the row
\* the loss makes count is the one on_connect wrote.
<1>3. CASE LoseLink
  BY <1>3 DEF LoseLink, FlagInv
<1>4. CASE DbDown
  <2>1. dbFails \in Nat
    BY Bounds DEF TypeOK
  <2>2. QED BY <1>4, <2>1 DEF DbDown
<1>5. CASE DbUp BY <1>5 DEF DbUp
<1>6. CASE UNCHANGED vars BY <1>6 DEF vars
<1>7. QED BY <1>1, <1>2, <1>3, <1>4, <1>5, <1>6 DEF Next, Environment

\* DeviceRowFollows: while the database has not failed, the devices table shows
\* between callbacks what self.connected says, from the first loss on also when
\* the gateway is not connected.
THEOREM DeviceRowCorrect == Spec => []DeviceRowFollows
<1>1. Init => DeviceInv
  BY DEF Init, DeviceInv
<1>2. TypeOK /\ FlagInv /\ DeviceInv /\ [Next]_vars => DeviceInv'
  BY DeviceStep
<1>3. DeviceInv => DeviceRowFollows
  BY DEF DeviceInv, DeviceRowFollows
<1>4. QED BY <1>1, <1>2, <1>3, TypeCorrect, FlagInvariant, PTL DEF Spec

-----------------------------------------------------------------------------
(* No mapping is lost between on_connect and expose.                       *)

\* A request that exposes a row works on that row's topic and has not sent.
JobInv ==
    \A t \in Threads : job[t] # Idle /\ job[t].op = "expose" =>
        /\ job[t].at # "finish"
        /\ \A m \in job[t].row : job[t].topic = TopicOf[m]

\* Who will still subscribe the topic of row m, if it is not subscribed.
Covered(m) ==
    \/ TopicOf[m] \in subs \cup cut
    \/ link # "up"
    \/ loop \in {"flag", "row", "read", "dead"}
    \/ loop = "subscribe" /\ TopicOf[m] \in todo
    \/ Exposing(m)

CoverInv == \A m \in rows : Covered(m)
MapInv   == JobInv /\ CoverInv

LEMMA JobStep ==
    ASSUME TypeOK, JobInv, [Next]_vars
    PROVE  JobInv'
<1> USE DEF JobInv, TypeOK
<1>1. CASE UNCHANGED job
  BY <1>1
<1>2. ASSUME NEW t \in Threads, NEW m \in Rows, Expose(t, m) \/ Remove(t, m)
      PROVE  JobInv'
  BY <1>2 DEF Expose, Insert, Remove, Begin
<1>3. ASSUME NEW t \in Threads, NEW topic \in Topics,
             SubscribeDynamic(t, topic) \/ UnsubscribeDynamic(t, topic)
      PROVE  JobInv'
  BY <1>3 DEF SubscribeDynamic, UnsubscribeDynamic, Begin
<1>4. ASSUME NEW t \in Threads, Continue(t) PROVE JobInv'
  <2>1. job[t] \in Jobs
    BY <1>4 DEF Continue, Check, Send, Finish, Delete, At
  <2>2. CASE Return(t)
    BY <2>2 DEF Return
  <2>3. CASE Goto(t, "send")
    <3>1. job'[t].op = job[t].op /\ job'[t].at = "send"
          /\ job'[t].row = job[t].row /\ job'[t].topic = job[t].topic
      BY <2>1, <2>3 DEF Goto, Jobs
    <3>2. \A u \in Threads \ {t} : job'[u] = job[u]
      BY <2>3 DEF Goto
    <3>3. job[t] # Idle
      BY <1>4 DEF Continue, Check, Send, Finish, Delete, At
    <3>4. QED BY <3>1, <3>2, <3>3
  <2>4. CASE Goto(t, "finish") /\ job[t].op # "expose"
    BY <2>1, <2>4 DEF Goto, Jobs
  <2>5. QED BY <1>4, <2>2, <2>3, <2>4 DEF Continue, Check, Send, Finish, Delete
<1>5. [Next]_vars => \/ UNCHANGED job
                     \/ \E t \in Threads : Request(t) \/ Continue(t)
  BY DEF Next, vars, LoopThread, Connack, Refused, OnConnectFlag, OnConnectRow,
         OnConnectRead, MappedTopics, OnConnectSubscribe, NoticeLoss, OnDisconnectFlag,
         OnDisconnectRow, WriteDevice, Environment, LoseLink, DbDown, DbUp
<1>6. QED BY <1>1, <1>2, <1>3, <1>4, <1>5 DEF Request

\* The loop thread and the environment keep every row covered.
LEMMA LoopCovers ==
    ASSUME TypeOK, FlagInv, CoverInv, LoopThread \/ Environment
    PROVE  CoverInv'
<1> SUFFICES ASSUME NEW m \in rows' PROVE Covered(m)'
  BY DEF CoverInv
<1>1. m \in rows /\ job' = job
  BY DEF LoopThread, Connack, Refused, OnConnectFlag, OnConnectRow, OnConnectRead, MappedTopics,
         OnConnectSubscribe, NoticeLoss, OnDisconnectFlag, OnDisconnectRow,
         WriteDevice, Environment, LoseLink, DbDown, DbUp
<1>2. Covered(m) /\ (Exposing(m) <=> Exposing(m)')
  BY <1>1 DEF CoverInv, Exposing
<1> USE <1>2 DEF Covered, linkVars
<1>3. CASE Connack BY <1>3 DEF Connack
<1>4. CASE Refused BY <1>4, FlagInv DEF Refused
<1>5. CASE OnConnectFlag BY <1>5 DEF OnConnectFlag
<1>6. CASE OnConnectRow BY <1>6 DEF OnConnectRow, WriteDevice
<1>7. CASE OnConnectRead
  <2>1. TopicOf[m] \in Topics BY <1>1, RowTopics DEF TypeOK
  <2>2. QED BY <1>1, <1>7, <2>1 DEF OnConnectRead, MappedTopics
<1>8. CASE OnConnectSubscribe BY <1>8 DEF OnConnectSubscribe, Subscribe
<1>9. CASE NoticeLoss BY <1>9 DEF NoticeLoss
<1>10. CASE OnDisconnectFlag BY <1>10, FlagInv DEF OnDisconnectFlag, FlagInv
<1>11. CASE OnDisconnectRow BY <1>11, FlagInv DEF OnDisconnectRow, WriteDevice, FlagInv
<1>12. CASE LoseLink BY <1>12 DEF LoseLink
<1>13. CASE DbDown \/ DbUp BY <1>13 DEF DbDown, DbUp
<1>14. QED
  BY <1>3, <1>4, <1>5, <1>6, <1>7, <1>8, <1>9, <1>10, <1>11, <1>12, <1>13
     DEF LoopThread, Environment

\* So does a request that begins: the row it adds is being exposed.
LEMMA RequestCovers ==
    ASSUME TypeOK, CoverInv, NEW t \in Threads, Request(t)
    PROVE  CoverInv'
<1> SUFFICES ASSUME NEW m \in rows' PROVE Covered(m)'
  BY DEF CoverInv
<1>1. UNCHANGED <<link, loop, todo, subs, cut>> /\ job[t] = Idle
  BY DEF Request, Expose, Insert, Remove, SubscribeDynamic, UnsubscribeDynamic, Begin, linkVars
<1>2. \A u \in Threads \ {t} : job'[u] = job[u]
  BY DEF Request, Expose, Insert, Remove, SubscribeDynamic, UnsubscribeDynamic, Begin, TypeOK
<1>3. Exposing(m) => Exposing(m)'
  BY <1>1, <1>2 DEF Exposing
<1>4. CASE m \in rows
  BY <1>1, <1>3, <1>4 DEF CoverInv, Covered
<1>5. CASE m \notin rows
  <2>1. m \in Rows /\ Expose(t, m)
    BY <1>5 DEF Request, Expose, Insert, Remove, SubscribeDynamic, UnsubscribeDynamic, TypeOK
  <2>2. Exposing(m)'
    BY <2>1 DEF Expose, Insert, Begin, Exposing, Idle, TypeOK
  <2>3. QED BY <2>2 DEF Covered
<1>6. QED BY <1>4, <1>5

\* And a request that goes on: an expose gives up only when self.connected is
\* false, and then on_connect has still to read the mappings.
LEMMA ContinueCovers ==
    ASSUME TypeOK, FlagInv, MapInv, NEW t \in Threads, Continue(t)
    PROVE  CoverInv'
<1> SUFFICES ASSUME NEW m \in rows' PROVE Covered(m)'
  BY DEF CoverInv
<1>1. UNCHANGED <<link, loop, todo, connected>> /\ m \in rows
  BY DEF Continue, Check, Send, Finish, Delete, linkVars
<1>2. Covered(m) /\ JobInv
  BY <1>1 DEF MapInv, CoverInv
<1>3. job[t] \in Jobs /\ job[t] # Idle
  BY DEF Continue, Check, Send, Finish, Delete, At, TypeOK
<1>4. \A u \in Threads \ {t} : job'[u] = job[u]
  BY DEF Continue, Check, Send, Finish, Delete, Goto, Return, TypeOK
<1>5. CASE ~(job[t].op = "expose" /\ m \in job[t].row)
  <2>1. Exposing(m) => Exposing(m)'
    BY <1>4, <1>5 DEF Exposing
  <2>2. TopicOf[m] \in subs \cup cut => TopicOf[m] \in subs' \cup cut'
    BY DEF Continue, Check, Send, Finish, Delete, Subscribe, Unsubscribe
  <2>3. QED BY <1>1, <1>2, <2>1, <2>2 DEF Covered
<1>6. CASE job[t].op = "expose" /\ m \in job[t].row
  <2>1. job[t].at # "finish" /\ job[t].topic = TopicOf[m]
    BY <1>2, <1>3, <1>6 DEF JobInv
  <2>2. CASE Check(t) /\ connected
    <3>1. Exposing(m)'
      BY <1>3, <1>6, <2>2 DEF Check, Goto, Exposing, Jobs, Idle, TypeOK
    <3>2. QED BY <3>1 DEF Covered
  <2>3. CASE Check(t) /\ ~connected
    <3>1. loop \in {"flag", "dead"} \/ link # "up"
      BY <2>3 DEF FlagInv, TypeOK, LoopSteps
    <3>2. QED BY <1>1, <3>1 DEF Covered
  <2>4. CASE Send(t)
    BY <1>1, <1>6, <2>1, <2>4 DEF Send, Subscribe, Covered, linkVars
  <2>5. QED BY <2>1, <2>2, <2>3, <2>4 DEF Continue, Finish, Delete, At
<1>7. QED BY <1>5, <1>6

THEOREM MapInvariant == Spec => []MapInv
<1>1. Init => MapInv
  BY DEF Init, MapInv, JobInv, CoverInv, Covered
<1>2. TypeOK /\ FlagInv /\ MapInv /\ [Next]_vars => MapInv'
  <2> SUFFICES ASSUME TypeOK, FlagInv, MapInv, [Next]_vars PROVE MapInv'
    OBVIOUS
  <2>1. JobInv'
    BY JobStep DEF MapInv
  <2>2. CoverInv'
    <3>1. CASE UNCHANGED vars
      BY <3>1 DEF vars, MapInv, CoverInv, Covered, Exposing
    <3>2. CASE LoopThread \/ Environment
      BY <3>2, LoopCovers DEF MapInv
    <3>3. ASSUME NEW t \in Threads, Request(t) \/ Continue(t) PROVE CoverInv'
      BY <3>3, RequestCovers, ContinueCovers DEF MapInv
    <3>4. QED BY <3>1, <3>2, <3>3 DEF Next
  <2>3. QED BY <2>1, <2>2 DEF MapInv
<1>3. QED BY <1>1, <1>2, TypeCorrect, FlagInvariant, PTL DEF Spec

\* MappingsSubscribed: with the session up and on_connect through, a stored
\* mapping's topic is subscribed unless an unsubscribe took it away.
THEOREM MappingsCorrect == Spec => []MappingsSubscribed
<1>1. MapInv => MappingsSubscribed
  BY DEF MapInv, CoverInv, Covered, MappingsSubscribed
<1>2. QED BY <1>1, MapInvariant, PTL

=============================================================================
