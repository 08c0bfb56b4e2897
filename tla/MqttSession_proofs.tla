------------------------- MODULE MqttSession_proofs -------------------------
(***************************************************************************)
(* Proofs about MqttSession for every value of its constants: that a session *)
(* is an accepted one, that the event MQTT_Task waits for is always posted,  *)
(* the types, and that a session subscribes and announces the device.  The  *)
(* first two rest on how the client's state goes with the link (StateFits).  *)
(***************************************************************************)
EXTENDS MqttSession, TLAPS

\* The client is connecting while something is on its way, and has a link in
\* the states that use one only.
StateFits ==
  /\ connState \in States
  /\ tcp \in {"none", "dns", "syn", "up", "closing"}
  /\ tcp \in {"dns", "syn"} => connState = "TCP_CONNECTING"
  /\ tcp \in {"up", "closing"} <=>
       InSession \/ connState \in {"MQTT_CONNECT_SENDING", "TCP_RECONNECT_DISCONNECTING"}

AcceptedInv ==
  /\ StateFits
  /\ InSession => accepted /\ is_connect
  /\ connState = "MQTT_CONNECT_SENDING" => pendingConnect

LEMMA AcceptedInit == Init => AcceptedInv
  BY DEF Init, InSession, AcceptedInv, StateFits, States

LEMMA AcceptedStep == AcceptedInv /\ [Next]_vars => AcceptedInv'
<1> SUFFICES ASSUME AcceptedInv, [Next]_vars PROVE AcceptedInv'
  OBVIOUS
<1> USE DEF AcceptedInv, StateFits, InSession, States, user, history, timers
<1>1. CASE GotIp
  BY <1>1 DEF GotIp, MqttConnect, EspConnect, LookUp
<1>2. CASE DnsFound
  BY <1>2 DEF DnsFound, EspConnect
<1>3. CASE DnsFailed
  BY <1>3 DEF DnsFailed
<1>4. CASE Connected
  BY <1>4 DEF Connected
<1>5. CASE Connack
  BY <1>5 DEF Connack, ExpectsConnack
<1>6. CASE Report
  BY <1>6 DEF Report
<1>7. CASE Receive
  BY <1>7 DEF Receive
<1>8. CASE SentCb
  BY <1>8 DEF SentCb
<1>9. CASE MqttTimer
  BY <1>9 DEF MqttTimer
<1>10. CASE LinkError
  BY <1>10 DEF LinkError, ReconCb, StateAfterLoss
<1>11. CASE WifiDrop
  BY <1>11 DEF WifiDrop, ReconCb, StateAfterLoss
<1>12. CASE PeerClose
  BY <1>12 DEF PeerClose
<1>13. CASE DisconCb
  BY <1>13 DEF DisconCb, StateAfterLoss
<1>14. CASE Tick
  BY <1>14 DEF Tick
<1>15. CASE TaskReconnect
  BY <1>15 DEF TaskReconnect, MqttConnect, EspConnect, LookUp
<1>16. CASE TaskDisconnect
  BY <1>16 DEF TaskDisconnect
<1>17. CASE TaskKeepAlive
  BY <1>17 DEF TaskKeepAlive
<1>18. CASE TaskSend
  BY <1>18 DEF TaskSend
<1>19. CASE TaskIdle
  BY <1>19 DEF TaskIdle
<1>20. CASE UNCHANGED vars
  BY <1>20 DEF vars
<1> QED
  BY <1>1, <1>2, <1>3, <1>4, <1>5, <1>6, <1>7, <1>8, <1>9, <1>10, <1>11, <1>12, <1>13, <1>14,
     <1>15, <1>16, <1>17, <1>18, <1>19, <1>20 DEF Next, Task

\* A session (mqtt.c, user_mqtt.c) is one the broker accepted on the link that
\* is there, and its reports go by MQTT.
THEOREM SessionAccepted == Spec => []SessionIsAccepted
<1>1. AcceptedInv => SessionIsAccepted
  BY DEF AcceptedInv, StateFits, InSession, SessionIsAccepted
<1> QED BY <1>1, AcceptedInit, AcceptedStep, PTL DEF Spec

-----------------------------------------------------------------------------
(* The event MQTT_Task waits for.                                          *)

Waiting == 0 .. TaskQueue

PostedInv ==
  /\ StateFits
  /\ posts \in Waiting
  /\ connState \in {"TCP_RECONNECT", "MQTT_KEEPALIVE_SEND"} => posts # 0
  /\ connState = "TCP_RECONNECT_DISCONNECTING" => posts # 0 \/ tcp = "closing"
  /\ connState = "TCP_CONNECTING" /\ wifi => tcp \in {"dns", "syn"} \/ refused

\* A post leaves an event behind even when the queue was full.
LEMMA PostsSome ==
  ASSUME NEW n \in Waiting, NEW more \in 1 .. 2
  PROVE  Posts(n, more) \in Waiting /\ Posts(n, more) # 0
  BY QueuesAssumption DEF Posts, Waiting

LEMMA PostedInit == Init => PostedInv
  BY QueuesAssumption DEF Init, InSession, PostedInv, StateFits, States, Waiting

LEMMA PostedStep == PostedInv /\ [Next]_vars => PostedInv'
<1> SUFFICES ASSUME PostedInv, [Next]_vars PROVE PostedInv'
  OBVIOUS
<1>1. Post(1) \/ Post(2) => posts' \in Waiting /\ posts' # 0
  <2>1. posts \in Waiting /\ 1 \in 1 .. 2 /\ 2 \in 1 .. 2
    BY DEF PostedInv
  <2>2. /\ Posts(posts, 1) \in Waiting /\ Posts(posts, 1) # 0
        /\ Posts(posts, 2) \in Waiting /\ Posts(posts, 2) # 0
    BY <2>1, PostsSome
  <2> QED BY <2>2 DEF Post
<1>2. TakeEvent => posts' \in Waiting
  <2> DEFINE rest == posts - 1
  <2>1. posts > 0 => rest \in Waiting
    BY QueuesAssumption DEF PostedInv, Waiting
  <2>2. TakeEvent => posts > 0 /\ posts' = rest
    BY DEF TakeEvent
  <2> HIDE DEF rest
  <2> QED BY <2>1, <2>2
<1>3. posts > 0 => posts # 0
  BY DEF PostedInv, Waiting
<1> USE DEF PostedInv, StateFits, InSession, States, user, history, timers
<1>4. CASE GotIp
  BY <1>4 DEF GotIp, MqttConnect, EspConnect, LookUp
<1>5. CASE DnsFound
  BY <1>5, <1>1 DEF DnsFound, EspConnect
<1>6. CASE DnsFailed
  BY <1>6 DEF DnsFailed
<1>7. CASE Connected
  BY <1>7, <1>1 DEF Connected
<1>8. CASE Connack
  BY <1>8, <1>1 DEF Connack, ExpectsConnack
<1>9. CASE Report
  BY <1>9, <1>1 DEF Report
<1>10. CASE Receive
  BY <1>10, <1>1 DEF Receive
<1>11. CASE SentCb
  BY <1>11, <1>1 DEF SentCb
<1>12. CASE MqttTimer
  BY <1>12, <1>1 DEF MqttTimer
<1>13. CASE LinkError
  BY <1>13, <1>1 DEF LinkError, ReconCb, StateAfterLoss
<1>14. CASE WifiDrop
  BY <1>14, <1>1 DEF WifiDrop, ReconCb, StateAfterLoss
<1>15. CASE PeerClose
  BY <1>15 DEF PeerClose
<1>16. CASE DisconCb
  BY <1>16, <1>1 DEF DisconCb, StateAfterLoss
<1>17. CASE Tick
  BY <1>17, <1>1 DEF Tick, TickPost
<1>18. CASE TaskReconnect
  BY <1>18, <1>2 DEF TaskReconnect, MqttConnect, EspConnect, LookUp
<1>19. CASE TaskDisconnect
  BY <1>19, <1>2 DEF TaskDisconnect
<1>20. CASE TaskKeepAlive
  BY <1>20, <1>3 DEF TaskKeepAlive
<1>21. CASE TaskSend
  BY <1>21, <1>2 DEF TaskSend
<1>22. CASE TaskIdle
  BY <1>22, <1>2 DEF TaskIdle
<1>23. CASE UNCHANGED vars
  BY <1>23 DEF vars
<1> QED
  BY <1>4, <1>5, <1>6, <1>7, <1>8, <1>9, <1>10, <1>11, <1>12, <1>13, <1>14,
     <1>15, <1>16, <1>17, <1>18, <1>19, <1>20, <1>21, <1>22, <1>23 DEF Next, Task

\* MQTT_Task is never left without the event that takes it out of a state only
\* it can leave, although system_os_post may fail.  A client that connects has a
\* lookup or a connection under way (mqtt.c), unless the call that should have begun
\* it failed at once, the history variable refused; then it waits for nothing.
THEOREM WorkPosted == Spec => []WorkIsPosted
<1>1. PostedInv => WorkIsPosted
  BY DEF PostedInv, Waiting, WorkIsPosted
<1> QED BY <1>1, PostedInit, PostedStep, PTL DEF Spec
-----------------------------------------------------------------------------
(* Types.                                                                  *)

\* The second after which the keep-alive is sent is counted in MQTT_DATA only.
DataTypes ==
  /\ connState \in States
  /\ sendTimeout \in 0 .. SendTimeout
  /\ keepAliveTick \in 0 .. KeepAlive + 1
  /\ connState = "MQTT_DATA" => keepAliveTick <= KeepAlive
  /\ reconnectTick \in 0 .. ReconnectTimeout
  /\ queue \in Seq(Kinds) /\ Len(queue) <= Room
  /\ posts \in 0 .. TaskQueue
  /\ tcp \in {"none", "dns", "syn", "up", "closing"}
  /\ unacked \in 0 .. 1
  /\ status \in 0 .. 1

FlagTypes ==
  /\ pendingConnect \in BOOLEAN /\ is_connect \in BOOLEAN /\ armed \in BOOLEAN
  /\ broker \in Brokers /\ wifi \in BOOLEAN
  /\ accepted \in BOOLEAN /\ subscribed \in BOOLEAN /\ announced \in BOOLEAN
  /\ lost \in BOOLEAN /\ cut \in BOOLEAN /\ refused \in BOOLEAN

\* What MQTT_Publish and MQTT_Subscribe leave in the queue.
LEMMA QueuedFits ==
  ASSUME NEW q \in Seq(Kinds), Len(q) <= Room, NEW kind \in Kinds
  PROVE  Queued(q, kind) \in Seq(Kinds) /\ Len(Queued(q, kind)) <= Room
<1>1. CASE Len(q) < Room
  BY <1>1, QueuesAssumption DEF Queued
<1>2. CASE ~ (Len(q) < Room)
  <2>1. q # <<>> /\ Room \in Nat
    BY <1>2, QueuesAssumption
  <2>2. Tail(q) \in Seq(Kinds) /\ Len(Tail(q)) = Len(q) - 1
    BY <2>1
  <2> QED BY <1>2, <2>1, <2>2 DEF Queued
<1> QED BY <1>1, <1>2

LEMMA DataInit == Init => DataTypes
  BY TimesAssumption, QueuesAssumption DEF Init, DataTypes, States, Kinds

LEMMA FlagInit == Init => FlagTypes
  BY Zenon DEF Init, FlagTypes

LEMMA DataStep == DataTypes /\ [Next]_vars => DataTypes'
<1> SUFFICES ASSUME DataTypes, [Next]_vars PROVE DataTypes'
  OBVIOUS
<1>1. Post(1) \/ Post(2) => posts' \in 0 .. TaskQueue
  <2>1. posts \in Waiting /\ 1 \in 1 .. 2 /\ 2 \in 1 .. 2
    BY DEF DataTypes, Waiting
  <2>2. Posts(posts, 1) \in Waiting /\ Posts(posts, 2) \in Waiting
    BY <2>1, PostsSome
  <2> QED BY <2>2 DEF Post, Waiting
<1>2. TakeEvent => posts' \in 0 .. TaskQueue
  BY QueuesAssumption DEF DataTypes, TakeEvent
<1>3. /\ \A kind \in Kinds : Queued(queue, kind) \in Seq(Kinds)
                             /\ Len(Queued(queue, kind)) <= Room
      /\ {"subscribe", "availability", "state"} \subseteq Kinds
  BY QueuedFits DEF DataTypes, Kinds
<1>4. queue # <<>> => Tail(queue) \in Seq(Kinds) /\ Len(Tail(queue)) <= Room
  BY QueuesAssumption DEF DataTypes
<1> USE TimesAssumption DEF DataTypes, InSession, States, user, history, timers
<1>5. CASE GotIp
  BY <1>5 DEF GotIp, MqttConnect, EspConnect, LookUp
<1>6. CASE DnsFound
  BY <1>6, <1>1 DEF DnsFound, EspConnect
<1>7. CASE DnsFailed
  BY <1>7 DEF DnsFailed
<1>8. CASE Connected
  BY <1>8, <1>1 DEF Connected
<1>9. CASE Connack
  BY <1>9, <1>1, <1>3 DEF Connack, ExpectsConnack, Subscribed, Overflows
<1>10. CASE Report
  BY <1>10, <1>1, <1>3 DEF Report, Overflows
<1>11. CASE Receive
  BY <1>11, <1>1, <1>3 DEF Receive, Overflows
<1>12. CASE SentCb
  BY <1>12, <1>1 DEF SentCb
<1>13. CASE MqttTimer
  <2>1. (status + 1) % 2 \in 0 .. 1
    BY DEF DataTypes
  <2>2. status' \in 0 .. 1 /\ posts' \in 0 .. TaskQueue
    BY <1>13, <1>1, <2>1 DEF MqttTimer
  <2>3. queue' \in Seq(Kinds) /\ Len(queue') <= Room
    BY <1>13, <1>3 DEF MqttTimer
  <2> QED BY <1>13, <2>2, <2>3 DEF MqttTimer
<1>14. CASE LinkError
  BY <1>14, <1>1 DEF LinkError, ReconCb, StateAfterLoss
<1>15. CASE WifiDrop
  BY <1>15, <1>1, SMTT(30) DEF WifiDrop, ReconCb, StateAfterLoss
<1>16. CASE PeerClose
  BY <1>16 DEF PeerClose
<1>17. CASE DisconCb
  BY <1>17, <1>1 DEF DisconCb, StateAfterLoss
<1>18. CASE Tick
  BY <1>18, <1>1 DEF Tick, TickPost
<1>19. CASE TaskReconnect
  BY <1>19, <1>2 DEF TaskReconnect, MqttConnect, EspConnect, LookUp
<1>20. CASE TaskDisconnect
  BY <1>20, <1>2 DEF TaskDisconnect
<1>21. CASE TaskKeepAlive
  BY <1>21 DEF TaskKeepAlive
<1>22. CASE TaskSend
  BY <1>22, <1>2, <1>4 DEF TaskSend
<1>23. CASE TaskIdle
  BY <1>23, <1>2 DEF TaskIdle
<1>24. CASE UNCHANGED vars
  BY <1>24 DEF vars
<1> QED
  BY <1>5, <1>6, <1>7, <1>8, <1>9, <1>10, <1>11, <1>12, <1>13, <1>14,
     <1>15, <1>16, <1>17, <1>18, <1>19, <1>20, <1>21, <1>22, <1>23, <1>24 DEF Next, Task

LEMMA FlagStep == FlagTypes /\ [Next]_vars => FlagTypes'
<1> SUFFICES ASSUME FlagTypes, [Next]_vars PROVE FlagTypes'
  OBVIOUS
<1> USE DEF FlagTypes, user, history, timers
<1>1. CASE GotIp
  BY <1>1 DEF GotIp, MqttConnect, EspConnect, LookUp
<1>2. CASE DnsFound
  BY <1>2 DEF DnsFound, EspConnect
<1>3. CASE DnsFailed
  BY <1>3 DEF DnsFailed
<1>4. CASE Connected
  BY <1>4 DEF Connected
<1>5. CASE Connack
  BY <1>5 DEF Connack, ExpectsConnack, Subscribed, Overflows
<1>6. CASE Report
  BY <1>6 DEF Report, Overflows
<1>7. CASE Receive
  BY <1>7 DEF Receive, Overflows
<1>8. CASE SentCb
  BY <1>8 DEF SentCb
<1>9. CASE MqttTimer
  BY <1>9 DEF MqttTimer, Announces, Overflows
<1>10. CASE LinkError
  BY <1>10 DEF LinkError, ReconCb, StateAfterLoss
<1>11. CASE WifiDrop
  BY <1>11 DEF WifiDrop, ReconCb, StateAfterLoss
<1>12. CASE PeerClose
  BY <1>12 DEF PeerClose
<1>13. CASE DisconCb
  BY <1>13 DEF DisconCb, StateAfterLoss
<1>14. CASE Tick
  BY <1>14 DEF Tick, TickPost
<1>15. CASE TaskReconnect
  BY <1>15 DEF TaskReconnect, MqttConnect, EspConnect, LookUp
<1>16. CASE TaskDisconnect
  BY <1>16 DEF TaskDisconnect
<1>17. CASE TaskKeepAlive
  BY <1>17 DEF TaskKeepAlive
<1>18. CASE TaskSend
  BY <1>18 DEF TaskSend
<1>19. CASE TaskIdle
  BY <1>19 DEF TaskIdle
<1>20. CASE UNCHANGED vars
  BY <1>20 DEF vars
<1> QED
  BY <1>1, <1>2, <1>3, <1>4, <1>5, <1>6, <1>7, <1>8, <1>9, <1>10,
     <1>11, <1>12, <1>13, <1>14, <1>15, <1>16, <1>17, <1>18, <1>19, <1>20 DEF Next, Task

\* The timers of mqtt.c stay within their limits, and so do the event queue and
\* the packet queue.
THEOREM SessionTypeOK == Spec => []TypeOK
<1>1. DataTypes /\ FlagTypes => TypeOK
  BY DEF DataTypes, FlagTypes, TypeOK
<1> QED
  BY <1>1, DataInit, DataStep, FlagInit, FlagStep, PTL DEF Spec
-----------------------------------------------------------------------------
(* The subscription and the announcement of a session.                     *)

Waits(q) == \E i \in DOMAIN q : q[i] = "subscribe"

\* The oldest packet leaves, the others stay.
LEMMA TailKeeps ==
  ASSUME NEW q \in Seq(Kinds), q # <<>>, Waits(q)
  PROVE  Head(q) = "subscribe" \/ Waits(Tail(q))
<1>1. PICK i \in DOMAIN q : q[i] = "subscribe"
  BY DEF Waits
<1>2. CASE i = 1
  BY <1>1, <1>2
<1>3. CASE i # 1
  <2>1. i - 1 \in DOMAIN Tail(q) /\ Tail(q)[i - 1] = q[i]
    BY <1>3
  <2> QED BY <1>1, <2>1 DEF Waits
<1> QED BY <1>2, <1>3

\* A new packet is in the queue, and takes a waiting one's place only by
\* overflowing.
LEMMA QueuedKeeps ==
  ASSUME NEW q \in Seq(Kinds), Len(q) <= Room, NEW kind \in Kinds
  PROVE  /\ kind = "subscribe" => Waits(Queued(q, kind))
         /\ Waits(q) => Waits(Queued(q, kind)) \/ Overflows(q)
<1>1. \A r \in Seq(Kinds) :
        /\ Len(r) + 1 \in DOMAIN Append(r, kind) /\ Append(r, kind)[Len(r) + 1] = kind
        /\ \A i \in DOMAIN r : i \in DOMAIN Append(r, kind) /\ Append(r, kind)[i] = r[i]
  OBVIOUS
<1>2. \A r \in Seq(Kinds) :
        /\ kind = "subscribe" => Waits(Append(r, kind))
        /\ Waits(r) => Waits(Append(r, kind))
  BY <1>1 DEF Waits
<1>3. CASE Len(q) < Room
  BY <1>2, <1>3 DEF Queued
<1>4. CASE ~ (Len(q) < Room)
  <2>1. Overflows(q) /\ q # <<>>
    BY <1>4, QueuesAssumption DEF Overflows
  <2>2. Tail(q) \in Seq(Kinds)
    BY <2>1
  <2> QED BY <1>2, <1>4, <2>1, <2>2 DEF Queued
<1> QED BY <1>3, <1>4

KeptInv == InSession => subscribed \/ lost \/ Waits(queue)

LEMMA KeptStep == DataTypes /\ KeptInv /\ [Next]_vars => KeptInv'
<1> SUFFICES ASSUME DataTypes, KeptInv, [Next]_vars PROVE KeptInv'
  OBVIOUS
<1>1. /\ Waits(Queued(queue, "subscribe"))
      /\ Waits(queue) => Waits(Queued(queue, "state")) \/ Overflows(queue)
      /\ Waits(queue) => Waits(Queued(queue, "availability")) \/ Overflows(queue)
  BY QueuedKeeps DEF DataTypes, Kinds
<1>2. queue # <<>> /\ Waits(queue) => Head(queue) = "subscribe" \/ Waits(Tail(queue))
  BY TailKeeps DEF DataTypes
<1>3. \A q : queue' = q => Waits(queue)' = Waits(q)
  BY DEF Waits
<1> USE DEF KeptInv, InSession, user, history, timers
<1>4. CASE GotIp
  BY <1>4, <1>3 DEF GotIp, MqttConnect, EspConnect, LookUp
<1>5. CASE DnsFound
  BY <1>5, <1>3 DEF DnsFound, EspConnect
<1>6. CASE DnsFailed
  BY <1>6, <1>3 DEF DnsFailed
<1>7. CASE Connected
  BY <1>7, <1>3 DEF Connected
<1>8. CASE Connack
  BY <1>8, <1>1, <1>3 DEF Connack, ExpectsConnack, Subscribed
<1>9. CASE Report
  BY <1>9, <1>1, <1>3 DEF Report
<1>10. CASE Receive
  <2>1. UNCHANGED <<connState, subscribed>>
    BY <1>10 DEF Receive
  <2>2. CASE queue' = Queued(queue, "state") /\ lost' = (lost \/ Overflows(queue))
    BY <2>1, <2>2, <1>1, <1>3
  <2>3. CASE UNCHANGED <<queue, lost>>
    BY <2>1, <2>3, <1>3
  <2> QED BY <1>10, <2>2, <2>3 DEF Receive
<1>11. CASE SentCb
  BY <1>11, <1>3 DEF SentCb
<1>12. CASE MqttTimer
  BY <1>12, <1>1, <1>3 DEF MqttTimer
<1>13. CASE LinkError
  BY <1>13, <1>3 DEF LinkError, ReconCb, StateAfterLoss
<1>14. CASE WifiDrop
  BY <1>14, <1>3 DEF WifiDrop, ReconCb, StateAfterLoss
<1>15. CASE PeerClose
  BY <1>15, <1>3 DEF PeerClose
<1>16. CASE DisconCb
  BY <1>16, <1>3 DEF DisconCb, StateAfterLoss
<1>17. CASE Tick
  BY <1>17, <1>3 DEF Tick
<1>18. CASE TaskReconnect
  BY <1>18, <1>3 DEF TaskReconnect, MqttConnect, EspConnect, LookUp
<1>19. CASE TaskDisconnect
  BY <1>19, <1>3 DEF TaskDisconnect
<1>20. CASE TaskKeepAlive
  BY <1>20, <1>3 DEF TaskKeepAlive
<1>21. CASE TaskSend
  BY <1>21, <1>2, <1>3 DEF TaskSend
<1>22. CASE TaskIdle
  BY <1>22, <1>3 DEF TaskIdle
<1>23. CASE UNCHANGED vars
  BY <1>23, <1>3 DEF vars
<1> QED
  BY <1>4, <1>5, <1>6, <1>7, <1>8, <1>9, <1>10, <1>11, <1>12, <1>13, <1>14,
     <1>15, <1>16, <1>17, <1>18, <1>19, <1>20, <1>21, <1>22, <1>23 DEF Next, Task

\* The SUBSCRIBE that mqttConnectedCb queues (user_mqtt.c) reaches the link or
\* still waits in the ring of packets, whatever is published, answered, sent or
\* lost meanwhile, unless a packet was forgotten or a send failed.
THEOREM SubscribeKept == Spec => []SubscribeIsKept
<1>1. Init => KeptInv
  BY DEF Init, KeptInv, InSession
<1>2. KeptInv => SubscribeIsKept
  BY DEF KeptInv, Waits, SubscribeIsKept
<1> QED
  BY <1>1, <1>2, DataInit, DataStep, KeptStep, PTL DEF Spec

\* The timer runs only while reports go by MQTT; a second tick to come means
\* that the first announced, or that an earlier session was cut.
AnnouncedInv ==
  /\ armed => is_connect
  /\ status = 1 => cut \/ (armed /\ announced)
  /\ InSession /\ ~ armed => announced \/ cut

LEMMA AnnouncedStep == DataTypes /\ FlagTypes /\ AnnouncedInv /\ [Next]_vars => AnnouncedInv'
<1> SUFFICES ASSUME DataTypes, FlagTypes, AnnouncedInv, [Next]_vars PROVE AnnouncedInv'
  OBVIOUS
<1>1. status = 0 \/ (status = 1 /\ (status + 1) % 2 = 0)
  BY DEF DataTypes
<1> USE DEF AnnouncedInv, InSession, user, history, timers
<1>2. CASE GotIp
  BY <1>2 DEF GotIp, MqttConnect, EspConnect, LookUp
<1>3. CASE DnsFound
  BY <1>3 DEF DnsFound, EspConnect
<1>4. CASE DnsFailed
  BY <1>4 DEF DnsFailed
<1>5. CASE Connected
  BY <1>5 DEF Connected
<1>6. CASE Connack
  BY <1>6 DEF Connack, ExpectsConnack
<1>7. CASE Report
  BY <1>7 DEF Report
<1>8. CASE Receive
  BY <1>8 DEF Receive
<1>9. CASE SentCb
  BY <1>9 DEF SentCb
<1>10. CASE MqttTimer
  BY <1>10, <1>1 DEF MqttTimer, Announces
<1>11. CASE LinkError
  BY <1>11 DEF LinkError, ReconCb, StateAfterLoss
<1>12. CASE WifiDrop
  BY <1>12 DEF WifiDrop, ReconCb, StateAfterLoss
<1>13. CASE PeerClose
  BY <1>13 DEF PeerClose
<1>14. CASE DisconCb
  BY <1>14 DEF DisconCb, StateAfterLoss
<1>15. CASE Tick
  BY <1>15 DEF Tick
<1>16. CASE TaskReconnect
  BY <1>16 DEF TaskReconnect, MqttConnect, EspConnect, LookUp
<1>17. CASE TaskDisconnect
  BY <1>17 DEF TaskDisconnect
<1>18. CASE TaskKeepAlive
  BY <1>18 DEF TaskKeepAlive
<1>19. CASE TaskSend
  BY <1>19 DEF TaskSend
<1>20. CASE TaskIdle
  BY <1>20 DEF TaskIdle
<1>21. CASE UNCHANGED vars
  BY <1>21 DEF vars
<1> QED
  BY <1>2, <1>3, <1>4, <1>5, <1>6, <1>7, <1>8, <1>9, <1>10, <1>11, <1>12,
     <1>13, <1>14, <1>15, <1>16, <1>17, <1>18, <1>19, <1>20, <1>21 DEF Next, Task

\* A session announces the device (user_mqtt.c) by the time its timer has
\* stopped, unless an earlier one was cut between the two ticks.
THEOREM SessionAnnounced == Spec => []SessionAnnounces
<1>1. Init => AnnouncedInv
  BY DEF Init, AnnouncedInv, InSession
<1>2. AnnouncedInv => SessionAnnounces
  BY DEF AnnouncedInv, SessionAnnounces
<1> QED
  BY <1>1, <1>2, DataInit, DataStep, FlagInit, FlagStep, AnnouncedStep, PTL DEF Spec
=============================================================================
