---------------------------- MODULE MqttSession ----------------------------
(***************************************************************************)
(* The MQTT client's life with the broker (mqtt.c) and what user_mqtt.c and  *)
(* user_wifi.c do with it: connecting, subscribing, keeping alive,           *)
(* reconnecting, and the flag that sends state reports by MQTT or by UDP.    *)
(*                                                                         *)
(* Every callback, timer and MQTT_Task is one action; the events that        *)
(* system_os_post queues for MQTT_Task are all alike, so they are counted.   *)
(* The queue of packets is MqttQueue seen from outside: a FIFO that forgets  *)
(* the oldest, here counted in packets.                                     *)
(*                                                                         *)
(* External: the station loses its address when the Wi-Fi drops, which       *)
(* aborts its connections (recon_cb), and gets one again only after that;    *)
(* espconn carries one packet at a time; a lookup in flight ends before the  *)
(* next MQTT_Connect.  user_mqtt_disconnect is called by nobody: the states  *)
(* TCP_DISCONNECTING and MQTT_DELETING and their branches are left out, as   *)
(* is the session with TLS (NO_TLS is fixed in user_mqtt_init).              *)
(***************************************************************************)
EXTENDS Integers, Sequences

CONSTANTS
  KeepAlive,         \* MQTT_KEEPALIVE, in ticks
  SendTimeout,       \* MQTT_SEND_TIMOUT, in ticks
  ReconnectTimeout,  \* MQTT_RECONNECT_TIMEOUT, in ticks
  TaskQueue,         \* MQTT_TASK_QUEUE_SIZE
  Room               \* packets that fit the queue

ASSUME TimesAssumption ==
  KeepAlive \in Nat /\ SendTimeout \in Nat \ {0} /\ ReconnectTimeout \in Nat
ASSUME QueuesAssumption == TaskQueue \in Nat \ {0} /\ Room \in Nat \ {0}

States == {"WIFI_INIT", "TCP_CONNECTING", "MQTT_CONNECT_SENDING", "MQTT_DATA",
           "MQTT_KEEPALIVE_SEND", "TCP_RECONNECT_REQ", "TCP_RECONNECT",
           "TCP_RECONNECT_DISCONNECTING"}

Kinds == {"subscribe", "availability", "state"}

\* The broker is configured by address, by name, or by what neither is: the empty
\* name of the factory settings, or one too long to look up.
Brokers == {"address", "name", "unusable"}

VARIABLES
  connState, sendTimeout, keepAliveTick, reconnectTick,
  pendingConnect,  \* pending_msg_type = MQTT_MSG_TYPE_CONNECT
  queue,           \* the packets waiting, oldest first
  posts,           \* events waiting for MQTT_Task
  is_connect,      \* user_mqtt.c: reports go by MQTT
  armed, status,   \* timer_mqtt and its state
  broker,          \* how the broker is configured
  wifi,            \* the station has an address
  tcp,             \* none, dns, syn, up or closing
  unacked,         \* packets the broker has not acknowledged
  \* history, since the link came up
  accepted,        \* CONNACK arrived
  subscribed,      \* SUBSCRIBE was handed to the link
  announced,       \* the "1" of the availability topic was queued
  lost,            \* a packet was forgotten or its send failed
  \* history
  cut,             \* a session ended between the two ticks of timer_mqtt
  refused          \* this time, the call to connect or look up failed at once

timers  == <<sendTimeout, keepAliveTick, reconnectTick>>
user    == <<is_connect, armed, status>>
history == <<accepted, subscribed, announced, lost, cut, refused>>
vars == <<connState, timers, pendingConnect, queue, posts, user, broker,
          wifi, tcp, unacked, history>>

InSession == connState \in {"MQTT_DATA", "MQTT_KEEPALIVE_SEND"}

\* memset in MQTT_InitConnection; MQTT_InitClient posts.
Init ==
  /\ connState = "WIFI_INIT" /\ sendTimeout = 0 /\ keepAliveTick = 0 /\ reconnectTick = 0
  /\ pendingConnect = FALSE /\ queue = <<>> /\ posts = 1
  /\ is_connect = FALSE /\ armed = FALSE /\ status = 0
  /\ broker \in Brokers /\ wifi = FALSE /\ tcp = "none" /\ unacked = 0
  /\ accepted = FALSE /\ subscribed = FALSE /\ announced = FALSE
  /\ lost = FALSE /\ cut = FALSE /\ refused = FALSE

\* system_os_post fails when the task's queue is full; nobody looks.
Posts(n, more) == IF n + more > TaskQueue THEN TaskQueue ELSE n + more
Post(more) == posts' = Posts(posts, more)

\* Mutant: nothing is forgotten.
QueuedAlways(q, kind) == Append(q, kind)

\* MQTT_Publish and MQTT_Subscribe.
Queued(q, kind) == IF Len(q) < Room THEN Append(q, kind) ELSE Append(Tail(q), kind)
Overflows(q) == Len(q) = Room

-----------------------------------------------------------------------------
(* Connecting.                                                             *)

\* espconn_connect, whose result is ignored: without an address, or with all
\* connections taken, nothing is on its way.
EspConnect(address) ==
  \/ address /\ tcp' = "syn" /\ refused' = FALSE
  \/ address /\ tcp' = "none" /\ refused' = TRUE
  \/ ~ address /\ tcp' = "none" /\ refused' = FALSE

\* espconn_gethostbyname, whose result is ignored: for a name it cannot look up,
\* or with its table full, it fails and calls nobody back.
LookUp ==
  \/ broker = "name" /\ tcp' = "dns" /\ refused' = FALSE
  \/ tcp' = "none" /\ refused' = TRUE

\* MQTT_Connect, with the old connection's structures freed.
MqttConnect(address) ==
  /\ keepAliveTick' = 0
  /\ reconnectTick' = 0
  /\ IF broker = "address" THEN EspConnect(address) ELSE LookUp
  /\ connState' = "TCP_CONNECTING"
  /\ unacked' = 0
  /\ UNCHANGED <<sendTimeout, pendingConnect, queue, user, broker,
                 accepted, subscribed, announced, lost, cut>>

\* EVENT_STAMODE_GOT_IP.
GotIp ==
  /\ ~ wifi
  /\ tcp = "none"
  /\ wifi' = TRUE
  /\ MqttConnect(TRUE)
  /\ UNCHANGED posts

\* mqtt_dns_found with an address.  The address 0.0.0.0 is not connected to, and
\* leaves the client as a failed espconn_connect does.
DnsFound ==
  /\ tcp = "dns"
  /\ wifi
  /\ EspConnect(TRUE)
  /\ connState' = "TCP_CONNECTING"
  /\ Post(1)
  /\ UNCHANGED <<timers, pendingConnect, queue, user, broker, wifi, unacked,
                 accepted, subscribed, announced, lost, cut>>

\* mqtt_dns_found without one: nothing is posted.
DnsFailed ==
  /\ tcp = "dns"
  /\ tcp' = "none"
  /\ connState' = "TCP_RECONNECT_REQ"
  /\ UNCHANGED <<timers, pendingConnect, queue, posts, user, broker, wifi, unacked, history>>

\* mqtt_tcpclient_connect_cb sends CONNECT.  Reconnecting takes seconds: a
\* timer_mqtt that the last session left running has made its ticks by now.
Connected ==
  /\ tcp = "syn"
  /\ ~ armed
  /\ tcp' = "up"
  /\ pendingConnect' = TRUE
  /\ sendTimeout' = SendTimeout
  /\ unacked' = 1
  /\ connState' = "MQTT_CONNECT_SENDING"
  /\ Post(1)
  /\ accepted' = FALSE /\ subscribed' = FALSE /\ announced' = FALSE /\ lost' = FALSE
  /\ UNCHANGED <<keepAliveTick, reconnectTick, queue, user, broker, wifi, cut, refused>>

\* Mutant: the session does not subscribe.
Resumed(q) == Queued(q, "state")

\* mqttConnectedCb.
Subscribed(q) == Queued(q, "subscribe")

\* The broker has read CONNECT; its CONNACK also acknowledges it.
ExpectsConnack == tcp = "up" /\ connState = "MQTT_CONNECT_SENDING" /\ unacked = 0

\* mqtt_tcpclient_recv with CONNACK, whatever its return code; mqttConnectedCb.
\* MQTT_Subscribe posts, and so does the callback at its end.
Connack ==
  /\ ExpectsConnack
  /\ keepAliveTick' = 0
  /\ IF pendingConnect
     THEN /\ connState' = "MQTT_DATA"
          /\ is_connect' = TRUE
          /\ queue' = Subscribed(queue)
          /\ lost' = (lost \/ Overflows(queue))
          /\ armed' = TRUE
          /\ accepted' = TRUE
          /\ Post(2)
          /\ UNCHANGED tcp
     ELSE /\ tcp' = "closing"
          /\ Post(1)
          /\ UNCHANGED <<connState, is_connect, queue, lost, armed, accepted>>
  /\ UNCHANGED <<sendTimeout, reconnectTick, pendingConnect, status, broker, wifi,
                 unacked, subscribed, announced, cut, refused>>

-----------------------------------------------------------------------------
(* Traffic.                                                                *)

\* user_json_analysis or a timer reports the state; without a session, by UDP.
Report ==
  /\ is_connect
  /\ queue' = Queued(queue, "state")
  /\ lost' = (lost \/ Overflows(queue))
  /\ Post(1)
  /\ UNCHANGED <<connState, timers, pendingConnect, user, broker, wifi, tcp, unacked,
                 accepted, subscribed, announced, cut, refused>>

\* mqtt_tcpclient_recv with anything but CONNACK: a message is delivered, and
\* answered or not.
Receive ==
  /\ tcp = "up"
  /\ accepted
  /\ keepAliveTick' = 0
  /\ \/ /\ InSession
        /\ queue' = Queued(queue, "state")
        /\ lost' = (lost \/ Overflows(queue))
        /\ Post(2)
     \/ Post(1) /\ UNCHANGED <<queue, lost>>
  /\ UNCHANGED <<connState, sendTimeout, reconnectTick, pendingConnect, user, broker,
                 wifi, tcp, unacked, accepted, subscribed, announced, cut, refused>>

\* Mutant: the sent callback leaves the next packet to the next event.
SentCbQuiet ==
  /\ tcp = "up"
  /\ unacked = 1
  /\ unacked' = 0
  /\ sendTimeout' = 0
  /\ keepAliveTick' = 0
  /\ UNCHANGED <<connState, reconnectTick, pendingConnect, queue, posts, user, broker, wifi,
                 tcp, history>>

\* mqtt_tcpclient_sent_cb.
SentCb ==
  /\ tcp = "up"
  /\ unacked = 1
  /\ unacked' = 0
  /\ sendTimeout' = 0
  /\ keepAliveTick' = 0
  /\ Post(1)
  /\ UNCHANGED <<connState, reconnectTick, pendingConnect, queue, user, broker, wifi,
                 tcp, history>>

\* Mutant: the announcement comes at the second tick, which stops the timer.
AnnouncesSecond == status = 1

Announces == status = 0

\* user_mqtt_timer_func, 80 ms apart: announces the device, then stops.
MqttTimer ==
  /\ armed
  /\ status' = (status + 1) % 2
  /\ IF Announces
     THEN /\ IF is_connect
             THEN /\ queue' = Queued(queue, "availability")
                  /\ lost' = (lost \/ Overflows(queue))
                  /\ Post(1)
                  /\ announced' = TRUE
                  /\ cut' = FALSE
             ELSE UNCHANGED <<queue, lost, posts, announced, cut>>
          /\ UNCHANGED armed
     ELSE /\ armed' = FALSE
          /\ UNCHANGED <<queue, lost, posts, announced, cut>>
  /\ UNCHANGED <<connState, timers, pendingConnect, is_connect, broker, wifi, tcp, unacked,
                 accepted, subscribed, refused>>

-----------------------------------------------------------------------------
(* Losing the connection.                                                  *)

\* Mutant: the client does not notice.
StateBefore == connState

StateAfterLoss == "TCP_RECONNECT_REQ"

\* mqtt_tcpclient_recon_cb: the link was refused, reset, aborted or timed out.
\* mqttDisconnectedCb is not called.
ReconCb ==
  /\ tcp \in {"syn", "up"}
  /\ tcp' = "none"
  /\ unacked' = 0
  /\ connState' = StateAfterLoss
  /\ Post(1)
  /\ UNCHANGED <<timers, pendingConnect, queue, user, broker, history>>

LinkError == ReconCb /\ UNCHANGED wifi

\* The Wi-Fi drops.
WifiDrop ==
  /\ wifi
  /\ wifi' = FALSE
  /\ \/ ReconCb
     \/ /\ tcp \notin {"syn", "up"}
        /\ UNCHANGED <<connState, timers, pendingConnect, queue, posts, user, broker, tcp,
                       unacked, history>>

\* The broker closes; espconn closes too and reports it later.
PeerClose ==
  /\ tcp = "up"
  /\ tcp' = "closing"
  /\ UNCHANGED <<connState, timers, pendingConnect, queue, posts, user, broker, wifi,
                 unacked, history>>

\* mqtt_tcpclient_discon_cb and mqttDisconnectedCb; status stays as it is.
DisconCb ==
  /\ tcp = "closing"
  /\ tcp' = "none"
  /\ unacked' = 0
  /\ connState' = StateAfterLoss
  /\ is_connect' = FALSE
  /\ armed' = FALSE
  /\ cut' = (cut \/ status = 1)
  /\ Post(1)
  /\ UNCHANGED <<timers, pendingConnect, queue, status, broker, wifi, accepted, subscribed,
                 announced, lost, refused>>

-----------------------------------------------------------------------------
(* mqtt_timer, every second once MQTT_Connect armed it, and MQTT_Task.      *)

\* Mutant: the timer leaves the new state to the next event.
PostLater == UNCHANGED posts

TickPost == Post(1)

Tick ==
  /\ connState # "WIFI_INIT"
  /\ sendTimeout' = IF sendTimeout > 0 THEN sendTimeout - 1 ELSE 0
  /\ \/ /\ connState = "MQTT_DATA"
        /\ keepAliveTick' = keepAliveTick + 1
        /\ IF keepAliveTick + 1 > KeepAlive
           THEN connState' = "MQTT_KEEPALIVE_SEND" /\ TickPost
           ELSE UNCHANGED <<connState, posts>>
        /\ UNCHANGED reconnectTick
     \/ /\ connState = "TCP_RECONNECT_REQ"
        /\ IF reconnectTick + 1 > ReconnectTimeout
           THEN reconnectTick' = 0 /\ connState' = "TCP_RECONNECT" /\ TickPost
           ELSE reconnectTick' = reconnectTick + 1 /\ UNCHANGED <<connState, posts>>
        /\ UNCHANGED keepAliveTick
     \/ /\ connState \notin {"MQTT_DATA", "TCP_RECONNECT_REQ"}
        /\ UNCHANGED <<connState, keepAliveTick, reconnectTick, posts>>
  /\ UNCHANGED <<pendingConnect, queue, user, broker, wifi, tcp, unacked, history>>

\* espconn_send fails while a packet is in flight or the link closes; it may
\* fail for lack of memory, too.
CanSend == tcp = "up" /\ unacked = 0

TakeEvent == posts > 0 /\ posts' = posts - 1

TaskReconnect ==
  /\ connState = "TCP_RECONNECT"
  /\ MqttConnect(wifi)
  /\ TakeEvent
  /\ UNCHANGED wifi

\* espconn_disconnect.
TaskDisconnect ==
  /\ connState = "TCP_RECONNECT_DISCONNECTING"
  /\ tcp' = IF tcp = "up" THEN "closing" ELSE tcp
  /\ TakeEvent
  /\ UNCHANGED <<connState, timers, pendingConnect, queue, user, broker, wifi, unacked, history>>

\* Mutant: the result of the send is ignored, as it is for other packets.
KeptAliveAnyway(sent) == TRUE

KeptAlive(sent) == sent

\* mqtt_send_keepalive takes the event and posts another.
TaskKeepAlive ==
  /\ connState = "MQTT_KEEPALIVE_SEND"
  /\ posts > 0
  /\ pendingConnect' = FALSE
  /\ sendTimeout' = SendTimeout
  /\ \E sent \in {FALSE, CanSend} :
       /\ unacked' = IF sent THEN 1 ELSE unacked
       /\ IF KeptAlive(sent)
          THEN keepAliveTick' = 0 /\ connState' = "MQTT_DATA"
          ELSE connState' = "TCP_RECONNECT_DISCONNECTING" /\ UNCHANGED keepAliveTick
  /\ UNCHANGED <<reconnectTick, queue, posts, user, broker, wifi, tcp, history>>

\* The packet is gone whether espconn_send took it or not.
TaskSend ==
  /\ connState = "MQTT_DATA"
  /\ queue # <<>>
  /\ sendTimeout = 0
  /\ queue' = Tail(queue)
  /\ sendTimeout' = SendTimeout
  /\ pendingConnect' = FALSE
  /\ \E sent \in {FALSE, CanSend} :
       /\ unacked' = IF sent THEN 1 ELSE unacked
       /\ subscribed' = (subscribed \/ (sent /\ Head(queue) = "subscribe"))
       /\ lost' = (lost \/ ~ sent)
  /\ TakeEvent
  /\ UNCHANGED <<connState, keepAliveTick, reconnectTick, user, broker, wifi, tcp,
                 accepted, announced, cut, refused>>

\* Nothing to do in this state.
TaskIdle ==
  /\ \/ connState \in {"WIFI_INIT", "TCP_CONNECTING", "MQTT_CONNECT_SENDING", "TCP_RECONNECT_REQ"}
     \/ connState = "MQTT_DATA" /\ (queue = <<>> \/ sendTimeout # 0)
  /\ TakeEvent
  /\ UNCHANGED <<connState, timers, pendingConnect, queue, user, broker, wifi, tcp,
                 unacked, history>>

Task == TaskReconnect \/ TaskDisconnect \/ TaskKeepAlive \/ TaskSend \/ TaskIdle

Next ==
  \/ GotIp \/ DnsFound \/ DnsFailed \/ Connected \/ Connack
  \/ Report \/ Receive \/ SentCb \/ MqttTimer
  \/ LinkError \/ WifiDrop \/ PeerClose \/ DisconCb
  \/ Tick \/ Task

\* The timer ticks, the task runs, and a close is reported; the event loop runs
\* the task long before the next second, so not always too late to send.
\* Nothing is assumed of the network, not even that it acknowledges a packet.
Fairness == WF_vars(Tick) /\ WF_vars(Task) /\ SF_vars(TaskSend) /\ WF_vars(DisconCb)

Spec == Init /\ [][Next]_vars /\ Fairness

-----------------------------------------------------------------------------
(* Properties.                                                             *)

TypeOK ==
  /\ connState \in States
  /\ sendTimeout \in 0 .. SendTimeout
  /\ keepAliveTick \in 0 .. KeepAlive + 1
  /\ reconnectTick \in 0 .. ReconnectTimeout
  /\ queue \in Seq(Kinds) /\ Len(queue) <= Room
  /\ posts \in 0 .. TaskQueue
  /\ tcp \in {"none", "dns", "syn", "up", "closing"}
  /\ unacked \in 0 .. 1
  /\ status \in 0 .. 1
  /\ pendingConnect \in BOOLEAN /\ is_connect \in BOOLEAN /\ armed \in BOOLEAN
  /\ broker \in Brokers /\ wifi \in BOOLEAN
  /\ accepted \in BOOLEAN /\ subscribed \in BOOLEAN /\ announced \in BOOLEAN
  /\ lost \in BOOLEAN /\ cut \in BOOLEAN /\ refused \in BOOLEAN

\* No state waits for nothing.  One that only MQTT_Task leaves has an event for
\* it, although posting fails when the queue is full and several states share the
\* events.  A client that says it is connecting has something on its way, while
\* there is an address - unless the last call to connect or to look the broker up
\* failed at once: nobody looks at its result, and nothing tries again.
WorkIsPosted ==
  /\ connState \in {"TCP_RECONNECT", "MQTT_KEEPALIVE_SEND"} => posts > 0
  /\ connState = "TCP_RECONNECT_DISCONNECTING" => posts > 0 \/ tcp = "closing"
  /\ connState = "TCP_CONNECTING" /\ wifi => tcp \in {"dns", "syn"} \/ refused

\* A session is one the broker accepted on the link that is there, and its
\* reports go by MQTT; CONNACK finds the pending CONNECT.
SessionIsAccepted ==
  /\ InSession => accepted /\ is_connect /\ tcp \in {"up", "closing"}
  /\ connState = "MQTT_CONNECT_SENDING" => pendingConnect /\ tcp \in {"up", "closing"}

\* The subscription of a session is sent, or waits, unless the queue overflowed
\* or a send failed: MQTT_Task does not look at the result of espconn_send.
SubscribeIsKept ==
  InSession => subscribed \/ lost \/ \E i \in DOMAIN queue : queue[i] = "subscribe"

\* A session announces the device, unless one before it was cut between the
\* ticks of timer_mqtt: status is not reset, so the next one stops too early.
SessionAnnounces == InSession /\ ~ armed => announced \/ cut

\* A lost session leads to another attempt.
Reconnects ==
  connState \in {"TCP_RECONNECT_REQ", "TCP_RECONNECT", "TCP_RECONNECT_DISCONNECTING"}
    ~> connState = "TCP_CONNECTING"

\* A session with packets waiting goes on sending them, even after sends that
\* failed and left no sent callback to wait for; unless every acknowledgement
\* takes KeepAlive seconds and falls between the tick and the ping it asks for.
LateAck == unacked = 1 /\ unacked' = 0 /\ tcp' = "up" /\ connState = "MQTT_KEEPALIVE_SEND"

QueueDrains ==
  <>[](InSession /\ queue # <<>>) => []<><<TaskSend>>_vars \/ []<><<LateAck>>_vars

\* A broker that neither acknowledges nor says anything is noticed.
SilenceIsNoticed == <>[](InSession /\ unacked = 1) => []<><<Receive>>_vars

\* README: UDP is used when there is no server.
UdpWithoutServer ==
  is_connect => InSession \/ connState = "TCP_RECONNECT_DISCONNECTING"
=============================================================================
