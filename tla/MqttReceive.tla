---------------------------- MODULE MqttReceive ----------------------------
(***************************************************************************)
(* What the broker sends and the client encodes, on top of MqttCodec: the      *)
(* calls of the mqtt_msg functions, and mqtt_tcpclient_recv in MQTT_DATA, which *)
(* gets the broker's packets as TCP cuts them.                               *)
(***************************************************************************)
EXTENDS MqttCodec

CONSTANTS
  Packets,      \* what the broker sends, encoded
  MaxPackets,   \* bound on the packets of one segment
  Topics,       \* topics, payloads and strings of a CONNECT that the client
  Payloads,     \* encodes: sequences of bytes
  Strings,
  InBuffer      \* MQTT_BUF_SIZE, 1024

\* Where a PUBLISH has its id, and the id of a packet.
IdAt(p) == LET e == LengthEnd(p, Len(p)) IN e + 2 + TwoAt(p, e)
IdOf(p) == IF mqtt_get_type(p) = PUBLISH THEN TwoAt(p, IdAt(p)) ELSE TwoAt(p, 2)

\* What MQTT asks of a packet: its length is the one it says, and it has the
\* topic, which is not empty, and the id, which is not zero, of its type.
IsPacketOfMqtt(p) ==
  /\ p \in Seq(0 .. 255)
  /\ \E i \in 1 .. Len(p) - 1 : p[i + 1] < 128
  /\ mqtt_get_total_length(p, Len(p)) = Len(p)
  /\ mqtt_get_type(p) = PUBLISH =>
       /\ LengthEnd(p, Len(p)) + 2 <= Len(p)
       /\ TwoAt(p, LengthEnd(p, Len(p))) >= 1
       /\ IF mqtt_get_qos(p) = 0 THEN IdAt(p) <= Len(p)
          ELSE IdAt(p) + 2 <= Len(p) /\ IdOf(p) # 0
  /\ mqtt_get_type(p) \in {PUBREC, PUBREL} =>
       Len(p) >= 4 /\ p[2] < 128 /\ IdOf(p) # 0

ASSUME ReceiveAssumption ==
  /\ MaxPackets \in Nat /\ InBuffer \in Nat
  /\ Topics \cup Payloads \cup Strings \subseteq Seq(0 .. 255)
  /\ \A p \in Packets : IsPacketOfMqtt(p)

VARIABLES
  cutOff,     \* the end of the last packet, which comes with the next segment
  segment     \* history: the last segment: what was cut off before it, its
              \* packets, what it delivered and how it was answered

recvVars == <<message_id, call, cutOff, segment>>

NothingRead == [got |-> <<>>, answers |-> <<>>, drawn |-> FALSE]
NoCall == [name |-> "none", topic |-> <<>>, data |-> <<>>, qos |-> 0,
           id |-> 0, packet |-> Fail]
NoSegment == [before |-> <<>>, packets |-> <<>>, kept |-> 0,
              read |-> NothingRead]

-----------------------------------------------------------------------------
(* Encoding, one call after another *)

Letters(n, c) == [i \in 1 .. n |-> c]

Publishes ==
  \E topic \in Topics, data \in Payloads, qos \in 0 .. 2, retain \in 0 .. 1 :
    /\ call' = [name |-> "publish", topic |-> topic, data |-> data,
                qos |-> qos, id |-> NextId,
                packet |-> mqtt_msg_publish(topic, data, qos, retain)]
    /\ message_id' = IdAfter(PublishUsesId(topic, qos))

\* MQTT_Subscribe and MQTT_UnSubscribe: the packet they queue (how: Puts of
\* MqttQueue, and Subscribed of MqttSession).
Subscribes ==
  \E topic \in Topics, type \in {SUBSCRIBE, UNSUBSCRIBE} :
    /\ call' = [name |-> "subscribe", topic |-> topic, data |-> <<>>,
                qos |-> 1, id |-> NextId,
                packet |-> mqtt_msg_subscribe(type, topic, 0)]
    /\ message_id' = IdAfter(topic # <<>>)

Infos == [client_id : Strings, username : Strings, password : Strings,
          clean_session : BOOLEAN, keepalive : {120, 300}]
Wills == [will_topic : Strings, will_message : Strings, will_qos : 0 .. 2,
          will_retain : BOOLEAN]

\* The connect_info a client starts with, and the will it is given.
MQTT_InitLWT(info, will) ==
  [x \in DOMAIN info \cup DOMAIN will |->
     IF x \in DOMAIN will THEN will[x] ELSE info[x]]

Connects ==
  \E given \in Infos, will \in Wills :
    LET info == MQTT_InitLWT(given, will) IN
    /\ call' = [name |-> "connect", info |-> info, topic |-> <<>>,
                data |-> <<>>, qos |-> 0, id |-> 0,
                packet |-> mqtt_msg_connect(info)]
    /\ UNCHANGED message_id

\* Sending and receiving share message_id only, which starts anywhere: they
\* are explored apart.  What was done last is forgotten before the next.
Client ==
  /\ segment = NoSegment /\ call = NoCall /\ cutOff = <<>>
  /\ Publishes \/ Subscribes \/ Connects
  /\ UNCHANGED <<cutOff, segment>>

Forgotten ==
  /\ call # NoCall \/ segment # NoSegment
  /\ call' = NoCall /\ segment' = NoSegment
  /\ UNCHANGED <<message_id, cutOff>>

-----------------------------------------------------------------------------
(* mqtt_tcpclient_recv *)

\* The answer to a packet, as it is handed to QUEUE_Puts, whose failure is only
\* logged: what becomes of it is the matter of MqttQueue.  An id of zero, of a
\* packet that is cut off, is replaced by the next of the client.
Answer(b, id) ==
  LET type == mqtt_get_type(b) IN
  CASE type = PUBLISH /\ mqtt_get_qos(b) = 1 -> <<mqtt_msg_answer(PUBACK, id)>>
    [] type = PUBLISH /\ mqtt_get_qos(b) = 2 -> <<mqtt_msg_answer(PUBREC, id)>>
    [] type = PUBREC -> <<mqtt_msg_answer(PUBREL, id)>>
    [] type = PUBREL -> <<mqtt_msg_answer(PUBCOMP, id)>>
    [] type = PINGREQ -> <<mqtt_msg_bare(PINGRESP)>>
    [] OTHER -> <<>>

NeedsId(b) == \/ mqtt_get_type(b) = PUBLISH /\ mqtt_get_qos(b) \in 1 .. 2
              \/ mqtt_get_type(b) \in {PUBREC, PUBREL}

\* What user_json_analysis gets: copies, so that nothing behind the data is
\* read.  Of a topic that is not found the length is not set to 0 as that of
\* the data is: the copy is of the bytes at address 0, as many as the segment.
mqttDataCb(topic, data, found) ==
  [topic |-> topic, data |-> data, wild |-> ~ found]

\* deliver_publish
Deliver(b, length) ==
  IF mqtt_get_type(b) # PUBLISH THEN <<>>
  ELSE << mqttDataCb(mqtt_get_publish_topic(b, length),
                     mqtt_get_publish_data(b, length), TopicFound(b, length)) >>

\* Another turn of READPACKET.
Again(b, length) ==
  mqtt_get_type(b) = PUBLISH /\ mqtt_get_total_length(b, length) < length

\* A turn of READPACKET for the bytes b, and the turns behind it.  fill is what
\* earlier segments left in in_buffer: mqtt_get_id is given the length of the
\* buffer and not of the segment.
Turn(b, fill, rest) ==
  LET id == mqtt_get_id(b \o Letters(InBuffer - Len(b), fill), InBuffer)
  IN [got |-> Deliver(b, Len(b)) \o rest.got,
      answers |-> Answer(b, id) \o rest.answers,
      drawn |-> rest.drawn \/ (id = 0 /\ NeedsId(b))]

\* READPACKET for the bytes of a segment: what it delivers and answers.
Read(bytes, fill) ==
  LET read[n \in 0 .. Len(bytes)] ==   \* from the byte n on
        LET b == SubSeq(bytes, n + 1, Len(bytes)) IN
        IF Len(b) = 0 \/ Len(b) >= InBuffer THEN NothingRead
        ELSE Turn(b, fill, IF Again(b, Len(b))
                           THEN read[n + mqtt_get_total_length(b, Len(b))]
                           ELSE NothingRead)
  IN read[0]

\* TCP (external): the packets arrive in order, several in a segment, and the
\* last in two.
mqtt_tcpclient_recv ==
  \E packets \in SeqOf(Packets, MaxPackets) :
    \E kept \in 0 .. (IF packets = <<>> THEN 0 ELSE Len(Last(packets)) - 1),
       fill \in {49} :
      LET all == cutOff \o FlattenSeq(packets)
          bytes == SubSeq(all, 1, Len(all) - kept)
      IN /\ bytes # <<>>
         /\ cutOff' = SubSeq(all, Len(all) - kept + 1, Len(all))
         /\ segment' = [before |-> cutOff, packets |-> packets, kept |-> kept,
                        read |-> Read(bytes, fill)]

Receives ==
  /\ segment = NoSegment /\ call = NoCall
  /\ mqtt_tcpclient_recv
  /\ message_id' = IF segment'.read.drawn THEN NextId ELSE message_id
  /\ UNCHANGED call

ReceiveInit ==
  /\ message_id \in 0 .. IdMod - 1
  /\ call = NoCall
  /\ cutOff = <<>>
  /\ segment = NoSegment

ReceiveNext == Client \/ Forgotten \/ Receives

ReceiveSpec == ReceiveInit /\ [][ReceiveNext]_recvVars

-----------------------------------------------------------------------------

ReceiveTypeOK ==
  /\ message_id \in 0 .. IdMod - 1
  /\ Len(call.packet) <= BufferLength
  /\ \E p \in Packets : Len(cutOff) < Len(p)

\* What the client publishes or subscribes to is what the broker reads from
\* the packet, on both sides of the lengths at which the header grows; a call
\* fails only if the packet does not fit the buffer or names no topic; an id
\* is never zero, also after the ids have wrapped.
PublishIsDecoded ==
  LET p == call.packet
      size == 3 + 2 + Len(call.topic) + Len(call.data)
              + (IF call.qos > 0 THEN 2 ELSE 0)
  IN call.name = "publish" =>
       IF call.topic = <<>> \/ size > BufferLength THEN p = Fail
       ELSE /\ mqtt_get_total_length(p, Len(p)) = Len(p)
            /\ mqtt_get_type(p) = PUBLISH /\ mqtt_get_qos(p) = call.qos
            /\ mqtt_get_publish_topic(p, Len(p)) = call.topic
            /\ mqtt_get_publish_data(p, Len(p)) = call.data
            /\ call.qos > 0 /\ call.data # <<>> =>
                 mqtt_get_id(p, Len(p)) = call.id /\ call.id # 0

\* A CONNECT as it is read: the strings its flags announce, of client_id,
\* will_topic, will_message, username and password, and where each ends if the
\* first starts at byte 10 behind the header.
FlagOf == <<0, 4, 4, 128, 64>>
Announced(flags) == {1} \cup {n \in 2 .. 5 : (flags \div FlagOf[n]) % 2 = 1}
Ends(p, start, said) ==
  LET at[n \in 0 .. 5] == IF n = 0 THEN start
                          ELSE IF n \notin said THEN at[n - 1]
                          ELSE at[n - 1] + 2 + TwoAt(p, at[n - 1])
  IN at

\* The strings the flags of a CONNECT announce are the strings that follow:
\* read one after another they end where the packet ends, and each is the one
\* given; a CONNECT that does not fit or has no client_id is not made.
FlagsTellStrings ==
  call.name = "connect" =>
    LET p == call.packet
        info == call.info
        optional(s) == IF s = <<>> THEN 0 ELSE 2 + Len(s)
        size == 3 + 10 + 2 + Len(info.client_id)
                + (IF info.will_topic = <<>> THEN 0
                   ELSE 4 + Len(info.will_topic) + Len(info.will_message))
                + optional(info.username) + optional(info.password)
        given == <<info.client_id, info.will_topic, info.will_message,
                   info.username, info.password>>
        header == LengthEnd(p, Len(p))
        said == Announced(p[header + 8])
        at == Ends(p, header + 10, said)
    IN IF info.client_id = <<>> \/ size > BufferLength THEN p = Fail
       ELSE /\ at[5] = Len(p) /\ mqtt_get_total_length(p, Len(p)) = Len(p)
            /\ \A n \in said :
                 Slice(p, at[n - 1] + 2, TwoAt(p, at[n - 1])) = given[n]

\* Both: no packet leaves the client that the broker reads differently.
EncodedIsDecoded == PublishIsDecoded /\ FlagsTellStrings

\* The publishes at the head of a segment: those before a packet of another
\* type, behind which the loop does not look (mqtt.c:351).
LeadingCount(packets) ==
  Max({n \in 0 .. Len(packets) :
         \A i \in 1 .. n : mqtt_get_type(packets[i]) = PUBLISH})

\* Of a segment that starts and ends with a packet, every leading publish is
\* delivered, once, in order, with its own topic and payload, and to each of
\* them, and to the packet that ends them, the answer with its own id is handed
\* to the queue, in order; none is taken for another, nothing is read at
\* address 0, and no id of the client is used up.
CommandsAreDelivered ==
  LET s == segment
      n == LeadingCount(s.packets)
      own == [i \in 1 .. n |->
                [topic |-> mqtt_get_publish_topic(s.packets[i], Len(s.packets[i])),
                 data |-> mqtt_get_publish_data(s.packets[i], Len(s.packets[i])),
                 wild |-> FALSE]]
      owed == [i \in 1 .. Min({n + 1, Len(s.packets)}) |->
                 Answer(s.packets[i], IdOf(s.packets[i]))]
  IN (s.before = <<>> /\ s.kept = 0 /\ Len(FlattenSeq(s.packets)) < InBuffer) =>
       /\ s.read.got = own
       /\ s.read.answers = FlattenSeq(owed)
       /\ ~ s.read.drawn
=============================================================================
