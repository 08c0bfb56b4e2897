----------------------------- MODULE MqttCodec -----------------------------
(***************************************************************************)
(* Encoding and decoding MQTT packets: mqtt_msg.c.  A packet, a topic and a     *)
(* payload are sequences of bytes; b[i + 1] is buffer[i] of the code.           *)
(* BufferLength is buffer_length; IdMod is 2^16, the width of a message id.    *)
(***************************************************************************)
EXTENDS Integers, Sequences, SequencesExt, FiniteSetsExt

CONSTANTS BufferLength, IdMod

\* A header has at most two bytes of length.
ASSUME CodecAssumption ==
  /\ BufferLength \in Nat /\ BufferLength < 3 + 128 * 128
  /\ IdMod \in Nat /\ IdMod > 1 /\ IdMod <= 65536

VARIABLES
  message_id,  \* connection->message_id
  call         \* history: the last call and the packet it made

codecVars == <<message_id, call>>

CONNECT == 1
PUBLISH == 3
PUBACK == 4
PUBREC == 5
PUBREL == 6
PUBCOMP == 7
SUBSCRIBE == 8
SUBACK == 9
UNSUBSCRIBE == 10
UNSUBACK == 11
PINGREQ == 12
PINGRESP == 13
DISCONNECT == 14

NULL == <<>>

-----------------------------------------------------------------------------
(* Encoding *)

Two(n) == <<n \div 256, n % 256>>

\* append_string, and a message under construction: what follows the three
\* bytes init_message leaves for the header.
Field(s) == Two(Len(s)) \o s
Fits(body) == 3 + Len(body) <= BufferLength

\* fail_message
Fail == <<>>

\* fini_message: one byte of length up to 127, two above.  The mutant changes
\* over one too late.
HeaderLate(first, n) ==
  IF n > 128 THEN <<first, 128 + (n % 128), n \div 128>> ELSE <<first, n>>
Header(first, n) ==
  IF n > 127 THEN <<first, 128 + (n % 128), n \div 128>> ELSE <<first, n>>

Finish(body, type, qos, retain) ==
  IF Fits(body) THEN Header(16 * type + 2 * qos + retain, Len(body)) \o body
  ELSE Fail

\* append_message_id(0) takes the next id, and zero never.
Following(id) == IF (id + 1) % IdMod = 0 THEN 1 ELSE (id + 1) % IdMod
NextId == Following(message_id)

\* The message id a publish or a subscribe uses up, failing or not.
IdAfter(used) == IF used THEN NextId ELSE message_id

mqtt_msg_publish(topic, data, qos, retain) ==
  IF topic = <<>> THEN Fail
  ELSE Finish(Field(topic) \o (IF qos > 0 THEN Two(NextId) ELSE <<>>) \o data,
              PUBLISH, qos, retain)
PublishUsesId(topic, qos) == topic # <<>> /\ Fits(Field(topic)) /\ qos > 0

\* mqtt_msg_subscribe, and mqtt_msg_unsubscribe without the byte of the qos.
mqtt_msg_subscribe(type, topic, qos) ==
  IF topic = <<>> THEN Fail
  ELSE Finish(Two(NextId) \o Field(topic)
              \o (IF type = SUBSCRIBE THEN <<qos>> ELSE <<>>), type, 1, 0)

\* mqtt_msg_puback, _pubrec, _pubrel and _pubcomp: an id of zero is replaced.
mqtt_msg_answer(type, id) ==
  Finish(Two(IF id = 0 THEN NextId ELSE id), type,
         IF type = PUBREL THEN 1 ELSE 0, 0)

\* mqtt_msg_pingreq, _pingresp and _disconnect.
mqtt_msg_bare(type) == Finish(<<>>, type, 0, 0)

\* mqtt_msg_connect: flags say which strings follow.  An empty string is as
\* good as none; without a client_id it fails.
Given(s) == s # <<>>
Flags(info) ==
  (IF info.clean_session THEN 2 ELSE 0)
  + (IF Given(info.will_topic)
     THEN 4 + 8 * info.will_qos + (IF info.will_retain THEN 32 ELSE 0) ELSE 0)
  + (IF Given(info.username) THEN 128 ELSE 0)
  + (IF Given(info.password) THEN 64 ELSE 0)

mqtt_msg_connect(info) ==
  LET Optional(s) == IF Given(s) THEN Field(s) ELSE <<>>
      will == IF Given(info.will_topic)
              THEN Field(info.will_topic) \o Field(info.will_message) ELSE <<>>
  IN IF ~ Given(info.client_id) THEN Fail
     ELSE Finish(Field(<<77, 81, 84, 84>>) \o <<4, Flags(info)>>
                 \o Two(info.keepalive) \o Field(info.client_id) \o will
                 \o Optional(info.username) \o Optional(info.password),
                 CONNECT, 0, 0)

-----------------------------------------------------------------------------
(* Decoding *)

mqtt_get_type(b) == b[1] \div 16
mqtt_get_qos(b) == (b[1] \div 2) % 4
mqtt_get_retain(b) == b[1] % 2

\* Where the length field ends, and what it says.
LengthEnd(b, length) ==
  LET last == {i \in 1 .. length - 1 : b[i + 1] < 128}
  IN IF last = {} THEN length ELSE Min(last) + 1
mqtt_get_total_length(b, length) ==
  LET end == LengthEnd(b, length)
      said[i \in 2 .. end + 1] ==   \* by the bytes from i on
        IF i > end THEN 0 ELSE (b[i] % 128) + 128 * said[i + 1]
  IN end + said[2]

Slice(b, i, n) == SubSeq(b, i + 1, i + n)
TwoAt(b, i) == b[i + 1] * 256 + b[i + 2]

\* Whether the topic is inside the packet; if not, its address is NULL.
TopicFound(b, length) ==
  LET i == LengthEnd(b, length)
  IN i + 2 < length /\ i + 2 + TwoAt(b, i) <= length
mqtt_get_publish_topic(b, length) ==
  LET i == LengthEnd(b, length)
  IN IF TopicFound(b, length) THEN Slice(b, i + 2, TwoAt(b, i)) ELSE NULL

\* Where the payload starts; -1 if the packet ends before.
DataAt(b, length) ==
  LET i == LengthEnd(b, length)
      j == i + 2 + TwoAt(b, i)
  IN CASE i + 2 >= length -> -1
       [] i + 2 < length /\ j >= length -> -1
       [] i + 2 < length /\ j < length ->
            IF mqtt_get_qos(b) = 0 THEN j
            ELSE IF j + 2 >= length THEN -1 ELSE j + 2

\* The payload ends where the packet ends, although more may follow.  The
\* mutant takes all there is.
DataEndOfBuffer(b, length) == length
DataEnd(b, length) == Min({mqtt_get_total_length(b, length), length})

mqtt_get_publish_data(b, length) ==
  LET at == DataAt(b, length) IN
  IF at = -1 THEN NULL
  ELSE IF mqtt_get_total_length(b, length) < at THEN NULL
  ELSE Slice(b, at, DataEnd(b, length) - at)

mqtt_get_id(b, length) ==
  LET type == mqtt_get_type(b)
      i == LengthEnd(b, length)
      j == i + 2 + TwoAt(b, i)
  IN CASE type = PUBLISH ->
            IF i + 2 >= length THEN 0
            ELSE IF mqtt_get_qos(b) = 0 \/ j + 2 >= length THEN 0
            ELSE TwoAt(b, j)
       [] type \in {PUBACK, PUBREC, PUBREL, PUBCOMP, SUBACK, UNSUBACK,
                    SUBSCRIBE} ->
            IF length >= 4 /\ b[2] < 128 THEN TwoAt(b, 2) ELSE 0
       [] OTHER -> 0
=============================================================================
