---------------------------- MODULE MCMqttQueue ----------------------------
(* TLC instances of MqttQueue: rings of a few bytes.                        *)
EXTENDS MqttQueue

\* In a ring of six bytes these take 3, 6 and 7: the first fits twice, the second
\* exactly, the last not at all.
SmallPackets == { <<1>>, <<BEGIN, END>>, <<ESC, 2, ESC>> }

\* In a ring of five bytes this one takes 4: the second has no room.
TinyPackets == { <<END>> }
=============================================================================
