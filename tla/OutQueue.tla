------------------------------ MODULE OutQueue ------------------------------
(***************************************************************************)
(* What the MQTT client's queue of outgoing packets promises its callers:   *)
(* a bounded FIFO that makes room by forgetting the oldest packets.         *)
(* MqttQueue, the ring of framed bytes, implements it.                      *)
(***************************************************************************)
EXTENDS Integers, Sequences

CONSTANTS
  Packets,      \* the packets a client may queue
  Room,         \* bytes in the queue
  Cost(_)       \* bytes a packet takes

VARIABLES
  queue,        \* the packets waiting, oldest first
  wanted,       \* the packet being queued, or <<>>
  given,        \* the last packet handed to MQTT_Task
  litter        \* do the remains of a refused packet take up room?

vars == <<queue, wanted, given, litter>>

NoPacket == <<>>

\* The room the packets of q take together.
Taken(q) ==
  LET taken[i \in 0 .. Len(q)] == IF i = 0 THEN 0 ELSE taken[i - 1] + Cost(q[i])
  IN taken[Len(q)]

Fits(q, m) == Taken(q) + Cost(m) <= Room

Init == queue = <<>> /\ wanted = NoPacket /\ given = NoPacket /\ litter = FALSE

Want(m) ==
  /\ wanted = NoPacket
  /\ wanted' = m
  /\ UNCHANGED <<queue, given, litter>>

Accept ==
  /\ wanted # NoPacket
  /\ queue' = Append(queue, wanted)
  /\ wanted' = NoPacket
  /\ UNCHANGED <<given, litter>>

\* What was written of a packet that did not fit stays behind.
Spill ==
  /\ wanted # NoPacket
  /\ ~ Fits(queue, wanted) \/ litter
  /\ litter' = TRUE
  /\ UNCHANGED <<queue, wanted, given>>

\* The oldest packet is forgotten only if the wanted one does not fit, or if
\* litter takes its room.
Forget ==
  /\ wanted # NoPacket
  /\ queue # <<>>
  /\ ~ Fits(queue, wanted) \/ litter
  /\ queue' = Tail(queue)
  /\ litter' \in {litter, FALSE}
  /\ UNCHANGED <<wanted, given>>

\* A packet is refused only for lack of room, too.
Refuse ==
  /\ wanted # NoPacket
  /\ ~ Fits(queue, wanted) \/ litter
  /\ wanted' = NoPacket
  /\ litter' \in BOOLEAN
  /\ UNCHANGED <<queue, given>>

Give ==
  /\ wanted = NoPacket
  /\ queue # <<>>
  /\ given' = Head(queue)
  /\ queue' = Tail(queue)
  /\ litter' \in {litter, FALSE}
  /\ UNCHANGED wanted

\* Litter is swept only by reading past it.
Sweep ==
  /\ queue = <<>>
  /\ litter' = FALSE
  /\ UNCHANGED <<queue, wanted, given>>

Next == (\E m \in Packets : Want(m)) \/ Accept \/ Spill \/ Forget \/ Refuse \/ Give \/ Sweep

Spec == Init /\ [][Next]_vars
=============================================================================
