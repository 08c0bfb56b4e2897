------------------------------ MODULE ByteQueue ------------------------------
(***************************************************************************)
(* What ringbuf.c promises to proto.c: a bounded FIFO of bytes.  It holds as  *)
(* long as nobody strikes inside an operation; afterwards nothing is known.  *)
(* MqttQueue implements it.                                                 *)
(***************************************************************************)
EXTENDS Integers, Sequences

CONSTANTS
  Users,      \* the contexts that use the queue
  Byte,
  Room        \* bytes it holds

VARIABLES
  bytes,      \* the bytes waiting, oldest first
  hand,       \* hand[u]: the byte u is putting, or has got; or Empty
  broken

vars == <<bytes, hand, broken>>

Empty == <<>>
Putting(b) == <<"put", b>>
Got(b) == <<"got", b>>

Init ==
  /\ bytes = <<>> /\ broken = FALSE
  /\ hand = [u \in Users |-> Empty]

\* A byte is accepted as long as there is room.
Put(u) ==
  /\ Len(bytes) < Room
  /\ \E b \in Byte : hand[u] = Putting(b) /\ bytes' = Append(bytes, b)
  /\ hand' = [hand EXCEPT ![u] = Empty]

\* The oldest byte is handed out, and once.
Get(u) ==
  /\ hand[u] = Empty /\ bytes # <<>>
  /\ hand' = [hand EXCEPT ![u] = Got(Head(bytes))]
  /\ bytes' = Tail(bytes)

\* A byte is refused only if there is no room for it.
Refuse(u) ==
  /\ \E b \in Byte : hand[u] = Putting(b)
  /\ Len(bytes) = Room
  /\ hand' = [hand EXCEPT ![u] = Empty]
  /\ UNCHANGED bytes

\* The user is done with the byte it got, and comes with the next.
Turn(u) ==
  /\ \A b \in Byte : hand[u] # Putting(b)
  /\ \E h \in {Empty} \cup {Putting(b) : b \in Byte} : hand' = [hand EXCEPT ![u] = h]
  /\ UNCHANGED bytes

Works == /\ ~ broken /\ broken' = FALSE
         /\ \E u \in Users : Put(u) \/ Get(u) \/ Refuse(u) \/ Turn(u)

Next == Works \/ broken' = TRUE

Spec == Init /\ [][Next]_vars
=============================================================================
