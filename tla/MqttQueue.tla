----------------------------- MODULE MqttQueue -----------------------------
(***************************************************************************)
(* The queue of outgoing MQTT packets: a ring of bytes (ringbuf.c) holding   *)
(* packets framed by 0x7e and 0x7f with escapes (proto.c, queue.c), filled   *)
(* by MQTT_Publish and mqtt_tcpclient_recv and emptied by MQTT_Task.         *)
(*                                                                         *)
(* One action is a machine step that an interrupt may follow.  Context       *)
(* "main" is the event loop; "isr" is io_intr_handler, whose state report    *)
(* calls MQTT_Publish and so works on the same ring.  A context holds the    *)
(* locals of the call it is in: op, pkt, out, parser, reg (a register).      *)
(*                                                                         *)
(* Packets are copied from the client's encode buffer; that the interrupt    *)
(* encodes into that same buffer is not modelled.                           *)
(***************************************************************************)
EXTENDS Integers, Sequences

CONSTANTS
  Size,      \* QUEUE_BUFFER_SIZE: bytes in the ring
  BufSize,   \* MQTT_BUF_SIZE: the longest packet
  Packets,   \* packets the device may send: sequences of bytes
  MaxPress   \* bound on interrupts in a behaviour

Byte == 0 .. 255

ASSUME SizeAssumption == Size \in Nat /\ Size >= 2 /\ BufSize \in Nat \ {0}
ASSUME PacketsAssumption == \A m \in Packets : m \in Seq(Byte) /\ Len(m) \in 1 .. BufSize
ASSUME MaxPressAssumption == MaxPress \in Nat

VARIABLES
  buf,       \* the bytes of the ring
  p_r, p_w,  \* read and write positions
  fill_cnt,  \* bytes filled
  pc, op, pkt, out, parser, reg,
  eaten,     \* history: bytes the running QUEUE_Gets has consumed
  given,     \* history: the last packet MQTT_Task took
  torn,      \* history: an interrupt struck inside a RINGBUF_Put or RINGBUF_Get
  presses

ring  == <<buf, p_r, p_w, fill_cnt>>
call  == <<op, pkt, out, parser>>
ghost == <<eaten, given, torn, presses>>
vars  == <<ring, pc, call, reg, ghost>>

Ctx == {"main", "isr"}
NoPacket == <<>>

\* The byte after the ring's last belongs to somebody else.
Cells == 0 .. Size

-----------------------------------------------------------------------------
(* Framing.                                                                *)

BEGIN == 126   \* 0x7e
END == 127     \* 0x7f
ESC == 125     \* 0x7d

\* b ^ 0x20
Flip(b) == IF (b \div 32) % 2 = 0 THEN b + 32 ELSE b - 32

Escaped(b) == IF b \in {BEGIN, END, ESC} THEN <<ESC, Flip(b)>> ELSE <<b>>

Frame(m) ==
  LET body[i \in 0 .. Len(m)] == IF i = 0 THEN <<BEGIN>> ELSE body[i - 1] \o Escaped(m[i])
  IN Append(body[Len(m)], END)

\* PROTO_Init leaves isBegin as the stack has it.
NewParser(garbage) == [data |-> <<>>, esc |-> FALSE, begin |-> garbage]

\* Mutant: a new frame is appended to what is left of the previous one.
ParseAppending(p, b) ==
  CASE b = ESC   -> [p EXCEPT !.esc = TRUE]
    [] b = BEGIN -> [p EXCEPT !.begin = TRUE]
    [] b = END   -> [p EXCEPT !.begin = FALSE]
    [] b \notin {ESC, BEGIN, END} -> 
         [p EXCEPT !.esc = FALSE, !.data = Append(@, IF p.esc THEN Flip(b) ELSE b)]

\* PROTO_ParseByte; the packet is complete when b = END.
ParseByte(p, b) ==
  CASE b = ESC   -> [p EXCEPT !.esc = TRUE]
    [] b = BEGIN -> NewParser(TRUE)
    [] b = END   -> [p EXCEPT !.begin = FALSE]
    [] b \notin {ESC, BEGIN, END} /\ ~ p.begin -> p
    [] b \notin {ESC, BEGIN, END} /\ p.begin ->
         [p EXCEPT !.esc = FALSE,
                   !.data = IF Len(@) < BufSize
                            THEN Append(@, IF p.esc THEN Flip(b) ELSE b) ELSE @]

-----------------------------------------------------------------------------
(* RINGBUF_Put and RINGBUF_Get.  fill_cnt, p_r and p_w are volatile: each load *)
(* and each store is a step, and an interrupt may come before it.           *)

\* Interrupts run to completion; main waits for them.
At(c, l) == pc[c] = l /\ (c = "main" => pc["isr"] = "idle")
Goto(c, l) == pc' = [pc EXCEPT ![c] = l]

\* RINGBUF_Init on zeroed memory.
Init ==
  /\ buf = [i \in Cells |-> 0] /\ p_r = 0 /\ p_w = 0 /\ fill_cnt = 0
  /\ pc = [c \in Ctx |-> "idle"] /\ op = [c \in Ctx |-> "none"]
  /\ pkt = [c \in Ctx |-> NoPacket] /\ out = [c \in Ctx |-> <<>>]
  /\ parser = [c \in Ctx |-> NewParser(FALSE)] /\ reg = [c \in Ctx |-> 0]
  /\ eaten = <<>> /\ given = NoPacket
  /\ torn = FALSE /\ presses = 0

\* The call returns.
Return(c) ==
  /\ Goto(c, "idle")
  /\ op' = [op EXCEPT ![c] = "none"]
  /\ pkt' = [pkt EXCEPT ![c] = NoPacket]
  /\ out' = [out EXCEPT ![c] = <<>>]
  /\ parser' = [parser EXCEPT ![c] = NewParser(FALSE)]
  /\ reg' = [reg EXCEPT ![c] = 0]

\* A load of a volatile variable into the register.
Load(c, from, value, to) ==
  /\ At(c, from)
  /\ reg' = [reg EXCEPT ![c] = value]
  /\ Goto(c, to)
  /\ UNCHANGED <<ring, call, ghost>>

\* Mutant: one byte too many.
FullLate == fill_cnt > Size

Full == fill_cnt >= Size

\* The ring is full: MQTT_Publish forgets the oldest packet, the answers that
\* mqtt_tcpclient_recv queues are given up.  What the put has written stays.
PutTest(c) ==
  /\ At(c, "put")
  /\ IF ~ Full
     THEN Goto(c, "put_load") /\ UNCHANGED <<call, reg>>
     ELSE IF op[c] = "publish"
     THEN /\ \E garbage \in BOOLEAN : parser' = [parser EXCEPT ![c] = NewParser(garbage)]
          /\ Goto(c, "get")
          /\ UNCHANGED <<op, pkt, out, reg>>
     ELSE Return(c)
  /\ UNCHANGED <<ring, ghost>>

PutCount(c) ==
  /\ At(c, "put_count")
  /\ fill_cnt' = reg[c] + 1
  /\ Goto(c, "put_load_pos")
  /\ UNCHANGED <<buf, p_r, p_w, call, reg, ghost>>

PutNext(c) ==
  /\ At(c, "put_next")
  /\ p_w' = reg[c] + 1
  /\ Goto(c, "put_byte")
  /\ UNCHANGED <<buf, p_r, fill_cnt, call, reg, ghost>>

PutByte(c) ==
  /\ At(c, "put_byte")
  /\ buf' = [buf EXCEPT ![reg[c]] = Head(out[c])]
  /\ Goto(c, "put_wrap")
  /\ UNCHANGED <<p_r, p_w, fill_cnt, call, reg, ghost>>

\* Mutant: the last cell of the ring is skipped.
PastEarly(p) == p >= Size - 1

Past(p) == p >= Size

PutWrap(c) ==
  /\ At(c, "put_wrap")
  /\ Goto(c, IF Past(p_w) THEN "put_reset" ELSE "put_more")
  /\ UNCHANGED <<ring, call, reg, ghost>>

PutReset(c) ==
  /\ At(c, "put_reset")
  /\ p_w' = 0
  /\ Goto(c, "put_more")
  /\ UNCHANGED <<buf, p_r, fill_cnt, call, reg, ghost>>

\* The next byte of the frame, or none.
PutMore(c) ==
  /\ At(c, "put_more")
  /\ IF Len(out[c]) = 1 THEN Return(c)
     ELSE /\ out' = [out EXCEPT ![c] = Tail(@)]
          /\ Goto(c, "put")
          /\ UNCHANGED <<op, pkt, parser, reg>>
  /\ UNCHANGED <<ring, ghost>>

Putting == {"put", "put_load", "put_count", "put_load_pos", "put_next", "put_byte",
            "put_wrap", "put_reset", "put_more"}

Put(c) ==
  \/ PutTest(c)
  \/ Load(c, "put_load", fill_cnt, "put_count") \/ PutCount(c)
  \/ Load(c, "put_load_pos", p_w, "put_next") \/ PutNext(c) \/ PutByte(c)
  \/ PutWrap(c) \/ PutReset(c) \/ PutMore(c)

\* Mutant: MQTT_Publish tries again although nothing was left to forget.
GetTestRetry(c) ==
  /\ At(c, "get")
  /\ IF fill_cnt > 0
     THEN Goto(c, "get_load") /\ UNCHANGED <<call, reg, eaten>>
     ELSE /\ out' = [out EXCEPT ![c] = Frame(pkt[c])]
          /\ Goto(c, "put")
          /\ eaten' = <<>>
          /\ UNCHANGED <<op, pkt, parser, reg>>
  /\ UNCHANGED <<ring, given, torn, presses>>

\* Nothing left to read: QUEUE_Gets returns -1, MQTT_Publish returns FALSE and
\* MQTT_Task has nothing to send.
GetTest(c) ==
  /\ At(c, "get")
  /\ IF fill_cnt > 0
     THEN Goto(c, "get_load") /\ UNCHANGED <<call, reg, eaten>>
     ELSE Return(c) /\ eaten' = <<>>
  /\ UNCHANGED <<ring, given, torn, presses>>

GetCount(c) ==
  /\ At(c, "get_count")
  /\ fill_cnt' = reg[c] - 1
  /\ Goto(c, "get_load_pos")
  /\ UNCHANGED <<buf, p_r, p_w, call, reg, ghost>>

GetNext(c) ==
  /\ At(c, "get_next")
  /\ p_r' = reg[c] + 1
  /\ Goto(c, "get_byte")
  /\ UNCHANGED <<buf, p_w, fill_cnt, call, reg, ghost>>

GetWrap(c) ==
  /\ At(c, "get_wrap")
  /\ Goto(c, IF Past(p_r) THEN "get_reset" ELSE "parse")
  /\ UNCHANGED <<ring, call, reg, ghost>>

GetReset(c) ==
  /\ At(c, "get_reset")
  /\ p_r' = 0
  /\ Goto(c, "parse")
  /\ UNCHANGED <<buf, p_w, fill_cnt, call, reg, ghost>>

\* At the end of a frame MQTT_Task has its packet, and MQTT_Publish tries again
\* from the start.
Parse(c) ==
  /\ At(c, "parse")
  /\ IF reg[c] # END
     THEN /\ parser' = [parser EXCEPT ![c] = ParseByte(@, reg[c])]
          /\ eaten' = Append(eaten, reg[c])
          /\ Goto(c, "get")
          /\ UNCHANGED <<op, pkt, out, reg, given>>
     ELSE /\ eaten' = <<>>
          /\ IF op[c] = "task"
             THEN Return(c) /\ given' = parser[c].data
             ELSE /\ out' = [out EXCEPT ![c] = Frame(pkt[c])]
                  /\ parser' = [parser EXCEPT ![c] = NewParser(FALSE)]
                  /\ Goto(c, "put")
                  /\ UNCHANGED <<op, pkt, reg, given>>
  /\ UNCHANGED <<ring, torn, presses>>

Get(c) ==
  \/ GetTest(c)
  \/ Load(c, "get_load", fill_cnt, "get_count") \/ GetCount(c)
  \/ Load(c, "get_load_pos", p_r, "get_next") \/ GetNext(c)
  \/ Load(c, "get_byte", buf[reg[c]], "get_wrap")
  \/ GetWrap(c) \/ GetReset(c) \/ Parse(c)

-----------------------------------------------------------------------------
(* The callers.                                                            *)

StartPut(c, o, m) ==
  /\ op' = [op EXCEPT ![c] = o]
  /\ pkt' = [pkt EXCEPT ![c] = m]
  /\ out' = [out EXCEPT ![c] = Frame(m)]
  /\ Goto(c, "put")
  /\ UNCHANGED <<ring, parser, reg, eaten, given>>

\* MQTT_Publish and MQTT_Subscribe.
Publish(m) ==
  /\ At("main", "idle")
  /\ StartPut("main", "publish", m)
  /\ UNCHANGED <<torn, presses>>

\* mqtt_tcpclient_recv acknowledges what it received.
Answer(m) ==
  /\ At("main", "idle")
  /\ StartPut("main", "answer", m)
  /\ UNCHANGED <<torn, presses>>

\* MQTT_Task, when it may send.
Task ==
  /\ At("main", "idle")
  /\ fill_cnt > 0
  /\ op' = [op EXCEPT !["main"] = "task"]
  /\ \E garbage \in BOOLEAN : parser' = [parser EXCEPT !["main"] = NewParser(garbage)]
  /\ Goto("main", "get")
  /\ UNCHANGED <<ring, pkt, out, reg, eaten, given, torn, presses>>

\* Not inside a RINGBUF_Put or RINGBUF_Get.
Between(c) == pc[c] \in {"idle", "put", "put_more", "get", "parse"}

\* io_intr_handler reports the new state.
ButtonIrq(m) ==
  /\ pc["isr"] = "idle"
  /\ presses < MaxPress
  /\ presses' = presses + 1
  /\ torn' = (torn \/ ~ Between("main"))
  /\ StartPut("isr", "publish", m)

Step(c) == Put(c) \/ Get(c)

Next ==
  \/ \E c \in Ctx : Step(c)
  \/ \E m \in Packets : Publish(m) \/ Answer(m) \/ ButtonIrq(m)
  \/ Task

\* A running call goes on.
Fairness == \A c \in Ctx : WF_vars(Step(c))

Spec == Init /\ [][Next]_vars /\ Fairness

-----------------------------------------------------------------------------
(* Properties.                                                             *)

Idle == \A c \in Ctx : pc[c] = "idle"

\* Whatever an interrupt does, at most the byte after the ring is touched, the
\* count is at most one off its range, and a packet fits the BufSize bytes of
\* the caller's dataBuffer.
TypeOK ==
  /\ buf \in [Cells -> Byte]
  /\ p_r \in 0 .. Size + 1 /\ p_w \in 0 .. Size + 1
  /\ fill_cnt \in -1 .. Size + 1
  /\ op \in [Ctx -> {"none", "publish", "answer", "task"}]
  /\ \A c \in Ctx :
       /\ pkt[c] \in Packets \cup {NoPacket}
       /\ out[c] \in Seq(Byte)
       /\ pc[c] \in {"put_byte", "get_byte"} => reg[c] \in Cells
       /\ Len(parser[c].data) <= BufSize
  /\ given \in Seq(Byte) /\ Len(given) <= BufSize
  /\ torn \in BOOLEAN
  /\ presses \in 0 .. MaxPress

InStep == (p_w - p_r - fill_cnt) % Size = 0

\* Memory stays as TypeOK says wherever an interrupt strikes.  And unless one
\* struck inside an operation of the ring - between two operations of a call it
\* may - every access is inside the ring, and fill_cnt counts the bytes between
\* the two positions.  The exception is real: "increase filled slots count, this
\* should be atomic operation" (ringbuf.c:37), which it is not.
RingIsSound ==
  /\ TypeOK
  /\ ~ torn =>
       /\ fill_cnt \in 0 .. Size
       /\ \A c \in Ctx : pc[c] \in {"put_byte", "get_byte"} => reg[c] < Size
       /\ Idle => InStep

\* The bytes the ring stores, from its oldest on.  fill_cnt runs ahead of a byte
\* being written and behind one being read, p_r runs ahead of the latter.  Once an
\* interrupt has struck inside an operation the question is moot.
Running == IF pc["isr"] = "idle" THEN "main" ELSE "isr"

Waiting == CASE pc[Running] \in {"put_load_pos", "put_next", "put_byte"} -> fill_cnt - 1
             [] pc[Running] \in {"get_load_pos", "get_next", "get_byte"} -> fill_cnt + 1
             [] OTHER -> fill_cnt

Oldest == IF pc[Running] = "get_byte" THEN reg[Running] ELSE p_r

CellFrom(first, i) == IF first + i > Size THEN first + i - 1 - Size ELSE first + i - 1

Stored == IF torn THEN <<>> ELSE [i \in 1 .. Waiting |-> buf[CellFrom(Oldest, i)]]

\* The byte a context is about to put, or has got.
InHand(c) ==
  CASE pc[c] \in {"put", "put_load", "put_count", "put_load_pos", "put_next", "put_byte"} ->
         <<"put", Head(out[c])>>
    [] pc[c] \in {"get_wrap", "get_reset", "parse"} -> <<"got", reg[c]>>
    [] OTHER -> <<>>

Hands == [c \in Ctx |-> InHand(c)]

Ring == INSTANCE ByteQueue WITH
  Users <- Ctx, Room <- Size, bytes <- Stored, hand <- Hands, broken <- torn

\* The ring keeps every byte and their order, accepts one as long as there is room,
\* and hands the oldest one out, once, whatever the interrupt puts and gets between
\* the operations of the event loop - as long as it strikes only between them.
ImplementsBytes == Ring!Spec

\* MQTT_Publish comes back, however full the queue and however large the
\* packet: each round of its loop forgets a packet or gives up.
PublishReturns == \A c \in Ctx : pc[c] # "idle" ~> pc[c] = "idle"

\* The bytes of frames not yet read to their end: those the running QUEUE_Gets
\* has consumed or has in hand, and those the ring stores.
Unread ==
  eaten \o (IF pc["main"] \in {"get_wrap", "get_reset", "parse"} THEN <<reg["main"]>> ELSE <<>>)
        \o Stored

Frames == [m \in Packets |-> Frame(m)]
FrameLength(m) == Len(Frames[m])

\* The frame of m ends with byte n; the remains of a refused packet may come before
\* it.
EndsAt(bytes, n, m) ==
  /\ FrameLength(m) <= n
  /\ \A i \in 1 .. FrameLength(m) : bytes[n - FrameLength(m) + i] = Frames[m][i]

PacketAt(bytes, n) ==
  IF \E m \in Packets : EndsAt(bytes, n, m) THEN CHOOSE m \in Packets : EndsAt(bytes, n, m)
  ELSE NoPacket

\* The packets in a run of bytes, one for each END.
PacketsIn(bytes) ==
  LET read[n \in 0 .. Len(bytes)] ==
        IF n = 0 THEN <<>>
        ELSE IF bytes[n] = END THEN Append(read[n - 1], PacketAt(bytes, n)) ELSE read[n - 1]
  IN read[Len(bytes)]

\* A frame was begun among the first bytes, up to last, and nothing ended it.
Abandoned(bytes, last) ==
  \E i \in 1 .. last :
    /\ bytes[i] = BEGIN
    /\ \A j \in i + 1 .. Len(bytes) :
         bytes[j] = END => \E k \in i + 1 .. j - 1 : bytes[k] = BEGIN

\* The bytes of the running put's frame that are in the ring.
Written ==
  IF pc["main"] \in Putting
  THEN FrameLength(pkt["main"]) - Len(out["main"])
       + IF pc["main"] \in {"put_wrap", "put_reset", "put_more"} THEN 1 ELSE 0
  ELSE 0

Complete == pkt["main"] # NoPacket /\ Written = FrameLength(pkt["main"])

\* The ring of bytes is a FIFO of packets that forgets the oldest ones, and
\* only for lack of room.
Fifo == INSTANCE OutQueue WITH
  Room   <- Size,
  Cost   <- FrameLength,
  queue  <- PacketsIn(Unread),
  wanted <- IF Complete THEN NoPacket ELSE pkt["main"],
  given  <- given,
  litter <- Abandoned(Unread, Len(Unread) - IF Complete THEN 0 ELSE Written)

ImplementsFifo == Fifo!Spec
=============================================================================
