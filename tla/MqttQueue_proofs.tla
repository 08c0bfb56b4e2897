-------------------------- MODULE MqttQueue_proofs --------------------------
(***************************************************************************)
(* Proofs about the ring of bytes in MqttQueue, for every size of the ring    *)
(* and of the packets, every set of packets and any number of interrupts;    *)
(* and, where none comes, about the queue of packets that the bytes make up. *)
(*                                                                         *)
(* What an interrupt may break is bounded (Bounds): the count is at most one  *)
(* off, the positions touch at most the byte after the ring.  As long as none *)
(* has struck inside an operation of the ring, one context at a time works on *)
(* it (Alone), and count and positions agree but for the step it is in       *)
(* (Phase).                                                                *)
(*                                                                         *)
(* The bytes that no call has read to the end of a packet are frames, with    *)
(* the beginnings of given-up ones between them (Framed), and a put knows     *)
(* which of them are its own (PutInv); so an END always ends a packet, and a  *)
(* full ring has no room for another one.                                   *)
(***************************************************************************)
EXTENDS MqttQueue, Induction, SequenceTheorems

Getting == {"get", "get_load", "get_count", "get_load_pos", "get_next", "get_byte",
            "get_wrap", "get_reset", "parse"}
Labels == {"idle"} \cup Putting \cup Getting

\* Where the write, and the read, position may be one past the ring.
WritesPast == {"put_byte", "put_wrap", "put_reset"}
ReadsPast == {"get_byte", "get_wrap", "get_reset"}

Parsers == [data : Seq(Byte), esc : BOOLEAN, begin : BOOLEAN]

\* The variables have their types; a put has a byte to put, and its packet to start
\* again with.
Types ==
  /\ buf \in [Cells -> Byte]
  /\ p_r \in Int /\ p_w \in Int /\ fill_cnt \in Int
  /\ pc \in [Ctx -> Labels]
  /\ op \in [Ctx -> {"none", "publish", "answer", "task"}]
  /\ pkt \in [Ctx -> Packets \cup {NoPacket}]
  /\ out \in [Ctx -> Seq(Byte)]
  /\ parser \in [Ctx -> Parsers]
  /\ reg \in [Ctx -> Int]
  /\ given \in Seq(Byte) /\ Len(given) <= BufSize
  /\ torn \in BOOLEAN /\ presses \in 0 .. MaxPress

Fits(c) ==
  /\ Len(parser[c].data) <= BufSize
  /\ pc[c] \in Putting => out[c] # <<>> /\ pkt[c] \in Packets
  /\ pc[c] \in Getting => op[c] = "task" \/ pkt[c] \in Packets
  /\ pc[c] \in {"get_wrap", "get_reset", "parse"} => reg[c] \in Byte

\* How far off an interrupted operation may be.
Slack(c) == IF c = "main" THEN 0 ELSE 1

Bounds ==
  /\ fill_cnt \in -1 .. Size + 1
  /\ p_w \in 0 .. Size + 1 /\ p_r \in 0 .. Size + 1
  /\ p_w >= Size => \E c \in Ctx : pc[c] \in WritesPast
  /\ p_w > Size => pc["isr"] \in WritesPast
  /\ p_r >= Size => \E c \in Ctx : pc[c] \in ReadsPast
  /\ p_r > Size => pc["isr"] \in ReadsPast

Reach(c) ==
  /\ pc[c] = "put_load" => fill_cnt <= Size - Slack(c)
  /\ pc[c] = "put_count" => reg[c] \in -1 .. Size - Slack(c)
  /\ pc[c] = "get_load" => fill_cnt >= Slack(c)
  /\ pc[c] = "get_count" => reg[c] \in Slack(c) .. Size + 1
  /\ pc[c] \in {"put_next", "put_byte", "get_next", "get_byte"} =>
       reg[c] \in 0 .. Size - 1 + Slack(c)

\* The interrupt runs to completion, and the event loop waits.
Rests == pc["isr"] = "idle"

BoundsInv == Types /\ Bounds /\ \A c \in Ctx : Fits(c) /\ Reach(c)

\* As long as no interrupt struck inside an operation of the ring, one that is
\* running left the event loop between two.
Alone == pc["isr"] # "idle" => Between("main")

\* How far the count and the positions are apart in the course of an operation.
Ahead(at) == CASE at \in {"put_load_pos", "put_next"} -> 1
               [] at \in {"get_load_pos", "get_next"} -> -1
               [] OTHER -> 0

\* What the context that runs finds, and leaves, at each of its steps.
PhaseAt(at, r) ==
  /\ fill_cnt \in 0 .. Size /\ p_w \in 0 .. Size /\ p_r \in 0 .. Size
  /\ p_w = Size => at \in WritesPast
  /\ p_r = Size => at \in ReadsPast
  /\ p_w - p_r - fill_cnt + Ahead(at) \in {0, -Size}
  /\ at \in {"put_load", "put_count"} => fill_cnt < Size
  /\ at \in {"put_load_pos", "put_next", "put_byte"} => fill_cnt > 0
  /\ at \in {"get_load", "get_count"} => fill_cnt > 0
  /\ at \in {"get_load_pos", "get_next", "get_byte"} => fill_cnt < Size
  /\ at \in {"put_count", "get_count"} => r = fill_cnt
  /\ at = "put_next" => r = p_w
  /\ at = "get_next" => r = p_r
  /\ at = "put_byte" => r = p_w - 1
  /\ at = "get_byte" => r = p_r - 1
  /\ at = "put_reset" => p_w = Size
  /\ at = "get_reset" => p_r = Size

Phase == PhaseAt(pc[Running], reg[Running])

PhaseInv == ~ torn => Alone /\ Phase

-----------------------------------------------------------------------------
(* Frames and parsers.                                                     *)

LEMMA FlipType == \A b \in Byte : Flip(b) \in Byte
BY SMT DEF Flip, Byte

LEMMA EscapedType == \A b \in Byte : Escaped(b) \in Seq(Byte)
<1> SUFFICES ASSUME NEW b \in Byte PROVE Escaped(b) \in Seq(Byte)
  OBVIOUS
<1>1. Flip(b) \in Byte /\ ESC \in Byte
  BY SMT DEF Flip, Byte, ESC
<1> QED BY <1>1 DEF Escaped

\* The bytes of a frame but for its END, packet byte by packet byte.
IsBody(f, m) ==
  /\ f \in [0 .. Len(m) -> Seq(Byte)] /\ f[0] = <<BEGIN>>
  /\ \A i \in 1 .. Len(m) : f[i] = f[i - 1] \o Escaped(m[i])

LEMMA FrameBody ==
  ASSUME NEW m \in Seq(Byte)
  PROVE  \E f : IsBody(f, m) /\ Frame(m) = Append(f[Len(m)], END)
<1> DEFINE n == Len(m)
           c == <<BEGIN>>
           step == [i \in 1 .. n |-> [v \in Seq(Byte) |-> v \o Escaped(m[i])]]
           F(f) == f = [i \in 0 .. n |-> IF i = 0 THEN c ELSE f[i - 1] \o Escaped(m[i])]
           body == CHOOSE f : F(f)
<1>1. n \in Nat /\ c \in Seq(Byte) /\ END \in Byte
  BY DEF Byte, BEGIN, END
<1>2. ASSUME NEW i \in 1 .. n PROVE Escaped(m[i]) \in Seq(Byte)
  BY EscapedType
<1>3. Frame(m) = Append(body[n], END)
  BY DEF Frame
<1>4. step \in [1 .. n -> [Seq(Byte) -> Seq(Byte)]]
  BY <1>2
<1>5. ASSUME NEW i \in 1 .. n, NEW v \in Seq(Byte) PROVE step[i][v] = v \o Escaped(m[i])
  OBVIOUS
<1> DEFINE B == Seq(Byte)
<1>a. c \in B /\ step \in [1 .. n -> [B -> B]] BY <1>1, <1>4
<1> HIDE DEF n, c, step, B
<1>6. PICK f : Recurs(f, n, B, c, step)
  BY <1>1, <1>a, RecursionExists
<1>7. ASSUME NEW i \in 0 .. n
      PROVE  (IF i = 0 THEN c ELSE step[i][f[i - 1]])
             = IF i = 0 THEN c ELSE f[i - 1] \o Escaped(m[i])
  <2>1. CASE i = 0
    BY <2>1
  <2>2. CASE i # 0
    <3>1. i \in 1 .. n /\ f[i - 1] \in Seq(Byte)
      BY <1>1, <1>6, <2>2 DEF B, Recurs
    <3> QED BY <1>5, <2>2, <3>1
  <2> QED BY <2>1, <2>2
<1>8. F(f)
  <2>1. ASSUME NEW i \in 0 .. n PROVE f[i] = IF i = 0 THEN c ELSE f[i - 1] \o Escaped(m[i])
    <3>1. CASE i = 0
      BY <1>6, <3>1 DEF Recurs
    <3>2. CASE i # 0
      <4>1. i \in 1 .. n
        BY <1>1, <3>2
      <4> QED BY <1>6, <1>7, <3>2, <4>1 DEF Recurs
    <3> QED BY <3>1, <3>2
  <2>2. f = [i \in 0 .. n |-> f[i]]
    BY <1>6 DEF Recurs
  <2> QED BY <2>1, <2>2
<1>9. F(body)
  BY <1>8
<1> HIDE DEF body
<1>10. \A i \in 0 .. n : body[i] \in Seq(Byte)
  <2> DEFINE T == {i \in 0 .. n : body[i] \in Seq(Byte)}
  <2>1. 0 \in T
    BY <1>1, <1>9
  <2>2. ASSUME NEW i \in 0 .. n - 1, i \in T PROVE i + 1 \in T
    <3>0. i + 1 \in 0 .. n /\ i + 1 # 0 /\ (i + 1) - 1 = i
      BY <1>1
    <3>1. body[i + 1] = body[i] \o Escaped(m[i + 1])
      BY <1>9, <3>0, Zenon
    <3>2. Escaped(m[i + 1]) \in Seq(Byte)
      BY <1>1, <1>2
    <3>3. body[i + 1] \in Seq(Byte)
      BY <2>2, <3>1, <3>2
    <3> QED BY <1>1, <3>3
  <2> HIDE DEF T
  <2>3. \A i \in 0 .. n : i \in T
    BY <1>1, <2>1, <2>2, IntervalInduction
  <2> QED BY <2>3 DEF T
<1>11. IsBody(body, m)
  <2>1. body \in [0 .. n -> Seq(Byte)] /\ body[0] = c
    BY <1>1, <1>9, <1>10
  <2>2. ASSUME NEW i \in 1 .. n PROVE body[i] = body[i - 1] \o Escaped(m[i])
    <3>1. i \in 0 .. n /\ i # 0
      BY <1>1
    <3> QED BY <1>9, <3>1, Zenon
  <2> QED BY <2>1, <2>2 DEF IsBody, n, c
<1> QED BY <1>3, <1>11 DEF n

LEMMA FrameType == ASSUME NEW m \in Seq(Byte) PROVE Frame(m) \in Seq(Byte) \ {<<>>}
<1>1. PICK f : IsBody(f, m) /\ Frame(m) = Append(f[Len(m)], END)
  BY FrameBody
<1>2. f[Len(m)] \in Seq(Byte) /\ END \in Byte
  <2>1. Len(m) \in Nat
    OBVIOUS
  <2> QED BY <1>1, <2>1 DEF IsBody, Byte, END
<1>3. Append(f[Len(m)], END) \in Seq(Byte) /\ Append(f[Len(m)], END) # <<>>
  BY <1>2, SMT
<1> QED BY <1>1, <1>3

LEMMA TailKeeps ==
  ASSUME NEW s \in Seq(Byte), s # <<>>, Len(s) # 1
  PROVE  Tail(s) \in Seq(Byte) /\ Tail(s) # <<>>
<1>1. Tail(s) \in Seq(Byte) /\ Len(s) \in Nat /\ Len(s) # 0
  BY EmptySeq, HeadTailProperties
<1>2. Len(Tail(s)) = Len(s) - 1
  BY HeadTailProperties
<1>3. Len(Tail(s)) # 0
  BY <1>1, <1>2
<1>4. ASSUME NEW t, t = <<>> PROVE Len(t) = 0
  BY <1>4
<1> HIDE DEF Byte
<1> QED BY <1>1, <1>3, <1>4, Zenon

LEMMA GarbageType ==
  ASSUME NEW g \in BOOLEAN
  PROVE  NewParser(g) \in Parsers /\ Len(NewParser(g).data) <= BufSize
BY SizeAssumption DEF NewParser, Parsers

LEMMA NewParserType ==
  /\ NewParser(TRUE) \in Parsers /\ Len(NewParser(TRUE).data) <= BufSize
  /\ NewParser(FALSE) \in Parsers /\ Len(NewParser(FALSE).data) <= BufSize
BY SizeAssumption DEF NewParser, Parsers

LEMMA ParseByteType ==
  ASSUME NEW p \in Parsers, NEW b \in Byte, Len(p.data) <= BufSize
  PROVE  ParseByte(p, b) \in Parsers /\ Len(ParseByte(p, b).data) <= BufSize
<1> USE SizeAssumption
<1>1. CASE b = ESC
  <2>1. ParseByte(p, b) = [p EXCEPT !.esc = TRUE]
    BY <1>1 DEF ParseByte, ESC, BEGIN, END
  <2> QED BY <2>1 DEF Parsers
<1>2. CASE b = BEGIN
  <2>1. ParseByte(p, b) = NewParser(TRUE)
    BY <1>2 DEF ParseByte, ESC, BEGIN, END
  <2> QED BY <2>1, NewParserType
<1>3. CASE b = END
  <2>1. ParseByte(p, b) = [p EXCEPT !.begin = FALSE]
    BY <1>3 DEF ParseByte, ESC, BEGIN, END
  <2> QED BY <2>1 DEF Parsers
<1>4. CASE b \notin {ESC, BEGIN, END} /\ ~ p.begin
  BY <1>4 DEF ParseByte
<1>5. CASE b \notin {ESC, BEGIN, END} /\ p.begin
  <2>1. (IF p.esc THEN Flip(b) ELSE b) \in Byte
    BY FlipType
  <2> DEFINE x == IF p.esc THEN Flip(b) ELSE b
             d == IF Len(p.data) < BufSize THEN Append(p.data, x) ELSE p.data
  <2>2. d \in Seq(Byte) /\ Len(d) <= BufSize
    BY <2>1 DEF Parsers
  <2>3. ParseByte(p, b) = [p EXCEPT !.esc = FALSE, !.data = d]
    BY <1>5 DEF ParseByte
  <2> HIDE DEF d
  <2> QED BY <2>2, <2>3 DEF Parsers
<1> QED BY <1>1, <1>2, <1>3, <1>4, <1>5 DEF Parsers

-----------------------------------------------------------------------------
(* Bounds, wherever an interrupt strikes.                                  *)

LEMMA BoundsInit == Init => BoundsInv
<1> SUFFICES ASSUME Init PROVE BoundsInv
  OBVIOUS
<1> USE SizeAssumption, MaxPressAssumption, NewParserType
    DEF Init, Ctx, Cells, Byte, NoPacket, Labels
<1>1. Types
  <2>1. parser \in [Ctx -> Parsers]
    OBVIOUS
  <2>6. out \in [Ctx -> Seq(Byte)]
    OBVIOUS
  <2>2. buf \in [Cells -> Byte] /\ pc \in [Ctx -> Labels] /\ reg \in [Ctx -> Int]
    OBVIOUS
  <2>3. pkt \in [Ctx -> Packets \cup {NoPacket}]
    OBVIOUS
  <2>4. op \in [Ctx -> {"none", "publish", "answer", "task"}]
    OBVIOUS
  <2>5. given \in Seq(Byte) /\ Len(given) <= BufSize /\ presses \in 0 .. MaxPress
    OBVIOUS
  <2> QED BY <2>1, <2>2, <2>3, <2>4, <2>5, <2>6 DEF Types
<1>2. Bounds
  BY DEF Bounds
<1>3. ASSUME NEW c \in Ctx PROVE Fits(c) /\ Reach(c)
  <2>1. pc[c] = "idle" /\ parser[c] = NewParser(FALSE)
    OBVIOUS
  <2>2. Len(parser[c].data) <= BufSize
    BY <2>1, NewParserType
  <2> HIDE DEF Init
  <2> QED BY <2>1, <2>2 DEF Fits, Reach, Putting, Getting
<1> QED BY <1>1, <1>2, <1>3 DEF BoundsInv

\* What a return does.
LEMMA ReturnKeeps ==
  ASSUME BoundsInv, NEW c \in Ctx, Return(c), UNCHANGED ring,
         given' \in Seq(Byte), Len(given') <= BufSize, UNCHANGED <<torn, presses>>,
         c = "main" => Rests,
         p_w >= Size => pc[c] \notin WritesPast,
         p_r >= Size => pc[c] \notin ReadsPast
  PROVE  BoundsInv'
<1> USE DEF Ctx
<1>1. /\ pc' = [pc EXCEPT ![c] = "idle"] /\ op' = [op EXCEPT ![c] = "none"]
      /\ pkt' = [pkt EXCEPT ![c] = NoPacket] /\ out' = [out EXCEPT ![c] = <<>>]
      /\ parser' = [parser EXCEPT ![c] = NewParser(FALSE)] /\ reg' = [reg EXCEPT ![c] = 0]
      /\ p_r' = p_r /\ p_w' = p_w /\ fill_cnt' = fill_cnt /\ buf' = buf
  BY DEF Return, Goto, ring
<1>2. Types /\ Bounds /\ \A d \in Ctx : Fits(d) /\ Reach(d)
  BY DEF BoundsInv
<1>3. Types'
  <2>1. parser' \in [Ctx -> Parsers]
    BY <1>1, <1>2, NewParserType DEF Types
  <2>2. pc' \in [Ctx -> Labels] /\ reg' \in [Ctx -> Int] /\ out' \in [Ctx -> Seq(Byte)]
    BY <1>1, <1>2 DEF Types, Labels
  <2>3. /\ pkt' \in [Ctx -> Packets \cup {NoPacket}]
        /\ op' \in [Ctx -> {"none", "publish", "answer", "task"}]
    BY <1>1, <1>2 DEF Types
  <2> QED BY <1>1, <1>2, <2>1, <2>2, <2>3 DEF Types
<1>4. Bounds'
  <2>1. \A d \in Ctx : d # c => pc'[d] = pc[d]
    BY <1>1, <1>2 DEF Types
  <2>2. pc["isr"] \in WritesPast \/ pc["isr"] \in ReadsPast => c = "isr"
    BY DEF Rests, WritesPast, ReadsPast
  <2>3. p_w >= Size => \E d \in Ctx : pc'[d] \in WritesPast
    BY <1>2, <2>1 DEF Bounds
  <2>4. p_r >= Size => \E d \in Ctx : pc'[d] \in ReadsPast
    BY <1>2, <2>1 DEF Bounds
  <2>5. /\ p_w > Size => pc'["isr"] \in WritesPast
        /\ p_r > Size => pc'["isr"] \in ReadsPast
    BY SizeAssumption, <1>2, <2>1 DEF Bounds
  <2> QED BY <1>1, <1>2, <2>3, <2>4, <2>5 DEF Bounds
<1>5. ASSUME NEW d \in Ctx PROVE Fits(d)' /\ Reach(d)'
  <2>1. CASE d = c
    <3>1. pc'[d] = "idle" /\ parser'[d] = NewParser(FALSE)
      BY <1>1, <1>2, <2>1 DEF Types
    <3>2. Len(parser'[d].data) <= BufSize
      BY <3>1, NewParserType, SizeAssumption
    <3> QED BY <3>1, <3>2 DEF Fits, Reach, Putting, Getting
  <2>2. CASE d # c
    BY <1>1, <1>2, <2>2 DEF Types, Fits, Reach
  <2> QED BY <2>1, <2>2
<1> QED BY <1>3, <1>4, <1>5 DEF BoundsInv

\* A step inside RINGBUF_Put.
LEMMA PutBounds ==
  ASSUME BoundsInv, NEW c \in Ctx, Put(c)
  PROVE  BoundsInv'
<1>0. Types /\ Bounds /\ \A d \in Ctx : Fits(d) /\ Reach(d)
  BY DEF BoundsInv
<1> USE SizeAssumption DEF Ctx, At, Goto, ring, call, ghost, Labels, Putting, Getting, WritesPast, ReadsPast, Slack, Rests, Cells
<1>1. CASE PutCount(c)
  <2>1. Types'
    BY <1>0, <1>1 DEF PutCount, Types
  <2>2. Bounds'
    BY <1>0, <1>1, SMTT(30) DEF PutCount, Types, Bounds, Reach
  <2>3. \A d \in Ctx : Fits(d)'
    BY <1>0, <1>1 DEF PutCount, Types, Fits
  <2>4. \A d \in Ctx : Reach(d)'
    BY <1>0, <1>1 DEF PutCount, Types, Bounds, Reach
  <2> QED BY <2>1, <2>2, <2>3, <2>4 DEF BoundsInv
<1>2. CASE PutNext(c)
  <2>1. Types'
    BY <1>0, <1>2 DEF PutNext, Types
  <2>2. Bounds'
    BY <1>0, <1>2, SMTT(30) DEF PutNext, Types, Bounds, Reach
  <2>3. \A d \in Ctx : Fits(d)'
    BY <1>0, <1>2 DEF PutNext, Types, Fits
  <2>4. \A d \in Ctx : Reach(d)'
    BY <1>0, <1>2 DEF PutNext, Types, Bounds, Reach
  <2> QED BY <2>1, <2>2, <2>3, <2>4 DEF BoundsInv
<1>3. CASE PutByte(c)
  <2>1. Types'
    <3>1. Head(out[c]) \in Byte /\ reg[c] \in Cells
      BY <1>0, <1>3 DEF PutByte, Types, Fits, Reach
    <3> QED BY <1>0, <1>3, <3>1 DEF PutByte, Types
  <2>2. Bounds'
    BY <1>0, <1>3 DEF PutByte, Types, Bounds
  <2>3. \A d \in Ctx : Fits(d)'
    BY <1>0, <1>3 DEF PutByte, Types, Fits
  <2>4. \A d \in Ctx : Reach(d)'
    BY <1>0, <1>3 DEF PutByte, Types, Bounds, Reach
  <2> QED BY <2>1, <2>2, <2>3, <2>4 DEF BoundsInv
<1>4. CASE PutWrap(c)
  <2>1. Types'
    BY <1>0, <1>4 DEF PutWrap, Past, Types
  <2>2. Bounds'
    BY <1>0, <1>4 DEF PutWrap, Past, Types, Bounds
  <2>3. \A d \in Ctx : Fits(d)'
    BY <1>0, <1>4 DEF PutWrap, Past, Types, Fits
  <2>4. \A d \in Ctx : Reach(d)'
    BY <1>0, <1>4 DEF PutWrap, Past, Types, Bounds, Reach
  <2> QED BY <2>1, <2>2, <2>3, <2>4 DEF BoundsInv
<1>5. CASE PutReset(c)
  <2>1. Types'
    BY <1>0, <1>5 DEF PutReset, Types
  <2>2. Bounds'
    BY <1>0, <1>5 DEF PutReset, Types, Bounds
  <2>3. \A d \in Ctx : Fits(d)'
    BY <1>0, <1>5 DEF PutReset, Types, Fits
  <2>4. \A d \in Ctx : Reach(d)'
    BY <1>0, <1>5 DEF PutReset, Types, Bounds, Reach
  <2> QED BY <2>1, <2>2, <2>3, <2>4 DEF BoundsInv
<1>6. CASE Load(c, "put_load", fill_cnt, "put_count")
  <2>1. Types'
    BY <1>0, <1>6 DEF Load, Types
  <2>2. Bounds'
    BY <1>0, <1>6 DEF Load, Types, Bounds
  <2>3. \A d \in Ctx : Fits(d)'
    BY <1>0, <1>6 DEF Load, Types, Fits
  <2>4. \A d \in Ctx : Reach(d)'
    BY <1>0, <1>6 DEF Load, Types, Bounds, Reach
  <2> QED BY <2>1, <2>2, <2>3, <2>4 DEF BoundsInv
<1>7. CASE Load(c, "put_load_pos", p_w, "put_next")
  <2>1. Types'
    BY <1>0, <1>7 DEF Load, Types
  <2>2. Bounds'
    BY <1>0, <1>7 DEF Load, Types, Bounds
  <2>3. \A d \in Ctx : Fits(d)'
    BY <1>0, <1>7 DEF Load, Types, Fits
  <2>4. \A d \in Ctx : Reach(d)'
    BY <1>0, <1>7 DEF Load, Types, Bounds, Reach
  <2> QED BY <2>1, <2>2, <2>3, <2>4 DEF BoundsInv
<1>8. CASE PutTest(c)
  <2>1. CASE ~ Full
    <3>1. Types'
      BY <1>0, <1>8, <2>1 DEF PutTest, Types
    <3>2. Bounds'
      BY <1>0, <1>8, <2>1 DEF PutTest, Types, Bounds
    <3>3. \A d \in Ctx : Fits(d)'
      BY <1>0, <1>8, <2>1 DEF PutTest, Types, Fits
    <3>4. \A d \in Ctx : Reach(d)'
      BY <1>0, <1>8, <2>1 DEF PutTest, Types, Bounds, Reach, Full
    <3> QED BY <3>1, <3>2, <3>3, <3>4 DEF BoundsInv
  <2>2. CASE Full /\ op[c] = "publish"
    <3>1. PICK garbage \in BOOLEAN : parser' = [parser EXCEPT ![c] = NewParser(garbage)]
      BY <1>8, <2>2 DEF PutTest
    <3>2. NewParser(garbage) \in Parsers /\ Len(NewParser(garbage).data) <= BufSize
      BY GarbageType
    <3>3. /\ pc' = [pc EXCEPT ![c] = "get"] /\ pc[c] = "put"
          /\ UNCHANGED <<op, pkt, out, reg, ring, ghost>>
      BY <1>8, <2>2 DEF PutTest
    <3>4. Types'
      BY <1>0, <3>1, <3>2, <3>3 DEF Types
    <3>5. Bounds'
      BY <1>0, <3>3 DEF Types, Bounds
    <3>6. \A d \in Ctx : Fits(d)'
      BY <1>0, <3>1, <3>2, <3>3 DEF Types, Fits
    <3>7. \A d \in Ctx : Reach(d)'
      BY <1>0, <3>3 DEF Types, Bounds, Reach
    <3> QED BY <3>4, <3>5, <3>6, <3>7 DEF BoundsInv
  <2>3. CASE Full /\ op[c] # "publish"
    <3>1. Return(c) /\ UNCHANGED ring /\ UNCHANGED ghost /\ pc[c] = "put" /\ (c = "main" => Rests)
      BY <1>8, <2>3 DEF PutTest
    <3>2. given' \in Seq(Byte) /\ Len(given') <= BufSize
      BY <1>0, <3>1 DEF Types
    <3> QED BY <3>1, <3>2, ReturnKeeps
  <2> QED BY <2>1, <2>2, <2>3
<1>9. CASE PutMore(c)
  <2>1. CASE Len(out[c]) = 1
    <3>1. Return(c) /\ UNCHANGED ring /\ UNCHANGED ghost /\ pc[c] = "put_more" /\ (c = "main" => Rests)
      BY <1>9, <2>1 DEF PutMore
    <3>2. given' \in Seq(Byte) /\ Len(given') <= BufSize
      BY <1>0, <3>1 DEF Types
    <3> QED BY <3>1, <3>2, ReturnKeeps
  <2>2. CASE Len(out[c]) # 1
    <3>1. out[c] \in Seq(Byte) /\ out[c] # <<>>
      BY <1>0, <1>9 DEF PutMore, Types, Fits
    <3>2. Tail(out[c]) \in Seq(Byte) /\ Tail(out[c]) # <<>>
      BY <2>2, <3>1, TailKeeps
    <3>3. Types'
      <4>1. out' = [out EXCEPT ![c] = Tail(out[c])] /\ pc' = [pc EXCEPT ![c] = "put"]
            /\ UNCHANGED <<op, pkt, parser, reg, ring, ghost>>
        BY <1>9, <2>2 DEF PutMore
      <4>2. out' \in [Ctx -> Seq(Byte)]
        BY <1>0, <3>2, <4>1, Zenon DEF Types
      <4> QED BY <1>0, <4>1, <4>2 DEF Types
    <3>4. Bounds'
      BY <1>0, <1>9, <2>2 DEF PutMore, Types, Bounds
    <3>5. \A d \in Ctx : Fits(d)'
      BY <1>0, <1>9, <2>2, <3>2, SMTT(30) DEF PutMore, Types, Fits
    <3>6. \A d \in Ctx : Reach(d)'
      BY <1>0, <1>9, <2>2 DEF PutMore, Types, Bounds, Reach
    <3> QED BY <3>3, <3>4, <3>5, <3>6 DEF BoundsInv
  <2> QED BY <2>1, <2>2
<1> QED BY <1>1, <1>2, <1>3, <1>4, <1>5, <1>6, <1>7, <1>8, <1>9 DEF Put

\* A step inside RINGBUF_Get, or of the parser.
LEMMA GetBounds ==
  ASSUME BoundsInv, NEW c \in Ctx, Get(c)
  PROVE  BoundsInv'
<1>0. Types /\ Bounds /\ \A d \in Ctx : Fits(d) /\ Reach(d)
  BY DEF BoundsInv
<1> USE SizeAssumption DEF Ctx, At, Goto, ring, call, ghost, Labels, Putting, Getting, WritesPast, ReadsPast, Slack, Rests, Cells
<1>1. CASE GetCount(c)
  <2>1. Types'
    BY <1>0, <1>1 DEF GetCount, Types
  <2>2. Bounds'
    BY <1>0, <1>1 DEF GetCount, Types, Bounds, Reach
  <2>3. \A d \in Ctx : Fits(d)'
    BY <1>0, <1>1 DEF GetCount, Types, Fits
  <2>4. \A d \in Ctx : Reach(d)'
    BY <1>0, <1>1 DEF GetCount, Types, Bounds, Reach
  <2> QED BY <2>1, <2>2, <2>3, <2>4 DEF BoundsInv
<1>2. CASE GetNext(c)
  <2>1. Types'
    BY <1>0, <1>2 DEF GetNext, Types
  <2>2. Bounds'
    BY <1>0, <1>2 DEF GetNext, Types, Bounds, Reach
  <2>3. \A d \in Ctx : Fits(d)'
    BY <1>0, <1>2 DEF GetNext, Types, Fits
  <2>4. \A d \in Ctx : Reach(d)'
    BY <1>0, <1>2 DEF GetNext, Types, Bounds, Reach
  <2> QED BY <2>1, <2>2, <2>3, <2>4 DEF BoundsInv
<1>3. CASE GetWrap(c)
  <2>1. Types'
    BY <1>0, <1>3 DEF GetWrap, Past, Types
  <2>2. Bounds'
    BY <1>0, <1>3 DEF GetWrap, Past, Types, Bounds
  <2>3. \A d \in Ctx : Fits(d)'
    BY <1>0, <1>3 DEF GetWrap, Past, Types, Fits
  <2>4. \A d \in Ctx : Reach(d)'
    BY <1>0, <1>3 DEF GetWrap, Past, Types, Bounds, Reach
  <2> QED BY <2>1, <2>2, <2>3, <2>4 DEF BoundsInv
<1>4. CASE GetReset(c)
  <2>1. Types'
    BY <1>0, <1>4 DEF GetReset, Types
  <2>2. Bounds'
    BY <1>0, <1>4 DEF GetReset, Types, Bounds
  <2>3. \A d \in Ctx : Fits(d)'
    BY <1>0, <1>4 DEF GetReset, Types, Fits
  <2>4. \A d \in Ctx : Reach(d)'
    BY <1>0, <1>4 DEF GetReset, Types, Bounds, Reach
  <2> QED BY <2>1, <2>2, <2>3, <2>4 DEF BoundsInv
<1>5. CASE Load(c, "get_load", fill_cnt, "get_count")
  <2>1. Types'
    BY <1>0, <1>5 DEF Load, Types
  <2>2. Bounds'
    BY <1>0, <1>5 DEF Load, Types, Bounds
  <2>3. \A d \in Ctx : Fits(d)'
    BY <1>0, <1>5 DEF Load, Types, Fits
  <2>4. \A d \in Ctx : Reach(d)'
    BY <1>0, <1>5 DEF Load, Types, Bounds, Reach
  <2> QED BY <2>1, <2>2, <2>3, <2>4 DEF BoundsInv
<1>6. CASE Load(c, "get_load_pos", p_r, "get_next")
  <2>1. Types'
    BY <1>0, <1>6 DEF Load, Types
  <2>2. Bounds'
    BY <1>0, <1>6 DEF Load, Types, Bounds
  <2>3. \A d \in Ctx : Fits(d)'
    BY <1>0, <1>6 DEF Load, Types, Fits
  <2>4. \A d \in Ctx : Reach(d)'
    BY <1>0, <1>6 DEF Load, Types, Bounds, Reach
  <2> QED BY <2>1, <2>2, <2>3, <2>4 DEF BoundsInv
<1>7. CASE Load(c, "get_byte", buf[reg[c]], "get_wrap")
  <2>0. reg[c] \in Cells
    BY <1>0, <1>7 DEF Load, Types, Reach
  <2>a. buf[reg[c]] \in Byte
    <3>1. buf \in [Cells -> Byte]
      BY <1>0 DEF Types
    <3> HIDE DEF Cells
    <3> QED BY <2>0, <3>1
  <2>1. buf[reg[c]] \in Byte /\ buf[reg[c]] \in Int
    BY <2>a DEF Byte
  <2>2. Types'
    BY <1>0, <1>7, <2>1 DEF Load, Types
  <2>3. Bounds'
    BY <1>0, <1>7 DEF Load, Types, Bounds
  <2>4. \A d \in Ctx : Fits(d)'
    BY <1>0, <1>7, <2>1 DEF Load, Types, Fits
  <2>5. \A d \in Ctx : Reach(d)'
    BY <1>0, <1>7 DEF Load, Types, Bounds, Reach
  <2> QED BY <2>2, <2>3, <2>4, <2>5 DEF BoundsInv
<1>8. CASE GetTest(c)
  <2>1. CASE fill_cnt > 0
    <3>1. Types'
      BY <1>0, <1>8, <2>1 DEF GetTest, Types
    <3>2. Bounds'
      BY <1>0, <1>8, <2>1 DEF GetTest, Types, Bounds
    <3>3. \A d \in Ctx : Fits(d)'
      BY <1>0, <1>8, <2>1, SMTT(30) DEF GetTest, Types, Fits
    <3>4. \A d \in Ctx : Reach(d)'
      BY <1>0, <1>8, <2>1 DEF GetTest, Types, Bounds, Reach
    <3> QED BY <3>1, <3>2, <3>3, <3>4 DEF BoundsInv
  <2>2. CASE ~ (fill_cnt > 0)
    <3>1. Return(c) /\ UNCHANGED ring /\ UNCHANGED <<given, torn, presses>> /\ pc[c] = "get" /\ (c = "main" => Rests)
      BY <1>8, <2>2 DEF GetTest
    <3>2. given' \in Seq(Byte) /\ Len(given') <= BufSize
      BY <1>0, <3>1 DEF Types
    <3> QED BY <3>1, <3>2, ReturnKeeps
  <2> QED BY <2>1, <2>2
<1>9. CASE Parse(c)
  <2>0. pc[c] = "parse" /\ reg[c] \in Byte /\ parser[c] \in Parsers /\ Len(parser[c].data) <= BufSize
    BY <1>0, <1>9 DEF Parse, Types, Fits
  <2>1. CASE reg[c] # END
    <3>1. /\ ParseByte(parser[c], reg[c]) \in Parsers
          /\ Len(ParseByte(parser[c], reg[c]).data) <= BufSize
      BY <2>0, ParseByteType
    <3>2. /\ parser' = [parser EXCEPT ![c] = ParseByte(parser[c], reg[c])]
          /\ pc' = [pc EXCEPT ![c] = "get"]
          /\ UNCHANGED <<op, pkt, out, reg, given, ring, torn, presses>>
      BY <1>9, <2>1 DEF Parse
    <3>3. Types'
      BY <1>0, <3>1, <3>2 DEF Types
    <3>4. Bounds'
      BY <1>0, <2>0, <3>2 DEF Types, Bounds
    <3>5. \A d \in Ctx : Fits(d)'
      BY <1>0, <2>0, <3>1, <3>2 DEF Types, Fits
    <3>6. \A d \in Ctx : Reach(d)'
      BY <1>0, <3>2 DEF Types, Bounds, Reach
    <3> QED BY <3>3, <3>4, <3>5, <3>6 DEF BoundsInv
  <2>2. CASE reg[c] = END /\ op[c] = "task"
    <3>1. Return(c) /\ UNCHANGED ring /\ UNCHANGED <<torn, presses>> /\ (c = "main" => Rests)
          /\ given' = parser[c].data
      BY <1>9, <2>2 DEF Parse
    <3>2. given' \in Seq(Byte) /\ Len(given') <= BufSize
      BY <2>0, <3>1 DEF Parsers
    <3> QED BY <2>0, <3>1, <3>2, ReturnKeeps
  <2>3. CASE reg[c] = END /\ op[c] # "task"
    <3>1. Frame(pkt[c]) \in Seq(Byte) \ {<<>>} /\ pkt[c] \in Packets
      BY <1>0, <2>0, <2>3, PacketsAssumption, FrameType DEF Fits
    <3>2. /\ parser' = [parser EXCEPT ![c] = NewParser(FALSE)]
          /\ out' = [out EXCEPT ![c] = Frame(pkt[c])]
          /\ pc' = [pc EXCEPT ![c] = "put"]
          /\ UNCHANGED <<op, pkt, reg, given, ring, torn, presses>>
      BY <1>9, <2>3 DEF Parse
    <3>3. Types'
      BY <1>0, <3>1, <3>2, NewParserType DEF Types
    <3>4. Bounds'
      BY <1>0, <2>0, <3>2 DEF Types, Bounds
    <3>5. \A d \in Ctx : Fits(d)'
      BY <1>0, <2>0, <3>1, <3>2, NewParserType DEF Types, Fits
    <3>6. \A d \in Ctx : Reach(d)'
      BY <1>0, <3>2 DEF Types, Bounds, Reach
    <3> QED BY <3>3, <3>4, <3>5, <3>6 DEF BoundsInv
  <2> QED BY <2>1, <2>2, <2>3
<1> QED BY <1>1, <1>2, <1>3, <1>4, <1>5, <1>6, <1>7, <1>8, <1>9 DEF Get

\* A call begins.
LEMMA StartPutBounds ==
  ASSUME BoundsInv, NEW c \in Ctx, NEW o \in {"publish", "answer"}, NEW m \in Packets,
         pc[c] = "idle", c = "main" => Rests, StartPut(c, o, m),
         torn' \in BOOLEAN, presses' \in 0 .. MaxPress
  PROVE  BoundsInv'
<1>0. Types /\ Bounds /\ \A d \in Ctx : Fits(d) /\ Reach(d)
  BY DEF BoundsInv
<1> USE DEF Ctx, Labels, Putting, Getting, WritesPast, ReadsPast, Slack, Rests, ring
<1>1. Frame(m) \in Seq(Byte) \ {<<>>}
  BY PacketsAssumption, FrameType
<1>2. /\ op' = [op EXCEPT ![c] = o] /\ pkt' = [pkt EXCEPT ![c] = m]
      /\ out' = [out EXCEPT ![c] = Frame(m)] /\ pc' = [pc EXCEPT ![c] = "put"]
      /\ UNCHANGED <<ring, parser, reg, given>>
  BY DEF StartPut, Goto
<1>3. Types'
  BY <1>0, <1>1, <1>2 DEF Types
<1>4. Bounds'
  BY <1>0, <1>2 DEF Types, Bounds
<1>5. \A d \in Ctx : Fits(d)'
  BY <1>0, <1>1, <1>2 DEF Types, Fits
<1>6. \A d \in Ctx : Reach(d)'
  BY <1>0, <1>2 DEF Types, Reach
<1> QED BY <1>3, <1>4, <1>5, <1>6 DEF BoundsInv

LEMMA BoundsStep == BoundsInv /\ [Next]_vars => BoundsInv'
<1> SUFFICES ASSUME BoundsInv, [Next]_vars PROVE BoundsInv'
  OBVIOUS
<1>0. Types /\ Bounds /\ \A d \in Ctx : Fits(d) /\ Reach(d)
  BY DEF BoundsInv
<1>1. ASSUME NEW c \in Ctx, Step(c) PROVE BoundsInv'
  BY <1>1, PutBounds, GetBounds DEF Step
<1>2. ASSUME NEW m \in Packets, Publish(m) \/ Answer(m) PROVE BoundsInv'
  <2>1. /\ pc["main"] = "idle" /\ Rests /\ UNCHANGED <<torn, presses>>
        /\ StartPut("main", "publish", m) \/ StartPut("main", "answer", m)
    BY <1>2 DEF Publish, Answer, At, Rests
  <2>2. torn' \in BOOLEAN /\ presses' \in 0 .. MaxPress
    BY <1>0, <2>1 DEF Types
  <2> QED BY <2>1, <2>2, StartPutBounds DEF Ctx
<1>3. ASSUME NEW m \in Packets, ButtonIrq(m) PROVE BoundsInv'
  <2>1. pc["isr"] = "idle" /\ StartPut("isr", "publish", m)
    BY <1>3 DEF ButtonIrq
  <2>2. torn' \in BOOLEAN /\ presses' \in 0 .. MaxPress
    BY <1>0, <1>3, MaxPressAssumption DEF ButtonIrq, Types
  <2> QED BY <2>1, <2>2, StartPutBounds DEF Ctx
<1>4. CASE Task
  <2> USE DEF Ctx, Labels, Putting, Getting, WritesPast, ReadsPast, Slack, Rests, ring
  <2>1. PICK garbage \in BOOLEAN : parser' = [parser EXCEPT !["main"] = NewParser(garbage)]
    BY <1>4 DEF Task
  <2>2. NewParser(garbage) \in Parsers /\ Len(NewParser(garbage).data) <= BufSize
    BY GarbageType
  <2>3. /\ pc["main"] = "idle" /\ pc' = [pc EXCEPT !["main"] = "get"]
        /\ op' = [op EXCEPT !["main"] = "task"]
        /\ UNCHANGED <<ring, pkt, out, reg, given, torn, presses>>
    BY <1>4 DEF Task, At, Goto
  <2>4. Types'
    BY <1>0, <2>1, <2>2, <2>3 DEF Types
  <2>5. Bounds'
    BY <1>0, <2>3 DEF Types, Bounds
  <2>6. \A d \in Ctx : Fits(d)'
    BY <1>0, <2>1, <2>2, <2>3 DEF Types, Fits
  <2>7. \A d \in Ctx : Reach(d)'
    BY <1>0, <2>3 DEF Types, Reach
  <2> QED BY <2>4, <2>5, <2>6, <2>7 DEF BoundsInv
<1>5. CASE UNCHANGED vars
  BY <1>0, <1>5 DEF vars, ring, call, ghost, BoundsInv, Types, Bounds, Fits, Reach, WritesPast, ReadsPast, Putting, Getting
<1> QED BY <1>1, <1>2, <1>3, <1>4, <1>5 DEF Next

\* The bounds hold wherever an interrupt strikes, within an operation too.
THEOREM QueueIsBounded == Spec => []BoundsInv
BY BoundsInit, BoundsStep, PTL DEF Spec

LEMMA BoundsGiveTypes == BoundsInv => TypeOK
<1> SUFFICES ASSUME BoundsInv PROVE TypeOK
  OBVIOUS
<1>0. Types /\ Bounds /\ \A d \in Ctx : Fits(d) /\ Reach(d)
  BY DEF BoundsInv
<1>1. ASSUME NEW c \in Ctx
      PROVE  /\ pkt[c] \in Packets \cup {NoPacket} /\ out[c] \in Seq(Byte)
             /\ pc[c] \in {"put_byte", "get_byte"} => reg[c] \in Cells
             /\ Len(parser[c].data) <= BufSize
  BY <1>0, SizeAssumption DEF Types, Fits, Reach, Slack, Cells, Ctx
<1>2. /\ p_r \in 0 .. Size + 1 /\ p_w \in 0 .. Size + 1
      /\ fill_cnt \in -1 .. Size + 1
  BY <1>0 DEF Bounds
<1> QED BY <1>0, <1>1, <1>2 DEF Types, TypeOK

-----------------------------------------------------------------------------
(* Count and positions, as long as no interrupt strikes inside an operation.  *)

Betweens == {"idle", "put", "put_more", "get", "parse"}

\* Between two operations the ring is in order, whoever runs next.
LEMMA Calm ==
  ASSUME NEW a \in Betweens, NEW b \in Betweens, NEW r, NEW q, PhaseAt(a, r)
  PROVE  PhaseAt(b, q)
BY DEF PhaseAt, Ahead, Betweens, WritesPast, ReadsPast

\* The context that makes a step is the one that runs, and goes on running.
LEMMA RunsOn ==
  ASSUME Types, Alone, NEW c \in Ctx, NEW k, NEW l, At(c, k), Goto(c, l),
         k # "idle", l # "idle"
  PROVE  Running = c /\ Running' = c /\ Alone' /\ pc[c] = k /\ pc'[c] = l
<1> USE DEF Types, Alone, At, Goto, Running, Between, Ctx
<1>1. CASE c = "main"
  BY <1>1
<1>2. CASE c = "isr"
  BY <1>2
<1> QED BY <1>1, <1>2

LEMMA ReturnPhase ==
  ASSUME Types, Alone, Phase, NEW c \in Ctx, NEW k \in Betweens, At(c, k), k # "idle",
         Return(c), UNCHANGED ring
  PROVE  Alone' /\ Phase'
<1>1. pc' = [pc EXCEPT ![c] = "idle"] /\ UNCHANGED <<p_r, p_w, fill_cnt>>
  BY DEF Return, Goto, ring
<1>2. pc[c] = k /\ Running = c /\ pc' \in [Ctx -> Labels]
  BY <1>1 DEF At, Types, Running, Ctx, Labels
<1>3. Alone' /\ pc'[Running'] \in Betweens
  BY <1>1, <1>2 DEF Types, Alone, Between, Betweens, Running, Ctx, At
<1>4. PhaseAt(k, reg[c])
  BY <1>2 DEF Phase
<1>5. PhaseAt(pc'[Running'], reg'[Running'])
  BY <1>3, <1>4, Calm
<1> QED BY <1>1, <1>3, <1>5 DEF Phase, PhaseAt

\* A step inside RINGBUF_Put.
LEMMA PutPhase ==
  ASSUME Types, Alone, Phase, NEW c \in Ctx, Put(c)
  PROVE  Alone' /\ Phase'
<1> USE SizeAssumption DEF ring, call, ghost, WritesPast, ReadsPast, Betweens, Ahead
<1>1. CASE PutCount(c)
  <2>1. At(c, "put_count") /\ Goto(c, "put_load_pos")
    BY <1>1 DEF PutCount
  <2>2. Running = c /\ Running' = c /\ Alone' /\ pc[c] = "put_count" /\ pc'[c] = "put_load_pos"
    BY <2>1, RunsOn
  <2>3. PhaseAt("put_count", reg[c])
    BY <2>2 DEF Phase
  <2>4. fill_cnt' = fill_cnt + 1 /\ p_w' = p_w /\ p_r' = p_r
    BY <1>1, <2>3 DEF PutCount, PhaseAt
  <2>5. p_w \in 0 .. Size - 1 /\ p_r \in 0 .. Size - 1 /\ fill_cnt \in 0 .. Size - 1
          /\ p_w - p_r - fill_cnt \in {0, -Size}
    BY <2>3, SMTT(30) DEF PhaseAt
  <2>6. PhaseAt("put_load_pos", reg[c])'
    BY <2>4, <2>5 DEF PhaseAt
  <2> QED BY <2>2, <2>6 DEF Phase
<1>2. CASE PutNext(c)
  <2>1. At(c, "put_next") /\ Goto(c, "put_byte")
    BY <1>2 DEF PutNext
  <2>2. Running = c /\ Running' = c /\ Alone' /\ pc[c] = "put_next" /\ pc'[c] = "put_byte"
    BY <2>1, RunsOn
  <2>3. PhaseAt("put_next", reg[c])
    BY <2>2 DEF Phase
  <2>4. PhaseAt("put_byte", reg[c])'
    BY <1>2, <2>3 DEF PutNext, PhaseAt
  <2> QED BY <2>2, <2>4 DEF Phase
<1>3. CASE PutByte(c)
  <2>1. At(c, "put_byte") /\ Goto(c, "put_wrap")
    BY <1>3 DEF PutByte
  <2>2. Running = c /\ Running' = c /\ Alone' /\ pc[c] = "put_byte" /\ pc'[c] = "put_wrap"
    BY <2>1, RunsOn
  <2>3. PhaseAt("put_byte", reg[c])
    BY <2>2 DEF Phase
  <2>4. PhaseAt("put_wrap", reg[c])'
    BY <1>3, <2>3 DEF PutByte, PhaseAt
  <2> QED BY <2>2, <2>4 DEF Phase
<1>4. CASE PutReset(c)
  <2>1. At(c, "put_reset") /\ Goto(c, "put_more")
    BY <1>4 DEF PutReset
  <2>2. Running = c /\ Running' = c /\ Alone' /\ pc[c] = "put_reset" /\ pc'[c] = "put_more"
    BY <2>1, RunsOn
  <2>3. PhaseAt("put_reset", reg[c])
    BY <2>2 DEF Phase
  <2>4. p_w' = 0 /\ fill_cnt' = fill_cnt /\ p_r' = p_r
    BY <1>4, <2>3 DEF PutReset, PhaseAt
  <2>5. p_w = Size /\ p_r \in 0 .. Size - 1 /\ fill_cnt \in 0 .. Size
          /\ p_w - p_r - fill_cnt \in {0, -Size}
    BY <2>3 DEF PhaseAt
  <2>6. PhaseAt("put_more", reg[c])'
    BY <2>4, <2>5 DEF PhaseAt
  <2> QED BY <2>2, <2>6 DEF Phase
<1>5. CASE Load(c, "put_load", fill_cnt, "put_count")
  <2>1. At(c, "put_load") /\ Goto(c, "put_count") /\ reg' = [reg EXCEPT ![c] = fill_cnt] /\ UNCHANGED ring
    BY <1>5 DEF Load
  <2>2. Running = c /\ Running' = c /\ Alone' /\ pc[c] = "put_load" /\ pc'[c] = "put_count"
    BY <2>1, RunsOn
  <2>3. PhaseAt("put_load", reg[c]) /\ reg'[c] = fill_cnt
    BY <2>1, <2>2 DEF Phase, Types
  <2>4. PhaseAt("put_count", reg[c])'
    BY <2>1, <2>3 DEF PhaseAt
  <2> QED BY <2>2, <2>4 DEF Phase
<1>6. CASE Load(c, "put_load_pos", p_w, "put_next")
  <2>1. At(c, "put_load_pos") /\ Goto(c, "put_next") /\ reg' = [reg EXCEPT ![c] = p_w] /\ UNCHANGED ring
    BY <1>6 DEF Load
  <2>2. Running = c /\ Running' = c /\ Alone' /\ pc[c] = "put_load_pos" /\ pc'[c] = "put_next"
    BY <2>1, RunsOn
  <2>3. PhaseAt("put_load_pos", reg[c]) /\ reg'[c] = p_w
    BY <2>1, <2>2 DEF Phase, Types
  <2>4. PhaseAt("put_next", reg[c])'
    BY <2>1, <2>3 DEF PhaseAt
  <2> QED BY <2>2, <2>4 DEF Phase
<1>7. CASE PutTest(c)
  <2>1. CASE ~ Full
    <3>1. At(c, "put") /\ Goto(c, "put_load") /\ UNCHANGED ring
      BY <1>7, <2>1 DEF PutTest
    <3>2. Running = c /\ Running' = c /\ Alone' /\ pc[c] = "put" /\ pc'[c] = "put_load"
      BY <3>1, RunsOn
    <3>3. PhaseAt("put", reg[c])
      BY <3>2 DEF Phase
    <3>4. PhaseAt("put_load", reg[c])'
      BY <2>1, <3>1, <3>3 DEF PhaseAt, Full
    <3> QED BY <3>2, <3>4 DEF Phase
  <2>2. CASE Full /\ op[c] = "publish"
    <3>1. At(c, "put") /\ Goto(c, "get") /\ UNCHANGED ring
      BY <1>7, <2>2 DEF PutTest
    <3>2. Running = c /\ Running' = c /\ Alone' /\ pc[c] = "put" /\ pc'[c] = "get"
      BY <3>1, RunsOn
    <3>3. PhaseAt("put", reg[c])
      BY <3>2 DEF Phase
    <3>4. PhaseAt("get", reg[c])'
      BY <2>2, <3>1, <3>3 DEF PhaseAt
    <3> QED BY <3>2, <3>4 DEF Phase
  <2>3. CASE Full /\ op[c] # "publish"
    <3>1. At(c, "put") /\ Return(c) /\ UNCHANGED ring
      BY <1>7, <2>3 DEF PutTest
    <3> QED BY <3>1, ReturnPhase
  <2> QED BY <2>1, <2>2, <2>3
<1>8. CASE PutWrap(c)
  <2>1. CASE Past(p_w)
    <3>1. At(c, "put_wrap") /\ Goto(c, "put_reset") /\ UNCHANGED ring
      BY <1>8, <2>1 DEF PutWrap
    <3>2. Running = c /\ Running' = c /\ Alone' /\ pc[c] = "put_wrap" /\ pc'[c] = "put_reset"
      BY <3>1, RunsOn
    <3>3. PhaseAt("put_wrap", reg[c])
      BY <3>2 DEF Phase
    <3>4. PhaseAt("put_reset", reg[c])'
      BY <2>1, <3>1, <3>3 DEF PhaseAt, Past
    <3> QED BY <3>2, <3>4 DEF Phase
  <2>2. CASE ~ Past(p_w)
    <3>1. At(c, "put_wrap") /\ Goto(c, "put_more") /\ UNCHANGED ring
      BY <1>8, <2>2 DEF PutWrap
    <3>2. Running = c /\ Running' = c /\ Alone' /\ pc[c] = "put_wrap" /\ pc'[c] = "put_more"
      BY <3>1, RunsOn
    <3>3. PhaseAt("put_wrap", reg[c])
      BY <3>2 DEF Phase
    <3>4. PhaseAt("put_more", reg[c])'
      BY <2>2, <3>1, <3>3 DEF PhaseAt, Past
    <3> QED BY <3>2, <3>4 DEF Phase
  <2> QED BY <2>1, <2>2
<1>9. CASE PutMore(c)
  <2>1. CASE Len(out[c]) # 1
    <3>1. At(c, "put_more") /\ Goto(c, "put") /\ UNCHANGED ring
      BY <1>9, <2>1 DEF PutMore
    <3>2. Running = c /\ Running' = c /\ Alone' /\ pc[c] = "put_more" /\ pc'[c] = "put"
      BY <3>1, RunsOn
    <3>3. PhaseAt("put_more", reg[c])
      BY <3>2 DEF Phase
    <3>4. PhaseAt("put", reg[c])'
      BY <2>1, <3>1, <3>3 DEF PhaseAt
    <3> QED BY <3>2, <3>4 DEF Phase
  <2>2. CASE Len(out[c]) = 1
    <3>1. At(c, "put_more") /\ Return(c) /\ UNCHANGED ring
      BY <1>9, <2>2 DEF PutMore
    <3> QED BY <3>1, ReturnPhase
  <2> QED BY <2>1, <2>2
<1> QED BY <1>1, <1>2, <1>3, <1>4, <1>5, <1>6, <1>7, <1>8, <1>9 DEF Put

\* A step inside RINGBUF_Get, or of the parser.
LEMMA GetPhase ==
  ASSUME Types, Alone, Phase, NEW c \in Ctx, Get(c)
  PROVE  Alone' /\ Phase'
<1> USE SizeAssumption DEF ring, call, ghost, WritesPast, ReadsPast, Betweens, Ahead
<1>1. CASE GetCount(c)
  <2>1. At(c, "get_count") /\ Goto(c, "get_load_pos")
    BY <1>1 DEF GetCount
  <2>2. Running = c /\ Running' = c /\ Alone' /\ pc[c] = "get_count" /\ pc'[c] = "get_load_pos"
    BY <2>1, RunsOn
  <2>3. PhaseAt("get_count", reg[c])
    BY <2>2 DEF Phase
  <2>4. PhaseAt("get_load_pos", reg[c])'
    BY <1>1, <2>3 DEF GetCount, PhaseAt
  <2> QED BY <2>2, <2>4 DEF Phase
<1>2. CASE GetNext(c)
  <2>1. At(c, "get_next") /\ Goto(c, "get_byte")
    BY <1>2 DEF GetNext
  <2>2. Running = c /\ Running' = c /\ Alone' /\ pc[c] = "get_next" /\ pc'[c] = "get_byte"
    BY <2>1, RunsOn
  <2>3. PhaseAt("get_next", reg[c])
    BY <2>2 DEF Phase
  <2>4. PhaseAt("get_byte", reg[c])'
    BY <1>2, <2>3 DEF GetNext, PhaseAt
  <2> QED BY <2>2, <2>4 DEF Phase
<1>3. CASE GetReset(c)
  <2>1. At(c, "get_reset") /\ Goto(c, "parse")
    BY <1>3 DEF GetReset
  <2>2. Running = c /\ Running' = c /\ Alone' /\ pc[c] = "get_reset" /\ pc'[c] = "parse"
    BY <2>1, RunsOn
  <2>3. PhaseAt("get_reset", reg[c])
    BY <2>2 DEF Phase
  <2>4. p_r' = 0 /\ fill_cnt' = fill_cnt /\ p_w' = p_w
    BY <1>3, <2>3 DEF GetReset, PhaseAt
  <2>5. p_r = Size /\ p_w \in 0 .. Size - 1 /\ fill_cnt \in 0 .. Size
          /\ p_w - p_r - fill_cnt \in {0, -Size}
    BY <2>3 DEF PhaseAt
  <2>6. p_w - fill_cnt = 0 \/ p_w - fill_cnt = Size
    BY <2>5
  <2>7. p_w - fill_cnt = 0
    BY <2>5, <2>6
  <2>8. PhaseAt("parse", reg[c])'
    BY <2>4, <2>5, <2>7 DEF PhaseAt
  <2> QED BY <2>2, <2>8 DEF Phase
<1>4. CASE Load(c, "get_load", fill_cnt, "get_count")
  <2>1. At(c, "get_load") /\ Goto(c, "get_count") /\ reg' = [reg EXCEPT ![c] = fill_cnt] /\ UNCHANGED ring
    BY <1>4 DEF Load
  <2>2. Running = c /\ Running' = c /\ Alone' /\ pc[c] = "get_load" /\ pc'[c] = "get_count"
    BY <2>1, RunsOn
  <2>3. PhaseAt("get_load", reg[c]) /\ reg'[c] = fill_cnt
    BY <2>1, <2>2 DEF Phase, Types
  <2>4. PhaseAt("get_count", reg[c])'
    BY <2>1, <2>3 DEF PhaseAt
  <2> QED BY <2>2, <2>4 DEF Phase
<1>5. CASE Load(c, "get_load_pos", p_r, "get_next")
  <2>1. At(c, "get_load_pos") /\ Goto(c, "get_next") /\ reg' = [reg EXCEPT ![c] = p_r] /\ UNCHANGED ring
    BY <1>5 DEF Load
  <2>2. Running = c /\ Running' = c /\ Alone' /\ pc[c] = "get_load_pos" /\ pc'[c] = "get_next"
    BY <2>1, RunsOn
  <2>3. PhaseAt("get_load_pos", reg[c]) /\ reg'[c] = p_r
    BY <2>1, <2>2 DEF Phase, Types
  <2>4. PhaseAt("get_next", reg[c])'
    BY <2>1, <2>3 DEF PhaseAt
  <2> QED BY <2>2, <2>4 DEF Phase
<1>6. CASE Load(c, "get_byte", buf[reg[c]], "get_wrap")
  <2>1. At(c, "get_byte") /\ Goto(c, "get_wrap") /\ reg' = [reg EXCEPT ![c] = buf[reg[c]]] /\ UNCHANGED ring
    BY <1>6 DEF Load
  <2>2. Running = c /\ Running' = c /\ Alone' /\ pc[c] = "get_byte" /\ pc'[c] = "get_wrap"
    BY <2>1, RunsOn
  <2>3. PhaseAt("get_byte", reg[c]) /\ reg'[c] = buf[reg[c]]
    BY <2>1, <2>2 DEF Phase, Types
  <2>4. PhaseAt("get_wrap", reg[c])'
    BY <2>1, <2>3 DEF PhaseAt
  <2> QED BY <2>2, <2>4 DEF Phase
<1>7. CASE GetTest(c)
  <2>1. CASE fill_cnt > 0
    <3>1. At(c, "get") /\ Goto(c, "get_load") /\ UNCHANGED ring
      BY <1>7, <2>1 DEF GetTest
    <3>2. Running = c /\ Running' = c /\ Alone' /\ pc[c] = "get" /\ pc'[c] = "get_load"
      BY <3>1, RunsOn
    <3>3. PhaseAt("get", reg[c])
      BY <3>2 DEF Phase
    <3>4. PhaseAt("get_load", reg[c])'
      BY <2>1, <3>1, <3>3 DEF PhaseAt
    <3> QED BY <3>2, <3>4 DEF Phase
  <2>2. CASE ~ (fill_cnt > 0)
    <3>1. At(c, "get") /\ Return(c) /\ UNCHANGED ring
      BY <1>7, <2>2 DEF GetTest
    <3> QED BY <3>1, ReturnPhase
  <2> QED BY <2>1, <2>2
<1>8. CASE GetWrap(c)
  <2>1. CASE Past(p_r)
    <3>1. At(c, "get_wrap") /\ Goto(c, "get_reset") /\ UNCHANGED ring
      BY <1>8, <2>1 DEF GetWrap
    <3>2. Running = c /\ Running' = c /\ Alone' /\ pc[c] = "get_wrap" /\ pc'[c] = "get_reset"
      BY <3>1, RunsOn
    <3>3. PhaseAt("get_wrap", reg[c])
      BY <3>2 DEF Phase
    <3>4. PhaseAt("get_reset", reg[c])'
      BY <2>1, <3>1, <3>3 DEF PhaseAt, Past
    <3> QED BY <3>2, <3>4 DEF Phase
  <2>2. CASE ~ Past(p_r)
    <3>1. At(c, "get_wrap") /\ Goto(c, "parse") /\ UNCHANGED ring
      BY <1>8, <2>2 DEF GetWrap
    <3>2. Running = c /\ Running' = c /\ Alone' /\ pc[c] = "get_wrap" /\ pc'[c] = "parse"
      BY <3>1, RunsOn
    <3>3. PhaseAt("get_wrap", reg[c])
      BY <3>2 DEF Phase
    <3>4. PhaseAt("parse", reg[c])'
      BY <2>2, <3>1, <3>3 DEF PhaseAt, Past
    <3> QED BY <3>2, <3>4 DEF Phase
  <2> QED BY <2>1, <2>2
<1>9. CASE Parse(c)
  <2>1. CASE reg[c] # END
    <3>1. At(c, "parse") /\ Goto(c, "get") /\ UNCHANGED ring
      BY <1>9, <2>1 DEF Parse
    <3>2. Running = c /\ Running' = c /\ Alone' /\ pc[c] = "parse" /\ pc'[c] = "get"
      BY <3>1, RunsOn
    <3>3. PhaseAt("parse", reg[c])
      BY <3>2 DEF Phase
    <3>4. PhaseAt("get", reg[c])'
      BY <2>1, <3>1, <3>3 DEF PhaseAt
    <3> QED BY <3>2, <3>4 DEF Phase
  <2>2. CASE reg[c] = END /\ op[c] = "task"
    <3>1. At(c, "parse") /\ Return(c) /\ UNCHANGED ring
      BY <1>9, <2>2 DEF Parse
    <3> QED BY <3>1, ReturnPhase
  <2>3. CASE reg[c] = END /\ op[c] # "task"
    <3>1. At(c, "parse") /\ Goto(c, "put") /\ UNCHANGED ring
      BY <1>9, <2>3 DEF Parse
    <3>2. Running = c /\ Running' = c /\ Alone' /\ pc[c] = "parse" /\ pc'[c] = "put"
      BY <3>1, RunsOn
    <3>3. PhaseAt("parse", reg[c])
      BY <3>2 DEF Phase
    <3>4. PhaseAt("put", reg[c])'
      BY <2>3, <3>1, <3>3 DEF PhaseAt
    <3> QED BY <3>2, <3>4 DEF Phase
  <2> QED BY <2>1, <2>2, <2>3
<1> QED BY <1>1, <1>2, <1>3, <1>4, <1>5, <1>6, <1>7, <1>8, <1>9 DEF Get

LEMMA StartPutPhase ==
  ASSUME Types, Alone, Phase, NEW c \in Ctx, NEW o, NEW m, pc[c] = "idle",
         c = "main" => Rests, c = "isr" => Between("main"), StartPut(c, o, m)
  PROVE  Alone' /\ Phase'
<1>1. pc' = [pc EXCEPT ![c] = "put"] /\ UNCHANGED <<p_r, p_w, fill_cnt>>
  BY DEF StartPut, Goto, ring
<1>2. pc[Running] \in Betweens /\ Alone' /\ pc'[Running'] = "put"
  BY <1>1 DEF Types, Alone, Between, Betweens, Running, Rests, Ctx
<1>3. PhaseAt("put", reg'[Running'])
  BY <1>2, Calm DEF Phase, Betweens
<1> QED BY <1>1, <1>2, <1>3 DEF Phase, PhaseAt

LEMMA PhaseInit == Init => PhaseInv
BY SizeAssumption DEF Init, PhaseInv, Alone, Phase, PhaseAt, Ahead, Running, Ctx, WritesPast, ReadsPast

LEMMA PhaseStep == BoundsInv /\ PhaseInv /\ [Next]_vars => PhaseInv'
<1> SUFFICES ASSUME BoundsInv, PhaseInv, [Next]_vars, ~ torn' PROVE Alone' /\ Phase'
  BY DEF PhaseInv
<1>0. Types
  BY DEF BoundsInv
<1>1. ASSUME NEW c \in Ctx, Step(c) PROVE Alone' /\ Phase'
  <2>1. UNCHANGED torn
    BY <1>1 DEF Step, Put, Get, PutTest, Load, PutCount, PutNext, PutByte, PutWrap, PutReset,
       PutMore, GetTest, GetCount, GetNext, GetWrap, GetReset, Parse, ghost
  <2> QED BY <1>0, <1>1, <2>1, PutPhase, GetPhase DEF PhaseInv, Step
<1>2. ASSUME NEW m \in Packets, Publish(m) \/ Answer(m) PROVE Alone' /\ Phase'
  <2>1. /\ pc["main"] = "idle" /\ Rests /\ UNCHANGED torn
        /\ StartPut("main", "publish", m) \/ StartPut("main", "answer", m)
    BY <1>2 DEF Publish, Answer, At, Rests
  <2> QED BY <1>0, <2>1, StartPutPhase DEF Ctx, PhaseInv
<1>3. ASSUME NEW m \in Packets, ButtonIrq(m) PROVE Alone' /\ Phase'
  <2>1. pc["isr"] = "idle" /\ StartPut("isr", "publish", m) /\ ~ torn /\ Between("main")
    BY <1>3 DEF ButtonIrq
  <2> QED BY <1>0, <2>1, StartPutPhase DEF Ctx, PhaseInv
<1>4. CASE Task
  <2>1. /\ pc["main"] = "idle" /\ Rests /\ pc' = [pc EXCEPT !["main"] = "get"]
        /\ UNCHANGED <<p_r, p_w, fill_cnt, torn>>
    BY <1>4 DEF Task, At, Goto, ring, Rests
  <2>2. pc[Running] \in Betweens /\ Alone' /\ pc'[Running'] = "get"
    BY <1>0, <2>1 DEF Types, Alone, Betweens, Running, Rests, Ctx
  <2>3. PhaseAt("get", reg'[Running'])
    BY <2>1, <2>2, Calm DEF Phase, PhaseInv, Betweens
  <2> QED BY <2>1, <2>2, <2>3 DEF Phase, PhaseAt
<1>5. CASE UNCHANGED vars
  BY <1>5 DEF vars, ring, ghost, PhaseInv, Alone, Between, Phase, PhaseAt, Running
<1> QED BY <1>1, <1>2, <1>3, <1>4, <1>5 DEF Next

QueueInv == BoundsInv /\ PhaseInv

LEMMA QueueIsInvariant == Spec => []QueueInv
<1>1. Init => QueueInv
  BY BoundsInit, PhaseInit DEF QueueInv
<1>2. QueueInv /\ [Next]_vars => QueueInv'
  BY BoundsStep, PhaseStep DEF QueueInv
<1> QED BY <1>1, <1>2, PTL DEF Spec

\* Wherever an interrupt strikes, memory stays as TypeOK says; and as long as none
\* strikes inside an operation of the ring, ring and count agree.
THEOREM RingStaysSound == Spec => []RingIsSound
<1>1. ASSUME QueueInv PROVE RingIsSound
  <2>1. TypeOK
    BY <1>1, BoundsGiveTypes DEF QueueInv
  <2>2. ASSUME ~ torn
        PROVE  /\ fill_cnt \in 0 .. Size
               /\ \A c \in Ctx : pc[c] \in {"put_byte", "get_byte"} => reg[c] < Size
               /\ Idle => InStep
    <3>1. Alone /\ Phase
      BY <1>1, <2>2 DEF QueueInv, PhaseInv
    <3>2. fill_cnt \in 0 .. Size
      BY <3>1 DEF Phase, PhaseAt
    <3>3. ASSUME NEW c \in Ctx, pc[c] \in {"put_byte", "get_byte"} PROVE reg[c] < Size
      <4>1. Running = c
        BY <3>1, <3>3 DEF Alone, Between, Running, Ctx
      <4> QED BY <3>1, <3>3, <4>1, SizeAssumption DEF Phase, PhaseAt
    <3>4. ASSUME Idle PROVE InStep
      <4>1. pc[Running] = "idle"
        BY <3>4 DEF Idle, Running, Ctx
      <4>2. p_w - p_r - fill_cnt \in {0, -Size}
        BY <3>1, <4>1 DEF Phase, PhaseAt, Ahead
      <4>3. 0 % Size = 0 /\ (-Size) % Size = 0
        BY SizeAssumption
      <4> QED BY <4>2, <4>3 DEF InStep
    <3> QED BY <3>2, <3>3, <3>4
  <2> QED BY <2>1, <2>2 DEF RingIsSound
<1> QED BY <1>1, QueueIsInvariant, PTL

-----------------------------------------------------------------------------
(* The ring implements the queue of bytes.                                 *)

\* What the steps of the queue of bytes come to in the terms of the ring.
LEMMA RingStutters == UNCHANGED <<Stored, Hands, torn>> => [Ring!Next]_Ring!vars
BY DEF Ring!vars

LEMMA RingTurns ==
  ASSUME NEW c \in Ctx, NEW h, ~ torn, torn' = FALSE, Stored' = Stored,
         \A b \in Byte : Hands[c] # <<"put", b>>,
         h = <<>> \/ \E b \in Byte : h = <<"put", b>>,
         Hands' = [Hands EXCEPT ![c] = h]
  PROVE  [Ring!Next]_Ring!vars
<1>1. h \in {Ring!Empty} \cup {Ring!Putting(b) : b \in Byte}
  BY DEF Ring!Empty, Ring!Putting
<1>2. Ring!Turn(c)
  BY <1>1 DEF Ring!Turn, Ring!Putting
<1> QED BY <1>2 DEF Ring!Works, Ring!Next

LEMMA RingRefuses ==
  ASSUME NEW c \in Ctx, NEW b \in Byte, ~ torn, torn' = FALSE, Stored' = Stored,
         Len(Stored) = Size, Hands[c] = <<"put", b>>, Hands' = [Hands EXCEPT ![c] = <<>>]
  PROVE  [Ring!Next]_Ring!vars
<1>1. Ring!Refuse(c)
  BY DEF Ring!Refuse, Ring!Putting, Ring!Empty
<1> QED BY <1>1 DEF Ring!Works, Ring!Next

LEMMA RingPuts ==
  ASSUME NEW c \in Ctx, NEW b \in Byte, ~ torn, torn' = FALSE, Stored' = Append(Stored, b),
         Len(Stored) < Size, Hands[c] = <<"put", b>>, Hands' = [Hands EXCEPT ![c] = <<>>]
  PROVE  [Ring!Next]_Ring!vars
<1>1. Ring!Put(c)
  BY DEF Ring!Put, Ring!Putting, Ring!Empty
<1> QED BY <1>1 DEF Ring!Works, Ring!Next

LEMMA RingGets ==
  ASSUME NEW c \in Ctx, ~ torn, torn' = FALSE, Stored # <<>>, Stored' = Tail(Stored),
         Hands[c] = <<>>, Hands' = [Hands EXCEPT ![c] = <<"got", Head(Stored)>>]
  PROVE  [Ring!Next]_Ring!vars
<1>1. Ring!Get(c)
  BY DEF Ring!Get, Ring!Got, Ring!Empty
<1> QED BY <1>1 DEF Ring!Works, Ring!Next

\* One context moves, and the hand of the other stays as it is.
LEMMA HandMoves ==
  ASSUME NEW c \in Ctx, NEW h, InHand(c)' = h,
         \A d \in Ctx : d # c => pc'[d] = pc[d] /\ out'[d] = out[d] /\ reg'[d] = reg[d]
  PROVE  Hands' = [Hands EXCEPT ![c] = h] /\ Hands[c] = InHand(c)
<1>1. ASSUME NEW d \in Ctx, d # c PROVE InHand(d)' = InHand(d)
  BY <1>1 DEF InHand
<1>2. Hands' = [d \in Ctx |-> InHand(d)'] /\ Hands = [d \in Ctx |-> InHand(d)]
  BY DEF Hands
<1> QED BY <1>1, <1>2

\* The bytes stay as long as their number and the oldest of them do: the cell past
\* the last is the first.
LEMMA StoredStays ==
  ASSUME ~ torn, ~ torn', buf' = buf, Waiting' = Waiting, Oldest \in 0 .. Size,
         Waiting \in 0 .. Size, Oldest' = Oldest \/ (Oldest = Size /\ Oldest' = 0)
  PROVE  Stored' = Stored
<1>1. \A i \in 1 .. Waiting : CellFrom(Oldest', i) = CellFrom(Oldest, i)
  BY SizeAssumption DEF CellFrom
<1>2. Stored = [i \in 1 .. Waiting |-> buf[CellFrom(Oldest, i)]]
  BY DEF Stored
<1>3. Stored' = [i \in 1 .. Waiting |-> buf[CellFrom(Oldest', i)]]
  BY DEF Stored
<1> QED BY <1>1, <1>2, <1>3

LEMMA StoredIsSeq ==
  ASSUME ~ torn, buf \in [Cells -> Byte], Waiting \in 0 .. Size, Oldest \in 0 .. Size
  PROVE  /\ Stored \in Seq(Byte) /\ Len(Stored) = Waiting
         /\ \A i \in 1 .. Waiting : Stored[i] = buf[CellFrom(Oldest, i)]
<1>1. ASSUME NEW i \in 1 .. Waiting PROVE buf[CellFrom(Oldest, i)] \in Byte
  <2>1. CellFrom(Oldest, i) \in Cells
    BY SizeAssumption DEF CellFrom, Cells
  <2> HIDE DEF Cells
  <2> QED BY <2>1
<1> DEFINE s == [i \in 1 .. Waiting |-> buf[CellFrom(Oldest, i)]]
<1>2. Stored = s
  BY DEF Stored
<1>3. s \in [1 .. Waiting -> Byte]
  BY <1>1
<1>4. s \in Seq(Byte) /\ Len(s) = Waiting
  <2>1. Waiting \in Nat
    BY SizeAssumption
  <2> HIDE DEF s, Waiting, Byte
  <2>2. s \in Seq(Byte)
    BY <1>3, <2>1
  <2>3. DOMAIN s = 1 .. Waiting
    BY <1>3
  <2> QED BY <2>1, <2>2, <2>3, LenProperties
<1> QED BY <1>2, <1>4

LEMMA HandsDiffer == \A x, b : <<"got", x>> # <<"put", b>> /\ <<>> # <<"put", b>>
OBVIOUS

\* While one context makes a step, what the other holds does not change.
Waits(c) == \A d \in Ctx : d # c => pc'[d] = pc[d] /\ out'[d] = out[d] /\ reg'[d] = reg[d]

LEMMA OthersWait ==
  ASSUME Types, NEW c \in Ctx, Step(c)
  PROVE  Waits(c)
<1> USE DEF Types, Goto, Waits, ring, call, ghost
<1>1. ASSUME Return(c) PROVE Waits(c)
  BY <1>1 DEF Return
<1>2. ASSUME Put(c) PROVE Waits(c)
  <2>1. ASSUME PutTest(c) PROVE Waits(c)
    BY <1>1, <2>1 DEF PutTest
  <2>2. ASSUME PutMore(c) PROVE Waits(c)
    BY <1>1, <2>2 DEF PutMore
  <2> QED BY <1>2, <2>1, <2>2 DEF Put, Load, PutCount, PutNext, PutByte, PutWrap, PutReset
<1>3. ASSUME Get(c) PROVE Waits(c)
  <2>1. ASSUME GetTest(c) PROVE Waits(c)
    BY <1>1, <2>1 DEF GetTest
  <2>2. ASSUME Parse(c) PROVE Waits(c)
    BY <1>1, <2>2 DEF Parse
  <2> QED BY <1>3, <2>1, <2>2 DEF Get, Load, GetCount, GetNext, GetWrap, GetReset
<1> QED BY <1>2, <1>3 DEF Step

\* A step that leaves bytes and hands as they are.
LEMMA QuietStep ==
  ASSUME torn = FALSE, torn' = FALSE, NEW c \in Ctx, Waits(c),
         Stored' = Stored, InHand(c)' = InHand(c)
  PROVE  [Ring!Next]_Ring!vars
<1>1. Hands' = [Hands EXCEPT ![c] = InHand(c)] /\ Hands[c] = InHand(c)
  BY HandMoves DEF Waits
<1>2. Hands' = Hands
  BY <1>1 DEF Hands
<1> QED BY <1>2, RingStutters

\* A step that puts nothing, and takes up the next byte or none.
LEMMA TurnStep ==
  ASSUME torn = FALSE, torn' = FALSE, NEW c \in Ctx, Waits(c), NEW h, InHand(c)' = h,
         Stored' = Stored, \A b : InHand(c) # <<"put", b>>,
         h = <<>> \/ \E b \in Byte : h = <<"put", b>>
  PROVE  [Ring!Next]_Ring!vars
<1>1. Hands' = [Hands EXCEPT ![c] = h] /\ Hands[c] = InHand(c)
  BY HandMoves DEF Waits
<1> QED BY <1>1, RingTurns

LEMMA ReturnStored ==
  ASSUME Types, Alone, Phase, torn = FALSE, torn' = FALSE, NEW c \in Ctx, NEW k \in Betweens, At(c, k),
         k # "idle", Return(c), UNCHANGED ring
  PROVE  Stored' = Stored /\ InHand(c)' = <<>> /\ Waiting = fill_cnt /\ pc[c] = k
<1>1. pc' = [pc EXCEPT ![c] = "idle"] /\ UNCHANGED <<buf, p_r, p_w, fill_cnt>>
  BY DEF Return, Goto, ring
<1>2. pc[c] = k /\ Running = c
  BY DEF At, Running, Ctx
<1>3. pc'[Running'] \in Betweens /\ pc[Running] \in Betweens
  BY <1>1, <1>2 DEF Types, Alone, Between, Betweens, Running, Ctx, At
<1>4. Waiting = fill_cnt /\ Waiting' = fill_cnt /\ Oldest = p_r /\ Oldest' = p_r
  BY <1>1, <1>3 DEF Waiting, Oldest, Betweens
<1>5. fill_cnt \in 0 .. Size /\ p_r \in 0 .. Size
  BY DEF Phase, PhaseAt
<1>6. Stored' = Stored
  BY <1>1, <1>4, <1>5, StoredStays
<1>7. pc'[c] = "idle"
  BY <1>1 DEF Types
<1> QED BY <1>2, <1>4, <1>6, <1>7 DEF InHand

LEMMA AppendIs ==
  ASSUME NEW s \in Seq(Byte), NEW b \in Byte
  PROVE  Append(s, b) = [i \in 1 .. Len(s) + 1 |-> IF i = Len(s) + 1 THEN b ELSE s[i]]
<1>1. /\ Append(s, b) \in Seq(Byte) /\ Len(Append(s, b)) = Len(s) + 1
      /\ \A i \in 1 .. Len(s) : Append(s, b)[i] = s[i]
      /\ Append(s, b)[Len(s) + 1] = b /\ Len(s) \in Nat
  BY AppendProperties, LenProperties
<1>2. Append(s, b) \in [1 .. Len(s) + 1 -> Byte]
  BY <1>1, LenProperties
<1>3. \A i \in 1 .. Len(s) + 1 : Append(s, b)[i] = IF i = Len(s) + 1 THEN b ELSE s[i]
  BY <1>1
<1> QED BY <1>2, <1>3

\* A step of RINGBUF_Put.
LEMMA PutRefines ==
  ASSUME QueueInv, torn = FALSE, torn' = FALSE, NEW c \in Ctx, Put(c)
  PROVE  [Ring!Next]_Ring!vars
<1>0. /\ Types /\ Alone /\ Phase /\ Waits(c)
      /\ \A d \in Ctx : Fits(d) /\ Reach(d)
  BY OthersWait DEF QueueInv, BoundsInv, PhaseInv, Step
<1> USE <1>0, SizeAssumption
<1> USE DEF ring, call, ghost, WritesPast, ReadsPast, Betweens, Ahead
<1>1. CASE PutCount(c)
  <2>1. At(c, "put_count") /\ Goto(c, "put_load_pos") /\ buf' = buf
    BY <1>1 DEF PutCount
  <2>2. Running = c /\ Running' = c /\ pc[c] = "put_count" /\ pc'[c] = "put_load_pos"
    BY <2>1, RunsOn
  <2>3. PhaseAt("put_count", reg[c])
    BY <2>2 DEF Phase
  <2>4. Waiting' = Waiting /\ Waiting \in 0 .. Size /\ Oldest \in 0 .. Size
        /\ (Oldest' = Oldest \/ (Oldest = Size /\ Oldest' = 0))
    BY <1>1, <2>2, <2>3 DEF PutCount, Waiting, Oldest, PhaseAt
  <2>5. Stored' = Stored
    BY <2>1, <2>4, StoredStays
  <2>6. InHand(c)' = InHand(c)
    BY <1>1, <2>2 DEF PutCount, InHand
  <2> QED BY <2>5, <2>6, QuietStep
<1>2. CASE PutNext(c)
  <2>1. At(c, "put_next") /\ Goto(c, "put_byte") /\ buf' = buf
    BY <1>2 DEF PutNext
  <2>2. Running = c /\ Running' = c /\ pc[c] = "put_next" /\ pc'[c] = "put_byte"
    BY <2>1, RunsOn
  <2>3. PhaseAt("put_next", reg[c])
    BY <2>2 DEF Phase
  <2>4. Waiting' = Waiting /\ Waiting \in 0 .. Size /\ Oldest \in 0 .. Size
        /\ (Oldest' = Oldest \/ (Oldest = Size /\ Oldest' = 0))
    BY <1>2, <2>2, <2>3 DEF PutNext, Waiting, Oldest, PhaseAt
  <2>5. Stored' = Stored
    BY <2>1, <2>4, StoredStays
  <2>6. InHand(c)' = InHand(c)
    BY <1>2, <2>2 DEF PutNext, InHand
  <2> QED BY <2>5, <2>6, QuietStep
<1>3. CASE PutReset(c)
  <2>1. At(c, "put_reset") /\ Goto(c, "put_more") /\ buf' = buf
    BY <1>3 DEF PutReset
  <2>2. Running = c /\ Running' = c /\ pc[c] = "put_reset" /\ pc'[c] = "put_more"
    BY <2>1, RunsOn
  <2>3. PhaseAt("put_reset", reg[c])
    BY <2>2 DEF Phase
  <2>4. Waiting' = Waiting /\ Waiting \in 0 .. Size /\ Oldest \in 0 .. Size
        /\ (Oldest' = Oldest \/ (Oldest = Size /\ Oldest' = 0))
    BY <1>3, <2>2, <2>3 DEF PutReset, Waiting, Oldest, PhaseAt
  <2>5. Stored' = Stored
    BY <2>1, <2>4, StoredStays
  <2>6. InHand(c)' = InHand(c)
    BY <1>3, <2>2 DEF PutReset, InHand
  <2> QED BY <2>5, <2>6, QuietStep
<1>4. CASE Load(c, "put_load", fill_cnt, "put_count")
  <2>1. At(c, "put_load") /\ Goto(c, "put_count") /\ buf' = buf
    BY <1>4 DEF Load
  <2>2. Running = c /\ Running' = c /\ pc[c] = "put_load" /\ pc'[c] = "put_count"
    BY <2>1, RunsOn
  <2>3. PhaseAt("put_load", reg[c])
    BY <2>2 DEF Phase
  <2>4. Waiting' = Waiting /\ Waiting \in 0 .. Size /\ Oldest \in 0 .. Size
        /\ (Oldest' = Oldest \/ (Oldest = Size /\ Oldest' = 0))
    BY <1>4, <2>2, <2>3 DEF Load, Waiting, Oldest, PhaseAt
  <2>5. Stored' = Stored
    BY <2>1, <2>4, StoredStays
  <2>6. InHand(c)' = InHand(c)
    BY <1>4, <2>2 DEF Load, InHand
  <2> QED BY <2>5, <2>6, QuietStep
<1>5. CASE Load(c, "put_load_pos", p_w, "put_next")
  <2>1. At(c, "put_load_pos") /\ Goto(c, "put_next") /\ buf' = buf
    BY <1>5 DEF Load
  <2>2. Running = c /\ Running' = c /\ pc[c] = "put_load_pos" /\ pc'[c] = "put_next"
    BY <2>1, RunsOn
  <2>3. PhaseAt("put_load_pos", reg[c])
    BY <2>2 DEF Phase
  <2>4. Waiting' = Waiting /\ Waiting \in 0 .. Size /\ Oldest \in 0 .. Size
        /\ (Oldest' = Oldest \/ (Oldest = Size /\ Oldest' = 0))
    BY <1>5, <2>2, <2>3 DEF Load, Waiting, Oldest, PhaseAt
  <2>5. Stored' = Stored
    BY <2>1, <2>4, StoredStays
  <2>6. InHand(c)' = InHand(c)
    BY <1>5, <2>2 DEF Load, InHand
  <2> QED BY <2>5, <2>6, QuietStep
<1>6. CASE PutWrap(c)
  <2>1. CASE Past(p_w)
    <3>1. At(c, "put_wrap") /\ Goto(c, "put_reset") /\ buf' = buf
      BY <1>6, <2>1 DEF PutWrap
    <3>2. Running = c /\ Running' = c /\ pc[c] = "put_wrap" /\ pc'[c] = "put_reset"
      BY <3>1, RunsOn
    <3>3. PhaseAt("put_wrap", reg[c])
      BY <3>2 DEF Phase
    <3>4. Waiting' = Waiting /\ Waiting \in 0 .. Size /\ Oldest \in 0 .. Size
          /\ (Oldest' = Oldest \/ (Oldest = Size /\ Oldest' = 0))
      BY <1>6, <2>1, <3>2, <3>3 DEF PutWrap, Waiting, Oldest, PhaseAt
    <3>5. Stored' = Stored
      BY <3>1, <3>4, StoredStays
    <3>6. InHand(c)' = InHand(c)
      BY <1>6, <2>1, <3>2 DEF PutWrap, InHand
    <3> QED BY <3>5, <3>6, QuietStep
  <2>2. CASE ~ Past(p_w)
    <3>1. At(c, "put_wrap") /\ Goto(c, "put_more") /\ buf' = buf
      BY <1>6, <2>2 DEF PutWrap
    <3>2. Running = c /\ Running' = c /\ pc[c] = "put_wrap" /\ pc'[c] = "put_more"
      BY <3>1, RunsOn
    <3>3. PhaseAt("put_wrap", reg[c])
      BY <3>2 DEF Phase
    <3>4. Waiting' = Waiting /\ Waiting \in 0 .. Size /\ Oldest \in 0 .. Size
          /\ (Oldest' = Oldest \/ (Oldest = Size /\ Oldest' = 0))
      BY <1>6, <2>2, <3>2, <3>3 DEF PutWrap, Waiting, Oldest, PhaseAt
    <3>5. Stored' = Stored
      BY <3>1, <3>4, StoredStays
    <3>6. InHand(c)' = InHand(c)
      BY <1>6, <2>2, <3>2 DEF PutWrap, InHand
    <3> QED BY <3>5, <3>6, QuietStep
  <2> QED BY <2>1, <2>2
<1>7. CASE PutMore(c)
  <2>1. CASE Len(out[c]) # 1
    <3>0. Head(Tail(out[c])) \in Byte
      <4>1. out[c] \in Seq(Byte) /\ out[c] # <<>>
        BY <1>7 DEF PutMore, At, Types, Fits, Putting
      <4>2. Tail(out[c]) \in Seq(Byte) /\ Tail(out[c]) # <<>>
        BY <2>1, <4>1, TailKeeps
      <4> QED BY <4>2, HeadTailProperties
    <3>a. out'[c] = Tail(out[c])
      BY <1>7, <2>1 DEF PutMore, Types
    <3>1. At(c, "put_more") /\ Goto(c, "put") /\ buf' = buf
      BY <1>7, <2>1, <3>a DEF PutMore
    <3>2. Running = c /\ Running' = c /\ pc[c] = "put_more" /\ pc'[c] = "put"
      BY <3>1, RunsOn
    <3>3. PhaseAt("put_more", reg[c])
      BY <3>2 DEF Phase
    <3>4. Waiting' = Waiting /\ Waiting \in 0 .. Size /\ Oldest \in 0 .. Size
          /\ (Oldest' = Oldest \/ (Oldest = Size /\ Oldest' = 0))
      BY <1>7, <2>1, <3>a, <3>2, <3>3 DEF PutMore, Waiting, Oldest, PhaseAt
    <3>5. Stored' = Stored
      BY <3>1, <3>4, StoredStays
    <3>6. InHand(c)' = <<"put", Head(Tail(out[c]))>> /\ \A b : InHand(c) # <<"put", b>>
      BY <1>7, <2>1, <3>a, <3>2, HandsDiffer DEF PutMore, InHand
    <3>7. Head(Tail(out[c])) \in Byte
      BY <3>0
    <3> QED BY <3>5, <3>6, <3>7, TurnStep
  <2>2. CASE Len(out[c]) = 1
    <3>1. At(c, "put_more") /\ Return(c) /\ UNCHANGED ring
      BY <1>7, <2>2 DEF PutMore
    <3>2. Stored' = Stored /\ InHand(c)' = <<>> /\ pc[c] = "put_more"
      BY <3>1, ReturnStored
    <3>3. InHand(c) = <<>>
      BY <3>2 DEF InHand
    <3> QED BY <3>2, <3>3, QuietStep
  <2> QED BY <2>1, <2>2
<1>8. CASE PutTest(c)
  <2>0. Head(out[c]) \in Byte
    <3>1. out[c] \in Seq(Byte) /\ out[c] # <<>>
      BY <1>8 DEF PutTest, At, Types, Fits, Putting
    <3> QED BY <3>1, HeadTailProperties
  <2>1. CASE ~ Full
    <3>1. At(c, "put") /\ Goto(c, "put_load") /\ buf' = buf
      BY <1>8, <2>1 DEF PutTest
    <3>2. Running = c /\ Running' = c /\ pc[c] = "put" /\ pc'[c] = "put_load"
      BY <3>1, RunsOn
    <3>3. PhaseAt("put", reg[c])
      BY <3>2 DEF Phase
    <3>4. Waiting' = Waiting /\ Waiting \in 0 .. Size /\ Oldest \in 0 .. Size
          /\ (Oldest' = Oldest \/ (Oldest = Size /\ Oldest' = 0))
      BY <1>8, <2>1, <3>2, <3>3 DEF PutTest, Waiting, Oldest, PhaseAt
    <3>5. Stored' = Stored
      BY <3>1, <3>4, StoredStays
    <3>6. InHand(c)' = InHand(c)
      BY <1>8, <2>1, <3>2 DEF PutTest, InHand
    <3> QED BY <3>5, <3>6, QuietStep
  <2>2. CASE Full /\ op[c] = "publish"
    <3>1. At(c, "put") /\ Goto(c, "get") /\ buf' = buf
      BY <1>8, <2>2 DEF PutTest
    <3>2. Running = c /\ Running' = c /\ pc[c] = "put" /\ pc'[c] = "get"
      BY <3>1, RunsOn
    <3>3. PhaseAt("put", reg[c])
      BY <3>2 DEF Phase
    <3>4. Waiting' = Waiting /\ Waiting \in 0 .. Size /\ Oldest \in 0 .. Size
          /\ (Oldest' = Oldest \/ (Oldest = Size /\ Oldest' = 0))
      BY <1>8, <2>2, <3>2, <3>3 DEF PutTest, Waiting, Oldest, PhaseAt
    <3>5. Stored' = Stored
      BY <3>1, <3>4, StoredStays
    <3>6. Len(Stored) = Size
      <4>1. Waiting = Size
        BY <2>2, <3>2, <3>3 DEF PhaseAt, Full, Waiting
      <4> QED BY <3>4, <4>1, StoredIsSeq DEF Types
    <3>7. InHand(c)' = <<>> /\ InHand(c) = <<"put", Head(out[c])>>
      BY <3>2 DEF InHand
    <3>8. Hands' = [Hands EXCEPT ![c] = <<>>] /\ Hands[c] = <<"put", Head(out[c])>>
      BY <3>7, HandMoves DEF Waits
    <3> QED BY <2>0, <3>5, <3>6, <3>8, RingRefuses
  <2>3. CASE Full /\ op[c] # "publish"
    <3>1. At(c, "put") /\ Return(c) /\ UNCHANGED ring
      BY <1>8, <2>3 DEF PutTest
    <3>2. Stored' = Stored /\ InHand(c)' = <<>> /\ Waiting = fill_cnt /\ pc[c] = "put"
      BY <3>1, ReturnStored
    <3>3. PhaseAt("put", reg[c]) /\ Oldest = p_r
      BY <3>1, <3>2 DEF Phase, At, Running, Ctx, Oldest
    <3>4. Len(Stored) = Size
      <4>1. Waiting = Size /\ Oldest \in 0 .. Size
        BY <2>3, <3>2, <3>3 DEF PhaseAt, Full
      <4> QED BY <4>1, StoredIsSeq DEF Types
    <3>5. InHand(c) = <<"put", Head(out[c])>>
      BY <3>2 DEF InHand
    <3>6. Hands' = [Hands EXCEPT ![c] = <<>>] /\ Hands[c] = <<"put", Head(out[c])>>
      BY <3>2, <3>5, HandMoves DEF Waits
    <3> QED BY <2>0, <3>2, <3>4, <3>6, RingRefuses
  <2> QED BY <2>1, <2>2, <2>3
<1>9. CASE PutByte(c)
  <2>1. At(c, "put_byte") /\ Goto(c, "put_wrap")
    BY <1>9 DEF PutByte
  <2>2. Running = c /\ Running' = c /\ pc[c] = "put_byte" /\ pc'[c] = "put_wrap"
    BY <2>1, RunsOn
  <2>3. PhaseAt("put_byte", reg[c])
    BY <2>2 DEF Phase
  <2> DEFINE b == Head(out[c])
             n == fill_cnt - 1
  <2>4. out[c] \in Seq(Byte) /\ out[c] # <<>>
    BY <2>2 DEF Types, Fits, Putting
  <2>5. b \in Byte
    BY <2>4, HeadTailProperties
  <2>6. /\ Waiting = n /\ Oldest = p_r /\ n \in 0 .. Size - 1 /\ p_r \in 0 .. Size - 1
        /\ reg[c] = p_w - 1 /\ p_w \in 0 .. Size /\ p_w - p_r - n - 1 \in {0, -Size}
    BY <2>2, <2>3 DEF PhaseAt, Waiting, Oldest
  <2>7. reg[c] \in Cells
    BY <2>2 DEF Reach, Slack, Cells, Ctx
  <2>8. buf' = [buf EXCEPT ![reg[c]] = b] /\ UNCHANGED <<p_r, fill_cnt>>
    BY <1>9 DEF PutByte
  <2>9. Waiting' = n + 1 /\ Oldest' = p_r
    BY <2>2, <2>6, <2>8 DEF Types, Waiting, Oldest
  <2>10. CellFrom(p_r, n + 1) = reg[c]
    BY <2>6, <2>7 DEF CellFrom, Cells
  <2>11. \A i \in 1 .. n : CellFrom(p_r, i) # reg[c] /\ CellFrom(p_r, i) \in Cells
    BY <2>6, <2>7 DEF CellFrom, Cells
  <2>12. /\ Stored \in Seq(Byte) /\ Len(Stored) = n
         /\ \A i \in 1 .. n : Stored[i] = buf[CellFrom(p_r, i)]
    BY <2>6, StoredIsSeq DEF Types
  <2>13. buf \in [Cells -> Byte]
    BY DEF Types
  <2> HIDE DEF b, n, Cells
  <2>14. ASSUME NEW i \in 1 .. n PROVE buf'[CellFrom(p_r, i)] = Stored[i]
    BY <2>8, <2>11, <2>12, <2>13
  <2>15. buf'[CellFrom(p_r, n + 1)] = b
    BY <2>7, <2>8, <2>10, <2>13
  <2>16. Stored' = [i \in 1 .. n + 1 |-> buf'[CellFrom(p_r, i)]]
    BY <2>9 DEF Stored
  <2>17. Stored' = Append(Stored, b)
    <3>1. Append(Stored, b) = [i \in 1 .. n + 1 |-> IF i = n + 1 THEN b ELSE Stored[i]]
      BY <2>5, <2>12, AppendProperties, AppendIs
    <3>2. n \in Nat
      BY <2>12
    <3>3. \A i \in 1 .. n + 1 : buf'[CellFrom(p_r, i)] = IF i = n + 1 THEN b ELSE Stored[i]
      BY <2>14, <2>15, <3>2
    <3> QED BY <2>16, <3>1, <3>3
  <2>18. InHand(c)' = <<>> /\ InHand(c) = <<"put", b>>
    BY <2>2 DEF InHand, b
  <2>19. Hands' = [Hands EXCEPT ![c] = <<>>] /\ Hands[c] = <<"put", b>>
    BY <2>18, HandMoves DEF Waits
  <2>20. Len(Stored) < Size
    BY <2>6, <2>12
  <2> QED BY <2>5, <2>17, <2>19, <2>20, RingPuts
<1> QED BY <1>1, <1>2, <1>3, <1>4, <1>5, <1>6, <1>7, <1>8, <1>9 DEF Put

LEMMA TailIs ==
  ASSUME NEW s \in Seq(Byte), s # <<>>
  PROVE  Tail(s) = [i \in 1 .. Len(s) - 1 |-> s[i + 1]]
<1>1. /\ Tail(s) \in Seq(Byte) /\ Len(Tail(s)) = Len(s) - 1
      /\ \A i \in 1 .. Len(s) - 1 : Tail(s)[i] = s[i + 1]
  BY HeadTailProperties
<1>2. Tail(s) \in [1 .. Len(s) - 1 -> Byte]
  BY <1>1, LenProperties
<1> QED BY <1>1, <1>2

\* A step of RINGBUF_Get, or of the parser.
LEMMA GetRefines ==
  ASSUME QueueInv, torn = FALSE, torn' = FALSE, NEW c \in Ctx, Get(c)
  PROVE  [Ring!Next]_Ring!vars
<1>0. /\ Types /\ Alone /\ Phase /\ Waits(c)
      /\ \A d \in Ctx : Fits(d) /\ Reach(d)
  BY OthersWait DEF QueueInv, BoundsInv, PhaseInv, Step
<1> USE <1>0, SizeAssumption
<1> USE DEF ring, call, ghost, WritesPast, ReadsPast, Betweens, Ahead
<1>1. CASE GetCount(c)
  <2>1. At(c, "get_count") /\ Goto(c, "get_load_pos") /\ buf' = buf
    BY <1>1 DEF GetCount
  <2>2. Running = c /\ Running' = c /\ pc[c] = "get_count" /\ pc'[c] = "get_load_pos"
    BY <2>1, RunsOn
  <2>3. PhaseAt("get_count", reg[c])
    BY <2>2 DEF Phase
  <2>4. Waiting' = Waiting /\ Waiting \in 0 .. Size /\ Oldest \in 0 .. Size
        /\ (Oldest' = Oldest \/ (Oldest = Size /\ Oldest' = 0))
    BY <1>1, <2>2, <2>3 DEF GetCount, Waiting, Oldest, PhaseAt
  <2>5. Stored' = Stored
    BY <2>1, <2>4, StoredStays
  <2>6. InHand(c)' = InHand(c)
    BY <1>1, <2>2 DEF GetCount, InHand
  <2> QED BY <2>5, <2>6, QuietStep
<1>2. CASE GetNext(c)
  <2>1. At(c, "get_next") /\ Goto(c, "get_byte") /\ buf' = buf
    BY <1>2 DEF GetNext
  <2>2. Running = c /\ Running' = c /\ pc[c] = "get_next" /\ pc'[c] = "get_byte"
    BY <2>1, RunsOn
  <2>3. PhaseAt("get_next", reg[c])
    BY <2>2 DEF Phase
  <2>4. Waiting' = Waiting /\ Waiting \in 0 .. Size /\ Oldest \in 0 .. Size
        /\ (Oldest' = Oldest \/ (Oldest = Size /\ Oldest' = 0))
    BY <1>2, <2>2, <2>3 DEF GetNext, Waiting, Oldest, PhaseAt
  <2>5. Stored' = Stored
    BY <2>1, <2>4, StoredStays
  <2>6. InHand(c)' = InHand(c)
    BY <1>2, <2>2 DEF GetNext, InHand
  <2> QED BY <2>5, <2>6, QuietStep
<1>3. CASE GetReset(c)
  <2>1. At(c, "get_reset") /\ Goto(c, "parse") /\ buf' = buf
    BY <1>3 DEF GetReset
  <2>2. Running = c /\ Running' = c /\ pc[c] = "get_reset" /\ pc'[c] = "parse"
    BY <2>1, RunsOn
  <2>3. PhaseAt("get_reset", reg[c])
    BY <2>2 DEF Phase
  <2>4. Waiting' = Waiting /\ Waiting \in 0 .. Size /\ Oldest \in 0 .. Size
        /\ (Oldest' = Oldest \/ (Oldest = Size /\ Oldest' = 0))
    BY <1>3, <2>2, <2>3 DEF GetReset, Waiting, Oldest, PhaseAt
  <2>5. Stored' = Stored
    BY <2>1, <2>4, StoredStays
  <2>6. InHand(c)' = InHand(c)
    BY <1>3, <2>2 DEF GetReset, InHand
  <2> QED BY <2>5, <2>6, QuietStep
<1>4. CASE Load(c, "get_load", fill_cnt, "get_count")
  <2>1. At(c, "get_load") /\ Goto(c, "get_count") /\ buf' = buf
    BY <1>4 DEF Load
  <2>2. Running = c /\ Running' = c /\ pc[c] = "get_load" /\ pc'[c] = "get_count"
    BY <2>1, RunsOn
  <2>3. PhaseAt("get_load", reg[c])
    BY <2>2 DEF Phase
  <2>4. Waiting' = Waiting /\ Waiting \in 0 .. Size /\ Oldest \in 0 .. Size
        /\ (Oldest' = Oldest \/ (Oldest = Size /\ Oldest' = 0))
    BY <1>4, <2>2, <2>3 DEF Load, Waiting, Oldest, PhaseAt
  <2>5. Stored' = Stored
    BY <2>1, <2>4, StoredStays
  <2>6. InHand(c)' = InHand(c)
    BY <1>4, <2>2 DEF Load, InHand
  <2> QED BY <2>5, <2>6, QuietStep
<1>5. CASE Load(c, "get_load_pos", p_r, "get_next")
  <2>1. At(c, "get_load_pos") /\ Goto(c, "get_next") /\ buf' = buf
    BY <1>5 DEF Load
  <2>2. Running = c /\ Running' = c /\ pc[c] = "get_load_pos" /\ pc'[c] = "get_next"
    BY <2>1, RunsOn
  <2>3. PhaseAt("get_load_pos", reg[c])
    BY <2>2 DEF Phase
  <2>4. Waiting' = Waiting /\ Waiting \in 0 .. Size /\ Oldest \in 0 .. Size
        /\ (Oldest' = Oldest \/ (Oldest = Size /\ Oldest' = 0))
    BY <1>5, <2>2, <2>3 DEF Load, Waiting, Oldest, PhaseAt
  <2>5. Stored' = Stored
    BY <2>1, <2>4, StoredStays
  <2>6. InHand(c)' = InHand(c)
    BY <1>5, <2>2 DEF Load, InHand
  <2> QED BY <2>5, <2>6, QuietStep
<1>6. CASE GetWrap(c)
  <2>1. CASE Past(p_r)
    <3>1. At(c, "get_wrap") /\ Goto(c, "get_reset") /\ buf' = buf
      BY <1>6, <2>1 DEF GetWrap
    <3>2. Running = c /\ Running' = c /\ pc[c] = "get_wrap" /\ pc'[c] = "get_reset"
      BY <3>1, RunsOn
    <3>3. PhaseAt("get_wrap", reg[c])
      BY <3>2 DEF Phase
    <3>4. Waiting' = Waiting /\ Waiting \in 0 .. Size /\ Oldest \in 0 .. Size
          /\ (Oldest' = Oldest \/ (Oldest = Size /\ Oldest' = 0))
      BY <1>6, <2>1, <3>2, <3>3 DEF GetWrap, Waiting, Oldest, PhaseAt
    <3>5. Stored' = Stored
      BY <3>1, <3>4, StoredStays
    <3>6. InHand(c)' = InHand(c)
      BY <1>6, <2>1, <3>2 DEF GetWrap, InHand
    <3> QED BY <3>5, <3>6, QuietStep
  <2>2. CASE ~ Past(p_r)
    <3>1. At(c, "get_wrap") /\ Goto(c, "parse") /\ buf' = buf
      BY <1>6, <2>2 DEF GetWrap
    <3>2. Running = c /\ Running' = c /\ pc[c] = "get_wrap" /\ pc'[c] = "parse"
      BY <3>1, RunsOn
    <3>3. PhaseAt("get_wrap", reg[c])
      BY <3>2 DEF Phase
    <3>4. Waiting' = Waiting /\ Waiting \in 0 .. Size /\ Oldest \in 0 .. Size
          /\ (Oldest' = Oldest \/ (Oldest = Size /\ Oldest' = 0))
      BY <1>6, <2>2, <3>2, <3>3 DEF GetWrap, Waiting, Oldest, PhaseAt
    <3>5. Stored' = Stored
      BY <3>1, <3>4, StoredStays
    <3>6. InHand(c)' = InHand(c)
      BY <1>6, <2>2, <3>2 DEF GetWrap, InHand
    <3> QED BY <3>5, <3>6, QuietStep
  <2> QED BY <2>1, <2>2
<1>7. CASE GetTest(c)
  <2>1. CASE fill_cnt > 0
    <3>1. At(c, "get") /\ Goto(c, "get_load") /\ buf' = buf
      BY <1>7, <2>1 DEF GetTest
    <3>2. Running = c /\ Running' = c /\ pc[c] = "get" /\ pc'[c] = "get_load"
      BY <3>1, RunsOn
    <3>3. PhaseAt("get", reg[c])
      BY <3>2 DEF Phase
    <3>4. Waiting' = Waiting /\ Waiting \in 0 .. Size /\ Oldest \in 0 .. Size
          /\ (Oldest' = Oldest \/ (Oldest = Size /\ Oldest' = 0))
      BY <1>7, <2>1, <3>2, <3>3 DEF GetTest, Waiting, Oldest, PhaseAt
    <3>5. Stored' = Stored
      BY <3>1, <3>4, StoredStays
    <3>6. InHand(c)' = InHand(c)
      BY <1>7, <2>1, <3>2 DEF GetTest, InHand
    <3> QED BY <3>5, <3>6, QuietStep
  <2>2. CASE ~ (fill_cnt > 0)
    <3>1. At(c, "get") /\ Return(c) /\ UNCHANGED ring
      BY <1>7, <2>2 DEF GetTest
    <3>2. Stored' = Stored /\ InHand(c)' = <<>> /\ pc[c] = "get"
      BY <3>1, ReturnStored
    <3>3. InHand(c) = <<>>
      BY <3>2 DEF InHand
    <3> QED BY <3>2, <3>3, QuietStep
  <2> QED BY <2>1, <2>2
<1>8. CASE Parse(c)
  <2>1. CASE reg[c] # END
    <3>1. At(c, "parse") /\ Goto(c, "get") /\ buf' = buf
      BY <1>8, <2>1 DEF Parse
    <3>2. Running = c /\ Running' = c /\ pc[c] = "parse" /\ pc'[c] = "get"
      BY <3>1, RunsOn
    <3>3. PhaseAt("parse", reg[c])
      BY <3>2 DEF Phase
    <3>4. Waiting' = Waiting /\ Waiting \in 0 .. Size /\ Oldest \in 0 .. Size
          /\ (Oldest' = Oldest \/ (Oldest = Size /\ Oldest' = 0))
      BY <1>8, <2>1, <3>2, <3>3 DEF Parse, Waiting, Oldest, PhaseAt
    <3>5. Stored' = Stored
      BY <3>1, <3>4, StoredStays
    <3>6. InHand(c)' = <<>> /\ \A b : InHand(c) # <<"put", b>>
      BY <1>8, <2>1, <3>2, HandsDiffer DEF Parse, InHand
    <3> QED BY <3>5, <3>6, TurnStep
  <2>2. CASE reg[c] = END /\ op[c] = "task"
    <3>1. At(c, "parse") /\ Return(c) /\ UNCHANGED ring
      BY <1>8, <2>2 DEF Parse
    <3>2. Stored' = Stored /\ InHand(c)' = <<>> /\ pc[c] = "parse"
      BY <3>1, ReturnStored
    <3>3. \A b : InHand(c) # <<"put", b>>
      BY <3>2, HandsDiffer DEF InHand
    <3> QED BY <3>2, <3>3, TurnStep
  <2>3. CASE reg[c] = END /\ op[c] # "task"
    <3>0. Head(Frame(pkt[c])) \in Byte
      <4>1. pkt[c] \in Packets
        BY <1>8, <2>3 DEF Parse, At, Fits, Getting
      <4>2. Frame(pkt[c]) \in Seq(Byte) /\ Frame(pkt[c]) # <<>>
        BY <4>1, PacketsAssumption, FrameType
      <4> QED BY <4>2, HeadTailProperties
    <3>a. out'[c] = Frame(pkt[c])
      BY <1>8, <2>3 DEF Parse, Types
    <3>1. At(c, "parse") /\ Goto(c, "put") /\ buf' = buf
      BY <1>8, <2>3, <3>a DEF Parse
    <3>2. Running = c /\ Running' = c /\ pc[c] = "parse" /\ pc'[c] = "put"
      BY <3>1, RunsOn
    <3>3. PhaseAt("parse", reg[c])
      BY <3>2 DEF Phase
    <3>4. Waiting' = Waiting /\ Waiting \in 0 .. Size /\ Oldest \in 0 .. Size
          /\ (Oldest' = Oldest \/ (Oldest = Size /\ Oldest' = 0))
      BY <1>8, <2>3, <3>a, <3>2, <3>3 DEF Parse, Waiting, Oldest, PhaseAt
    <3>5. Stored' = Stored
      BY <3>1, <3>4, StoredStays
    <3>6. InHand(c)' = <<"put", Head(Frame(pkt[c]))>> /\ \A b : InHand(c) # <<"put", b>>
      BY <1>8, <2>3, <3>a, <3>2, HandsDiffer DEF Parse, InHand
    <3>7. Head(Frame(pkt[c])) \in Byte
      BY <3>0
    <3> QED BY <3>5, <3>6, <3>7, TurnStep
  <2> QED BY <2>1, <2>2, <2>3
<1>9. CASE Load(c, "get_byte", buf[reg[c]], "get_wrap")
  <2>1. /\ At(c, "get_byte") /\ Goto(c, "get_wrap") /\ reg' = [reg EXCEPT ![c] = buf[reg[c]]]
        /\ UNCHANGED <<buf, p_r, p_w, fill_cnt>>
    BY <1>9 DEF Load
  <2>2. Running = c /\ Running' = c /\ pc[c] = "get_byte" /\ pc'[c] = "get_wrap"
    BY <2>1, RunsOn
  <2>3. PhaseAt("get_byte", reg[c])
    BY <2>2 DEF Phase
  <2> DEFINE n == fill_cnt + 1
             first == reg[c]
             b == buf[first]
  <2>4. /\ Waiting = n /\ Oldest = first /\ n \in 1 .. Size /\ first \in 0 .. Size - 1
        /\ first = p_r - 1 /\ p_r \in 0 .. Size
    <3>1. reg[c] >= 0
      BY <2>2 DEF Reach, Slack
    <3> QED BY <2>2, <2>3, <3>1 DEF PhaseAt, Waiting, Oldest
  <2>5. Waiting' = n - 1 /\ Oldest' = first + 1
    BY <2>1, <2>2, <2>3, <2>4 DEF Waiting, Oldest, PhaseAt
  <2>6. /\ Stored \in Seq(Byte) /\ Len(Stored) = n
        /\ \A i \in 1 .. n : Stored[i] = buf[CellFrom(first, i)]
    BY <2>4, StoredIsSeq DEF Types
  <2>7. Stored' = [i \in 1 .. n - 1 |-> buf[CellFrom(first + 1, i)]]
    BY <2>1, <2>5 DEF Stored
  <2>8. /\ CellFrom(first, 1) = first
        /\ \A i \in 1 .. n - 1 : CellFrom(first + 1, i) = CellFrom(first, i + 1)
    BY <2>4 DEF CellFrom
  <2>9. reg'[c] = b
    BY <2>1 DEF Types
  <2>10. InHand(c)' = <<"got", b>> /\ InHand(c) = <<>>
    BY <2>2, <2>9 DEF InHand
  <2> HIDE DEF n, b, first
  <2>11. Stored # <<>> /\ Head(Stored) = b
    BY <2>4, <2>6, <2>8 DEF b
  <2>12. Stored' = Tail(Stored)
    <3>1. Tail(Stored) = [i \in 1 .. n - 1 |-> Stored[i + 1]]
      BY <2>4, <2>6, TailIs
    <3>2. \A i \in 1 .. n - 1 : buf[CellFrom(first + 1, i)] = Stored[i + 1]
      BY <2>4, <2>6, <2>8
    <3> QED BY <2>7, <3>1, <3>2
  <2>13. Hands' = [Hands EXCEPT ![c] = <<"got", b>>] /\ Hands[c] = <<>>
    BY <2>10, HandMoves DEF Waits
  <2> QED BY <2>11, <2>12, <2>13, RingGets
<1> QED BY <1>1, <1>2, <1>3, <1>4, <1>5, <1>6, <1>7, <1>8, <1>9 DEF Get

LEMMA StartPutRefines ==
  ASSUME QueueInv, torn = FALSE, torn' = FALSE, NEW c \in Ctx, NEW o, NEW m \in Packets,
         pc[c] = "idle", c = "main" => Rests, c = "isr" => Between("main"), StartPut(c, o, m)
  PROVE  [Ring!Next]_Ring!vars
<1>1. /\ pc' = [pc EXCEPT ![c] = "put"] /\ out' = [out EXCEPT ![c] = Frame(m)]
      /\ UNCHANGED <<reg, buf, p_r, p_w, fill_cnt>>
  BY DEF StartPut, Goto, ring
<1>2. Types /\ Alone /\ Phase
  BY DEF QueueInv, BoundsInv, PhaseInv
<1>3. Waits(c) /\ pc'[c] = "put" /\ out'[c] = Frame(m)
  BY <1>1, <1>2 DEF Types, Waits
<1>4. pc[Running] \in Betweens /\ pc'[Running'] = "put"
  BY <1>1, <1>2 DEF Types, Alone, Between, Betweens, Running, Rests, Ctx
<1>5. /\ Waiting = fill_cnt /\ Waiting' = fill_cnt /\ Oldest = p_r /\ Oldest' = p_r
      /\ fill_cnt \in 0 .. Size /\ p_r \in 0 .. Size
  BY <1>1, <1>2, <1>4 DEF Waiting, Oldest, Betweens, Phase, PhaseAt
<1>6. Stored' = Stored
  BY <1>1, <1>5, StoredStays
<1>7. /\ InHand(c)' = <<"put", Head(Frame(m))>>
      /\ \A b : InHand(c) # <<"put", b>>
  BY <1>3, HandsDiffer DEF InHand
<1>8. Head(Frame(m)) \in Byte
  BY PacketsAssumption, FrameType, HeadTailProperties
<1> QED BY <1>3, <1>6, <1>7, <1>8, TurnStep

LEMMA TaskRefines ==
  ASSUME QueueInv, torn = FALSE, torn' = FALSE, Task
  PROVE  [Ring!Next]_Ring!vars
<1>1. /\ pc["main"] = "idle" /\ Rests /\ pc' = [pc EXCEPT !["main"] = "get"]
      /\ UNCHANGED <<reg, out, buf, p_r, p_w, fill_cnt>>
  BY DEF Task, At, Goto, ring, Rests
<1>2. Types /\ Alone /\ Phase
  BY DEF QueueInv, BoundsInv, PhaseInv
<1>3. Waits("main") /\ pc'["main"] = "get" /\ "main" \in Ctx
  BY <1>1, <1>2 DEF Types, Waits, Ctx
<1>4. pc[Running] \in Betweens /\ pc'[Running'] = "get"
  BY <1>1, <1>2 DEF Types, Betweens, Running, Rests, Ctx
<1>5. /\ Waiting = fill_cnt /\ Waiting' = fill_cnt /\ Oldest = p_r /\ Oldest' = p_r
      /\ fill_cnt \in 0 .. Size /\ p_r \in 0 .. Size
  BY <1>1, <1>2, <1>4 DEF Waiting, Oldest, Betweens, Phase, PhaseAt
<1>6. Stored' = Stored
  BY <1>1, <1>5, StoredStays
<1>7. InHand("main")' = <<>> /\ \A b : InHand("main") # <<"put", b>>
  BY <1>1, <1>3, HandsDiffer DEF InHand
<1> QED BY <1>3, <1>6, <1>7, TurnStep

LEMMA RingStep == QueueInv /\ [Next]_vars => [Ring!Next]_Ring!vars
<1> SUFFICES ASSUME QueueInv, [Next]_vars PROVE [Ring!Next]_Ring!vars
  OBVIOUS
<1>0. Types /\ Types'
  BY BoundsStep DEF QueueInv, BoundsInv
<1>1. CASE torn' # FALSE
  <2>1. torn' = TRUE
    BY <1>0, <1>1 DEF Types
  <2> QED BY <2>1 DEF Ring!Next
<1>2. CASE torn' = FALSE
  <2>1. torn = FALSE
    BY <1>0, <1>2 DEF Types, Next, Step, Put, Get, PutTest, Load, PutCount, PutNext,
       PutByte, PutWrap, PutReset, PutMore, GetTest, GetCount, GetNext, GetWrap, GetReset,
       Parse, Publish, Answer, ButtonIrq, Task, ghost, vars
  <2>2. ASSUME NEW c \in Ctx, Step(c) PROVE [Ring!Next]_Ring!vars
    BY <1>2, <2>1, <2>2, PutRefines, GetRefines DEF Step
  <2>3. ASSUME NEW m \in Packets, Publish(m) \/ Answer(m) PROVE [Ring!Next]_Ring!vars
    <3>1. /\ pc["main"] = "idle" /\ Rests
          /\ StartPut("main", "publish", m) \/ StartPut("main", "answer", m)
      BY <2>3 DEF Publish, Answer, At, Rests
    <3> QED BY <1>2, <2>1, <3>1, StartPutRefines DEF Ctx
  <2>4. ASSUME NEW m \in Packets, ButtonIrq(m) PROVE [Ring!Next]_Ring!vars
    <3>1. pc["isr"] = "idle" /\ StartPut("isr", "publish", m) /\ Between("main")
      BY <1>2, <2>4 DEF ButtonIrq
    <3> QED BY <1>2, <2>1, <3>1, StartPutRefines DEF Ctx
  <2>5. CASE Task
    BY <1>2, <2>1, <2>5, TaskRefines
  <2>6. CASE UNCHANGED vars
    <3>1. UNCHANGED <<Stored, Hands, torn>>
      BY <2>6 DEF vars, ring, call, ghost, Stored, Waiting, Running, Oldest, Hands, InHand
    <3> QED BY <3>1, RingStutters
  <2> QED BY <2>2, <2>3, <2>4, <2>5, <2>6 DEF Next
<1> QED BY <1>1, <1>2

\* ringbuf.c keeps its promise: a FIFO of bytes, for every size of the ring, every
\* set of packets and any number of interrupts, until one strikes inside an
\* operation.
THEOREM RingImplementsBytes == Spec => ImplementsBytes
<1>1. ASSUME Init PROVE Ring!Init
  <2>1. torn = FALSE /\ Waiting = 0 /\ \A c \in Ctx : InHand(c) = <<>>
    BY <1>1 DEF Init, Waiting, Running, InHand, Ctx
  <2>2. Stored = <<>>
    <3>1. Stored = [i \in 1 .. 0 |-> buf[CellFrom(Oldest, i)]]
      BY <2>1 DEF Stored
    <3> QED BY <3>1
  <2>3. Hands = [c \in Ctx |-> <<>>]
    BY <2>1 DEF Hands
  <2> QED BY <2>1, <2>2, <2>3 DEF Ring!Init, Ring!Empty
<1> QED BY <1>1, RingStep, QueueIsInvariant, PTL DEF Spec, ImplementsBytes, Ring!Spec

-----------------------------------------------------------------------------
(* The shape of a frame.                                                   *)

\* Neither BEGIN nor END.
IsInner(s) == \A i \in 1 .. Len(s) : s[i] \notin {BEGIN, END}

LEMMA FlipInner ==
  ASSUME NEW b \in Byte, b \in {BEGIN, END, ESC}
  PROVE  Flip(b) \notin {BEGIN, END, ESC} /\ Flip(Flip(b)) = b /\ Flip(b) \in Byte
<1>1. CASE b = 126
  <2>1. Flip(126) = 94 /\ Flip(94) = 126
    BY SMT DEF Flip
  <2> QED BY <1>1, <2>1 DEF BEGIN, END, ESC, Byte
<1>2. CASE b = 127
  <2>1. Flip(127) = 95 /\ Flip(95) = 127
    BY SMT DEF Flip
  <2> QED BY <1>2, <2>1 DEF BEGIN, END, ESC, Byte
<1>3. CASE b = 125
  <2>1. Flip(125) = 93 /\ Flip(93) = 125
    BY SMT DEF Flip
  <2> QED BY <1>3, <2>1 DEF BEGIN, END, ESC, Byte
<1> QED BY <1>1, <1>2, <1>3 DEF BEGIN, END, ESC

LEMMA EscapedInner ==
  ASSUME NEW b \in Byte
  PROVE  Escaped(b) \in Seq(Byte) /\ Len(Escaped(b)) \in {1, 2} /\ IsInner(Escaped(b))
<1>1. CASE b \in {BEGIN, END, ESC}
  <2> DEFINE x == Flip(b)
  <2>1. x \notin {BEGIN, END, ESC} /\ x \in Byte /\ ESC \in Byte /\ ESC \notin {BEGIN, END}
    BY <1>1, FlipInner DEF Byte, ESC, BEGIN, END
  <2>2. Escaped(b) = <<ESC, x>>
    BY <1>1 DEF Escaped
  <2> HIDE DEF x
  <2> HIDE DEF Byte
  <2> QED BY <2>1, <2>2 DEF IsInner
<1>2. CASE b \notin {BEGIN, END, ESC}
  <2>2. Escaped(b) = <<b>>
    BY <1>2 DEF Escaped
  <2> HIDE DEF Byte
  <2> QED BY <1>2, <2>2 DEF IsInner
<1> QED BY <1>1, <1>2

\* What concatenation does, as one predicate.
Follows(s, t, r) ==
  /\ r \in Seq(Byte) /\ Len(r) = Len(s) + Len(t)
  /\ \A i \in 1 .. Len(s) : r[i] = s[i]
  /\ \A i \in 1 .. Len(t) : r[Len(s) + i] = t[i]

LEMMA FollowsIs ==
  ASSUME NEW s \in Seq(Byte), NEW t \in Seq(Byte)
  PROVE  Follows(s, t, s \o t)
<1> HIDE DEF Byte
<1> DEFINE r == s \o t
<1>1. r \in Seq(Byte) /\ Len(r) = Len(s) + Len(t) /\ Len(s) \in Nat /\ Len(t) \in Nat
  BY ConcatProperties, LenProperties
<1>2. \A i \in 1 .. Len(s) + Len(t) : r[i] = IF i <= Len(s) THEN s[i] ELSE t[i - Len(s)]
  BY ConcatProperties
<1> HIDE DEF r
<1>3. ASSUME NEW i \in 1 .. Len(t) PROVE r[Len(s) + i] = t[i]
  <2>1. Len(s) + i \in 1 .. Len(s) + Len(t) /\ ~ (Len(s) + i <= Len(s)) /\ (Len(s) + i) - Len(s) = i
    BY <1>1
  <2> QED BY <1>2, <2>1
<1>4. ASSUME NEW i \in 1 .. Len(s) PROVE r[i] = s[i]
  BY <1>1, <1>2
<1> QED BY <1>1, <1>3, <1>4 DEF Follows, r

\* One byte more.
Longer(s, b, r) ==
  /\ r \in Seq(Byte) /\ Len(r) = Len(s) + 1 /\ r[Len(s) + 1] = b
  /\ \A i \in 1 .. Len(s) : r[i] = s[i]

LEMMA LongerIs ==
  ASSUME NEW s \in Seq(Byte), NEW b \in Byte
  PROVE  Longer(s, b, Append(s, b))
<1> HIDE DEF Byte
<1> QED BY AppendProperties, LenProperties DEF Longer

\* BEGIN comes first and END last, and both only there.
IsFrame(s) ==
  /\ s \in Seq(Byte) /\ Len(s) >= 2 /\ s[1] = BEGIN /\ s[Len(s)] = END
  /\ \A i \in 2 .. Len(s) - 1 : s[i] \notin {BEGIN, END}

LEMMA BodyShape ==
  ASSUME NEW m \in Seq(Byte), NEW f, IsBody(f, m)
  PROVE  \A i \in 0 .. Len(m) :
           /\ f[i] \in Seq(Byte) /\ Len(f[i]) >= 1 /\ f[i][1] = BEGIN
           /\ \A j \in 2 .. Len(f[i]) : f[i][j] \notin {BEGIN, END}
<1> DEFINE n == Len(m)
           Good(s) == /\ s \in Seq(Byte) /\ Len(s) >= 1 /\ s[1] = BEGIN
                      /\ \A j \in 2 .. Len(s) : s[j] \notin {BEGIN, END}
           T == {i \in 0 .. n : Good(f[i])}
<1>1. n \in Nat /\ f \in [0 .. n -> Seq(Byte)]
  BY DEF IsBody
<1>2. 0 \in T
  <2>1. f[0] = <<BEGIN>> /\ BEGIN \in Byte
    BY DEF IsBody, Byte, BEGIN
  <2> QED BY <1>1, <2>1
<1>3. ASSUME NEW i \in 0 .. n - 1, i \in T PROVE i + 1 \in T
  <2> DEFINE s == f[i]
             e == Escaped(m[i + 1])
             r == s \o e
  <2>1. i + 1 \in 1 .. n /\ m[i + 1] \in Byte /\ (i + 1) - 1 = i
    BY <1>1
  <2>2. f[i + 1] = r
    BY <2>1 DEF IsBody
  <2>3. e \in Seq(Byte) /\ IsInner(e) /\ Len(e) \in {1, 2}
    BY <2>1, EscapedInner
  <2>4. Good(s)
    BY <1>3
  <2>5. Follows(s, e, r)
    BY <2>3, <2>4, FollowsIs
  <2> HIDE DEF s, e, r
  <2>6. Len(s) \in Nat /\ Len(e) \in Nat /\ Len(s) >= 1
    BY <2>3, <2>4
  <2>7. ASSUME NEW j \in 2 .. Len(r) PROVE r[j] \notin {BEGIN, END}
    <3>1. CASE j <= Len(s)
      BY <2>4, <2>5, <2>6, <3>1 DEF Follows
    <3>2. CASE j > Len(s)
      <4>1. j - Len(s) \in 1 .. Len(e) /\ Len(s) + (j - Len(s)) = j
        BY <2>5, <2>6, <3>2 DEF Follows
      <4>2. r[j] = e[j - Len(s)]
        BY <2>5, <4>1 DEF Follows
      <4> QED BY <2>3, <4>1, <4>2 DEF IsInner
    <3> QED BY <2>5, <2>6, <3>1, <3>2 DEF Follows
  <2>8. r \in Seq(Byte) /\ Len(r) >= 1 /\ r[1] = BEGIN
    BY <2>4, <2>5, <2>6 DEF Follows
  <2> QED BY <1>1, <2>1, <2>2, <2>7, <2>8
<1> HIDE DEF T
<1>4. \A i \in 0 .. n : i \in T
  BY <1>1, <1>2, <1>3, IntervalInduction
<1> QED BY <1>4 DEF T

LEMMA FrameShape == ASSUME NEW m \in Seq(Byte) PROVE IsFrame(Frame(m))
<1>1. PICK f : IsBody(f, m) /\ Frame(m) = Append(f[Len(m)], END)
  BY FrameBody
<1> DEFINE s == f[Len(m)]
           r == Append(s, END)
<1>2. /\ s \in Seq(Byte) /\ Len(s) >= 1 /\ s[1] = BEGIN
      /\ \A j \in 2 .. Len(s) : s[j] \notin {BEGIN, END}
  <2>1. Len(m) \in 0 .. Len(m)
    OBVIOUS
  <2> QED BY <1>1, <2>1, BodyShape
<1>3. Longer(s, END, r)
  <2>1. END \in Byte
    BY DEF END, Byte
  <2> QED BY <1>2, <2>1, LongerIs
<1>4. Frame(m) = r
  BY <1>1
<1> HIDE DEF s, r
<1>5. Len(s) \in Nat
  BY <1>2
<1> QED BY <1>2, <1>3, <1>4, <1>5, SMTT(30) DEF IsFrame, Longer

LEMMA FramesAre ==
  ASSUME NEW m \in Packets
  PROVE  /\ Frames[m] = Frame(m) /\ IsFrame(Frames[m]) /\ FrameLength(m) = Len(Frames[m])
         /\ FrameLength(m) \in Nat /\ FrameLength(m) >= 2
<1>1. m \in Seq(Byte) /\ Frames[m] = Frame(m)
  BY PacketsAssumption DEF Frames
<1>2. IsFrame(Frames[m])
  BY <1>1, FrameShape
<1> QED BY <1>1, <1>2 DEF FrameLength, IsFrame

-----------------------------------------------------------------------------
(* What the parser makes of a frame.                                       *)

\* Packet byte by packet byte, the body of a frame is what the frame starts with.
Builds(b, m, F) ==
  \A k \in 0 .. Len(m) :
    /\ b[k] \in Seq(Byte) /\ Len(b[k]) + 1 <= Len(F)
    /\ \A i \in 1 .. Len(b[k]) : F[i] = b[k][i]

LEMMA BodyPrefix ==
  ASSUME NEW m \in Seq(Byte), NEW b, IsBody(b, m), NEW F, F = Append(b[Len(m)], END)
  PROVE  Builds(b, m, F)
<1> DEFINE n == Len(m)
           Starts(s) == /\ s \in Seq(Byte) /\ Len(s) + 1 <= Len(F)
                        /\ \A i \in 1 .. Len(s) : F[i] = s[i]
           T == {k \in 0 .. n : Starts(b[k])}
<1>1. n \in Nat /\ b \in [0 .. n -> Seq(Byte)] /\ END \in Byte
  BY DEF IsBody, END, Byte
<1>2. n \in T
  <2> DEFINE s == b[n]
  <2>1. s \in Seq(Byte) /\ F = Append(s, END)
    BY <1>1
  <2> HIDE DEF s
  <2>2. Longer(s, END, F)
    BY <1>1, <2>1, LongerIs
  <2>3. Starts(s)
    BY <2>1, <2>2 DEF Longer
  <2> QED BY <1>1, <2>3 DEF s
<1>3. ASSUME NEW k \in 0 .. n - 1, k + 1 \in T PROVE k \in T
  <2> DEFINE s == b[k]
             e == Escaped(m[k + 1])
             r == b[k + 1]
  <2>1. k + 1 \in 1 .. n /\ m[k + 1] \in Byte /\ (k + 1) - 1 = k
    BY <1>1
  <2>2. r = s \o e /\ s \in Seq(Byte) /\ e \in Seq(Byte)
    <3>1. b[k + 1] = b[(k + 1) - 1] \o Escaped(m[k + 1])
      BY <2>1 DEF IsBody
    <3>2. Escaped(m[k + 1]) \in Seq(Byte)
      BY <2>1, EscapedInner
    <3>3. k \in 0 .. n
      BY <1>1
    <3>4. b[k] \in Seq(Byte)
      BY <1>1, <3>3
    <3> QED BY <2>1, <3>1, <3>2, <3>4
  <2>3. Starts(r)
    BY <1>3
  <2> HIDE DEF s, e, r
  <2>4. Follows(s, e, r)
    BY <2>2, FollowsIs
  <2>5. Len(s) \in Nat /\ Len(e) \in Nat /\ Len(F) \in Nat
    BY <1>1, <1>2, <2>2 DEF IsBody
  <2>6. Starts(s)
    BY <2>2, <2>3, <2>4, <2>5 DEF Follows
  <2> QED BY <1>1, <2>1, <2>6 DEF s
<1> HIDE DEF T
<1>4. \A k \in 0 .. n : k \in T
  BY <1>1, <1>2, <1>3, DownInduction
<1> QED BY <1>4 DEF T, Builds

\* The parser after the first k bytes of the packet m.
HasRead(p, m, k) ==
  /\ p \in Parsers /\ p.begin = TRUE /\ p.esc = FALSE /\ Len(p.data) = k
  /\ \A i \in 1 .. k : p.data[i] = m[i]

LEMMA ReadsPlain ==
  ASSUME NEW m \in Seq(Byte), NEW k \in 0 .. Len(m) - 1, NEW p, Len(m) <= BufSize,
         HasRead(p, m, k), m[k + 1] \notin {ESC, BEGIN, END}
  PROVE  HasRead(ParseByte(p, m[k + 1]), m, k + 1)
<1> DEFINE x == m[k + 1]
           d == Append(p.data, x)
           q == [p EXCEPT !.esc = FALSE, !.data = d]
<1>1. x \in Byte /\ p.data \in Seq(Byte) /\ Len(p.data) < BufSize /\ k + 1 \in 1 .. Len(m)
  BY SizeAssumption DEF HasRead, Parsers
<1>2. Longer(p.data, x, d)
  BY <1>1, LongerIs
<1>3. ParseByte(p, x) = q
  BY <1>1 DEF ParseByte, HasRead
<1> HIDE DEF d
<1>4. q \in Parsers /\ q.begin = TRUE /\ q.esc = FALSE /\ q.data = d
  BY <1>2 DEF HasRead, Parsers, Longer
<1>5. Len(d) = k + 1 /\ \A i \in 1 .. k + 1 : d[i] = m[i]
  BY <1>2 DEF Longer, HasRead
<1> HIDE DEF q
<1> QED BY <1>3, <1>4, <1>5 DEF HasRead

\* Two bytes for one that framing needs.
LEMMA ReadsEscaped ==
  ASSUME NEW m \in Seq(Byte), NEW k \in 0 .. Len(m) - 1, NEW p, Len(m) <= BufSize,
         HasRead(p, m, k), m[k + 1] \in {ESC, BEGIN, END}
  PROVE  HasRead(ParseByte(ParseByte(p, ESC), Flip(m[k + 1])), m, k + 1)
<1> DEFINE x == m[k + 1]
           y == Flip(x)
           o == ParseByte(p, ESC)
           d == Append(p.data, x)
           q == [o EXCEPT !.esc = FALSE, !.data = d]
<1>1. x \in Byte /\ p.data \in Seq(Byte) /\ Len(p.data) < BufSize /\ k + 1 \in 1 .. Len(m)
  BY SizeAssumption DEF HasRead, Parsers
<1>2. Longer(p.data, x, d)
  BY <1>1, LongerIs
<1>3. y \notin {BEGIN, END, ESC} /\ Flip(y) = x
  BY <1>1, FlipInner
<1>4. o = [p EXCEPT !.esc = TRUE]
  BY DEF ParseByte, ESC, BEGIN, END
<1>5. o \in Parsers /\ o.begin = TRUE /\ o.esc = TRUE /\ o.data = p.data
  BY <1>4 DEF HasRead, Parsers
<1> HIDE DEF o, y, x
<1>6. ParseByte(o, y) = q
  <2>1. ParseByte(o, y) = [o EXCEPT !.esc = FALSE,
                                   !.data = IF Len(o.data) < BufSize
                                            THEN Append(o.data, IF o.esc THEN Flip(y) ELSE y)
                                            ELSE o.data]
    BY <1>3, <1>5 DEF ParseByte
  <2> QED BY <1>1, <1>3, <1>5, <2>1
<1> HIDE DEF d
<1>7. q \in Parsers /\ q.begin = TRUE /\ q.esc = FALSE /\ q.data = d
  BY <1>2, <1>5 DEF Parsers, Longer
<1>8. Len(d) = k + 1 /\ \A i \in 1 .. k + 1 : d[i] = m[i]
  BY <1>1, <1>2 DEF Longer, HasRead, x
<1> HIDE DEF q
<1>9. HasRead(ParseByte(o, y), m, k + 1)
  BY <1>6, <1>7, <1>8 DEF HasRead
<1> QED BY <1>9 DEF o, y, x

\* f is the parser after every byte of s up to the n-th, from whatever it was before.
Parses(f, s, n) == f \in [0 .. n -> Parsers] /\ \A i \in 1 .. n : f[i] = ParseByte(f[i - 1], s[i])

\* Whatever came before a frame, what the parser has at its END is the packet.
LEMMA ParsesFrame ==
  ASSUME NEW s \in Seq(Byte), NEW n \in 1 .. Len(s), NEW m \in Packets, EndsAt(s, n, m),
         NEW f, Parses(f, s, n - 1)
  PROVE  f[n - 1].data = m
<1> DEFINE F == Frames[m]
           L == FrameLength(m)
           a == n - L
           K == Len(m)
<1>0. /\ m \in Seq(Byte) /\ K \in 1 .. BufSize /\ F = Frame(m) /\ L = Len(F) /\ L \in Nat
      /\ L >= 2 /\ BufSize \in Nat /\ K \in Nat
  BY PacketsAssumption, SizeAssumption, FramesAre
<1>1. a \in 0 .. n - 2 /\ n \in Nat /\ Len(s) \in Nat /\ \A i \in 1 .. L : s[a + i] = F[i]
  BY <1>0 DEF EndsAt
<1>2. PICK b : IsBody(b, m) /\ F = Append(b[K], END)
  BY <1>0, FrameBody
<1> HIDE DEF F, L, a, K
<1>3. \A k \in 0 .. K : /\ b[k] \in Seq(Byte) /\ Len(b[k]) + 1 <= L
                        /\ \A i \in 1 .. Len(b[k]) : s[a + i] = b[k][i]
  <2>0. \A k \in 0 .. Len(m) : /\ b[k] \in Seq(Byte) /\ Len(b[k]) + 1 <= Len(F)
                                /\ \A i \in 1 .. Len(b[k]) : F[i] = b[k][i]
    <3>1. F = Append(b[Len(m)], END)
      BY <1>2 DEF K
    <3>2. m \in Seq(Byte) /\ IsBody(b, m)
      BY <1>0, <1>2
    <3>3. Builds(b, m, F)
      BY ONLY <3>1, <3>2, BodyPrefix, Zenon
    <3> QED BY <3>3 DEF Builds
  <2>1. ASSUME NEW k \in 0 .. K
        PROVE  /\ b[k] \in Seq(Byte) /\ Len(b[k]) + 1 <= L
               /\ \A i \in 1 .. Len(b[k]) : F[i] = b[k][i]
    BY <1>0, <2>0 DEF K
  <2>2. ASSUME NEW k \in 0 .. K, NEW i \in 1 .. Len(b[k]) PROVE s[a + i] = b[k][i]
    <3>1. i \in 1 .. L /\ Len(b[k]) \in Nat
      BY <1>0, <2>1
    <3> QED BY <1>1, <2>1, <3>1
  <2> QED BY <2>1, <2>2
<1> DEFINE Spot(k) == a + Len(b[k])
           T == {k \in 0 .. K : HasRead(f[Spot(k)], m, k)}
<1>4. 0 \in T
  <2>1. b[0] = <<BEGIN>> /\ Len(b[0]) = 1 /\ s[a + 1] = BEGIN
    <3>1. b[0] = <<BEGIN>>
      BY <1>2 DEF IsBody
    <3>2. Len(b[0]) = 1 /\ b[0][1] = BEGIN
      BY <3>1
    <3>3. \A i \in 1 .. Len(b[0]) : s[a + i] = b[0][i]
      BY <1>0, <1>3
    <3> QED BY <3>1, <3>2, <3>3
  <2>2. a + 1 \in 1 .. n - 1 /\ (a + 1) - 1 = a /\ a \in 0 .. n - 1
    BY <1>1
  <2>3. f[a + 1] = ParseByte(f[a], BEGIN)
    BY <2>1, <2>2 DEF Parses
  <2>4. f[a + 1] = NewParser(TRUE)
    BY <2>3 DEF ParseByte, BEGIN, ESC, END
  <2>5. HasRead(f[a + 1], m, 0)
    BY <2>4 DEF HasRead, NewParser, Parsers
  <2>6. Spot(0) = a + 1
    BY <2>1
  <2> QED BY <1>0, <2>5, <2>6
<1>5. ASSUME NEW k \in 0 .. K - 1, k \in T PROVE k + 1 \in T
  <2> DEFINE l == Len(b[k])
             x == m[k + 1]
             e == Escaped(x)
             r == b[k + 1]
  <2>1. k + 1 \in 1 .. K /\ x \in Byte /\ (k + 1) - 1 = k /\ k \in 0 .. K /\ k + 1 \in 0 .. K
    BY <1>0 DEF K
  <2>2. r = b[k] \o e /\ b[k] \in Seq(Byte) /\ e \in Seq(Byte) /\ l \in Nat
    <3>1. b[k + 1] = b[(k + 1) - 1] \o Escaped(m[k + 1])
      BY <1>2, <2>1 DEF IsBody, K
    <3>2. b[k] \in Seq(Byte) /\ Escaped(m[k + 1]) \in Seq(Byte)
      BY <1>3, <2>1, EscapedInner
    <3>3. Len(b[k]) \in Nat
      BY <3>2
    <3> QED BY <2>1, <3>1, <3>2, <3>3
  <2>3. Follows(b[k], e, r)
    BY <2>2, FollowsIs
  <2>4. Len(r) + 1 <= L /\ \A i \in 1 .. Len(r) : s[a + i] = r[i]
    BY <1>3, <2>1
  <2>5. HasRead(f[a + l], m, k)
    BY <1>5
  <2>6. CASE x \in {ESC, BEGIN, END}
    <3>1. e = <<ESC, Flip(x)>>
      BY <2>6 DEF Escaped
    <3>2. Len(e) = 2 /\ e[1] = ESC /\ e[2] = Flip(x)
      BY <3>1
    <3> HIDE DEF e, r, x, l
    <3>3. Len(r) = l + 2 /\ r[l + 1] = ESC /\ r[l + 2] = Flip(x)
      BY <2>2, <2>3, <3>2 DEF Follows, l
    <3>4. /\ s[(a + l) + 1] = ESC /\ s[(a + l) + 2] = Flip(x)
          /\ (a + l) + 1 \in 1 .. n - 1 /\ (a + l) + 2 \in 1 .. n - 1
          /\ ((a + l) + 1) - 1 = a + l /\ ((a + l) + 2) - 1 = (a + l) + 1
      <4>0. a = n - L /\ l + 2 + 1 <= L /\ l \in Nat /\ a \in Nat
        BY <1>1, <2>2, <2>4, <3>3 DEF a
      <4>1. l + 1 \in 1 .. Len(r) /\ l + 2 \in 1 .. Len(r) /\ a + l + 2 <= n - 1
        BY <1>0, <1>1, <3>3, <4>0
      <4>2. s[a + (l + 1)] = ESC /\ s[a + (l + 2)] = Flip(x)
        BY <2>4, <3>3, <4>1
      <4>3. a + (l + 1) = (a + l) + 1 /\ a + (l + 2) = (a + l) + 2
        BY <1>1, <2>2
      <4> QED BY <1>1, <2>2, <4>1, <4>2, <4>3
    <3>5. f[(a + l) + 2] = ParseByte(ParseByte(f[a + l], ESC), Flip(x))
      BY <3>4 DEF Parses
    <3>6. HasRead(f[(a + l) + 2], m, k + 1)
      BY <1>0, <2>5, <2>6, <3>5, ReadsEscaped DEF x, K
    <3>7. Spot(k + 1) = (a + l) + 2
      BY <1>1, <2>2, <3>3 DEF r
    <3> QED BY <2>1, <3>6, <3>7
  <2>7. CASE x \notin {ESC, BEGIN, END}
    <3>1. e = <<x>>
      BY <2>7 DEF Escaped
    <3>2. Len(e) = 1 /\ e[1] = x
      BY <3>1
    <3> HIDE DEF e, r, x, l
    <3>3. Len(r) = l + 1 /\ r[l + 1] = x
      BY <2>2, <2>3, <3>2 DEF Follows, l
    <3>4. s[(a + l) + 1] = x /\ (a + l) + 1 \in 1 .. n - 1 /\ ((a + l) + 1) - 1 = a + l
      <4>1. l + 1 \in 1 .. Len(r) /\ a + l + 1 <= n - 1
        BY <1>1, <2>2, <2>4, <3>3, <1>0 DEF a
      <4>2. s[a + (l + 1)] = x
        BY <2>4, <3>3, <4>1
      <4>3. a + (l + 1) = (a + l) + 1
        BY <1>1, <2>2
      <4> QED BY <1>1, <2>2, <4>1, <4>2, <4>3
    <3>5. f[(a + l) + 1] = ParseByte(f[a + l], x)
      BY <3>4 DEF Parses
    <3>6. HasRead(f[(a + l) + 1], m, k + 1)
      BY <1>0, <2>5, <2>7, <3>5, ReadsPlain DEF x, K
    <3>7. Spot(k + 1) = (a + l) + 1
      BY <1>1, <2>2, <3>3 DEF r
    <3> QED BY <2>1, <3>6, <3>7
  <2> QED BY <2>6, <2>7
<1> HIDE DEF T
<1>6. \A k \in 0 .. K : k \in T
  BY <1>0, <1>4, <1>5, IntervalInduction
<1>7. HasRead(f[Spot(K)], m, K)
  BY <1>0, <1>6 DEF T
<1>8. Spot(K) = n - 1
  <2>1. b[K] \in Seq(Byte) /\ END \in Byte
    BY <1>0, <1>3 DEF END, Byte
  <2>2. Longer(b[K], END, F)
    BY <1>2, <2>1, LongerIs
  <2>3. L = Len(b[K]) + 1 /\ Len(b[K]) \in Nat
    BY <1>0, <2>1, <2>2 DEF Longer
  <2> QED BY <1>1, <2>3 DEF a
<1>9. HasRead(f[n - 1], m, K)
  BY <1>7, <1>8
<1>10. f[n - 1].data \in Seq(Byte) /\ Len(f[n - 1].data) = Len(m)
       /\ \A i \in 1 .. Len(m) : f[n - 1].data[i] = m[i]
  BY <1>9 DEF HasRead, Parsers, K
<1> HIDE DEF Byte
<1> QED BY <1>0, <1>10, SeqEqual

-----------------------------------------------------------------------------
(* The packets in a run of bytes.                                          *)

LEMMA ParseExists ==
  ASSUME NEW s \in Seq(Byte), NEW n \in 0 .. Len(s)
  PROVE  \E f : Parses(f, s, n)
<1> DEFINE P == {p \in Parsers : Len(p.data) <= BufSize}
           step == [i \in 1 .. n |-> [p \in P |-> ParseByte(p, s[i])]]
           c == NewParser(FALSE)
<1>1. n \in Nat /\ c \in P
  <2>1. n \in Nat
    OBVIOUS
  <2>2. c \in P
    BY NewParserType
  <2> QED BY <2>1, <2>2
<1>2. ASSUME NEW i \in 1 .. n, NEW p \in P PROVE ParseByte(p, s[i]) \in P
  <2>1. s[i] \in Byte
    BY ElementOfSeq
  <2> QED BY <2>1, ParseByteType
<1>3. step \in [1 .. n -> [P -> P]]
  BY <1>2
<1>4. ASSUME NEW i \in 1 .. n, NEW p \in P PROVE step[i][p] = ParseByte(p, s[i])
  OBVIOUS
<1>5. P \subseteq Parsers
  OBVIOUS
<1> HIDE DEF P, step, c
<1>6. PICK f : Recurs(f, n, P, c, step)
  BY <1>1, <1>3, RecursionExists
<1>7. f \in [0 .. n -> Parsers]
  BY <1>5, <1>6 DEF Recurs
<1>8. ASSUME NEW i \in 1 .. n PROVE f[i] = ParseByte(f[i - 1], s[i])
  <2>1. f[i - 1] \in P /\ f[i] = step[i][f[i - 1]]
    BY <1>1, <1>6 DEF Recurs
  <2> QED BY <1>4, <2>1
<1> QED BY <1>7, <1>8 DEF Parses

\* A frame says which packet it is of, whatever comes before it.
LEMMA PacketAtIs ==
  ASSUME NEW s \in Seq(Byte), NEW n \in 1 .. Len(s), NEW m \in Packets, EndsAt(s, n, m)
  PROVE  PacketAt(s, n) = m
<1> DEFINE o == CHOOSE o \in Packets : EndsAt(s, n, o)
<1>1. o \in Packets /\ EndsAt(s, n, o) /\ PacketAt(s, n) = o
  BY DEF PacketAt
<1> HIDE DEF o
<1>2. PICK f : Parses(f, s, n - 1)
  <2>1. n - 1 \in 0 .. Len(s)
    OBVIOUS
  <2> QED BY <2>1, ParseExists
<1>3. f[n - 1].data = m /\ f[n - 1].data = o
  BY <1>1, <1>2, ParsesFrame
<1> QED BY <1>1, <1>3

LEMMA PacketAtType == \A s, n : PacketAt(s, n) \in Packets \cup {NoPacket}
BY DEF PacketAt

\* Where s has after its k-th byte what t has, frames end at the same places, provided
\* no frame of s can begin before.
Moves(s, t, k, n) ==
  /\ k \in Nat /\ n \in Nat /\ n >= 1
  /\ \A i \in 1 .. n : s[k + i] = t[i]
  /\ k > 0 => s[k] = END

LEMMA EndsAtMoves ==
  ASSUME NEW s, NEW t, NEW k, NEW n, Moves(s, t, k, n), NEW m \in Packets
  PROVE  EndsAt(s, k + n, m) <=> EndsAt(t, n, m)
<1> DEFINE F == Frames[m]
           L == FrameLength(m)
<1>0. /\ k \in Nat /\ n \in Nat /\ n >= 1 /\ (k > 0 => s[k] = END)
      /\ \A i \in 1 .. n : s[k + i] = t[i]
  BY DEF Moves
<1>1. L \in Nat /\ L >= 2 /\ L = Len(F) /\ IsFrame(F)
  BY FramesAre
<1> HIDE DEF F, L
<1>2. ASSUME EndsAt(s, k + n, m) PROVE EndsAt(t, n, m)
  <2>1. L <= k + n /\ \A i \in 1 .. L : s[(k + n) - L + i] = F[i]
    BY <1>2 DEF EndsAt, F, L
  <2>2. L <= n
    <3> SUFFICES ASSUME L > n PROVE FALSE
      BY <1>0, <1>1
    <3>1. k > 0 /\ L - n \in 1 .. L /\ L - n # L /\ (k + n) - L + (L - n) = k
      BY <1>0, <1>1, <2>1
    <3>2. F[L - n] = END
      BY <1>0, <2>1, <3>1
    <3>3. L - n # 1 /\ L - n \in 2 .. L - 1
      <4>1. F[1] = BEGIN /\ BEGIN # END
        BY <1>1 DEF IsFrame, BEGIN, END
      <4> QED BY <1>1, <3>1, <3>2, <4>1
    <3> QED BY <1>1, <3>2, <3>3 DEF IsFrame
  <2>3. ASSUME NEW i \in 1 .. L PROVE t[n - L + i] = F[i]
    <3>1. n - L + i \in 1 .. n /\ k + (n - L + i) = (k + n) - L + i
      BY <1>0, <1>1, <2>2
    <3>2. s[k + (n - L + i)] = t[n - L + i]
      BY <1>0, <3>1
    <3> QED BY <2>1, <3>1, <3>2
  <2> QED BY <2>2, <2>3 DEF EndsAt, F, L
<1>3. ASSUME EndsAt(t, n, m) PROVE EndsAt(s, k + n, m)
  <2>1. L <= n /\ \A i \in 1 .. L : t[n - L + i] = F[i]
    BY <1>3 DEF EndsAt, F, L
  <2>3. ASSUME NEW i \in 1 .. L PROVE s[(k + n) - L + i] = F[i]
    <3>1. n - L + i \in 1 .. n /\ k + (n - L + i) = (k + n) - L + i
      BY <1>0, <1>1, <2>1
    <3>2. s[k + (n - L + i)] = t[n - L + i]
      BY <1>0, <3>1
    <3> QED BY <2>1, <3>1, <3>2
  <2>4. L <= k + n
    BY <1>0, <1>1, <2>1
  <2> QED BY <2>3, <2>4 DEF EndsAt, F, L
<1> QED BY <1>2, <1>3

LEMMA PacketAtMoves ==
  ASSUME NEW s, NEW t, NEW k, NEW n, Moves(s, t, k, n)
  PROVE  PacketAt(s, k + n) = PacketAt(t, n)
<1>1. ASSUME NEW m \in Packets PROVE EndsAt(s, k + n, m) <=> EndsAt(t, n, m)
  BY EndsAtMoves
<1> HIDE DEF EndsAt
<1>3. (\E m \in Packets : EndsAt(s, k + n, m)) <=> (\E m \in Packets : EndsAt(t, n, m))
  BY <1>1
<1>4. (CHOOSE m \in Packets : EndsAt(s, k + n, m)) = (CHOOSE m \in Packets : EndsAt(t, n, m))
  BY <1>1
<1> QED BY <1>3, <1>4 DEF PacketAt

Maybe == Packets \cup {NoPacket}

\* f is what has been read after every byte of s.
Reads(f, s) ==
  /\ f \in [0 .. Len(s) -> Seq(Maybe)] /\ f[0] = <<>>
  /\ \A n \in 1 .. Len(s) :
       f[n] = IF s[n] = END THEN Append(f[n - 1], PacketAt(s, n)) ELSE f[n - 1]

LEMMA PacketsInIs ==
  ASSUME NEW s \in Seq(Byte)
  PROVE  \E f : Reads(f, s) /\ PacketsIn(s) = f[Len(s)]
<1> DEFINE n == Len(s)
           B == Seq(Maybe)
           c == <<>>
           Does(i, v) == IF s[i] = END THEN Append(v, PacketAt(s, i)) ELSE v
           step == [i \in 1 .. n |-> [v \in B |-> Does(i, v)]]
           F(f) == f = [i \in 0 .. n |-> IF i = 0 THEN c
                                         ELSE IF s[i] = END THEN Append(f[i - 1], PacketAt(s, i))
                                              ELSE f[i - 1]]
           read == CHOOSE f : F(f)
<1>1. n \in Nat /\ c \in B
  OBVIOUS
<1>2. PacketsIn(s) = read[n]
  BY DEF PacketsIn
<1>3. ASSUME NEW i \in 1 .. n, NEW v \in B PROVE Does(i, v) \in B
  <2>1. PacketAt(s, i) \in Maybe
    BY PacketAtType DEF Maybe
  <2>2. Append(v, PacketAt(s, i)) \in B
    BY <2>1, AppendProperties
  <2> QED BY <2>2
<1>4. step \in [1 .. n -> [B -> B]]
  BY <1>3
<1>5. ASSUME NEW i \in 1 .. n, NEW v \in B PROVE step[i][v] = Does(i, v)
  OBVIOUS
<1> HIDE DEF n, B, c, step
<1>6. PICK f : Recurs(f, n, B, c, step)
  BY <1>1, <1>4, RecursionExists
<1>7. ASSUME NEW i \in 1 .. n PROVE f[i] = Does(i, f[i - 1])
  <2>1. f[i - 1] \in B /\ f[i] = step[i][f[i - 1]]
    BY <1>1, <1>6 DEF Recurs
  <2> QED BY <1>5, <2>1
<1>8. F(f)
  <2>1. ASSUME NEW i \in 0 .. n
        PROVE  f[i] = IF i = 0 THEN c
                      ELSE IF s[i] = END THEN Append(f[i - 1], PacketAt(s, i)) ELSE f[i - 1]
    <3>1. CASE i = 0
      BY <1>6, <3>1 DEF Recurs
    <3>2. CASE i # 0
      <4>1. i \in 1 .. n
        BY <1>1, <3>2
      <4> QED BY <1>7, <3>2, <4>1
    <3> QED BY <3>1, <3>2
  <2>2. f = [i \in 0 .. n |-> f[i]]
    BY <1>6 DEF Recurs
  <2> QED BY <2>1, <2>2
<1>9. F(read)
  BY <1>8
<1> HIDE DEF read
<1>10. \A i \in 0 .. n : read[i] \in B
  <2> DEFINE T == {i \in 0 .. n : read[i] \in B}
  <2>1. 0 \in T
    BY <1>1, <1>9
  <2>2. ASSUME NEW i \in 0 .. n - 1, i \in T PROVE i + 1 \in T
    <3>0. i + 1 \in 0 .. n /\ i + 1 \in 1 .. n /\ i + 1 # 0 /\ (i + 1) - 1 = i
      BY <1>1
    <3>1. read[i + 1] = Does(i + 1, read[i])
      BY <1>9, <3>0, Zenon
    <3>3. read[i + 1] \in B
      BY <1>3, <2>2, <3>0, <3>1
    <3> QED BY <1>1, <3>0, <3>3
  <2> HIDE DEF T
  <2>3. \A i \in 0 .. n : i \in T
    BY <1>1, <2>1, <2>2, IntervalInduction
  <2> QED BY <2>3 DEF T
<1>11. Reads(read, s)
  <2>1. read \in [0 .. n -> B] /\ read[0] = c
    BY <1>1, <1>9, <1>10
  <2>2. ASSUME NEW i \in 1 .. n
        PROVE  read[i] = IF s[i] = END THEN Append(read[i - 1], PacketAt(s, i)) ELSE read[i - 1]
    <3>1. i \in 0 .. n /\ i # 0
      BY <1>1
    <3> QED BY <1>9, <3>1, Zenon
  <2> QED BY <2>1, <2>2 DEF Reads, n, c, B
<1> QED BY <1>2, <1>11 DEF n

LEMMA PacketsInType == ASSUME NEW s \in Seq(Byte) PROVE PacketsIn(s) \in Seq(Maybe)
<1>1. PICK f : Reads(f, s) /\ PacketsIn(s) = f[Len(s)]
  BY PacketsInIs
<1>2. Len(s) \in 0 .. Len(s)
  OBVIOUS
<1> QED BY <1>1, <1>2 DEF Reads

LEMMA PacketsInNone == PacketsIn(<<>>) = <<>>
<1>1. <<>> \in Seq(Byte) /\ Len(<<>>) = 0
  BY EmptySeq
<1>2. PICK f : Reads(f, <<>>) /\ PacketsIn(<<>>) = f[Len(<<>>)]
  BY <1>1, PacketsInIs
<1> QED BY <1>1, <1>2 DEF Reads

\* One byte more: a packet more if it is an END.
LEMMA PacketsInMore ==
  ASSUME NEW s \in Seq(Byte), NEW b \in Byte, NEW r, r = Append(s, b)
  PROVE  PacketsIn(r) = IF b = END THEN Append(PacketsIn(s), PacketAt(r, Len(s) + 1))
                        ELSE PacketsIn(s)
<1> DEFINE n == Len(s)
<1>1. n \in Nat /\ Longer(s, b, r)
  BY LongerIs
<1>2. PICK f : Reads(f, s) /\ PacketsIn(s) = f[n]
  BY PacketsInIs
<1>3. PICK g : Reads(g, r) /\ PacketsIn(r) = g[n + 1]
  <2>1. r \in Seq(Byte) /\ Len(r) = n + 1
    BY <1>1 DEF Longer
  <2>2. PICK g : Reads(g, r) /\ PacketsIn(r) = g[Len(r)]
    BY <2>1, PacketsInIs
  <2> QED BY <2>1, <2>2
<1> DEFINE T == {i \in 0 .. n : f[i] = g[i]}
<1>4. 0 \in T
  BY <1>1, <1>2, <1>3 DEF Reads
<1>5. ASSUME NEW i \in 0 .. n - 1, i \in T PROVE i + 1 \in T
  <2>1. i + 1 \in 1 .. Len(s) /\ i + 1 \in 1 .. Len(r) /\ (i + 1) - 1 = i /\ r[i + 1] = s[i + 1]
    BY <1>1 DEF Longer
  <2>2. PacketAt(s, 0 + (i + 1)) = PacketAt(r, i + 1)
    <3>1. ASSUME NEW j \in 1 .. i + 1 PROVE s[0 + j] = r[j]
      <4>1. j \in 1 .. Len(s) /\ 0 + j = j
        BY <1>1
      <4> QED BY <1>1, <4>1 DEF Longer
    <3>2. i + 1 \in Nat /\ i + 1 >= 1 /\ 0 \in Nat /\ ~ (0 > 0)
      BY <1>1
    <3>3. Moves(s, r, 0, i + 1)
      BY ONLY <3>1, <3>2 DEF Moves
    <3> QED BY <3>3, PacketAtMoves
  <2>3. 0 + (i + 1) = i + 1
    BY <1>1
  <2>4. f[i + 1] = IF s[i + 1] = END THEN Append(f[i], PacketAt(s, i + 1)) ELSE f[i]
    BY <1>2, <2>1 DEF Reads
  <2>5. g[i + 1] = IF r[i + 1] = END THEN Append(g[i], PacketAt(r, i + 1)) ELSE g[i]
    BY <1>3, <2>1 DEF Reads
  <2>6. f[i + 1] = g[i + 1]
    BY <1>5, <2>1, <2>2, <2>3, <2>4, <2>5
  <2> QED BY <1>1, <2>6
<1> HIDE DEF T
<1>6. \A i \in 0 .. n : i \in T
  BY <1>1, <1>4, <1>5, IntervalInduction
<1>7. f[n] = g[n]
  BY <1>1, <1>6 DEF T
<1>8. g[n + 1] = IF b = END THEN Append(g[n], PacketAt(r, n + 1)) ELSE g[n]
  <2>1. n + 1 \in 1 .. Len(r) /\ (n + 1) - 1 = n /\ r[n + 1] = b
    BY <1>1 DEF Longer
  <2> QED BY <1>3, <2>1 DEF Reads
<1> QED BY <1>2, <1>3, <1>7, <1>8

\* s is e, an END, and then t; e has no END.
Splits(s, e, t) ==
  /\ Len(s) = Len(e) + 1 + Len(t) /\ s[Len(e) + 1] = END
  /\ \A i \in 1 .. Len(e) : s[i] = e[i] /\ e[i] # END
  /\ \A i \in 1 .. Len(t) : s[Len(e) + 1 + i] = t[i]

\* The first packet is the one that the first END ends, the others are those of the
\* bytes after it.
LEMMA PacketsInLess ==
  ASSUME NEW s \in Seq(Byte), NEW e \in Seq(Byte), NEW t \in Seq(Byte), Splits(s, e, t)
  PROVE  /\ PacketsIn(s) # <<>> /\ Head(PacketsIn(s)) = PacketAt(s, Len(e) + 1)
         /\ Tail(PacketsIn(s)) = PacketsIn(t)
<1> DEFINE k == Len(e) + 1
           n == Len(t)
           p == PacketAt(s, k)
           First(v, w) == v \in Seq(Maybe) /\ v # <<>> /\ Head(v) = p /\ Tail(v) = w
<1>1. Len(e) \in Nat /\ k \in Nat /\ k >= 1 /\ n \in Nat /\ Len(s) = k + n /\ s[k] = END
      /\ \A i \in 1 .. n : s[k + i] = t[i]
  BY DEF Splits
<1>2. PICK f : Reads(f, s) /\ PacketsIn(s) = f[Len(s)]
  BY PacketsInIs
<1>3. PICK g : Reads(g, t) /\ PacketsIn(t) = g[n]
  BY PacketsInIs
<1>4. \A i \in 0 .. Len(e) : f[i] = <<>>
  <2> DEFINE T == {i \in 0 .. Len(e) : f[i] = <<>>}
  <2>1. 0 \in T
    BY <1>1, <1>2 DEF Reads
  <2>2. ASSUME NEW i \in 0 .. Len(e) - 1, i \in T PROVE i + 1 \in T
    <3>1. i + 1 \in 1 .. Len(e) /\ i + 1 \in 1 .. Len(s) /\ (i + 1) - 1 = i
      BY <1>1
    <3>2. s[i + 1] # END
      BY <3>1 DEF Splits
    <3>3. f[i + 1] = f[i]
      BY <1>2, <3>1, <3>2 DEF Reads
    <3> QED BY <1>1, <2>2, <3>1, <3>3
  <2> HIDE DEF T
  <2>3. \A i \in 0 .. Len(e) : i \in T
    BY <1>1, <2>1, <2>2, IntervalInduction
  <2> QED BY <2>3 DEF T
<1> HIDE DEF n
<1>5. p \in Maybe
  BY PacketAtType DEF Maybe
<1>6. f[k] = <<p>>
  <2>1. k \in 1 .. Len(s) /\ k - 1 = Len(e) /\ Len(e) \in 0 .. Len(e)
    BY <1>1
  <2>2. f[k] = Append(f[k - 1], p) /\ f[k - 1] = <<>>
    BY <1>1, <1>2, <1>4, <2>1 DEF Reads
  <2> QED BY <2>2
<1> HIDE DEF k, p
<1> DEFINE T == {i \in 0 .. n : First(f[k + i], g[i])}
<1>7. 0 \in T
  <2>1. First(<<p>>, <<>>)
    BY <1>5
  <2>2. f[k + 0] = <<p>> /\ g[0] = <<>>
    BY <1>1, <1>3, <1>6 DEF Reads
  <2> HIDE DEF First
  <2>3. First(f[k + 0], g[0])
    BY <2>1, <2>2, Zenon
  <2>4. 0 \in 0 .. n
    BY <1>1
  <2> QED BY <2>3, <2>4
<1>8. ASSUME NEW i \in 0 .. n - 1, i \in T PROVE i + 1 \in T
  <2> DEFINE v == f[k + i]
             w == g[i]
             x == PacketAt(t, i + 1)
  <2>1. First(v, w)
    BY <1>8
  <2>2. /\ k + (i + 1) \in 1 .. Len(s) /\ (k + (i + 1)) - 1 = k + i
        /\ i + 1 \in 1 .. n /\ (i + 1) - 1 = i /\ s[k + (i + 1)] = t[i + 1]
    BY <1>1
  <2>3. PacketAt(s, k + (i + 1)) = x
    <3>1. i + 1 \in Nat /\ \A j \in 1 .. i + 1 : s[k + j] = t[j]
      BY <1>1, <2>2
    <3>2. Moves(s, t, k, i + 1)
      BY <1>1, <2>2, <3>1 DEF Moves
    <3> QED BY <3>2, PacketAtMoves
  <2>4. f[k + (i + 1)] = IF t[i + 1] = END THEN Append(v, x) ELSE v
    BY <1>2, <2>2, <2>3 DEF Reads
  <2>5. g[i + 1] = IF t[i + 1] = END THEN Append(w, x) ELSE w
    BY <1>3, <2>2 DEF Reads, n
  <2>6. x \in Maybe
    BY PacketAtType DEF Maybe
  <2> HIDE DEF v, w, x
  <2>7. First(Append(v, x), Append(w, x))
    <3>1. Head(Append(v, x)) = Head(v) /\ Tail(Append(v, x)) = Append(Tail(v), x)
      BY <2>1, HeadTailAppend
    <3>2. Append(v, x) \in Seq(Maybe) /\ Append(v, x) # <<>>
      BY <2>1, <2>6, AppendProperties
    <3> QED BY <2>1, <3>1, <3>2
  <2> HIDE DEF First
  <2>8. First(f[k + (i + 1)], g[i + 1])
    BY <2>1, <2>4, <2>5, <2>7
  <2> QED BY <1>1, <2>2, <2>8
<1> HIDE DEF T
<1>9. \A i \in 0 .. n : i \in T
  BY <1>1, <1>7, <1>8, IntervalInduction
<1>10. First(f[k + n], g[n])
  BY <1>1, <1>9 DEF T
<1> QED BY <1>1, <1>2, <1>3, <1>10 DEF p, k

-----------------------------------------------------------------------------
(* The room that packets take.                                             *)

IsTaken(f, q) ==
  /\ f \in [0 .. Len(q) -> Nat] /\ f[0] = 0
  /\ \A i \in 1 .. Len(q) : f[i] = f[i - 1] + FrameLength(q[i])

LEMMA TakenIs ==
  ASSUME NEW q \in Seq(Packets)
  PROVE  \E f : IsTaken(f, q) /\ Fifo!Taken(q) = f[Len(q)]
<1> DEFINE n == Len(q)
           Does(i, v) == v + FrameLength(q[i])
           step == [i \in 1 .. n |-> [v \in Nat |-> Does(i, v)]]
           F(f) == f = [i \in 0 .. n |-> IF i = 0 THEN 0 ELSE f[i - 1] + FrameLength(q[i])]
           taken == CHOOSE f : F(f)
<1>1. n \in Nat
  OBVIOUS
<1>2. Fifo!Taken(q) = taken[n]
  BY DEF Fifo!Taken
<1>3. ASSUME NEW i \in 1 .. n, NEW v \in Nat PROVE Does(i, v) \in Nat
  <2>1. q[i] \in Packets
    OBVIOUS
  <2> QED BY <2>1, FramesAre
<1>4. step \in [1 .. n -> [Nat -> Nat]]
  BY <1>3
<1>5. ASSUME NEW i \in 1 .. n, NEW v \in Nat PROVE step[i][v] = Does(i, v)
  OBVIOUS
<1> HIDE DEF n, step
<1>6. PICK f : Recurs(f, n, Nat, 0, step)
  BY <1>1, <1>4, RecursionExists
<1>7. ASSUME NEW i \in 1 .. n PROVE f[i] = Does(i, f[i - 1])
  <2>1. f[i - 1] \in Nat /\ f[i] = step[i][f[i - 1]]
    BY <1>1, <1>6 DEF Recurs
  <2> QED BY <1>5, <2>1
<1>8. F(f)
  <2>1. ASSUME NEW i \in 0 .. n
        PROVE  f[i] = IF i = 0 THEN 0 ELSE f[i - 1] + FrameLength(q[i])
    <3>1. CASE i = 0
      BY <1>6, <3>1 DEF Recurs
    <3>2. CASE i # 0
      <4>1. i \in 1 .. n
        BY <1>1, <3>2
      <4> QED BY <1>7, <3>2, <4>1
    <3> QED BY <3>1, <3>2
  <2>2. f = [i \in 0 .. n |-> f[i]]
    BY <1>6 DEF Recurs
  <2> QED BY <2>1, <2>2
<1>9. F(taken)
  BY <1>8
<1> HIDE DEF taken
<1>10. \A i \in 0 .. n : taken[i] \in Nat
  <2> DEFINE T == {i \in 0 .. n : taken[i] \in Nat}
  <2>1. 0 \in T
    BY <1>1, <1>9
  <2>2. ASSUME NEW i \in 0 .. n - 1, i \in T PROVE i + 1 \in T
    <3>0. i + 1 \in 0 .. n /\ i + 1 \in 1 .. n /\ i + 1 # 0 /\ (i + 1) - 1 = i
      BY <1>1
    <3>1. taken[i + 1] = Does(i + 1, taken[i])
      BY <1>9, <3>0, Zenon
    <3>3. taken[i + 1] \in Nat
      BY <1>3, <2>2, <3>0, <3>1
    <3> QED BY <1>1, <3>0, <3>3
  <2> HIDE DEF T
  <2>3. \A i \in 0 .. n : i \in T
    BY <1>1, <2>1, <2>2, IntervalInduction
  <2> QED BY <2>3 DEF T
<1>11. IsTaken(taken, q)
  <2>1. taken \in [0 .. n -> Nat] /\ taken[0] = 0
    BY <1>1, <1>9, <1>10
  <2>2. ASSUME NEW i \in 1 .. n PROVE taken[i] = taken[i - 1] + FrameLength(q[i])
    <3>1. i \in 0 .. n /\ i # 0
      BY <1>1
    <3> QED BY <1>9, <3>1, Zenon
  <2> QED BY <2>1, <2>2 DEF IsTaken, n
<1> QED BY <1>2, <1>11 DEF n

LEMMA TakenNone == Fifo!Taken(<<>>) = 0
<1>1. <<>> \in Seq(Packets) /\ Len(<<>>) = 0
  BY EmptySeq
<1>2. PICK f : IsTaken(f, <<>>) /\ Fifo!Taken(<<>>) = f[Len(<<>>)]
  BY <1>1, TakenIs
<1> QED BY <1>1, <1>2 DEF IsTaken

LEMMA TakenMore ==
  ASSUME NEW q \in Seq(Packets), NEW m \in Packets
  PROVE  /\ Fifo!Taken(q) \in Nat
         /\ Fifo!Taken(Append(q, m)) = Fifo!Taken(q) + FrameLength(m)
<1> DEFINE n == Len(q)
           r == Append(q, m)
<1>1. /\ n \in Nat /\ r \in Seq(Packets) /\ Len(r) = n + 1 /\ r[n + 1] = m
      /\ \A i \in 1 .. n : r[i] = q[i]
  BY AppendProperties
<1>2. PICK f : IsTaken(f, q) /\ Fifo!Taken(q) = f[n]
  BY TakenIs
<1>3. PICK g : IsTaken(g, r) /\ Fifo!Taken(r) = g[n + 1]
  <2>1. PICK g : IsTaken(g, r) /\ Fifo!Taken(r) = g[Len(r)]
    BY <1>1, TakenIs
  <2> QED BY <1>1, <2>1
<1> HIDE DEF r
<1> DEFINE T == {i \in 0 .. n : f[i] = g[i]}
<1>4. 0 \in T
  BY <1>1, <1>2, <1>3 DEF IsTaken
<1>5. ASSUME NEW i \in 0 .. n - 1, i \in T PROVE i + 1 \in T
  <2>1. i + 1 \in 1 .. Len(q) /\ i + 1 \in 1 .. Len(r) /\ (i + 1) - 1 = i /\ r[i + 1] = q[i + 1]
    BY <1>1
  <2>4. f[i + 1] = f[i] + FrameLength(q[i + 1])
    BY <1>2, <2>1 DEF IsTaken
  <2>5. g[i + 1] = g[i] + FrameLength(r[i + 1])
    BY <1>3, <2>1 DEF IsTaken
  <2>6. f[i + 1] = g[i + 1]
    BY <1>5, <2>1, <2>4, <2>5
  <2> QED BY <1>1, <2>6
<1> HIDE DEF T
<1>6. \A i \in 0 .. n : i \in T
  BY <1>1, <1>4, <1>5, IntervalInduction
<1>7. f[n] = g[n]
  BY <1>1, <1>6 DEF T
<1>8. g[n + 1] = g[n] + FrameLength(r[n + 1])
  <2>1. n + 1 \in 1 .. Len(r) /\ (n + 1) - 1 = n
    BY <1>1
  <2> QED BY <1>3, <2>1 DEF IsTaken
<1>9. f[n] \in Nat
  BY <1>1, <1>2 DEF IsTaken
<1> QED BY <1>1, <1>2, <1>3, <1>7, <1>8, <1>9 DEF r

-----------------------------------------------------------------------------
(* Framed bytes.                                                           *)

\* Runs of bytes that publishing, forgetting and sending leave: every END ends a
\* frame, and a BEGIN comes first and after every END.
Framed(bytes) ==
  /\ bytes \in Seq(Byte)
  /\ \A n \in 1 .. Len(bytes) : bytes[n] = END => \E m \in Packets : EndsAt(bytes, n, m)
  /\ bytes # <<>> => bytes[1] = BEGIN
  /\ \A n \in 1 .. Len(bytes) - 1 : bytes[n] = END => bytes[n + 1] = BEGIN

\* The last k bytes have no END.
Open(bytes, k) == k \in 0 .. Len(bytes) /\ \A i \in Len(bytes) - k + 1 .. Len(bytes) : bytes[i] # END

\* Where nothing is abandoned before the last k bytes, the packets take all the room
\* but k bytes.
LEMMA NothingElse ==
  ASSUME NEW s, Framed(s), NEW k, Open(s, k), ~ Abandoned(s, Len(s) - k)
  PROVE  PacketsIn(s) \in Seq(Packets) /\ Fifo!Taken(PacketsIn(s)) = Len(s) - k
<1> DEFINE n == Len(s)
           Upto(v, i, e) == /\ v \in Seq(Packets) /\ Fifo!Taken(v) = e /\ e \in 0 .. i
                            /\ e > 0 => s[e] = END
                            /\ \A j \in e + 1 .. i : s[j] # END
<1>1. s \in Seq(Byte) /\ n \in Nat /\ k \in 0 .. n
  BY DEF Framed, Open
<1>2. PICK f : Reads(f, s) /\ PacketsIn(s) = f[n]
  BY <1>1, PacketsInIs
<1> DEFINE T == {i \in 0 .. n : \E e \in 0 .. n : Upto(f[i], i, e)}
<1>3. 0 \in T
  <2>1. <<>> \in Seq(Packets) /\ f[0] = <<>>
    BY <1>2 DEF Reads
  <2>2. Upto(<<>>, 0, 0)
    BY <2>1, TakenNone
  <2> HIDE DEF Upto
  <2> QED BY <1>1, <2>1, <2>2
<1>4. ASSUME NEW i \in 0 .. n - 1, NEW e \in 0 .. n, Upto(f[i], i, e)
      PROVE  i + 1 \in T
  <2> DEFINE x == i + 1
  <2>1. x \in 1 .. n /\ x - 1 = i
    BY <1>1
  <2>2. CASE s[x] # END
    <3>1. f[x] = f[i]
      BY <1>2, <2>1, <2>2 DEF Reads
    <3>2. Upto(f[x], x, e)
      BY <1>4, <2>1, <2>2, <3>1
    <3> HIDE DEF Upto
    <3> QED BY <1>1, <2>1, <3>2
  <2>3. CASE s[x] = END
    <3>1. PICK m \in Packets : EndsAt(s, x, m)
      BY <2>1, <2>3 DEF Framed
    <3>2. PacketAt(s, x) = m
      BY <1>1, <2>1, <3>1, PacketAtIs
    <3> DEFINE L == FrameLength(m)
               F == Frames[m]
               a == x - L + 1
    <3>3. L \in Nat /\ L >= 2 /\ L = Len(F) /\ IsFrame(F)
      BY FramesAre
    <3>4. L <= x /\ \A j \in 1 .. L : s[x - L + j] = F[j]
      BY <3>1 DEF EndsAt
    <3> HIDE DEF L, F
    <3>5. a \in 1 .. x - 1 /\ s[a] = BEGIN
      <4>1. a \in 1 .. x - 1 /\ a = x - L + 1 /\ 1 \in 1 .. L
        BY <2>1, <3>3, <3>4
      <4>2. s[x - L + 1] = F[1]
        BY <3>4, <4>1
      <4> QED BY <3>3, <4>1, <4>2 DEF IsFrame
    <3>6. ASSUME NEW j \in a .. x - 1 PROVE s[j] # END
      <4>1. j - a + 1 \in 1 .. L - 1 /\ x - L + (j - a + 1) = j /\ j - a + 1 \in 1 .. L
        BY <2>1, <3>3, <3>4
      <4>2. s[j] = F[j - a + 1]
        BY <3>4, <4>1
      <4>3. F[j - a + 1] # END
        BY <3>3, <4>1 DEF IsFrame, BEGIN, END
      <4> QED BY <4>2, <4>3
    <3>7. e < a
      <4> SUFFICES ASSUME e >= a PROVE FALSE
        BY <2>1, <3>5
      <4>1. e > 0 /\ e <= i /\ e \in a .. x - 1
        BY <1>1, <1>4, <2>1, <3>5
      <4> QED BY <1>4, <3>6, <4>1
    <3>8. s[e + 1] = BEGIN
      <4>1. CASE e = 0
        <5>1. s # <<>>
          BY <1>1, <2>1
        <5> QED BY <4>1, <5>1 DEF Framed
      <4>2. CASE e > 0
        <5>1. e \in 1 .. Len(s) - 1 /\ s[e] = END
          BY <1>1, <1>4, <2>1, <4>2
        <5> QED BY <5>1 DEF Framed
      <4> QED BY <4>1, <4>2
    <3>9. e + 1 = a
      <4> SUFFICES ASSUME e + 1 < a PROVE FALSE
        BY <2>1, <3>5, <3>7
      <4> DEFINE b == e + 1
      <4>1. x <= n - k
        <5> SUFFICES ASSUME x > n - k PROVE FALSE
          BY <1>1, <2>1
        <5>1. x \in Len(s) - k + 1 .. Len(s)
          BY <1>1, <2>1
        <5> QED BY <2>3, <5>1 DEF Open
      <4>2. b \in 1 .. n - k /\ s[b] = BEGIN
        BY <1>1, <2>1, <3>5, <3>8, <4>1
      <4>3. ASSUME NEW j \in b + 1 .. n, s[j] = END PROVE \E y \in b + 1 .. j - 1 : s[y] = BEGIN
        <5>1. j >= x
          <6> SUFFICES ASSUME j < x PROVE FALSE
            BY <2>1
          <6>1. j \in e + 1 .. i
            BY <2>1
          <6> QED BY <1>4, <4>3, <6>1
        <5>2. a \in b + 1 .. j - 1
          BY <2>1, <3>5, <5>1
        <5> QED BY <3>5, <5>2
      <4> HIDE DEF b, a, x
      <4>4. Abandoned(s, n - k)
        BY <4>2, <4>3 DEF Abandoned
      <4> QED BY <4>4
    <3>10. f[x] = Append(f[i], m)
      BY <1>2, <2>1, <2>3, <3>2 DEF Reads
    <3>11. f[x] \in Seq(Packets) /\ Fifo!Taken(f[x]) = e + L
      BY <1>4, <3>10, AppendProperties, TakenMore DEF L
    <3>12. e + L = x
      BY <2>1, <3>3, <3>9
    <3>13. Upto(f[x], x, x)
      BY <2>1, <2>3, <3>11, <3>12
    <3> HIDE DEF Upto
    <3> QED BY <1>1, <2>1, <3>13
  <2> QED BY <2>2, <2>3
<1>5. ASSUME NEW i \in 0 .. n - 1, i \in T PROVE i + 1 \in T
  BY <1>4, <1>5
<1>6. n \in T
  <2> HIDE DEF T
  <2>1. \A i \in 0 .. n : i \in T
    BY <1>1, <1>3, <1>5, IntervalInduction
  <2> QED BY <1>1, <2>1
<1>7. PICK e \in 0 .. n : Upto(f[n], n, e)
  BY <1>6
<1>8. e <= n - k
  <2> SUFFICES ASSUME e > n - k PROVE FALSE
    BY <1>1
  <2>1. e > 0 /\ s[e] = END /\ e \in Len(s) - k + 1 .. Len(s)
    BY <1>1, <1>7
  <2> QED BY <2>1 DEF Open
<1>9. e = n - k
  <2> SUFFICES ASSUME e < n - k PROVE FALSE
    BY <1>1, <1>8
  <2> DEFINE b == e + 1
  <2>1. b \in 1 .. n - k
    BY <1>1
  <2>2. s[b] = BEGIN
    <3>1. CASE e = 0
      <4>1. s # <<>>
        BY <1>1, <2>1
      <4> QED BY <3>1, <4>1 DEF Framed
    <3>2. CASE e > 0
      <4>1. e \in 1 .. Len(s) - 1 /\ s[e] = END
        BY <1>1, <1>7, <2>1, <3>2
      <4> QED BY <4>1 DEF Framed
    <3> QED BY <3>1, <3>2
  <2>3. ASSUME NEW j \in b + 1 .. n PROVE s[j] # END
    <3>1. j \in e + 1 .. n
      BY <1>1
    <3> QED BY <1>7, <3>1
  <2> HIDE DEF b
  <2>4. Abandoned(s, n - k)
    BY <2>1, <2>2, <2>3 DEF Abandoned
  <2> QED BY <2>4
<1> QED BY <1>2, <1>7, <1>9

\* The last k bytes of s are the first k of the frame of m.
Begins(s, k, m) ==
  /\ k \in 0 .. Len(s) /\ k <= FrameLength(m)
  /\ \A i \in 1 .. k : s[Len(s) - k + i] = Frames[m][i]

LEMMA BeginsOpen ==
  ASSUME NEW s \in Seq(Byte), NEW m \in Packets, NEW k, Begins(s, k, m), k < FrameLength(m)
  PROVE  /\ Open(s, k)
         /\ k > 0 => s[Len(s) - k + 1] = BEGIN
         /\ \A i \in Len(s) - k + 2 .. Len(s) : s[i] \notin {BEGIN, END}
<1> DEFINE F == Frames[m]
           L == FrameLength(m)
           n == Len(s)
<1>1. L \in Nat /\ L >= 2 /\ L = Len(F) /\ IsFrame(F)
  BY FramesAre
<1>2. n \in Nat /\ k \in 0 .. n /\ k < L /\ \A i \in 1 .. k : s[n - k + i] = F[i]
  BY DEF Begins
<1> HIDE DEF F, L, n
<1>3. ASSUME k > 0 PROVE s[n - k + 1] = BEGIN
  <2>1. 1 \in 1 .. k
    BY <1>2, <1>3
  <2> QED BY <1>1, <1>2, <2>1 DEF IsFrame
<1>4. ASSUME NEW i \in n - k + 2 .. n PROVE s[i] \notin {BEGIN, END}
  <2>1. i - (n - k) \in 1 .. k /\ n - k + (i - (n - k)) = i /\ i - (n - k) \in 2 .. L - 1
    BY <1>1, <1>2
  <2>2. s[i] = F[i - (n - k)]
    BY <1>2, <2>1
  <2> QED BY <1>1, <2>1, <2>2 DEF IsFrame
<1>5. ASSUME NEW i \in n - k + 1 .. n PROVE s[i] # END
  <2>1. CASE i = n - k + 1
    <3>1. k > 0
      BY <1>2
    <3> QED BY <1>3, <2>1, <3>1 DEF BEGIN, END
  <2>2. CASE i # n - k + 1
    <3>1. i \in n - k + 2 .. n
      BY <1>2, <2>2
    <3> QED BY <1>4, <3>1
  <2> QED BY <2>1, <2>2
<1> QED BY <1>2, <1>3, <1>4, <1>5 DEF Open, n

LEMMA BeginsMore ==
  ASSUME NEW s \in Seq(Byte), NEW m \in Packets, NEW k, Begins(s, k, m), k < FrameLength(m),
         NEW b \in Byte, b = Frames[m][k + 1], NEW r, r = Append(s, b)
  PROVE  Begins(r, k + 1, m)
<1> DEFINE F == Frames[m]
           n == Len(s)
<1>1. n \in Nat /\ k \in 0 .. n /\ \A i \in 1 .. k : s[n - k + i] = F[i]
  BY DEF Begins
<1>2. Longer(s, b, r)
  BY LongerIs
<1>3. Len(r) = n + 1 /\ r[n + 1] = F[k + 1] /\ FrameLength(m) \in Nat
  BY <1>2, FramesAre DEF Longer
<1> HIDE DEF F
<1>4. ASSUME NEW i \in 1 .. k + 1 PROVE r[(n + 1) - (k + 1) + i] = F[i]
  <2>1. CASE i = k + 1
    <3>1. (n + 1) - (k + 1) + i = n + 1
      BY <1>1, <2>1
    <3> QED BY <1>3, <2>1, <3>1
  <2>2. CASE i # k + 1
    <3>1. i \in 1 .. k /\ n - k + i \in 1 .. n /\ (n + 1) - (k + 1) + i = n - k + i
      BY <1>1, <2>2
    <3>2. r[n - k + i] = s[n - k + i]
      BY <1>2, <3>1 DEF Longer
    <3> QED BY <1>1, <3>1, <3>2
  <2> QED BY <2>1, <2>2
<1>5. k + 1 \in 0 .. n + 1 /\ k + 1 <= FrameLength(m)
  BY <1>1, <1>3
<1> QED BY <1>3, <1>4, <1>5 DEF Begins, F

LEMMA BeginsEnds ==
  ASSUME NEW s \in Seq(Byte), NEW m \in Packets, Begins(s, FrameLength(m), m)
  PROVE  EndsAt(s, Len(s), m) /\ s[Len(s)] = END
<1> DEFINE F == Frames[m]
           L == FrameLength(m)
           n == Len(s)
<1>1. L \in Nat /\ L >= 2 /\ L = Len(F) /\ IsFrame(F)
  BY FramesAre
<1>2. n \in Nat /\ L \in 0 .. n /\ \A i \in 1 .. L : s[n - L + i] = F[i]
  BY DEF Begins
<1>3. EndsAt(s, n, m)
  BY <1>2 DEF EndsAt
<1> HIDE DEF F, L, n
<1>4. L \in 1 .. L /\ n - L + L = n
  BY <1>1, <1>2
<1>5. s[n] = F[L]
  BY <1>2, <1>4
<1> QED BY <1>1, <1>3, <1>5 DEF IsFrame, n

LEMMA FramedMore ==
  ASSUME NEW s, Framed(s), NEW b \in Byte, NEW r, r = Append(s, b),
         b = END => \E m \in Packets : EndsAt(r, Len(r), m),
         (s = <<>> \/ s[Len(s)] = END) => b = BEGIN
  PROVE  Framed(r)
<1> DEFINE n == Len(s)
<1>1. s \in Seq(Byte) /\ n \in Nat
  BY DEF Framed
<1>2. Longer(s, b, r)
  BY <1>1, LongerIs
<1>3. r \in Seq(Byte) /\ Len(r) = n + 1 /\ r[n + 1] = b /\ \A i \in 1 .. n : r[i] = s[i]
  BY <1>2 DEF Longer
<1> HIDE DEF n
<1>4. ASSUME NEW i \in 1 .. n + 1, r[i] = END PROVE \E m \in Packets : EndsAt(r, i, m)
  <2>1. CASE i = n + 1
    BY <1>3, <1>4, <2>1
  <2>2. CASE i # n + 1
    <3>1. i \in 1 .. n /\ s[i] = END
      BY <1>1, <1>3, <1>4, <2>2
    <3>2. PICK m \in Packets : EndsAt(s, i, m)
      BY <3>1 DEF Framed, n
    <3>3. Moves(r, s, 0, i)
      <4>1. ASSUME NEW j \in 1 .. i PROVE r[0 + j] = s[j]
        <5>1. j \in 1 .. n /\ 0 + j = j
          BY <1>1, <3>1
        <5> QED BY <1>3, <5>1
      <4>2. i \in Nat /\ i >= 1 /\ 0 \in Nat /\ ~ (0 > 0)
        BY <1>1, <3>1
      <4> QED BY ONLY <4>1, <4>2 DEF Moves
    <3>4. EndsAt(r, 0 + i, m)
      BY <3>2, <3>3, EndsAtMoves
    <3>5. 0 + i = i
      BY <1>1
    <3> QED BY <3>4, <3>5
  <2> QED BY <2>1, <2>2
<1>5. r[1] = BEGIN
  <2>1. CASE s = <<>>
    <3>1. n = 0
      BY <2>1, EmptySeq DEF n
    <3> QED BY <1>3, <2>1, <3>1
  <2>2. CASE s # <<>>
    <3>1. n \in Nat \ {0}
      BY <1>1, <2>2, EmptySeq DEF n
    <3>2. s[1] = BEGIN
      BY <2>2 DEF Framed
    <3> QED BY <1>3, <3>1, <3>2
  <2> QED BY <2>1, <2>2
<1>6. ASSUME NEW i \in 1 .. n, r[i] = END PROVE r[i + 1] = BEGIN
  <2>1. CASE i = n
    <3>1. s[n] = END
      BY <1>3, <1>6, <2>1
    <3> QED BY <1>3, <2>1, <3>1 DEF n
  <2>2. CASE i # n
    <3>1. i \in 1 .. n - 1 /\ i + 1 \in 1 .. n /\ s[i] = END
      BY <1>1, <1>3, <1>6, <2>2
    <3>2. s[i + 1] = BEGIN
      BY <3>1 DEF Framed, n
    <3> QED BY <1>3, <3>1, <3>2
  <2> QED BY <2>1, <2>2
<1>7. (n + 1) - 1 = n
  BY <1>1
<1> QED BY <1>3, <1>4, <1>5, <1>6, <1>7 DEF Framed

LEMMA FramedLess ==
  ASSUME NEW s, Framed(s), NEW e \in Seq(Byte), NEW t \in Seq(Byte), Splits(s, e, t)
  PROVE  Framed(t)
<1> DEFINE k == Len(e) + 1
           n == Len(t)
<1>1. /\ Len(e) \in Nat /\ k \in Nat /\ k >= 1 /\ n \in Nat /\ Len(s) = k + n /\ s[k] = END
      /\ \A i \in 1 .. n : s[k + i] = t[i]
  BY DEF Splits
<1> HIDE DEF k, n
<1>2. ASSUME NEW i \in 1 .. n, t[i] = END PROVE \E m \in Packets : EndsAt(t, i, m)
  <2>1. k + i \in 1 .. Len(s) /\ s[k + i] = END
    BY <1>1, <1>2
  <2>2. PICK m \in Packets : EndsAt(s, k + i, m)
    BY <2>1 DEF Framed
  <2>3. Moves(s, t, k, i)
    BY <1>1 DEF Moves
  <2> QED BY <2>2, <2>3, EndsAtMoves
<1>3. ASSUME t # <<>> PROVE t[1] = BEGIN
  <2>1. n \in Nat \ {0}
    BY <1>3, EmptySeq DEF n
  <2>2. k \in 1 .. Len(s) - 1 /\ 1 \in 1 .. n
    BY <1>1, <2>1
  <2>3. s[k + 1] = BEGIN
    BY <1>1, <2>2 DEF Framed
  <2> QED BY <1>1, <2>2, <2>3
<1>4. ASSUME NEW i \in 1 .. n - 1, t[i] = END PROVE t[i + 1] = BEGIN
  <2>1. k + i \in 1 .. Len(s) - 1 /\ s[k + i] = END /\ i + 1 \in 1 .. n
    BY <1>1, <1>4
  <2>2. s[(k + i) + 1] = BEGIN
    BY <2>1 DEF Framed
  <2>3. (k + i) + 1 = k + (i + 1)
    BY <1>1
  <2> QED BY <1>1, <2>1, <2>2, <2>3
<1> QED BY <1>2, <1>3, <1>4 DEF Framed, n

-----------------------------------------------------------------------------
(* What has been abandoned.                                                *)

LEMMA AbandonedNone == ~ Abandoned(<<>>, 0)
BY DEF Abandoned

\* The next byte of a frame, but its END, abandons nothing.
LEMMA AbandonedMore ==
  ASSUME NEW s \in Seq(Byte), NEW b \in Byte, b # END, NEW r, r = Append(s, b),
         NEW last \in 0 .. Len(s)
  PROVE  Abandoned(r, last) <=> Abandoned(s, last)
<1> DEFINE n == Len(s)
<1>1. n \in Nat
  OBVIOUS
<1>2. Longer(s, b, r)
  BY LongerIs
<1>3. Len(r) = n + 1 /\ r[n + 1] = b /\ \A i \in 1 .. n : r[i] = s[i]
  BY <1>2 DEF Longer
<1>4. ASSUME NEW i \in 1 .. last
      PROVE  /\ r[i] = s[i]
             /\ \A j \in i + 1 .. n : r[j] = s[j]
             /\ \A j \in i + 1 .. n : \A k \in i + 1 .. j - 1 : r[k] = s[k]
  BY <1>1, <1>3
<1>5. ASSUME Abandoned(s, last) PROVE Abandoned(r, last)
  <2>1. PICK i \in 1 .. last :
             s[i] = BEGIN /\ \A j \in i + 1 .. n : s[j] = END => \E k \in i + 1 .. j - 1 : s[k] = BEGIN
    BY <1>5 DEF Abandoned
  <2>2. ASSUME NEW j \in i + 1 .. n + 1, r[j] = END PROVE \E k \in i + 1 .. j - 1 : r[k] = BEGIN
    <3>1. j # n + 1
      BY <1>3, <2>2
    <3>2. j \in i + 1 .. n
      BY <1>1, <3>1
    <3>3. s[j] = END
      BY <1>4, <2>2, <3>2
    <3>4. PICK k \in i + 1 .. j - 1 : s[k] = BEGIN
      BY <2>1, <3>2, <3>3
    <3>5. r[k] = BEGIN
      BY <1>4, <3>2, <3>4
    <3> QED BY <3>5
  <2>3. r[i] = BEGIN
    BY <1>4, <2>1
  <2> QED BY <1>3, <2>2, <2>3 DEF Abandoned
<1>6. ASSUME Abandoned(r, last) PROVE Abandoned(s, last)
  <2>1. PICK i \in 1 .. last :
             r[i] = BEGIN /\ \A j \in i + 1 .. n + 1 : r[j] = END => \E k \in i + 1 .. j - 1 : r[k] = BEGIN
    BY <1>3, <1>6 DEF Abandoned
  <2>2. ASSUME NEW j \in i + 1 .. n, s[j] = END PROVE \E k \in i + 1 .. j - 1 : s[k] = BEGIN
    <3>2. j \in i + 1 .. n + 1
      BY <1>1
    <3>3. r[j] = END
      BY <1>4, <2>2
    <3>4. PICK k \in i + 1 .. j - 1 : r[k] = BEGIN
      BY <2>1, <3>2, <3>3
    <3>5. s[k] = BEGIN
      BY <1>4, <3>4
    <3> QED BY <3>5
  <2>3. s[i] = BEGIN
    BY <1>4, <2>1
  <2> QED BY <2>2, <2>3 DEF Abandoned
<1> QED BY <1>5, <1>6

\* Its END closes it, and nothing else.
LEMMA AbandonedEnds ==
  ASSUME NEW s \in Seq(Byte), NEW k \in 1 .. Len(s), s[Len(s) - k + 1] = BEGIN,
         \A i \in Len(s) - k + 2 .. Len(s) : s[i] \notin {BEGIN, END},
         NEW r, r = Append(s, END)
  PROVE  Abandoned(r, Len(r)) <=> Abandoned(s, Len(s) - k)
<1> DEFINE n == Len(s)
           c == n - k + 1
<1>1. n \in Nat /\ c \in 1 .. n /\ END # BEGIN /\ n - k = c - 1
  BY DEF BEGIN, END
<1>2. Longer(s, END, r)
  <2>1. END \in Byte
    BY DEF END, Byte
  <2> QED BY <2>1, LongerIs
<1>3. Len(r) = n + 1 /\ r[n + 1] = END /\ \A i \in 1 .. n : r[i] = s[i]
  BY <1>2 DEF Longer
<1>4. s[c] = BEGIN /\ r[c] = BEGIN
  BY <1>1, <1>3
<1> HIDE DEF c
<1>5. ASSUME Abandoned(s, n - k) PROVE Abandoned(r, n + 1)
  <2>1. PICK i \in 1 .. c - 1 :
             s[i] = BEGIN /\ \A j \in i + 1 .. n : s[j] = END => \E y \in i + 1 .. j - 1 : s[y] = BEGIN
    BY <1>1, <1>5 DEF Abandoned
  <2>2. ASSUME NEW j \in i + 1 .. n + 1, r[j] = END PROVE \E y \in i + 1 .. j - 1 : r[y] = BEGIN
    <3>1. CASE j = n + 1
      <4>1. c \in i + 1 .. j - 1
        BY <1>1, <3>1
      <4> QED BY <1>4, <4>1
    <3>2. CASE j # n + 1
      <4>1. j \in i + 1 .. n /\ j \in 1 .. n
        BY <1>1, <3>2
      <4>2. s[j] = END
        BY <1>3, <2>2, <4>1
      <4>3. PICK y \in i + 1 .. j - 1 : s[y] = BEGIN
        BY <2>1, <4>1, <4>2
      <4>4. y \in 1 .. n
        BY <1>1, <4>1
      <4>5. r[y] = BEGIN
        BY <1>3, <4>3, <4>4
      <4> QED BY <4>5
    <3> QED BY <3>1, <3>2
  <2>3. i \in 1 .. n + 1 /\ i \in 1 .. n
    BY <1>1
  <2>4. r[i] = BEGIN
    BY <1>3, <2>1, <2>3
  <2> QED BY <1>3, <2>2, <2>3, <2>4 DEF Abandoned
<1>6. ASSUME Abandoned(r, n + 1) PROVE Abandoned(s, n - k)
  <2>1. PICK i \in 1 .. n + 1 :
             r[i] = BEGIN /\ \A j \in i + 1 .. n + 1 : r[j] = END => \E y \in i + 1 .. j - 1 : r[y] = BEGIN
    BY <1>3, <1>6 DEF Abandoned
  <2>2. i # n + 1
    BY <1>1, <1>3, <2>1
  <2>3. i \in 1 .. n /\ n + 1 \in i + 1 .. n + 1
    <3>1. i \in 1 .. n + 1 /\ n \in Nat
      BY <1>1
    <3> QED BY ONLY <2>2, <3>1
  <2>4. PICK y \in i + 1 .. n : r[y] = BEGIN
    <3>1. PICK y \in i + 1 .. (n + 1) - 1 : r[y] = BEGIN
      BY <1>3, <2>1, <2>3
    <3> QED BY <1>1, <3>1
  <2>5. y \in 1 .. n /\ s[y] = BEGIN
    BY <1>1, <1>3, <2>3, <2>4
  <2>6. y <= c
    <3> SUFFICES ASSUME y > c PROVE FALSE
      BY <1>1, <2>5
    <3>1. y \in Len(s) - k + 2 .. Len(s)
      BY <1>1, <2>5 DEF c
    <3> QED BY <2>5, <3>1
  <2>7. i \in 1 .. c - 1
    BY <1>1, <2>3, <2>4, <2>6
  <2>8. ASSUME NEW j \in i + 1 .. n, s[j] = END PROVE \E z \in i + 1 .. j - 1 : s[z] = BEGIN
    <3>2. j \in i + 1 .. n + 1 /\ j \in 1 .. n
      BY <1>1, <2>3
    <3>3. r[j] = END
      BY <1>3, <2>8, <3>2
    <3>4. PICK z \in i + 1 .. j - 1 : r[z] = BEGIN
      BY <2>1, <3>2, <3>3
    <3>5. z \in 1 .. n
      BY <1>1, <2>3, <3>2
    <3>6. s[z] = BEGIN
      BY <1>3, <3>4, <3>5
    <3> QED BY <3>6
  <2>9. s[i] = BEGIN
    BY <1>3, <2>1, <2>3
  <2> QED BY <1>1, <2>7, <2>8, <2>9 DEF Abandoned
<1> QED BY <1>3, <1>5, <1>6 DEF n

\* A frame given up is.
LEMMA AbandonedSpills ==
  ASSUME NEW s \in Seq(Byte), NEW k \in 1 .. Len(s), Open(s, k), s[Len(s) - k + 1] = BEGIN
  PROVE  Abandoned(s, Len(s))
<1> DEFINE n == Len(s)
           c == n - k + 1
<1>1. n \in Nat /\ c \in 1 .. n
  OBVIOUS
<1>2. ASSUME NEW j \in c + 1 .. n PROVE s[j] # END
  <2>1. j \in Len(s) - k + 1 .. Len(s)
    BY <1>1
  <2> QED BY <2>1 DEF Open
<1>3. s[c] = BEGIN
  OBVIOUS
<1> HIDE DEF c
<1> QED BY <1>1, <1>2, <1>3 DEF Abandoned

\* What is abandoned after the first END was so before.
LEMMA AbandonedLess ==
  ASSUME NEW s \in Seq(Byte), NEW e \in Seq(Byte), NEW t \in Seq(Byte), Splits(s, e, t),
         Abandoned(t, Len(t))
  PROVE  Abandoned(s, Len(s))
<1> DEFINE k == Len(e) + 1
           n == Len(t)
<1>1. /\ Len(e) \in Nat /\ k \in Nat /\ k >= 1 /\ n \in Nat /\ Len(s) = k + n
      /\ \A i \in 1 .. n : s[k + i] = t[i]
  BY DEF Splits
<1>2. PICK i \in 1 .. n :
           t[i] = BEGIN /\ \A j \in i + 1 .. n : t[j] = END => \E y \in i + 1 .. j - 1 : t[y] = BEGIN
  BY DEF Abandoned
<1> HIDE DEF k, n
<1>3. ASSUME NEW j \in (k + i) + 1 .. k + n, s[j] = END
      PROVE  \E y \in (k + i) + 1 .. j - 1 : s[y] = BEGIN
  <2>1. j - k \in i + 1 .. n /\ j - k \in 1 .. n /\ k + (j - k) = j
    BY <1>1
  <2>2. t[j - k] = END
    BY <1>1, <1>3, <2>1
  <2>3. PICK y \in i + 1 .. (j - k) - 1 : t[y] = BEGIN
    BY <1>2, <2>1, <2>2
  <2>4. y \in 1 .. n /\ k + y \in (k + i) + 1 .. j - 1
    BY <1>1, <2>1
  <2>5. s[k + y] = BEGIN
    BY <1>1, <2>3, <2>4
  <2> QED BY <2>4, <2>5
<1>4. k + i \in 1 .. k + n /\ s[k + i] = BEGIN
  BY <1>1, <1>2
<1> QED BY <1>1, <1>3, <1>4 DEF Abandoned

-----------------------------------------------------------------------------
(* A parser that has read a run of bytes.                                   *)

\* What PROTO_ParseByte has made of e, from whatever was on the stack.
ParserIs(p, e) == \E f : Parses(f, e, Len(e)) /\ p = f[Len(e)]

LEMMA ParserStarts == ASSUME NEW p \in Parsers PROVE ParserIs(p, <<>>)
<1> DEFINE f == [i \in 0 .. 0 |-> p]
<1>1. Len(<<>>) = 0 /\ f \in [0 .. 0 -> Parsers] /\ f[0] = p
  OBVIOUS
<1> HIDE DEF f
<1>2. Parses(f, <<>>, 0)
  BY <1>1 DEF Parses
<1> QED BY <1>1, <1>2 DEF ParserIs

LEMMA ParserMore ==
  ASSUME NEW e \in Seq(Byte), NEW b \in Byte, NEW p \in Parsers, ParserIs(p, e),
         Len(p.data) <= BufSize
  PROVE  ParserIs(ParseByte(p, b), Append(e, b))
<1> DEFINE n == Len(e)
           r == Append(e, b)
           q == ParseByte(p, b)
<1>1. n \in Nat /\ Longer(e, b, r) /\ q \in Parsers
  BY LongerIs, ParseByteType
<1>2. PICK f : Parses(f, e, n) /\ p = f[n]
  BY DEF ParserIs
<1> DEFINE g == [i \in 0 .. n + 1 |-> IF i <= n THEN f[i] ELSE q]
<1>3. g \in [0 .. n + 1 -> Parsers]
  BY <1>1, <1>2 DEF Parses
<1>4. g[n + 1] = q /\ \A i \in 0 .. n : g[i] = f[i]
  BY <1>1
<1> HIDE DEF g, r
<1>5. ASSUME NEW i \in 1 .. n + 1 PROVE g[i] = ParseByte(g[i - 1], r[i])
  <2>1. CASE i = n + 1
    <3>1. i - 1 = n /\ n \in 0 .. n /\ r[i] = b
      BY <1>1, <2>1 DEF Longer
    <3> QED BY <1>2, <1>4, <2>1, <3>1
  <2>2. CASE i # n + 1
    <3>1. i \in 1 .. n /\ i \in 0 .. n /\ i - 1 \in 0 .. n
      BY <1>1, <2>2
    <3>2. r[i] = e[i]
      BY <1>1, <3>1 DEF Longer
    <3>3. f[i] = ParseByte(f[i - 1], e[i])
      BY <1>2, <3>1 DEF Parses
    <3> QED BY <1>4, <3>1, <3>2, <3>3
  <2> QED BY <2>1, <2>2
<1>6. Len(r) = n + 1
  BY <1>1 DEF Longer
<1>7. Parses(g, r, Len(r))
  BY <1>3, <1>5, <1>6 DEF Parses
<1> QED BY <1>4, <1>6, <1>7 DEF ParserIs, r

\* At the END of a frame it has the packet.
LEMMA ParserEnds ==
  ASSUME NEW s \in Seq(Byte), NEW e \in Seq(Byte), NEW t, Splits(s, e, t), Len(t) \in Nat,
         NEW m \in Packets, EndsAt(s, Len(e) + 1, m), NEW p, ParserIs(p, e)
  PROVE  p.data = m
<1> DEFINE n == Len(e)
<1>1. n \in Nat /\ n + 1 \in 1 .. Len(s) /\ (n + 1) - 1 = n /\ \A i \in 1 .. n : s[i] = e[i]
  BY DEF Splits
<1>2. PICK f : Parses(f, e, n) /\ p = f[n]
  BY DEF ParserIs
<1>3. Parses(f, s, (n + 1) - 1)
  BY <1>1, <1>2 DEF Parses
<1> QED BY <1>1, <1>2, <1>3, ParsesFrame

-----------------------------------------------------------------------------
(* The steps of the event loop, when no interrupt comes.                    *)

\* The ring stores bytes, as many as Waiting says.
StoredBytes == QueueInv /\ torn = FALSE =>
  Stored \in Seq(Byte) /\ Len(Stored) = Waiting /\ Waiting \in 0 .. Size

LEMMA StoredFacts == StoredBytes
<1> SUFFICES ASSUME QueueInv, torn = FALSE
             PROVE  Stored \in Seq(Byte) /\ Len(Stored) = Waiting /\ Waiting \in 0 .. Size
  BY DEF StoredBytes
<1>1. Types /\ Alone /\ Phase /\ \A c \in Ctx : Reach(c)
  BY DEF QueueInv, BoundsInv, PhaseInv
<1>2. Running \in Ctx
  BY DEF Running, Ctx
<1>3. PhaseAt(pc[Running], reg[Running]) /\ Reach(Running)
  BY <1>1, <1>2 DEF Phase
<1>4. Waiting \in 0 .. Size
  BY <1>3, SizeAssumption DEF PhaseAt, Waiting
<1>5. Oldest \in 0 .. Size
  BY <1>2, <1>3, SizeAssumption DEF PhaseAt, Oldest, Reach, Slack, Ctx
<1> QED BY <1>1, <1>4, <1>5, StoredIsSeq DEF Types

LEMMA StoredFactsNext == StoredBytes'
BY StoredFacts, PTL

\* What a step of the event loop does with the bytes and with the one it holds.
BytesMove ==
  \/ Stored' = Stored /\ InHand("main")' = InHand("main")
  \/ /\ Stored' = Stored /\ Len(Stored) = Size
     /\ \E b \in Byte : InHand("main") = <<"put", b>>
  \/ /\ Stored' = Stored /\ \A b \in Byte : InHand("main") # <<"put", b>>
     /\ \A b : InHand("main")' # <<"got", b>>
  \/ /\ Len(Stored) < Size /\ InHand("main")' = <<>>
     /\ \E b \in Byte : InHand("main") = <<"put", b>> /\ Stored' = Append(Stored, b)
  \/ /\ Stored # <<>> /\ InHand("main") = <<>>
     /\ InHand("main")' = <<"got", Head(Stored)>> /\ Stored' = Tail(Stored)

LEMMA RingMoves ==
  ASSUME QueueInv, [Next]_vars, torn = FALSE, torn' = FALSE, pc["isr"] = "idle", pc'["isr"] = "idle"
  PROVE  BytesMove
<1>1. [Ring!Next]_Ring!vars
  BY RingStep
<1>2. /\ Hands["main"] = InHand("main") /\ Hands'["main"] = InHand("main")'
      /\ Hands["isr"] = <<>> /\ Hands'["isr"] = <<>>
  BY DEF Hands, InHand, Ctx
<1>3. Hands = [c \in Ctx |-> Hands[c]] /\ "main" \in Ctx /\ "isr" \in Ctx
  BY DEF Hands, Ctx
<1>4. \A x, b : <<"got", x>> # <<"put", b>> /\ <<>> # <<"put", b>> /\ <<>> # <<"got", b>>
  OBVIOUS
<1>5. CASE UNCHANGED Ring!vars
  BY <1>2, <1>5 DEF Ring!vars, BytesMove
<1>6. ASSUME NEW c \in Ctx, Ring!Put(c) PROVE BytesMove
  <2>1. PICK b \in Byte : Hands[c] = <<"put", b>> /\ Stored' = Append(Stored, b)
    BY <1>6 DEF Ring!Put, Ring!Putting
  <2>2. c = "main"
    BY <1>2, <1>4, <2>1 DEF Ctx
  <2>3. Len(Stored) < Size /\ Hands'["main"] = <<>>
    BY <1>3, <1>6, <2>2 DEF Ring!Put, Ring!Empty
  <2> QED BY <1>2, <2>1, <2>2, <2>3 DEF BytesMove
<1>7. ASSUME NEW c \in Ctx, Ring!Get(c) PROVE BytesMove
  <2>1. Hands'[c] = <<"got", Head(Stored)>> /\ Hands[c] = <<>> /\ Stored # <<>> /\ Stored' = Tail(Stored)
    BY <1>3, <1>7 DEF Ring!Get, Ring!Got, Ring!Empty
  <2>2. c = "main"
    BY <1>2, <1>4, <2>1 DEF Ctx
  <2> QED BY <1>2, <2>1, <2>2 DEF BytesMove
<1>8. ASSUME NEW c \in Ctx, Ring!Refuse(c) PROVE BytesMove
  <2>1. PICK b \in Byte : Hands[c] = <<"put", b>>
    BY <1>8 DEF Ring!Refuse, Ring!Putting
  <2>2. c = "main"
    BY <1>2, <1>4, <2>1 DEF Ctx
  <2> QED BY <1>2, <1>8, <2>1, <2>2 DEF BytesMove, Ring!Refuse
<1>9. ASSUME NEW c \in Ctx, Ring!Turn(c) PROVE BytesMove
  <2>1. PICK h : /\ Hands' = [Hands EXCEPT ![c] = h]
                 /\ h = <<>> \/ \E b \in Byte : h = <<"put", b>>
    BY <1>9 DEF Ring!Turn, Ring!Putting, Ring!Empty
  <2>2. Stored' = Stored
    BY <1>9 DEF Ring!Turn
  <2>3. CASE c = "main"
    <3>1. Hands'["main"] = h
      BY <1>3, <2>1, <2>3
    <3>2. \A b : h # <<"got", b>>
      BY <1>4, <2>1
    <3>3. \A b \in Byte : Hands["main"] # <<"put", b>>
      BY <1>9, <2>3 DEF Ring!Turn, Ring!Putting
    <3> QED BY <1>2, <2>2, <3>1, <3>2, <3>3 DEF BytesMove
  <2>4. CASE c = "isr"
    <3>1. Hands'["main"] = Hands["main"]
      BY <1>3, <2>1, <2>4
    <3> QED BY <1>2, <2>2, <3>1 DEF BytesMove
  <2> QED BY <2>3, <2>4 DEF Ctx
<1> QED BY <1>1, <1>5, <1>6, <1>7, <1>8, <1>9 DEF Ring!Next, Ring!Works

-----------------------------------------------------------------------------
(* The bytes not yet read, and the abstract queue.                          *)

Got == {"get_wrap", "get_reset", "parse"}

LEMMA UnreadIs ==
  /\ pc["main"] \notin Got => Unread = (eaten \o <<>>) \o Stored
  /\ pc["main"] \in Got => Unread = (eaten \o <<reg["main"]>>) \o Stored
BY DEF Unread, Got

LEMMA NothingEaten ==
  ASSUME NEW t \in Seq(Byte)
  PROVE  (<<>> \o <<>>) \o t = t
<1> HIDE DEF Byte
<1>1. <<>> \in Seq(Byte)
  BY EmptySeq
<1>2. <<>> \o <<>> = <<>>
  BY ONLY <1>1, ConcatEmptySeq
<1>3. <<>> \o t = t
  BY ConcatEmptySeq
<1> QED BY <1>2, <1>3

\* The oldest byte is got.
LEMMA GotIsUnread ==
  ASSUME NEW e \in Seq(Byte), NEW t \in Seq(Byte), t # <<>>
  PROVE  (e \o <<Head(t)>>) \o Tail(t) = (e \o <<>>) \o t
<1> HIDE DEF Byte
<1>1. Head(t) \in Byte /\ Tail(t) \in Seq(Byte) /\ Len(Tail(t)) = Len(t) - 1
      /\ \A i \in 1 .. Len(Tail(t)) : Tail(t)[i] = t[i + 1]
  BY HeadTailProperties
<1>2. <<Head(t)>> \in Seq(Byte) /\ Len(<<Head(t)>>) = 1 /\ <<Head(t)>>[1] = Head(t)
  BY <1>1
<1>3. e \o <<>> = e
  BY ConcatEmptySeq
<1>4. (e \o <<Head(t)>>) \o Tail(t) = e \o (<<Head(t)>> \o Tail(t))
  BY <1>1, <1>2, ConcatAssociative
<1> DEFINE u == <<Head(t)>> \o Tail(t)
<1>5. Follows(<<Head(t)>>, Tail(t), u)
  BY <1>1, <1>2, FollowsIs
<1>6. t[1] = Head(t) /\ Len(t) \in Nat
  OBVIOUS
<1>7. u \in Seq(Byte) /\ Len(u) = Len(t) /\ \A i \in 1 .. Len(u) : u[i] = t[i]
  <2>1. u \in Seq(Byte) /\ Len(u) = Len(t)
    BY <1>1, <1>2, <1>5, <1>6 DEF Follows
  <2>2. ASSUME NEW i \in 1 .. Len(u) PROVE u[i] = t[i]
    <3>1. CASE i = 1
      BY <1>2, <1>5, <1>6, <3>1 DEF Follows
    <3>2. CASE i # 1
      <4>1. i - 1 \in 1 .. Len(Tail(t)) /\ (i - 1) + 1 = i
        BY <1>1, <1>6, <2>1, <3>2
      <4>2. u[1 + (i - 1)] = Tail(t)[i - 1]
        BY <1>2, <1>5, <4>1 DEF Follows
      <4>3. 1 + (i - 1) = i
        BY <4>1
      <4> QED BY <1>1, <4>1, <4>2, <4>3
    <3> QED BY <3>1, <3>2
  <2> QED BY <2>1, <2>2
<1> HIDE DEF u
<1>8. u = t
  BY ONLY <1>7, t \in Seq(Byte), SeqEqual
<1> QED BY <1>3, <1>4, <1>8 DEF u

\* A byte in hand is one more consumed.
LEMMA EatenMore ==
  ASSUME NEW e \in Seq(Byte), NEW b \in Byte
  PROVE  Append(e, b) \o <<>> = e \o <<b>> /\ Append(e, b) \in Seq(Byte)
<1> DEFINE r == Append(e, b)
<1>1. Longer(e, b, r) /\ r \in Seq(Byte)
  BY LongerIs DEF Longer
<1>2. <<b>> \in Seq(Byte) /\ Len(<<b>>) = 1 /\ <<b>>[1] = b
  OBVIOUS
<1>3. Follows(e, <<b>>, e \o <<b>>)
  BY <1>2, FollowsIs
<1> DEFINE u == e \o <<b>>
<1>4. u \in Seq(Byte) /\ Len(u) = Len(e) + 1 /\ u[Len(e) + 1] = b
      /\ \A i \in 1 .. Len(e) : u[i] = e[i]
  BY <1>2, <1>3 DEF Follows
<1> HIDE DEF r, u, Byte
<1>5. Len(e) \in Nat
  OBVIOUS
<1>6. r \in Seq(Byte) /\ Len(r) = Len(u) /\ \A i \in 1 .. Len(r) : r[i] = u[i]
  <2>1. Len(r) = Len(u) /\ Len(r) = Len(e) + 1
    BY <1>1, <1>4 DEF Longer
  <2>2. ASSUME NEW i \in 1 .. Len(r) PROVE r[i] = u[i]
    <3>1. i \in 1 .. Len(e) \/ i = Len(e) + 1
      BY <1>5, <2>1
    <3> QED BY <1>1, <1>4, <3>1 DEF Longer
  <2> QED BY <1>1, <2>1, <2>2
<1>7. r = u
  BY ONLY <1>4, <1>6, SeqEqual, Zenon
<1>8. r \o <<>> = r
  BY <1>1, ConcatEmptySeq
<1> QED BY <1>1, <1>7, <1>8 DEF r, u

\* An END in hand splits the bytes not yet read.
LEMMA EndSplits ==
  ASSUME NEW e \in Seq(Byte), \A i \in 1 .. Len(e) : e[i] # END, NEW t \in Seq(Byte)
  PROVE  Splits((e \o <<END>>) \o t, e, t)
<1> DEFINE u == e \o <<END>>
           s == u \o t
<1>1. <<END>> \in Seq(Byte) /\ Len(<<END>>) = 1 /\ <<END>>[1] = END
  BY DEF END, Byte
<1>2. Follows(e, <<END>>, u)
  BY <1>1, FollowsIs
<1>3. u \in Seq(Byte) /\ Len(u) = Len(e) + 1 /\ u[Len(e) + 1] = END
      /\ \A i \in 1 .. Len(e) : u[i] = e[i]
  BY <1>1, <1>2 DEF Follows
<1>4. Follows(u, t, s)
  BY <1>3, FollowsIs
<1>5. Len(e) \in Nat /\ Len(t) \in Nat
  OBVIOUS
<1> HIDE DEF u, s
<1>6. Len(s) = Len(e) + 1 + Len(t)
  BY <1>3, <1>4, <1>5 DEF Follows
<1>7. s[Len(e) + 1] = END
  <2>1. Len(e) + 1 \in 1 .. Len(u)
    BY <1>3, <1>5
  <2> QED BY <1>3, <1>4, <2>1 DEF Follows
<1>8. \A i \in 1 .. Len(e) : s[i] = e[i] /\ e[i] # END
  <2>1. \A i \in 1 .. Len(e) : i \in 1 .. Len(u)
    BY <1>3, <1>5
  <2> QED BY <1>3, <1>4, <2>1 DEF Follows
<1>9. \A i \in 1 .. Len(t) : s[Len(e) + 1 + i] = t[i]
  BY <1>3, <1>4 DEF Follows
<1>10. Splits(s, e, t)
  BY <1>6, <1>7, <1>8, <1>9 DEF Splits
<1> QED BY <1>10 DEF s, u

LEMMA NoEndNoPacket ==
  ASSUME NEW s \in Seq(Byte), \A i \in 1 .. Len(s) : s[i] # END
  PROVE  PacketsIn(s) = <<>>
<1> DEFINE n == Len(s)
<1>1. PICK f : Reads(f, s) /\ PacketsIn(s) = f[n]
  BY PacketsInIs
<1>2. n \in Nat
  OBVIOUS
<1> DEFINE T == {i \in 0 .. n : f[i] = <<>>}
<1>3. 0 \in T
  BY <1>1, <1>2 DEF Reads
<1>4. ASSUME NEW i \in 0 .. n - 1, i \in T PROVE i + 1 \in T
  <2>1. i + 1 \in 1 .. n /\ (i + 1) - 1 = i /\ f[i] = <<>>
    BY <1>2, <1>4
  <2>2. s[i + 1] # END /\ f[i + 1] = IF s[i + 1] = END THEN Append(f[(i + 1) - 1], PacketAt(s, i + 1)) ELSE f[(i + 1) - 1]
    BY <1>1, <2>1 DEF Reads
  <2> QED BY <1>2, <2>1, <2>2
<1> HIDE DEF T
<1>5. \A i \in 0 .. n : i \in T
  BY <1>2, <1>3, <1>4, IntervalInduction
<1> QED BY <1>1, <1>2, <1>5 DEF T

\* With nothing abandoned before the bytes of a frame that fill the queue, its packet
\* does not fit.
LEMMA NoRoom ==
  ASSUME NEW s, Framed(s), Len(s) = Size, NEW m \in Packets, NEW k, Open(s, k), k < FrameLength(m)
  PROVE  ~ Fifo!Fits(PacketsIn(s), m) \/ Abandoned(s, Len(s) - k)
<1> SUFFICES ASSUME ~ Abandoned(s, Len(s) - k) PROVE ~ Fifo!Fits(PacketsIn(s), m)
  OBVIOUS
<1>1. Fifo!Taken(PacketsIn(s)) = Len(s) - k
  BY NothingElse
<1>2. FrameLength(m) \in Nat /\ Size \in Nat /\ k \in Int
  BY FramesAre, SizeAssumption DEF Open
<1> DEFINE L == FrameLength(m)
<1>3. Fifo!Fits(PacketsIn(s), m) <=> Fifo!Taken(PacketsIn(s)) + L <= Size
  BY DEF Fifo!Fits
<1> HIDE DEF L
<1>4. L \in Nat /\ k < L
  BY <1>2 DEF L
<1> QED BY <1>1, <1>2, <1>3, <1>4

Queue == PacketsIn(Unread)
Partial == IF Complete THEN 0 ELSE Written
Wanted == IF Complete THEN NoPacket ELSE pkt["main"]
Litter == Abandoned(Unread, Len(Unread) - Partial)

\* What the steps of the queue of packets come to in the terms of the ring.
LEMMA FifoStutters ==
  ASSUME UNCHANGED <<Queue, Wanted, Litter, given>>
  PROVE  [Fifo!Next]_Fifo!vars
BY DEF Fifo!vars, Queue, Wanted, Litter, Partial

LEMMA FifoWants ==
  ASSUME NEW m \in Packets, Wanted = NoPacket, Wanted' = m, UNCHANGED <<Queue, Litter, given>>
  PROVE  [Fifo!Next]_Fifo!vars
<1>1. Fifo!Want(m)
  BY DEF Fifo!Want, Fifo!NoPacket, NoPacket, Queue, Wanted, Litter, Partial
<1> QED BY <1>1 DEF Fifo!Next

LEMMA FifoAccepts ==
  ASSUME Wanted # NoPacket, Queue' = Append(Queue, Wanted), Wanted' = NoPacket,
         UNCHANGED <<Litter, given>>
  PROVE  [Fifo!Next]_Fifo!vars
<1>1. Fifo!Accept
  BY DEF Fifo!Accept, Fifo!NoPacket, NoPacket, Queue, Wanted, Litter, Partial
<1> QED BY <1>1 DEF Fifo!Next

LEMMA FifoSpills ==
  ASSUME Wanted # NoPacket, ~ Fifo!Fits(Queue, Wanted) \/ Litter, Litter' = TRUE,
         UNCHANGED <<Queue, Wanted, given>>
  PROVE  [Fifo!Next]_Fifo!vars
<1>1. Fifo!Spill
  BY DEF Fifo!Spill, Fifo!NoPacket, NoPacket, Queue, Wanted, Litter, Partial
<1> QED BY <1>1 DEF Fifo!Next

LEMMA FifoForgets ==
  ASSUME Wanted # NoPacket, Queue # <<>>, ~ Fifo!Fits(Queue, Wanted) \/ Litter,
         Queue' = Tail(Queue), Litter' = Litter \/ Litter' = FALSE, UNCHANGED <<Wanted, given>>
  PROVE  [Fifo!Next]_Fifo!vars
<1>1. Fifo!Forget
  BY DEF Fifo!Forget, Fifo!NoPacket, NoPacket, Queue, Wanted, Litter, Partial
<1> QED BY <1>1 DEF Fifo!Next

LEMMA FifoRefuses ==
  ASSUME Wanted # NoPacket, ~ Fifo!Fits(Queue, Wanted) \/ Litter, Wanted' = NoPacket,
         UNCHANGED <<Queue, given>>
  PROVE  [Fifo!Next]_Fifo!vars
<1>0. Litter' \in BOOLEAN
  BY DEF Litter, Abandoned
<1>1. Fifo!Refuse
  BY <1>0 DEF Fifo!Refuse, Fifo!NoPacket, NoPacket, Queue, Wanted, Litter, Partial
<1> QED BY <1>1 DEF Fifo!Next

LEMMA FifoGives ==
  ASSUME Wanted = NoPacket, Wanted' = NoPacket, Queue # <<>>, given' = Head(Queue),
         Queue' = Tail(Queue), Litter' = Litter \/ Litter' = FALSE
  PROVE  [Fifo!Next]_Fifo!vars
<1>1. Fifo!Give
  BY DEF Fifo!Give, Fifo!NoPacket, NoPacket, Queue, Wanted, Litter, Partial
<1> QED BY <1>1 DEF Fifo!Next

LEMMA FifoSweeps ==
  ASSUME Queue = <<>>, Litter' = FALSE, UNCHANGED <<Queue, Wanted, given>>
  PROVE  [Fifo!Next]_Fifo!vars
<1>1. Fifo!Sweep
  BY DEF Fifo!Sweep, Queue, Wanted, Litter, Partial
<1> QED BY <1>1 DEF Fifo!Next

\* The bytes of a frame that a put has still to write.
IsRest(s, m) ==
  /\ s \in Seq(Byte) /\ Len(s) \in 1 .. FrameLength(m)
  /\ \A i \in 1 .. Len(s) : s[i] = Frames[m][FrameLength(m) - Len(s) + i]

LEMMA RestStarts == ASSUME NEW m \in Packets PROVE IsRest(Frame(m), m)
<1>1. /\ Frames[m] = Frame(m) /\ Frames[m] \in Seq(Byte) /\ FrameLength(m) = Len(Frames[m])
      /\ FrameLength(m) \in Nat /\ FrameLength(m) >= 2
  BY FramesAre DEF IsFrame
<1> DEFINE L == FrameLength(m)
           F == Frames[m]
<1> HIDE DEF L, F, Byte
<1>2. F \in Seq(Byte) /\ Len(F) = L /\ L \in Nat /\ L >= 2 /\ F = Frame(m)
  BY <1>1 DEF F, L
<1>3. \A i \in 1 .. Len(F) : L - Len(F) + i = i
  BY <1>2
<1> QED BY <1>2, <1>3 DEF IsRest, F, L

LEMMA RestGoesOn ==
  ASSUME NEW m \in Packets, NEW s, IsRest(s, m), Len(s) # 1
  PROVE  IsRest(Tail(s), m) /\ Len(Tail(s)) = Len(s) - 1
<1> DEFINE L == FrameLength(m)
           t == Tail(s)
<1>1. /\ s \in Seq(Byte) /\ Len(s) \in 1 .. L /\ L \in Nat
      /\ \A i \in 1 .. Len(s) : s[i] = Frames[m][L - Len(s) + i]
  BY FramesAre DEF IsRest
<1>2. s # <<>>
  BY <1>1, EmptySeq
<1>3. t \in Seq(Byte) /\ Len(t) = Len(s) - 1 /\ \A i \in 1 .. Len(t) : t[i] = s[i + 1]
  BY <1>1, <1>2, HeadTailProperties
<1> HIDE DEF L, t, Byte
<1>4. Len(t) \in 1 .. L
  BY <1>1, <1>3
<1>5. ASSUME NEW i \in 1 .. Len(t) PROVE t[i] = Frames[m][L - Len(t) + i]
  <2>1. i + 1 \in 1 .. Len(s) /\ L - Len(s) + (i + 1) = L - Len(t) + i
    BY <1>1, <1>3
  <2>2. s[i + 1] = Frames[m][L - Len(s) + (i + 1)]
    BY <1>1, <2>1
  <2> QED BY <1>3, <2>1, <2>2
<1> QED BY <1>3, <1>4, <1>5 DEF IsRest, L, t

\* Before and after the byte of this round is in the ring.
Early == {"put", "put_load", "put_count", "put_load_pos", "put_next", "put_byte"}
Late == {"put_wrap", "put_reset", "put_more"}

\* What has been written of the packet, and what is wanted, before, after and without
\* a put.
WritesEarly == \A m \in Packets :
  pc["main"] \in Early /\ pkt["main"] = m /\ IsRest(out["main"], m) =>
    /\ Written = FrameLength(m) - Len(out["main"]) /\ Written \in 0 .. FrameLength(m) - 1
    /\ Partial = Written /\ Wanted = m /\ m # NoPacket

WritesLate == \A m \in Packets :
  pc["main"] \in Late /\ pkt["main"] = m /\ IsRest(out["main"], m) =>
    /\ Written = FrameLength(m) - Len(out["main"]) + 1 /\ Written \in 1 .. FrameLength(m)
    /\ m # NoPacket
    /\ Len(out["main"]) = 1 =>
         Written = FrameLength(m) /\ Partial = 0 /\ Wanted = NoPacket
    /\ Len(out["main"]) # 1 => Partial = Written /\ Wanted = m

WritesNot ==
  pc["main"] \notin Putting /\ pkt["main"] \in Packets \cup {NoPacket} =>
    Written = 0 /\ Partial = 0 /\ Wanted = pkt["main"]

Writes == WritesEarly /\ WritesLate /\ WritesNot

LEMMA WritesAre == Writes
<1>1. WritesEarly
  <2> SUFFICES ASSUME NEW m \in Packets, pc["main"] \in Early, pkt["main"] = m,
                      IsRest(out["main"], m)
               PROVE  /\ Written = FrameLength(m) - Len(out["main"])
                      /\ Written \in 0 .. FrameLength(m) - 1
                      /\ Partial = Written /\ Wanted = m /\ m # NoPacket
    BY DEF WritesEarly
  <2> DEFINE L == FrameLength(m)
             n == Len(out["main"])
  <2>1. L \in Nat /\ n \in 1 .. L
    BY FramesAre DEF IsRest
  <2>2. m # NoPacket
    BY PacketsAssumption DEF NoPacket
  <2>3. Written = L - n + 0
    BY DEF Written, Early, Putting
  <2> HIDE DEF L, n
  <2>4. Written = L - n /\ Written \in 0 .. L - 1 /\ Written # L
    BY <2>1, <2>3
  <2>5. ~ Complete
    BY <2>4 DEF Complete, L
  <2> QED BY <2>2, <2>4, <2>5 DEF Partial, Wanted, L, n
<1>2. WritesLate
  <2> SUFFICES ASSUME NEW m \in Packets, pc["main"] \in Late, pkt["main"] = m,
                      IsRest(out["main"], m)
               PROVE  /\ Written = FrameLength(m) - Len(out["main"]) + 1
                      /\ Written \in 1 .. FrameLength(m) /\ m # NoPacket
                      /\ Len(out["main"]) = 1 =>
                           Written = FrameLength(m) /\ Partial = 0 /\ Wanted = NoPacket
                      /\ Len(out["main"]) # 1 => Partial = Written /\ Wanted = m
    BY DEF WritesLate
  <2> DEFINE L == FrameLength(m)
             n == Len(out["main"])
  <2>1. L \in Nat /\ n \in 1 .. L
    BY FramesAre DEF IsRest
  <2>2. m # NoPacket
    BY PacketsAssumption DEF NoPacket
  <2>3. Written = L - n + 1
    BY DEF Written, Late, Putting
  <2> HIDE DEF L, n
  <2>4. Written = L - n + 1 /\ Written \in 1 .. L /\ (Written = L <=> n = 1)
    BY <2>1, <2>3
  <2>5. Complete <=> n = 1
    BY <2>2, <2>4 DEF Complete, L
  <2> QED BY <2>2, <2>4, <2>5 DEF Partial, Wanted, L, n
<1>3. WritesNot
  <2> SUFFICES ASSUME pc["main"] \notin Putting, pkt["main"] \in Packets \cup {NoPacket}
               PROVE  Written = 0 /\ Partial = 0 /\ Wanted = pkt["main"]
    BY DEF WritesNot
  <2>1. Written = 0
    BY DEF Written
  <2>2. ~ Complete
    <3> SUFFICES ASSUME pkt["main"] \in Packets PROVE 0 # FrameLength(pkt["main"])
      BY <2>1 DEF Complete
    <3>1. FrameLength(pkt["main"]) >= 2
      BY FramesAre
    <3> QED BY <3>1
  <2> QED BY <2>1, <2>2 DEF Partial, Wanted
<1> QED BY <1>1, <1>2, <1>3 DEF Writes

LEMMA WritesNext == Writes'
BY WritesAre, PTL

-----------------------------------------------------------------------------
(* The invariant behind the refinement, and the steps that leave it alone.  *)

\* No interrupt has come.
Undisturbed == presses = 0 /\ torn = FALSE /\ pc["isr"] = "idle"

\* A put has written the first bytes of its packet's frame, and those are the last
\* in the ring.
PutInv == pc["main"] \in Putting =>
  /\ op["main"] \in {"publish", "answer"} /\ pkt["main"] \in Packets
  /\ IsRest(out["main"], pkt["main"])
  /\ Begins(Unread, Written, pkt["main"])

\* A reader has consumed no END; one that makes room found the ring full.
GetInv == pc["main"] \in Getting =>
  /\ \A i \in 1 .. Len(eaten) : eaten[i] # END
  /\ \/ op["main"] = "task" /\ pkt["main"] = NoPacket
     \/ op["main"] = "publish" /\ pkt["main"] \in Packets /\ Len(Unread) = Size
  /\ ParserIs(parser["main"], eaten)

RestInv ==
  /\ eaten \in Seq(Byte)
  /\ pc["main"] \notin Getting => eaten = <<>>
  /\ pc["main"] = "idle" => pkt["main"] = NoPacket

\* The bytes not yet read are frames, and between them what puts gave up.
FifoInv == Undisturbed /\ Framed(Unread) /\ RestInv /\ PutInv /\ GetInv

\* A step of the event loop, and what it has to do.
Goes == QueueInv /\ QueueInv' /\ FifoInv /\ Undisturbed' /\ BytesMove
Done == FifoInv' /\ [Fifo!Next]_Fifo!vars

LEMMA GoesWith ==
  ASSUME Goes
  PROVE  /\ Types /\ Types' /\ Fits("main") /\ "main" \in Ctx /\ torn = FALSE
         /\ pc["main"] \in Labels /\ op["main"] \in {"none", "publish", "answer", "task"}
         /\ pkt["main"] \in Packets \cup {NoPacket} /\ pkt'["main"] \in Packets \cup {NoPacket}
         /\ out["main"] \in Seq(Byte) /\ parser["main"] \in Parsers
         /\ eaten \in Seq(Byte) /\ Unread \in Seq(Byte)
         /\ Stored \in Seq(Byte) /\ Len(Stored) = Waiting /\ Waiting \in 0 .. Size
         /\ Stored' \in Seq(Byte) /\ fill_cnt \in 0 .. Size
<1>1. /\ Types /\ Types' /\ "main" \in Ctx /\ Fits("main") /\ torn = FALSE /\ torn' = FALSE
      /\ Phase /\ QueueInv /\ QueueInv'
  BY DEF Goes, QueueInv, BoundsInv, PhaseInv, Ctx, FifoInv, Undisturbed
<1>2. fill_cnt \in 0 .. Size
  BY <1>1 DEF Phase, PhaseAt
<1>3. /\ pc["main"] \in Labels /\ op["main"] \in {"none", "publish", "answer", "task"}
      /\ pkt["main"] \in Packets \cup {NoPacket} /\ pkt'["main"] \in Packets \cup {NoPacket}
      /\ out["main"] \in Seq(Byte) /\ parser["main"] \in Parsers
  BY <1>1 DEF Types
<1>4. eaten \in Seq(Byte) /\ Unread \in Seq(Byte)
  BY DEF Goes, FifoInv, RestInv, Framed
<1>5. Stored \in Seq(Byte) /\ Len(Stored) = Waiting /\ Waiting \in 0 .. Size /\ Stored' \in Seq(Byte)
  BY <1>1, StoredFacts, StoredFactsNext DEF StoredBytes
<1> QED BY <1>1, <1>2, <1>3, <1>4, <1>5

LEMMA BytesStay ==
  ASSUME BytesMove, pc["main"] \in Early => pc'["main"] \in Early \/ Len(Stored) = Size,
         pc'["main"] \in Got => pc["main"] \in Got
  PROVE  Stored' = Stored
<1>1. \A x, b : <<"got", x>> # <<"put", b>> /\ <<>> # <<"put", b>> /\ <<>> # <<"got", b>>
  OBVIOUS
<1>2. ~ (Len(Stored) < Size /\ InHand("main")' = <<>> /\ \E b \in Byte : InHand("main") = <<"put", b>>)
  <2>1. CASE pc["main"] \in Early /\ pc'["main"] \in Early
    BY <1>1, <2>1 DEF InHand, Early
  <2>2. CASE pc["main"] \notin Early
    BY <1>1, <2>2 DEF InHand, Early
  <2>3. CASE Len(Stored) = Size
    BY <2>3, SizeAssumption
  <2> QED BY <2>1, <2>2, <2>3
<1>3. ~ (InHand("main") = <<>> /\ InHand("main")' = <<"got", Head(Stored)>>)
  <2>1. CASE pc["main"] \in Got
    BY <1>1, <2>1 DEF InHand, Got
  <2>2. CASE pc'["main"] \notin Got
    BY <1>1, <2>2 DEF InHand, Got
  <2> QED BY <2>1, <2>2
<1> QED BY <1>2, <1>3 DEF BytesMove

LEMMA ByteIsPut ==
  ASSUME BytesMove, pc["main"] \in Early, pc'["main"] \in Late, Len(Stored) # Size,
         Head(out["main"]) \in Byte
  PROVE  Stored' = Append(Stored, Head(out["main"]))
<1>1. \A x, b : <<"got", x>> # <<"put", b>> /\ <<>> # <<"put", b>> /\ <<>> # <<"got", b>>
  OBVIOUS
<1>2. InHand("main") = <<"put", Head(out["main"])>> /\ InHand("main")' = <<>>
  BY DEF InHand, Early, Late
<1>3. \E b \in Byte : InHand("main") = <<"put", b>> /\ Stored' = Append(Stored, b)
  <2>1. InHand("main")' # InHand("main") /\ InHand("main") # <<>>
    BY <1>1, <1>2
  <2>2. \E b \in Byte : InHand("main") = <<"put", b>>
    BY <1>1, <1>2, <2>1 DEF BytesMove
  <2> QED BY <2>1, <2>2 DEF BytesMove
<1> QED BY <1>2, <1>3

LEMMA ByteIsGot ==
  ASSUME BytesMove, pc["main"] \in Getting \ Got, pc'["main"] \in Got
  PROVE  Stored # <<>> /\ reg'["main"] = Head(Stored) /\ Stored' = Tail(Stored)
<1>1. \A x, b : <<"got", x>> # <<"put", b>> /\ <<>> # <<"put", b>> /\ <<>> # <<"got", b>>
  OBVIOUS
<1>2. InHand("main") = <<>> /\ InHand("main")' = <<"got", reg'["main"]>>
  BY DEF InHand, Getting, Got
<1> QED BY <1>1, <1>2 DEF BytesMove

\* Nothing but the place in the code changes, or the byte got is in hand.
LEMMA QuietFifo ==
  ASSUME Goes, UNCHANGED <<op, pkt, out, parser, eaten, given>>,
         Unread' = Unread, Written' = Written,
         \/ pc["main"] \in Putting /\ pc'["main"] \in Putting
         \/ pc["main"] \in Getting /\ pc'["main"] \in Getting
  PROVE  Done
<1>1. pc["main"] # "idle" /\ pc'["main"] # "idle" /\ (pc["main"] \in Putting <=> pc'["main"] \in Putting)
      /\ (pc["main"] \in Getting <=> pc'["main"] \in Getting)
  BY DEF Putting, Getting
<1>2. FifoInv'
  BY <1>1 DEF Goes, FifoInv, RestInv, PutInv, GetInv
<1>3. UNCHANGED <<Queue, Wanted, Litter, given>>
  BY DEF Queue, Wanted, Litter, Partial, Complete
<1> QED BY <1>2, <1>3, FifoStutters DEF Done

-----------------------------------------------------------------------------
(* RINGBUF_Put.                                                            *)

\* Where no byte is in hand, before and after.
LEMMA UnreadStays ==
  ASSUME pc["main"] \notin Got, pc'["main"] \notin Got, eaten' = eaten, Stored' = Stored
  PROVE  Unread' = Unread
BY DEF Unread, Got

\* A put that goes on, without or with its byte in the ring.
LEMMA PutGoesOn ==
  ASSUME Goes, UNCHANGED <<op, pkt, out, parser, eaten, given>>,
         \/ pc["main"] \in Early /\ pc'["main"] \in Early
         \/ pc["main"] \in Late /\ pc'["main"] \in Late
  PROVE  Done
<1>1. /\ pc["main"] \notin Got /\ pc'["main"] \notin Got
      /\ pc["main"] \in Early => pc'["main"] \in Early
      /\ pc["main"] \in Putting /\ pc'["main"] \in Putting
  BY DEF Early, Late, Got, Putting
<1>2. Stored' = Stored
  BY <1>1, BytesStay DEF Goes
<1>3. Unread' = Unread
  BY <1>1, <1>2, UnreadStays
<1>4. Written' = Written
  BY <1>1 DEF Written, Early, Late
<1> QED BY <1>1, <1>3, <1>4, QuietFifo

\* The byte is stored: the last one completes the packet.
LEMMA BytePutFifo ==
  ASSUME Goes, UNCHANGED <<op, pkt, out, parser, eaten, given>>,
         pc["main"] = "put_byte", pc'["main"] = "put_wrap"
  PROVE  Done
<1> DEFINE m == pkt["main"]
           o == out["main"]
           L == FrameLength(m)
           k == L - Len(o)
           b == Head(o)
           s == Unread
           r == Append(s, b)
<1>0. /\ torn = FALSE /\ s \in Seq(Byte) /\ Stored \in Seq(Byte) /\ Len(Stored) = Waiting
      /\ fill_cnt \in 0 .. Size /\ Types
  BY GoesWith
<1>1. /\ pc["main"] \in Early /\ pc'["main"] \in Late /\ pc["main"] \in Putting
      /\ pc'["main"] \in Putting /\ pc["main"] \notin Got /\ pc'["main"] \notin Got
      /\ pc["main"] \notin Getting /\ pc'["main"] \notin Getting /\ pc'["main"] # "idle"
  BY DEF Early, Late, Putting, Got, Getting
<1>2. /\ m \in Packets /\ IsRest(o, m) /\ Begins(s, Written, m) /\ Framed(s)
      /\ op["main"] \in {"publish", "answer"} /\ eaten = <<>>
  BY <1>1 DEF Goes, FifoInv, PutInv, RestInv
<1>3. /\ Written = k /\ Written \in 0 .. L - 1 /\ Partial = k /\ Wanted = m /\ m # NoPacket
  BY <1>1, <1>2, WritesAre DEF Writes, WritesEarly
<1>4. /\ Written' = k + 1
      /\ Len(o) = 1 => Written' = L /\ Partial' = 0 /\ Wanted' = NoPacket
      /\ Len(o) # 1 => Partial' = k + 1 /\ Wanted' = m
  <2>1. m' = m /\ o' = o /\ m' \in Packets
    BY <1>2
  <2>2. IsRest(o', m') /\ FrameLength(m)' = FrameLength(m)
    BY <1>2, <2>1
  <2> QED BY <1>1, <2>1, <2>2, WritesNext DEF Writes, WritesLate
<1>5. /\ L \in Nat /\ L >= 2 /\ IsFrame(Frames[m]) /\ L = Len(Frames[m])
  BY <1>2, FramesAre
<1>6. /\ o \in Seq(Byte) /\ Len(o) \in 1 .. L
      /\ \A i \in 1 .. Len(o) : o[i] = Frames[m][L - Len(o) + i]
  BY <1>2 DEF IsRest
<1>7. b \in Byte /\ b = Frames[m][k + 1]
  <2>1. o # <<>>
    BY <1>6, EmptySeq
  <2>2. b \in Byte /\ b = o[1]
    BY <1>6, <2>1, HeadTailProperties
  <2>3. 1 \in 1 .. Len(o)
    BY <1>5, <1>6
  <2> QED BY <1>6, <2>2, <2>3
<1>8. Unread' = r
  <2>1. Len(Stored) # Size
    <3>1. Running = "main"
      BY DEF Goes, FifoInv, Undisturbed, Running
    <3>2. Waiting = fill_cnt - 1
      BY <3>1 DEF Waiting
    <3> QED BY <1>0, <3>2
  <2>2. Stored' = Append(Stored, b)
    BY <1>1, <1>7, <2>1, ByteIsPut DEF Goes
  <2>3. Unread = Stored
    BY <1>0, <1>1, <1>2, NothingEaten, UnreadIs
  <2>4. Unread' = (eaten' \o <<>>) \o Stored'
    BY <1>1 DEF Unread, Got
  <2>5. Append(Stored, b) \in Seq(Byte)
    BY <1>0, <1>7, AppendProperties
  <2>6. Unread' = Append(Stored, b)
    BY <1>2, <2>2, <2>4, <2>5, NothingEaten
  <2> QED BY <2>3, <2>6
<1> HIDE DEF r, k, b, L
<1>9. Longer(s, b, r)
  BY <1>0, <1>7, LongerIs DEF r
<1>10. r \in Seq(Byte) /\ Len(r) = Len(s) + 1 /\ Len(s) \in Nat /\ k \in 0 .. Len(s) /\ k \in 0 .. L - 1
  BY <1>0, <1>2, <1>3, <1>9 DEF Longer, Begins
<1>11. Begins(r, k + 1, m)
  <2>1. k < FrameLength(m) /\ Begins(s, k, m) /\ r = Append(s, b)
    BY <1>2, <1>3, <1>5, <1>10 DEF L, r
  <2> QED BY <1>0, <1>2, <1>7, <2>1, BeginsMore, Zenon
<1>12. /\ Open(s, k)
       /\ k > 0 => s[Len(s) - k + 1] = BEGIN
       /\ \A i \in Len(s) - k + 2 .. Len(s) : s[i] \notin {BEGIN, END}
  <2>1. k < FrameLength(m) /\ Begins(s, k, m)
    BY <1>2, <1>3, <1>5, <1>10 DEF L
  <2> QED BY <1>0, <1>2, <2>1, BeginsOpen
<1>13. s = <<>> \/ s[Len(s)] = END => b = BEGIN
  <2> SUFFICES ASSUME s = <<>> \/ s[Len(s)] = END PROVE b = BEGIN
    OBVIOUS
  <2>1. k = 0
    <3>1. CASE s = <<>>
      <4>1. Len(s) = 0
        BY <3>1
      <4> QED BY <1>10, <4>1
    <3>2. CASE s[Len(s)] = END
      <4>1. k # 0 => Len(s) \in Len(s) - k + 1 .. Len(s)
        BY <1>10
      <4>2. \A i \in Len(s) - k + 1 .. Len(s) : s[i] # END
        BY <1>12 DEF Open
      <4> QED BY ONLY <3>2, <4>1, <4>2
    <3> QED BY <3>1, <3>2
  <2> QED BY <1>5, <1>7, <2>1 DEF IsFrame
<1>14. Framed(r) /\ [Fifo!Next]_Fifo!vars
  <2>1. CASE Len(o) = 1
    <3>1. k + 1 = L /\ k >= 1
      BY <1>5, <2>1 DEF k
    <3>2. b = END
      BY <1>5, <1>7, <3>1 DEF IsFrame
    <3>3. EndsAt(r, Len(r), m)
      BY <1>2, <1>10, <1>11, <3>1, BeginsEnds DEF L
    <3>4. Framed(r)
      BY <1>2, <1>7, <1>13, <3>3, FramedMore DEF r
    <3>5. Queue' = Append(Queue, Wanted)
      <4>1. PacketAt(r, Len(s) + 1) = m
        BY <1>2, <1>10, <3>3, PacketAtIs
      <4>2. PacketsIn(r) = Append(PacketsIn(s), m)
        <5>1. r = Append(s, b)
          BY DEF r
        <5>2. PacketsIn(r) = IF b = END THEN Append(PacketsIn(s), PacketAt(r, Len(s) + 1))
                             ELSE PacketsIn(s)
          BY <1>0, <1>7, <5>1, PacketsInMore, Zenon
        <5> QED BY <3>2, <4>1, <5>2, Zenon
      <4> QED BY <1>3, <1>8, <4>2 DEF Queue
    <3>6. Litter' = Litter
      <4>1. Abandoned(r, Len(r)) <=> Abandoned(s, Len(s) - k)
        <5>0. k \in 1 .. Len(s)
          BY <1>10, <3>1
        <5>1. k \in 1 .. Len(s) /\ s[Len(s) - k + 1] = BEGIN
          BY ONLY <1>12, <3>1, <5>0
        <5> QED BY <1>0, <1>12, <3>2, <5>1, AbandonedEnds DEF r
      <4>2. Litter = Abandoned(s, Len(s) - k)
        BY <1>3 DEF Litter
      <4>3. Litter' = Abandoned(r, Len(r) - 0)
        BY <1>4, <1>8, <2>1 DEF Litter
      <4>4. Len(r) - 0 = Len(r)
        BY <1>10
      <4>5. Abandoned(r, Len(r)) \in BOOLEAN /\ Abandoned(s, Len(s) - k) \in BOOLEAN
        BY DEF Abandoned
      <4> QED BY <4>1, <4>2, <4>3, <4>4, <4>5
    <3>7. Wanted # NoPacket /\ Wanted' = NoPacket /\ given' = given
      BY <1>3, <1>4, <2>1
    <3> QED BY <3>4, <3>5, <3>6, <3>7, FifoAccepts
  <2>2. CASE Len(o) # 1
    <3>1. k + 1 \in 1 .. L - 1
      <4> DEFINE n == Len(o)
      <4>1. n \in 1 .. L /\ n # 1 /\ L \in Nat /\ k = L - n
        BY <1>5, <1>6, <2>2 DEF k
      <4> HIDE DEF n
      <4> QED BY ONLY <4>1
    <3>2. b # END
      <4>1. k + 1 = 1 \/ k + 1 \in 2 .. L - 1
        BY <1>5, <3>1
      <4> QED BY <1>5, <1>7, <4>1 DEF IsFrame, BEGIN, END
    <3>3. Framed(r)
      BY <1>2, <1>7, <1>13, <3>2, FramedMore DEF r
    <3>4. Queue' = Queue
      <4>1. PacketsIn(r) = PacketsIn(s)
        BY <1>0, <1>7, <3>2, PacketsInMore, ZenonT(40) DEF r
      <4> QED BY <1>8, <4>1 DEF Queue
    <3>5. Litter' = Litter
      <4>1. Abandoned(r, Len(s) - k) <=> Abandoned(s, Len(s) - k)
        <5>1. Len(s) - k \in 0 .. Len(s)
          BY <1>10
        <5> QED BY <1>0, <1>7, <3>2, <5>1, AbandonedMore DEF r
      <4>2. Litter = Abandoned(s, Len(s) - k)
        BY <1>3 DEF Litter
      <4>3. Litter' = Abandoned(r, Len(r) - (k + 1))
        BY <1>4, <1>8, <2>2 DEF Litter
      <4>4. Len(r) - (k + 1) = Len(s) - k
        BY <1>10
      <4>5. Abandoned(r, Len(s) - k) \in BOOLEAN /\ Abandoned(s, Len(s) - k) \in BOOLEAN
        BY DEF Abandoned
      <4> QED BY <4>1, <4>2, <4>3, <4>4, <4>5
    <3>6. Wanted' = Wanted /\ given' = given
      BY <1>3, <1>4, <2>2
    <3> QED BY <3>3, <3>4, <3>5, <3>6, FifoStutters
  <2> QED BY <2>1, <2>2
<1>15. FifoInv'
  <2>1. Undisturbed' /\ Framed(Unread)'
    BY <1>8, <1>14 DEF Goes
  <2>2. RestInv'
    BY <1>1 DEF Goes, FifoInv, RestInv
  <2>3. PutInv'
    BY <1>2, <1>4, <1>8, <1>11 DEF PutInv
  <2>4. GetInv'
    BY <1>1 DEF GetInv
  <2> QED BY <2>1, <2>2, <2>3, <2>4 DEF FifoInv
<1> QED BY <1>14, <1>15 DEF Done

\* The call returns with nothing half read.
LEMMA ReturnFifo ==
  ASSUME Goes, Return("main"), eaten' = <<>>, Framed(Unread)'
  PROVE  FifoInv' /\ Partial' = 0 /\ Wanted' = NoPacket
<1>0. Types /\ pkt'["main"] \in Packets \cup {NoPacket} /\ "main" \in Ctx
  BY GoesWith
<1>1. pc'["main"] = "idle" /\ pkt'["main"] = NoPacket
  BY <1>0 DEF Return, Goto, Types
<1>2. pc'["main"] \notin Putting /\ pc'["main"] \notin Getting
  BY <1>1 DEF Putting, Getting
<1>3. Partial' = 0 /\ Wanted' = NoPacket
  BY <1>0, <1>1, <1>2, WritesNext DEF Writes, WritesNot
<1>4. <<>> \in Seq(Byte)
  BY EmptySeq
<1>5. RestInv' /\ PutInv' /\ GetInv'
  BY <1>1, <1>2, <1>4 DEF RestInv, PutInv, GetInv
<1> QED BY <1>3, <1>5 DEF Goes, FifoInv

LEMMA PutMoreFifo ==
  ASSUME Goes, PutMore("main")
  PROVE  Done
<1> DEFINE m == pkt["main"]
           o == out["main"]
           L == FrameLength(m)
           s == Unread
<1>0. /\ "main" \in Ctx /\ s \in Seq(Byte) /\ Types /\ pc["main"] = "put_more"
      /\ UNCHANGED <<eaten, given>>
  BY GoesWith DEF PutMore, At, ghost
<1>1. /\ pc["main"] \in Late /\ pc["main"] \in Putting /\ pc["main"] \notin Got
      /\ pc["main"] \notin Getting /\ pc["main"] \notin Early
  BY <1>0 DEF Early, Late, Putting, Got, Getting
<1>2. /\ m \in Packets /\ IsRest(o, m) /\ Begins(s, Written, m) /\ Framed(s)
      /\ op["main"] \in {"publish", "answer"} /\ eaten = <<>>
  BY <1>1 DEF Goes, FifoInv, PutInv, RestInv
<1>3. /\ Written = L - Len(o) + 1
      /\ Len(o) = 1 => Partial = 0 /\ Wanted = NoPacket
      /\ Len(o) # 1 => Partial = Written /\ Wanted = m
  BY <1>1, <1>2, WritesAre DEF Writes, WritesLate
<1>4. CASE Len(o) = 1
  <2>0. Return("main")
    BY <1>4 DEF PutMore
  <2>1. Return("main") /\ pc'["main"] = "idle"
    BY <1>0, <2>0 DEF Return, Goto, Types
  <2>2. pc'["main"] \notin Got
    BY <2>1 DEF Got
  <2>3. Stored' = Stored
    BY <1>1, <2>2, BytesStay DEF Goes
  <2>4. Unread' = Unread
    BY <1>0, <1>1, <2>2, <2>3, UnreadStays
  <2>5. FifoInv' /\ Partial' = 0 /\ Wanted' = NoPacket
    BY <1>0, <1>2, <2>1, <2>4, ReturnFifo
  <2>6. UNCHANGED <<Queue, Wanted, Litter, given>>
    BY <1>0, <1>3, <1>4, <2>4, <2>5 DEF Queue, Litter
  <2> QED BY <2>5, <2>6, FifoStutters DEF Done
<1>5. CASE Len(o) # 1
  <2>1. /\ pc'["main"] = "put" /\ out'["main"] = Tail(o)
        /\ UNCHANGED <<op, pkt, parser>>
    BY <1>0, <1>5 DEF PutMore, Goto, Types
  <2>2. /\ pc'["main"] \notin Got /\ pc'["main"] \in Early /\ pc'["main"] \in Putting
        /\ pc'["main"] \notin Getting /\ pc'["main"] # "idle"
    BY <2>1 DEF Got, Early, Putting, Getting
  <2>3. Stored' = Stored
    BY <1>1, <2>2, BytesStay DEF Goes
  <2>4. Unread' = Unread
    BY <1>0, <1>1, <2>2, <2>3, UnreadStays
  <2>5. IsRest(Tail(o), m) /\ Len(Tail(o)) = Len(o) - 1
    BY <1>2, <1>5, RestGoesOn
  <2>6. Written' = L - Len(Tail(o)) /\ Partial' = Written' /\ Wanted' = m
    <3>1. m' = m /\ m' \in Packets
      BY <1>2, <2>1
    <3>2. IsRest(out["main"], m)' /\ FrameLength(m)' = FrameLength(m)
      BY <2>1, <2>5, <3>1
    <3> QED BY <2>1, <2>2, <3>1, <3>2, WritesNext DEF Writes, WritesEarly
  <2>7. Written' = Written
    <3> DEFINE n == Len(o)
               l == Len(Tail(o))
    <3>1. L \in Nat /\ n \in Nat /\ l = n - 1
      BY <1>2, <2>5, FramesAre DEF IsRest
    <3>2. Written = L - n + 1 /\ Written' = L - l
      BY <1>3, <2>6
    <3> HIDE DEF L, n, l
    <3> QED BY <3>1, <3>2
  <2>8. FifoInv'
    <3>1. PutInv'
      BY <1>2, <2>1, <2>4, <2>5, <2>7 DEF PutInv
    <3>2. RestInv' /\ GetInv'
      BY <1>0, <1>2, <2>2, EmptySeq DEF RestInv, GetInv
    <3> QED BY <1>2, <2>4, <3>1, <3>2 DEF Goes, FifoInv
  <2>9. UNCHANGED <<Queue, Wanted, Litter, given>>
    BY <1>0, <1>3, <1>5, <2>4, <2>6, <2>7 DEF Queue, Litter
  <2> QED BY <2>8, <2>9, FifoStutters DEF Done
<1> QED BY <1>4, <1>5

\* The ring is full: a publisher begins to read, an answer is given up.
LEMMA FullFifo ==
  ASSUME Goes, PutTest("main"), Full
  PROVE  Done
<1> DEFINE m == pkt["main"]
           o == out["main"]
           L == FrameLength(m)
           k == Written
           s == Unread
<1>0. /\ "main" \in Ctx /\ s \in Seq(Byte) /\ Types /\ pc["main"] = "put"
      /\ UNCHANGED <<eaten, given>> /\ Stored \in Seq(Byte) /\ Len(Stored) = Waiting
      /\ fill_cnt \in 0 .. Size /\ torn = FALSE
  BY GoesWith DEF PutTest, At, ghost
<1>1. /\ pc["main"] \in Early /\ pc["main"] \in Putting /\ pc["main"] \notin Got
      /\ pc["main"] \notin Getting
  BY <1>0 DEF Early, Putting, Got, Getting
<1>2. /\ m \in Packets /\ IsRest(o, m) /\ Begins(s, k, m) /\ Framed(s)
      /\ op["main"] \in {"publish", "answer"} /\ eaten = <<>>
  BY <1>1 DEF Goes, FifoInv, PutInv, RestInv
<1>3. k \in 0 .. L - 1 /\ Partial = k /\ Wanted = m /\ m # NoPacket
  BY <1>1, <1>2, WritesAre DEF Writes, WritesEarly
<1>4. Len(Stored) = Size
  <2>1. Running = "main"
    BY DEF Goes, FifoInv, Undisturbed, Running
  <2>2. Waiting = fill_cnt
    BY <1>0, <2>1 DEF Waiting
  <2> QED BY <1>0, <2>2, SizeAssumption DEF Full
<1>5. s = Stored
  BY <1>0, <1>1, <1>2, NothingEaten, UnreadIs
<1>6. L \in Nat
  BY <1>2, FramesAre
<1> HIDE DEF L, k, s
<1>7. k < L /\ k \in Int
  BY <1>3, <1>6
<1>8. /\ Open(s, k)
      /\ k > 0 => s[Len(s) - k + 1] = BEGIN
  BY <1>0, <1>2, <1>7, BeginsOpen DEF L, k, s
<1>9. ~ Fifo!Fits(Queue, Wanted) \/ Litter
  <2>1. ~ Fifo!Fits(PacketsIn(s), m) \/ Abandoned(s, Len(s) - k)
    <3>1. Len(s) = Size /\ k < FrameLength(m)
      BY <1>4, <1>5, <1>7 DEF L
    <3> QED BY <1>2, <1>8, <3>1, NoRoom
  <2> QED BY <1>3, <2>1 DEF Queue, Litter, s
<1>10. CASE op["main"] = "publish"
  <2>1. /\ pc'["main"] = "get" /\ UNCHANGED <<op, pkt, out>>
        /\ \E garbage \in BOOLEAN : parser'["main"] = NewParser(garbage)
    BY <1>0, <1>10 DEF PutTest, Goto, Types
  <2>2. /\ pc'["main"] \notin Got /\ pc'["main"] \in Getting
        /\ pc'["main"] \notin Putting /\ pc'["main"] # "idle"
    BY <2>1 DEF Got, Putting, Getting
  <2>3. Stored' = Stored
    BY <1>4, <2>2, BytesStay DEF Goes
  <2>4. Unread' = Unread
    BY <1>0, <1>1, <2>2, <2>3, UnreadStays
  <2>5. Partial' = 0 /\ Wanted' = m
    BY <1>2, <2>1, <2>2, WritesNext DEF Writes, WritesNot
  <2>6. ParserIs(parser'["main"], <<>>)
    BY <2>1, GarbageType, ParserStarts
  <2>7. FifoInv'
    <3>0. Len(<<>>) = 0 /\ <<>> \in Seq(Byte)
      BY EmptySeq
    <3>1. \A i \in 1 .. Len(eaten') : eaten'[i] # END
      BY <1>0, <1>2, <3>0
    <3>2. GetInv'
      BY <1>0, <1>2, <1>4, <1>5, <1>10, <2>1, <2>4, <2>6, <3>1 DEF GetInv, s
    <3>3. RestInv' /\ PutInv'
      BY <1>0, <1>2, <2>2, <3>0 DEF RestInv, PutInv
    <3> QED BY <1>2, <2>4, <3>2, <3>3 DEF Goes, FifoInv, s
  <2>8. Queue' = Queue /\ Wanted' = Wanted /\ given' = given
    BY <1>0, <1>3, <2>4, <2>5 DEF Queue
  <2>9. Litter' = Abandoned(s, Len(s))
    <3>1. Litter' = Abandoned(s, Len(s) - 0)
      BY <2>4, <2>5 DEF Litter, s
    <3>2. Len(s) - 0 = Len(s)
      BY <1>0 DEF s
    <3> QED BY <3>1, <3>2
  <2>10. CASE k = 0
    <3>1. Litter = Abandoned(s, Len(s))
      <4>1. Litter = Abandoned(s, Len(s) - 0)
        BY <1>3, <2>10 DEF Litter, s
      <4>2. Len(s) - 0 = Len(s)
        BY <1>0 DEF s
      <4> QED BY <4>1, <4>2
    <3> QED BY <2>7, <2>8, <2>9, <3>1, FifoStutters DEF Done
  <2>11. CASE k # 0
    <3>1. k \in 1 .. Len(s) /\ k > 0
      BY <1>2, <1>7, <2>11 DEF Begins
    <3>2. Abandoned(s, Len(s))
      BY <1>0, <1>8, <3>1, AbandonedSpills DEF s
    <3>3. Litter' = TRUE
      BY <2>9, <3>2 DEF Abandoned
    <3> QED BY <1>3, <1>9, <2>7, <2>8, <3>3, FifoSpills DEF Done
  <2> QED BY <2>10, <2>11
<1>11. CASE op["main"] # "publish"
  <2>1. Return("main") /\ pc'["main"] = "idle"
    BY <1>0, <1>11, ZenonT(40) DEF PutTest, Return, Goto, Types
  <2>2. pc'["main"] \notin Got
    BY <2>1 DEF Got
  <2>3. Stored' = Stored
    BY <1>4, <2>2, BytesStay DEF Goes
  <2>4. Unread' = Unread
    BY <1>0, <1>1, <2>2, <2>3, UnreadStays
  <2>5. FifoInv' /\ Wanted' = NoPacket
    BY <1>0, <1>2, <2>1, <2>4, ReturnFifo DEF s
  <2>6. Queue' = Queue
    BY <2>4 DEF Queue
  <2> QED BY <1>0, <1>3, <1>9, <2>5, <2>6, FifoRefuses DEF Done
<1> QED BY <1>10, <1>11

-----------------------------------------------------------------------------
(* RINGBUF_Get and the parser.                                             *)

\* Before the byte of this round is got.
Seeking == Getting \ Got

\* A reader that goes on; the byte it gets is still unread.
GetGoesOn ==
  \/ pc["main"] \in Seeking /\ pc'["main"] \in Seeking
  \/ pc["main"] \in Seeking /\ pc'["main"] \in Got
  \/ pc["main"] \in Got /\ pc'["main"] \in Got /\ reg' = reg

LEMMA GetQuietFifo ==
  ASSUME Goes, UNCHANGED <<op, pkt, out, parser, eaten, given>>, GetGoesOn
  PROVE  Done
<1>0. /\ Stored \in Seq(Byte) /\ eaten \in Seq(Byte)
  BY GoesWith
<1>1. /\ pc["main"] \in Getting /\ pc'["main"] \in Getting
      /\ pc["main"] \notin Early /\ pc["main"] \notin Putting /\ pc'["main"] \notin Putting
  BY DEF GetGoesOn, Seeking, Getting, Got, Early, Putting
<1>2. Written' = Written
  BY <1>1 DEF Written
<1>3. Unread' = Unread
  <2>1. CASE pc["main"] \in Seeking /\ pc'["main"] \in Seeking
    <3>1. pc["main"] \notin Got /\ pc'["main"] \notin Got
      BY <2>1 DEF Seeking
    <3>2. Stored' = Stored
      BY <1>1, <3>1, BytesStay DEF Goes
    <3> QED BY <3>1, <3>2, UnreadStays
  <2>2. CASE pc["main"] \in Seeking /\ pc'["main"] \in Got
    <3>1. Stored # <<>> /\ reg'["main"] = Head(Stored) /\ Stored' = Tail(Stored)
      BY <2>2, ByteIsGot DEF Goes, Seeking
    <3>2. Unread = (eaten \o <<>>) \o Stored
      BY <2>2, UnreadIs DEF Seeking
    <3>3. Unread' = (eaten \o <<Head(Stored)>>) \o Tail(Stored)
      BY <2>2, <3>1 DEF Unread, Got
    <3> QED BY <1>0, <3>1, <3>2, <3>3, GotIsUnread
  <2>3. CASE pc["main"] \in Got /\ pc'["main"] \in Got /\ reg' = reg
    <3>1. Stored' = Stored
      BY <1>1, <2>3, BytesStay DEF Goes
    <3>2. Unread = (eaten \o <<reg["main"]>>) \o Stored
      BY <2>3, UnreadIs
    <3>3. Unread' = (eaten \o <<reg["main"]>>) \o Stored
      BY <2>3, <3>1 DEF Unread, Got
    <3> QED BY <3>2, <3>3
  <2> QED BY <2>1, <2>2, <2>3 DEF GetGoesOn
<1> QED BY <1>1, <1>2, <1>3, QuietFifo

\* The ring is empty: a publisher gives up, and what was abandoned has been read.
LEMMA EmptyFifo ==
  ASSUME Goes, GetTest("main"), ~ (fill_cnt > 0)
  PROVE  Done
<1> DEFINE m == pkt["main"]
           s == Unread
<1>0. /\ "main" \in Ctx /\ s \in Seq(Byte) /\ Types /\ pc["main"] = "get"
      /\ given' = given /\ eaten' = <<>> /\ Return("main")
      /\ Stored \in Seq(Byte) /\ Len(Stored) = Waiting /\ fill_cnt \in 0 .. Size
      /\ eaten \in Seq(Byte) /\ m \in Packets \cup {NoPacket}
  BY GoesWith DEF GetTest, At
<1>1. /\ pc["main"] \in Getting /\ pc["main"] \notin Got /\ pc["main"] \notin Putting
      /\ pc["main"] \notin Early
  BY <1>0 DEF Early, Putting, Got, Getting
<1>2. /\ Framed(s)
      /\ \A i \in 1 .. Len(eaten) : eaten[i] # END
      /\ \/ op["main"] = "task" /\ m = NoPacket
         \/ op["main"] = "publish" /\ m \in Packets /\ Len(s) = Size
  BY <1>1 DEF Goes, FifoInv, GetInv
<1>3. Partial = 0 /\ Wanted = m
  BY <1>0, <1>1, WritesAre DEF Writes, WritesNot
<1>4. Stored = <<>>
  <2>1. Running = "main"
    BY DEF Goes, FifoInv, Undisturbed, Running
  <2>2. Waiting = fill_cnt
    BY <1>0, <2>1 DEF Waiting
  <2>3. Len(Stored) = 0
    BY <1>0, <2>2
  <2> QED BY <1>0, <2>3, EmptySeq
<1>5. s = eaten
  <2>1. s = (eaten \o <<>>) \o <<>>
    BY <1>1, <1>4, UnreadIs
  <2>2. eaten \o <<>> = eaten
    BY <1>0, ConcatEmptySeq
  <2> QED BY <2>1, <2>2
<1>6. pc'["main"] = "idle" /\ pc'["main"] \notin Got
  BY <1>0 DEF Return, Goto, Types, Got
<1>7. Stored' = <<>>
  BY <1>1, <1>4, <1>6, BytesStay DEF Goes
<1>8. Unread' = <<>>
  <2>1. Unread' = (<<>> \o <<>>) \o <<>>
    BY <1>0, <1>6, <1>7 DEF Unread, Got
  <2>2. <<>> \in Seq(Byte)
    BY EmptySeq
  <2> QED BY <2>1, <2>2, NothingEaten
<1>9. Framed(<<>>)
  BY EmptySeq DEF Framed
<1>10. FifoInv' /\ Partial' = 0 /\ Wanted' = NoPacket
  BY <1>0, <1>8, <1>9, ReturnFifo
<1>11. Queue = <<>> /\ Queue' = <<>>
  BY <1>0, <1>2, <1>5, <1>8, NoEndNoPacket, PacketsInNone DEF Queue
<1>12. Litter' = FALSE
  <2>1. Litter' = Abandoned(<<>>, Len(<<>>) - 0)
    BY <1>8, <1>10 DEF Litter
  <2>2. Len(<<>>) - 0 = 0
    BY EmptySeq
  <2> QED BY <2>1, <2>2, AbandonedNone DEF Abandoned
<1>13. CASE op["main"] = "task" /\ m = NoPacket
  BY <1>0, <1>3, <1>10, <1>11, <1>12, <1>13, FifoSweeps DEF Done
<1>14. CASE op["main"] = "publish" /\ m \in Packets /\ Len(s) = Size
  <2>1. m # NoPacket
    BY <1>14, PacketsAssumption DEF NoPacket
  <2>2. Litter
    <3> HIDE DEF s
    <3>1. Len(s) \in Nat /\ Len(s) >= 2 /\ s # <<>>
      <4>1. Len(<<>>) = 0
        BY EmptySeq
      <4> QED BY <1>0, <1>14, <4>1, SizeAssumption
    <3>2. s[1] = BEGIN /\ \A j \in 1 .. Len(s) : s[j] # END
      BY <1>2, <1>5, <3>1 DEF Framed
    <3>3. 1 \in 1 .. Len(s) /\ \A j \in 1 + 1 .. Len(s) : j \in 1 .. Len(s)
      BY <3>1
    <3>4. Abandoned(s, Len(s))
      BY <3>2, <3>3 DEF Abandoned
    <3>5. Litter <=> Abandoned(s, Len(s) - 0)
      BY <1>3 DEF Litter, s
    <3>6. Len(s) - 0 = Len(s)
      BY <3>1
    <3> QED BY <3>4, <3>5, <3>6
  <2> QED BY <1>0, <1>3, <1>10, <1>11, <2>1, <2>2, FifoRefuses DEF Done
<1> QED BY <1>2, <1>13, <1>14

\* A byte of a frame goes into the parser.
LEMMA ParseMoreFifo ==
  ASSUME Goes, Parse("main"), reg["main"] # END
  PROVE  Done
<1> DEFINE b == reg["main"]
<1>0. /\ "main" \in Ctx /\ Types /\ pc["main"] = "parse" /\ Fits("main")
      /\ eaten \in Seq(Byte) /\ parser["main"] \in Parsers /\ Stored \in Seq(Byte)
  BY GoesWith DEF Parse, At
<1>1. /\ pc'["main"] = "get" /\ parser'["main"] = ParseByte(parser["main"], b)
      /\ eaten' = Append(eaten, b) /\ UNCHANGED <<op, pkt, out, given>>
  BY <1>0 DEF Parse, Goto, Types
<1>2. b \in Byte /\ Len(parser["main"].data) <= BufSize
  BY <1>0 DEF Fits
<1>3. /\ pc["main"] \in Getting /\ pc["main"] \in Got /\ pc["main"] \notin Putting
      /\ pc["main"] \notin Early /\ pc'["main"] \in Getting /\ pc'["main"] \notin Got
      /\ pc'["main"] \notin Putting /\ pc'["main"] # "idle"
  BY <1>0, <1>1 DEF Early, Putting, Got, Getting
<1>4. Stored' = Stored
  BY <1>3, BytesStay DEF Goes
<1>5. Append(eaten, b) \o <<>> = eaten \o <<b>> /\ Append(eaten, b) \in Seq(Byte)
  BY <1>0, <1>2, EatenMore
<1>6. Unread' = Unread
  <2>1. Unread = (eaten \o <<b>>) \o Stored
    BY <1>3, UnreadIs
  <2>2. Unread' = (Append(eaten, b) \o <<>>) \o Stored
    BY <1>1, <1>3, <1>4 DEF Unread, Got
  <2> QED BY <1>5, <2>1, <2>2
<1>7. Written' = Written
  BY <1>3 DEF Written
<1>8. /\ Framed(Unread)
      /\ \A i \in 1 .. Len(eaten) : eaten[i] # END
      /\ \/ op["main"] = "task" /\ pkt["main"] = NoPacket
         \/ op["main"] = "publish" /\ pkt["main"] \in Packets /\ Len(Unread) = Size
      /\ ParserIs(parser["main"], eaten)
  BY <1>3 DEF Goes, FifoInv, GetInv
<1>9. \A i \in 1 .. Len(eaten') : eaten'[i] # END
  <2> DEFINE r == Append(eaten, b)
  <2>1. Longer(eaten, b, r) /\ Len(eaten) \in Nat
    BY <1>0, <1>2, LongerIs
  <2> HIDE DEF r
  <2>2. ASSUME NEW i \in 1 .. Len(r) PROVE r[i] # END
    <3>1. i \in 1 .. Len(eaten) \/ i = Len(eaten) + 1
      BY <2>1 DEF Longer
    <3> QED BY <1>8, <2>1, <3>1 DEF Longer
  <2> QED BY <1>1, <2>2 DEF r
<1>10. ParserIs(parser'["main"], eaten')
  BY <1>0, <1>1, <1>2, <1>8, ParserMore
<1>11. FifoInv'
  <2>1. GetInv'
    BY <1>1, <1>6, <1>8, <1>9, <1>10 DEF GetInv
  <2>2. RestInv' /\ PutInv'
    BY <1>1, <1>3, <1>5 DEF RestInv, PutInv
  <2> QED BY <1>6, <1>8, <2>1, <2>2 DEF Goes, FifoInv
<1>12. UNCHANGED <<Queue, Wanted, Litter, given>>
  BY <1>1, <1>6, <1>7 DEF Queue, Wanted, Litter, Partial, Complete
<1> QED BY <1>11, <1>12, FifoStutters DEF Done

\* A frame has been read to its END: MQTT_Task has the oldest packet, and a publisher
\* forgot it.
LEMMA ParseEndFifo ==
  ASSUME Goes, Parse("main"), reg["main"] = END
  PROVE  Done
<1> DEFINE m == pkt["main"]
           s == Unread
           e == eaten
           t == Stored
           n == Len(e) + 1
<1>0. /\ "main" \in Ctx /\ Types /\ pc["main"] = "parse" /\ eaten' = <<>>
      /\ e \in Seq(Byte) /\ parser["main"] \in Parsers /\ t \in Seq(Byte) /\ s \in Seq(Byte)
      /\ m \in Packets \cup {NoPacket}
  BY GoesWith DEF Parse, At
<1>1. /\ pc["main"] \in Getting /\ pc["main"] \in Got /\ pc["main"] \notin Putting
      /\ pc["main"] \notin Early
  BY <1>0 DEF Early, Putting, Got, Getting
<1>2. /\ Framed(s)
      /\ \A i \in 1 .. Len(e) : e[i] # END
      /\ \/ op["main"] = "task" /\ m = NoPacket
         \/ op["main"] = "publish" /\ m \in Packets /\ Len(s) = Size
      /\ ParserIs(parser["main"], e)
  BY <1>1 DEF Goes, FifoInv, GetInv
<1>3. Partial = 0 /\ Wanted = m
  BY <1>0, <1>1, WritesAre DEF Writes, WritesNot
<1>4. Splits(s, e, t)
  <2>1. s = (e \o <<END>>) \o t
    BY <1>1, UnreadIs
  <2> QED BY <1>0, <1>2, <2>1, EndSplits
<1>5. Len(e) \in Nat /\ Len(t) \in Nat /\ Len(s) \in Nat
  BY <1>0, LenProperties
<1>6. n \in 1 .. Len(s) /\ s[n] = END
  BY <1>4, <1>5 DEF Splits
<1>7. PICK x \in Packets : EndsAt(s, n, x)
  BY <1>2, <1>6 DEF Framed
<1>8. parser["main"].data = x
  BY <1>0, <1>2, <1>4, <1>5, <1>7, ParserEnds
<1>9. Queue # <<>> /\ Head(Queue) = x /\ Tail(Queue) = PacketsIn(t)
  <2>1. PacketAt(s, n) = x
    BY <1>0, <1>6, <1>7, PacketAtIs
  <2> QED BY <1>0, <1>4, <2>1, PacketsInLess DEF Queue
<1>10. Framed(t)
  BY <1>0, <1>2, <1>4, FramedLess
<1>11. CASE op["main"] = "task" /\ m = NoPacket
  <2>1. Return("main") /\ given' = x
    BY <1>0, <1>8, <1>11 DEF Parse
  <2>2. pc'["main"] = "idle"
    BY <1>0, <2>1 DEF Return, Goto, Types
  <2>3. pc'["main"] \notin Got
    BY <2>2 DEF Got
  <2>4. Stored' = t
    BY <1>1, <2>3, BytesStay DEF Goes
  <2>5. Unread' = t
    <3>1. Unread' = (<<>> \o <<>>) \o t
      BY <1>0, <2>3, <2>4 DEF Unread, Got
    <3> QED BY <1>0, <3>1, NothingEaten
  <2>6. FifoInv' /\ Partial' = 0 /\ Wanted' = NoPacket
    BY <1>0, <1>10, <2>1, <2>5, ReturnFifo
  <2>7. Queue' = Tail(Queue)
    BY <1>9, <2>5 DEF Queue
  <2>8. Litter' = Litter \/ Litter' = FALSE
    <3>1. Litter' = Abandoned(t, Len(t) - 0) /\ Litter = Abandoned(s, Len(s) - 0)
      BY <1>3, <2>5, <2>6 DEF Litter
    <3>2. Len(t) - 0 = Len(t) /\ Len(s) - 0 = Len(s)
      BY <1>5
    <3>3. Abandoned(t, Len(t)) => Abandoned(s, Len(s))
      BY <1>0, <1>4, AbandonedLess
    <3>4. Abandoned(t, Len(t)) \in BOOLEAN /\ Abandoned(s, Len(s)) \in BOOLEAN
      BY DEF Abandoned
    <3> QED BY ONLY <3>1, <3>2, <3>3, <3>4
  <2>9. Wanted = NoPacket /\ given' = Head(Queue)
    BY <1>3, <1>9, <1>11, <2>1
  <2> QED BY <1>9, <2>6, <2>7, <2>8, <2>9, FifoGives DEF Done
<1>12. CASE op["main"] = "publish" /\ m \in Packets /\ Len(s) = Size
  <2>1. /\ pc'["main"] = "put" /\ out'["main"] = Frame(m)
        /\ UNCHANGED <<op, pkt, given>>
    BY <1>0, <1>12 DEF Parse, Goto, Types
  <2>2. /\ pc'["main"] \notin Got /\ pc'["main"] \in Putting /\ pc'["main"] \in Early
        /\ pc'["main"] \notin Getting /\ pc'["main"] # "idle"
    BY <2>1 DEF Got, Putting, Getting, Early
  <2>4. Stored' = t
    BY <1>1, <2>2, BytesStay DEF Goes
  <2>5. Unread' = t
    <3>1. Unread' = (<<>> \o <<>>) \o t
      BY <1>0, <2>2, <2>4 DEF Unread, Got
    <3> QED BY <1>0, <3>1, NothingEaten
  <2>6. Written' = 0 /\ Partial' = 0 /\ Wanted' = m /\ m # NoPacket
    <3>1. IsRest(Frame(m), m)
      BY <1>12, RestStarts
    <3>2. m' = m /\ m' \in Packets /\ IsRest(out["main"], m)'
      BY <1>12, <2>1, <3>1
    <3>3. /\ Written' = FrameLength(m) - Len(Frame(m)) /\ Partial' = Written' /\ Wanted' = m
          /\ m # NoPacket
      BY <2>1, <2>2, <3>2, WritesNext DEF Writes, WritesEarly
    <3>4. FrameLength(m) = Len(Frame(m)) /\ FrameLength(m) \in Nat
      BY <1>12, FramesAre
    <3> QED BY <3>3, <3>4
  <2>7. Begins(t, 0, m)
    <3>1. 0 <= FrameLength(m)
      BY <1>12, FramesAre
    <3> QED BY <1>5, <3>1 DEF Begins
  <2>8. FifoInv'
    <3>1. IsRest(Frame(m), m)
      BY <1>12, RestStarts
    <3>2. PutInv'
      BY <1>12, <2>1, <2>5, <2>6, <2>7, <3>1 DEF PutInv
    <3>3. RestInv' /\ GetInv'
      BY <1>0, <2>2, EmptySeq DEF RestInv, GetInv
    <3> QED BY <1>10, <2>5, <3>2, <3>3 DEF Goes, FifoInv
  <2>9. Queue' = Tail(Queue)
    BY <1>9, <2>5 DEF Queue
  <2>10. Litter' = Abandoned(t, Len(t) - 0) /\ Litter = Abandoned(s, Len(s) - 0)
    BY <1>3, <2>5, <2>6 DEF Litter
  <2>11. Litter' = Litter \/ Litter' = FALSE
    <3>2. Len(t) - 0 = Len(t) /\ Len(s) - 0 = Len(s)
      BY <1>5
    <3>3. Abandoned(t, Len(t)) => Abandoned(s, Len(s))
      BY <1>0, <1>4, AbandonedLess
    <3>4. Abandoned(t, Len(t)) \in BOOLEAN /\ Abandoned(s, Len(s)) \in BOOLEAN
      BY DEF Abandoned
    <3> QED BY ONLY <2>10, <3>2, <3>3, <3>4
  <2>12. ~ Fifo!Fits(Queue, Wanted) \/ Litter
    <3>1. Open(s, 0) /\ 0 < FrameLength(m)
      <4>1. 0 \in 0 .. Len(s) /\ \A i \in Len(s) - 0 + 1 .. Len(s) : FALSE
        BY <1>5
      <4>2. FrameLength(m) >= 2 /\ FrameLength(m) \in Nat
        BY <1>12, FramesAre
      <4> QED BY <4>1, <4>2 DEF Open
    <3>2. ~ Fifo!Fits(PacketsIn(s), m) \/ Abandoned(s, Len(s) - 0)
      BY <1>2, <1>12, <3>1, NoRoom
    <3> QED BY <1>3, <2>10, <3>2 DEF Queue
  <2> QED BY <1>3, <1>9, <2>1, <2>6, <2>8, <2>9, <2>11, <2>12, FifoForgets DEF Done
<1> QED BY <1>2, <1>11, <1>12

-----------------------------------------------------------------------------
(* The callers, and the theorem.                                           *)

LEMMA StartFifo ==
  ASSUME Goes, NEW m \in Packets, NEW o \in {"publish", "answer"},
         pc["main"] = "idle", StartPut("main", o, m)
  PROVE  Done
<1> DEFINE s == Unread
<1>0. /\ "main" \in Ctx /\ Types /\ s \in Seq(Byte)
      /\ UNCHANGED <<eaten, given>>
  BY GoesWith DEF StartPut
<1>1. /\ pc["main"] \notin Got /\ pc["main"] \notin Putting /\ pc["main"] \notin Getting
      /\ pc["main"] \notin Early
  BY DEF Early, Putting, Got, Getting
<1>2. Framed(s) /\ eaten = <<>> /\ pkt["main"] = NoPacket
  BY <1>1 DEF Goes, FifoInv, RestInv
<1>3. Partial = 0 /\ Wanted = NoPacket
  BY <1>1, <1>2, WritesAre DEF Writes, WritesNot
<1>4. /\ pc'["main"] = "put" /\ out'["main"] = Frame(m) /\ pkt'["main"] = m /\ op'["main"] = o
  BY <1>0 DEF StartPut, Goto, Types
<1>5. /\ pc'["main"] \notin Got /\ pc'["main"] \in Putting /\ pc'["main"] \in Early
      /\ pc'["main"] \notin Getting /\ pc'["main"] # "idle"
  BY <1>4 DEF Got, Putting, Getting, Early
<1>6. Stored' = Stored
  BY <1>1, <1>5, BytesStay DEF Goes
<1>7. Unread' = Unread
  BY <1>0, <1>1, <1>5, <1>6, UnreadStays
<1>8. IsRest(Frame(m), m)
  BY RestStarts
<1>9. Written' = 0 /\ Partial' = 0 /\ Wanted' = m
  <2>1. /\ Written' = FrameLength(m) - Len(Frame(m)) /\ Partial' = Written' /\ Wanted' = m
    BY <1>4, <1>5, <1>8, WritesNext DEF Writes, WritesEarly
  <2>2. FrameLength(m) = Len(Frame(m)) /\ FrameLength(m) \in Nat
    BY FramesAre
  <2> QED BY <2>1, <2>2
<1>10. Begins(s, 0, m)
  <2>1. 0 <= FrameLength(m) /\ Len(s) \in Nat
    BY <1>0, FramesAre
  <2> QED BY <2>1 DEF Begins
<1>11. FifoInv'
  <2>1. PutInv'
    BY <1>4, <1>7, <1>8, <1>9, <1>10 DEF PutInv
  <2>2. RestInv' /\ GetInv'
    BY <1>0, <1>2, <1>5, EmptySeq DEF RestInv, GetInv
  <2> QED BY <1>2, <1>7, <2>1, <2>2 DEF Goes, FifoInv
<1>12. UNCHANGED <<Queue, Litter, given>>
  BY <1>0, <1>3, <1>7, <1>9 DEF Queue, Litter
<1> QED BY <1>3, <1>9, <1>11, <1>12, FifoWants DEF Done

LEMMA TaskFifo ==
  ASSUME Goes, Task
  PROVE  Done
<1> DEFINE s == Unread
<1>0. /\ "main" \in Ctx /\ Types /\ s \in Seq(Byte) /\ pc["main"] = "idle"
      /\ UNCHANGED <<pkt, eaten, given>>
  BY GoesWith DEF Task, At
<1>1. /\ pc["main"] \notin Got /\ pc["main"] \notin Putting /\ pc["main"] \notin Getting
      /\ pc["main"] \notin Early
  BY <1>0 DEF Early, Putting, Got, Getting
<1>2. Framed(s) /\ eaten = <<>> /\ pkt["main"] = NoPacket
  BY <1>0, <1>1 DEF Goes, FifoInv, RestInv
<1>3. Partial = 0 /\ Wanted = NoPacket
  BY <1>1, <1>2, WritesAre DEF Writes, WritesNot
<1>4. /\ pc'["main"] = "get" /\ op'["main"] = "task"
      /\ \E garbage \in BOOLEAN : parser'["main"] = NewParser(garbage)
  BY <1>0 DEF Task, Goto, Types
<1>5. /\ pc'["main"] \notin Got /\ pc'["main"] \in Getting
      /\ pc'["main"] \notin Putting /\ pc'["main"] # "idle"
  BY <1>4 DEF Got, Putting, Getting
<1>6. Stored' = Stored
  BY <1>1, <1>5, BytesStay DEF Goes
<1>7. Unread' = Unread
  BY <1>0, <1>1, <1>5, <1>6, UnreadStays
<1>8. Partial' = 0 /\ Wanted' = NoPacket
  BY <1>0, <1>2, <1>5, WritesNext DEF Writes, WritesNot
<1>9. ParserIs(parser'["main"], <<>>)
  BY <1>4, GarbageType, ParserStarts
<1>10. FifoInv'
  <2>0. Len(<<>>) = 0 /\ <<>> \in Seq(Byte)
    BY EmptySeq
  <2>1. \A i \in 1 .. Len(eaten') : eaten'[i] # END
    BY <1>0, <1>2, <2>0
  <2>2. GetInv'
    BY <1>0, <1>2, <1>4, <1>9, <2>1 DEF GetInv
  <2>3. RestInv' /\ PutInv'
    BY <1>0, <1>2, <1>5, <2>0 DEF RestInv, PutInv
  <2> QED BY <1>2, <1>7, <2>2, <2>3 DEF Goes, FifoInv
<1>11. UNCHANGED <<Queue, Wanted, Litter, given>>
  BY <1>0, <1>3, <1>7, <1>8 DEF Queue, Litter
<1> QED BY <1>10, <1>11, FifoStutters DEF Done

LEMMA PutFifo ==
  ASSUME Goes, Put("main"), UNCHANGED <<torn, presses>>
  PROVE  Done
<1>0. Types
  BY GoesWith
<1> USE <1>0 DEF ring, call, ghost
<1>1. CASE PutTest("main") /\ ~ Full
  <2>1. pc["main"] = "put" /\ pc'["main"] = "put_load" /\ UNCHANGED <<op, pkt, out, parser, eaten, given>>
    BY <1>1 DEF PutTest, At, Goto, Types, Ctx
  <2> QED BY <2>1, PutGoesOn DEF Early
<1>2. CASE PutTest("main") /\ Full
  BY <1>2, FullFifo
<1>3. CASE Load("main", "put_load", fill_cnt, "put_count") \/ Load("main", "put_load_pos", p_w, "put_next")
  <2>1. /\ pc["main"] \in Early /\ pc'["main"] \in Early
        /\ UNCHANGED <<op, pkt, out, parser, eaten, given>>
    BY <1>3 DEF Load, At, Goto, Types, Ctx, Early
  <2> QED BY <2>1, PutGoesOn
<1>4. CASE PutCount("main") \/ PutNext("main")
  <2>1. /\ pc["main"] \in Early /\ pc'["main"] \in Early
        /\ UNCHANGED <<op, pkt, out, parser, eaten, given>>
    BY <1>4 DEF PutCount, PutNext, At, Goto, Types, Ctx, Early
  <2> QED BY <2>1, PutGoesOn
<1>5. CASE PutByte("main")
  <2>1. /\ pc["main"] = "put_byte" /\ pc'["main"] = "put_wrap"
        /\ UNCHANGED <<op, pkt, out, parser, eaten, given>>
    BY <1>5 DEF PutByte, At, Goto, Types, Ctx
  <2> QED BY <2>1, BytePutFifo
<1>6. CASE PutWrap("main") \/ PutReset("main")
  <2>1. /\ pc["main"] \in Late /\ pc'["main"] \in Late
        /\ UNCHANGED <<op, pkt, out, parser, eaten, given>>
    BY <1>6 DEF PutWrap, PutReset, At, Goto, Types, Ctx, Late
  <2> QED BY <2>1, PutGoesOn
<1>7. CASE PutMore("main")
  BY <1>7, PutMoreFifo
<1> QED BY <1>1, <1>2, <1>3, <1>4, <1>5, <1>6, <1>7 DEF Put

LEMMA GetFifo ==
  ASSUME Goes, Get("main")
  PROVE  Done
<1>0. Types
  BY GoesWith
<1> USE <1>0 DEF ring, call, ghost
<1>1. CASE GetTest("main") /\ fill_cnt > 0
  <2>1. pc["main"] = "get" /\ pc'["main"] = "get_load" /\ UNCHANGED <<op, pkt, out, parser, eaten, given>>
    BY <1>1 DEF GetTest, At, Goto, Types, Ctx
  <2>2. GetGoesOn
    BY <2>1 DEF GetGoesOn, Seeking, Getting, Got
  <2> QED BY <2>1, <2>2, GetQuietFifo
<1>2. CASE GetTest("main") /\ ~ (fill_cnt > 0)
  BY <1>2, EmptyFifo
<1>3. CASE Load("main", "get_load", fill_cnt, "get_count") \/ Load("main", "get_load_pos", p_r, "get_next")
  <2>1. /\ pc["main"] \in Seeking /\ pc'["main"] \in Seeking
        /\ UNCHANGED <<op, pkt, out, parser, eaten, given>>
    BY <1>3 DEF Load, At, Goto, Types, Ctx, Seeking, Getting, Got
  <2> QED BY <2>1, GetQuietFifo DEF GetGoesOn
<1>4. CASE GetCount("main") \/ GetNext("main")
  <2>1. /\ pc["main"] \in Seeking /\ pc'["main"] \in Seeking
        /\ UNCHANGED <<op, pkt, out, parser, eaten, given>>
    BY <1>4 DEF GetCount, GetNext, At, Goto, Types, Ctx, Seeking, Getting, Got
  <2> QED BY <2>1, GetQuietFifo DEF GetGoesOn
<1>5. CASE Load("main", "get_byte", buf[reg["main"]], "get_wrap")
  <2>1. /\ pc["main"] \in Seeking /\ pc'["main"] \in Got
        /\ UNCHANGED <<op, pkt, out, parser, eaten, given>>
    BY <1>5 DEF Load, At, Goto, Types, Ctx, Seeking, Getting, Got
  <2> QED BY <2>1, GetQuietFifo DEF GetGoesOn
<1>6. CASE GetWrap("main") \/ GetReset("main")
  <2>1. /\ pc["main"] \in Got /\ pc'["main"] \in Got
        /\ UNCHANGED <<op, pkt, out, parser, eaten, given, reg>>
    BY <1>6 DEF GetWrap, GetReset, At, Goto, Types, Ctx, Got
  <2> QED BY <2>1, GetQuietFifo DEF GetGoesOn
<1>7. CASE Parse("main") /\ reg["main"] # END
  BY <1>7, ParseMoreFifo
<1>8. CASE Parse("main") /\ reg["main"] = END
  BY <1>8, ParseEndFifo
<1> QED BY <1>1, <1>2, <1>3, <1>4, <1>5, <1>6, <1>7, <1>8 DEF Get

LEMMA FifoInit == Init => FifoInv /\ Fifo!Init
<1> SUFFICES ASSUME Init PROVE FifoInv /\ Fifo!Init
  OBVIOUS
<1>1. /\ pc["main"] = "idle" /\ pc["isr"] = "idle" /\ pkt["main"] = NoPacket
      /\ eaten = <<>> /\ given = NoPacket /\ torn = FALSE /\ presses = 0 /\ fill_cnt = 0
  BY DEF Init, Ctx
<1>2. /\ pc["main"] \notin Putting /\ pc["main"] \notin Getting /\ pc["main"] \notin Got
  BY <1>1 DEF Putting, Getting, Got
<1>3. Stored = <<>>
  <2>1. Waiting = 0
    BY <1>1 DEF Waiting, Running
  <2>2. Stored = [i \in 1 .. 0 |-> buf[CellFrom(Oldest, i)]]
    BY <1>1, <2>1 DEF Stored
  <2> QED BY <2>2
<1>4. <<>> \in Seq(Byte) /\ Len(<<>>) = 0
  BY EmptySeq
<1>5. Unread = <<>>
  BY <1>1, <1>2, <1>3, <1>4, NothingEaten, UnreadIs
<1>6. Framed(<<>>)
  BY <1>4 DEF Framed
<1>7. FifoInv
  BY <1>1, <1>2, <1>4, <1>5, <1>6 DEF FifoInv, Undisturbed, RestInv, PutInv, GetInv
<1>8. Partial = 0 /\ Wanted = NoPacket
  BY <1>1, <1>2, WritesAre DEF Writes, WritesNot
<1>9. Queue = <<>>
  BY <1>5, PacketsInNone DEF Queue
<1>10. Litter = FALSE
  <2>1. Litter = Abandoned(<<>>, Len(<<>>) - 0)
    BY <1>5, <1>8 DEF Litter
  <2>2. Len(<<>>) - 0 = 0
    BY <1>4
  <2> QED BY <2>1, <2>2, AbandonedNone DEF Abandoned
<1>11. Fifo!Init
  BY <1>1, <1>8, <1>9, <1>10 DEF Fifo!Init, Fifo!NoPacket, NoPacket, Queue, Wanted, Litter, Partial
<1> QED BY <1>7, <1>11

\* Where no interrupt comes, every step is one of the event loop.
LEMMA FifoStep ==
  ASSUME QueueInv, QueueInv', FifoInv, [Next]_vars, presses' = 0
  PROVE  Done
<1>0. Types /\ Types' /\ presses = 0 /\ torn = FALSE /\ pc["isr"] = "idle"
  BY DEF QueueInv, BoundsInv, FifoInv, Undisturbed
<1>1. CASE UNCHANGED vars
  <2>1. FifoInv'
    BY <1>1 DEF FifoInv, Undisturbed, RestInv, PutInv, GetInv, Unread, Written, Stored, Waiting,
       Running, Oldest, vars, ring, call, ghost
  <2>2. UNCHANGED <<Queue, Wanted, Litter, given>>
    BY <1>1 DEF Queue, Wanted, Litter, Partial, Complete, Unread, Written, Stored, Waiting,
       Running, Oldest, vars, ring, call, ghost
  <2> QED BY <2>1, <2>2, FifoStutters DEF Done
<1>2. CASE Next
  <2>1. \/ Step("main")
        \/ \E m \in Packets : Publish(m) \/ Answer(m)
        \/ Task
    <3>1. ~ Step("isr")
      BY <1>0 DEF Step, Put, Get, PutTest, Load, PutCount, PutNext, PutByte, PutWrap, PutReset,
         PutMore, GetTest, GetCount, GetNext, GetWrap, GetReset, Parse, At
    <3>2. \A m \in Packets : ~ ButtonIrq(m)
      BY <1>0 DEF ButtonIrq
    <3> QED BY <1>2, <3>1, <3>2 DEF Next, Ctx
  <2>2. Undisturbed'
    <3>1. ASSUME Step("main") PROVE Undisturbed'
      BY <1>0, <3>1, ZenonT(40) DEF Types, Step, Put, Get, PutTest, Load, PutCount, PutNext, PutByte, PutWrap,
         PutReset, PutMore, GetTest, GetCount, GetNext, GetWrap, GetReset, Parse, Goto, Return,
         Undisturbed, ghost, Ctx
    <3>2. ASSUME NEW m \in Packets, Publish(m) \/ Answer(m) PROVE Undisturbed'
      BY <1>0, <3>2 DEF Types, Publish, Answer, StartPut, Goto, Undisturbed, Ctx
    <3>3. ASSUME Task PROVE Undisturbed'
      BY <1>0, <3>3 DEF Types, Task, Goto, Undisturbed, Ctx
    <3> QED BY <2>1, <3>1, <3>2, <3>3
  <2>3. BytesMove
    BY <1>0, <2>2, RingMoves DEF Undisturbed
  <2>4. Goes
    BY <2>2, <2>3 DEF Goes
  <2>5. ASSUME Step("main") PROVE Done
    <3>1. UNCHANGED <<torn, presses>>
      BY <1>0, <2>2 DEF Undisturbed
    <3> QED BY <2>4, <2>5, <3>1, PutFifo, GetFifo DEF Step
  <2>6. ASSUME NEW m \in Packets, Publish(m) \/ Answer(m) PROVE Done
    <3>1. pc["main"] = "idle" /\ (StartPut("main", "publish", m) \/ StartPut("main", "answer", m))
      BY <2>6 DEF Publish, Answer, At
    <3> QED BY <2>4, <3>1, StartFifo
  <2>7. ASSUME Task PROVE Done
    BY <2>4, <2>7, TaskFifo
  <2> QED BY <2>1, <2>5, <2>6, <2>7
<1> QED BY <1>1, <1>2

\* The queue keeps its promise to the callers of MQTT_Publish and MQTT_Task, as long as
\* no interrupt uses it too: packets come out whole and in the order in which they were
\* queued, the oldest are forgotten, and one is refused, only for lack of room - for
\* every size of the ring and every set of packets.
THEOREM QueueImplementsFifo == Spec /\ [](presses = 0) => ImplementsFifo
<1>1. Init => FifoInv /\ Fifo!Init
  BY FifoInit
<1>2. QueueInv /\ QueueInv' /\ FifoInv /\ [Next]_vars /\ (presses = 0)' =>
        FifoInv' /\ [Fifo!Next]_Fifo!vars
  BY FifoStep DEF Done
<1> QED BY <1>1, <1>2, QueueIsInvariant, PTL DEF Spec, ImplementsFifo, Fifo!Spec
=============================================================================
