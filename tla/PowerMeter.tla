----------------------------- MODULE PowerMeter -----------------------------
(***************************************************************************)
(* The power meter: uart.c with UART_BUFF_EN 0.  The meter chip sends a frame *)
(* of bytes; uart0_rx_intr_handler disables the receive interrupts and posts   *)
(* an event; uart_recvTask empties the FIFO into a parser, averages the        *)
(* samples and enables the interrupts again.                                 *)
(*                                                                         *)
(* A frame (external) is a record of head, Uk, Ut, Ik, It, Pk, Pt and Adj: its  *)
(* CF is left out but for its place.                                         *)
(***************************************************************************)
EXTENDS Integers, Sequences, SequencesExt, FiniteSetsExt

CONSTANTS
  Frames,       \* the frames the chip sends
  Width,        \* bytes per quantity: 3
  TEMP_COUNT,   \* samples averaged: 10
  FifoSize,     \* bytes of the receive FIFO: 128
  FullAt,       \* level of the FULL interrupt: 100
  Damages,      \* what the line does to a frame: <<"none", 0>>, <<"lost", n>>
                \* or <<"changed", n>>, where n is the place of a byte
  MaxWaiting    \* bound on the bytes that arrive while the task runs

Interrupts == {"FRM_ERR", "FULL", "TOUT", "OVF"}
Byte == 0 .. 255
HasBit(b, n) == (n \div b) % 2 = 1

Quantities == <<"Uk", "Ut", "Ik", "It", "Pk", "Pt">>

\* v, shifted to the right by 0 to Width bytes.
Shifted(v) ==
  LET s[n \in 0 .. Width] == IF n = 0 THEN v ELSE s[n - 1] \div 256 IN s

\* Heads of the frames that are samples, of all that a frame may have.
Counted(head) == head \in {85} \cup 240 .. 243

\* The quantities fit their bytes, and those of a sample divide by no zero.
IsFrame(f) ==
  /\ f.head \in {85} \cup 240 .. 255 /\ f.Adj \in Byte
  /\ \A n \in 1 .. 6 : f[Quantities[n]] \in Nat /\ Shifted(f[Quantities[n]])[Width] = 0
  /\ Counted(f.head) => /\ HasBit(64, f.Adj) => f.Ut > 0
                        /\ ~ HasBit(2, f.head) => f.Pt > 0
                        /\ HasBit(32, f.Adj) => f.It > 0

ASSUME MeterAssumption ==
  /\ Width \in Nat \ {0} /\ TEMP_COUNT \in Nat \ (0 .. 2)
  /\ FifoSize \in Nat /\ FullAt \in Nat /\ MaxWaiting \in Nat
  /\ \A f \in Frames : IsFrame(f)
  /\ Damages \subseteq {<<"none", 0>>} \cup {"lost", "changed"} \X (1 .. 6 * Width + 6)

VARIABLES
  rxFifo,      \* bytes in the FIFO
  rxFlags,     \* interrupts raised
  rxEnabled,   \* FULL and TOUT are enabled (the others always are)
  rxEvents,    \* events posted to uart_recvTask
  parser,      \* redat_num, head, sum and the quantities
  meter,       \* the samples, newest first, and power_num
  averages,    \* voltage, power and current, as reported
  sent         \* history: the last two frames, [frame, whole]

powerVars == <<rxFifo, rxFlags, rxEnabled, rxEvents, parser, meter, averages, sent>>

-----------------------------------------------------------------------------
(* The chip (external) *)

\* The sums of the first n numbers of d.
Sums(d) ==
  LET sum[n \in 0 .. Len(d)] == IF n = 0 THEN 0 ELSE sum[n - 1] + d[n] IN sum

\* Between head and checksum: the quantities, the highest byte first, Adj and CF.
Data(f) ==
  [i \in 1 .. 6 * Width + 3 |->
     IF i > 6 * Width THEN IF i = 6 * Width + 1 THEN f.Adj ELSE 0
     ELSE Shifted(f[Quantities[(i - 1) \div Width + 1]])[Width - 1 - ((i - 1) % Width)] % 256]

Bytes(f) == <<f.head, 90>> \o Data(f) \o <<Sums(Data(f))[6 * Width + 3] % 256>>

\* A frame arrives whole, without one of its bytes, or with one changed; what
\* the FIFO has no room for is lost.
Arrives(f, damage) ==
  LET all == Bytes(f)
      come == CASE damage[1] = "none" -> all
                [] damage[1] = "lost" -> RemoveAt(all, damage[2])
                [] damage[1] = "changed" -> [all EXCEPT ![damage[2]] = (@ + 1) % 256]
      room == FifoSize - Len(rxFifo)
      ovf == Len(come) > room
  IN /\ rxFifo' = rxFifo \o (IF ovf THEN SubSeq(come, 1, room) ELSE come)
     /\ rxFlags' = rxFlags \cup {"TOUT"}
                   \cup (IF Len(rxFifo') >= FullAt THEN {"FULL"} ELSE {})
                   \cup (IF ovf THEN {"OVF"} ELSE {})
                   \cup (IF damage[1] = "changed" THEN {"FRM_ERR"} ELSE {})
     /\ sent' = <<sent[2], [frame |-> f, whole |-> damage[1] = "none" /\ ~ ovf]>>

ChipSends ==
  /\ Len(rxFifo) <= MaxWaiting
  /\ \E f \in Frames, damage \in Damages : Arrives(f, damage)
  /\ UNCHANGED <<rxEnabled, rxEvents, parser, meter, averages>>

-----------------------------------------------------------------------------
(* uart0_rx_intr_handler: one flag per call, in this order *)

FrameError ==
  /\ "FRM_ERR" \in rxFlags
  /\ rxFlags' = rxFlags \ {"FRM_ERR"}
  /\ UNCHANGED <<rxFifo, rxEnabled, rxEvents, parser, meter, averages, sent>>

\* system_os_post, of an event that will enable the interrupts again.
Posts(flag) == rxEvents + 1

Received ==
  /\ rxEnabled /\ "FRM_ERR" \notin rxFlags
  /\ LET flag == IF "FULL" \in rxFlags THEN "FULL" ELSE "TOUT" IN
       /\ flag \in rxFlags
       /\ rxFlags' = rxFlags \ {flag}
       /\ rxEvents' = Posts(flag)
  /\ rxEnabled' = FALSE
  /\ UNCHANGED <<rxFifo, parser, meter, averages, sent>>

Overflow ==
  /\ "OVF" \in rxFlags /\ "FRM_ERR" \notin rxFlags
  /\ rxEnabled => rxFlags \cap {"FULL", "TOUT"} = {}
  /\ rxFlags' = rxFlags \ {"OVF"}
  /\ UNCHANGED <<rxFifo, rxEnabled, rxEvents, parser, meter, averages, sent>>

-----------------------------------------------------------------------------
(* uart_recvTask: the parser *)

HeadLike(d) == d = 85 \/ d >= 240
NoQuantities == [q \in Range(Quantities) \cup {"Adj"} |-> 0]
CheckAt == 5 + 6 * Width

\* The quantity byte number n belongs to.
QuantityAt(n) == IF n < 2 + 6 * Width THEN Quantities[(n - 2) \div Width + 1]
                 ELSE "Adj"

Resync(p) == [p EXCEPT !.redat_num = 0]

\* The checksum starts with the second byte.  The mutant lets it run on.
SumRunsOn(p) == p.sum
SumAtStart(p) == 0

\* Byte d, of any but the last place.
Take(p, d) ==
  CASE p.redat_num = 0 ->
         IF HeadLike(d) THEN [p EXCEPT !.redat_num = 1, !.head = d] ELSE p
    [] p.redat_num = 1 ->
         LET q == [p EXCEPT !.sum = SumAtStart(p), !.val = NoQuantities] IN
         IF d = 90 THEN [q EXCEPT !.redat_num = 2] ELSE Resync(q)
    [] OTHER ->
         LET q == [p EXCEPT !.redat_num = @ + 1, !.sum = (@ + d) % 256]
             name == QuantityAt(p.redat_num)
         IN IF p.redat_num > 2 + 6 * Width THEN q
            ELSE [q EXCEPT !.val[name] = IF name = "Adj" THEN d ELSE @ * 256 + d]

\* The last byte: the frame is a sample if the sum and the head are right.
IsSample(p, d) == p.sum = d /\ Counted(p.head)

-----------------------------------------------------------------------------
(* uart_recvTask: samples and averages *)

U16(n) == n % 65536
Push(samples, v) == [n \in 1 .. TEMP_COUNT |-> IF n = 1 THEN v ELSE samples[n - 1]]

PowerOf(f) == LET w == U16((f.Pk * 10) \div f.Pt) IN IF w > 25000 THEN 0 ELSE w

\* The new samples of a frame, in the order power, voltage, current: the power
\* of this frame decides on the current.
SamplesOf(m, head, f) ==
  LET watts == IF HasBit(2, head) THEN 0 ELSE PowerOf(f) IN
  [m EXCEPT
     !.voltages = IF HasBit(64, f.Adj) THEN Push(@, U16(f.Uk \div f.Ut)) ELSE @,
     !.powers = Push(@, watts),
     !.currents = IF ~ HasBit(32, f.Adj) THEN @
                  ELSE Push(@, IF watts > 0 THEN U16((f.Ik * 100) \div f.It)
                               ELSE 0)]

\* C's division, towards zero.
Quotient(n, d) == IF n < 0 THEN - ((- n) \div d) ELSE n \div d

Sampled(m, head, f) ==
  [SamplesOf(m, head, f) EXCEPT !.power_num = IF @ > TEMP_COUNT THEN @ ELSE @ + 1]

\* The parser and the meter after byte d.
Eat(s, d) ==
  IF s.p.redat_num < CheckAt THEN [p |-> Take(s.p, d), m |-> s.m]
  ELSE [p |-> Resync(s.p),
        m |-> IF IsSample(s.p, d) THEN Sampled(s.m, s.p.head, s.p.val) ELSE s.m]

\* The same after the bytes d.
Eaten(s, d) ==
  LET e[n \in 0 .. Len(d)] == IF n = 0 THEN s ELSE Eat(e[n - 1], d[n])
  IN e[Len(d)]

\* The mean without the highest and the lowest value seen, with a sum 16 bits wide.
Average(samples, seen) ==
  U16(Quotient(U16(Sums(samples)[TEMP_COUNT]) - Max(seen) - Min(seen), TEMP_COUNT - 2))

\* The averages of m.  The highest and the lowest are those of all the samples this
\* call of the task has averaged: they are set at its start, the sums at each frame.
Averages(m, averaged) ==
  LET Of(q) == Average(m[q], UNION {Range(w[q]) : w \in averaged})
      v == Of("voltages")
      p == IF v = 0 THEN 0 ELSE Of("powers")
  IN [voltage |-> v, power |-> p, current |-> IF p = 0 THEN 0 ELSE Of("currents")]

\* The bytes of d that end a sample once there are enough of them.
AveragedAt(s, d) ==
  {k \in DOMAIN d : LET b == Eaten(s, SubSeq(d, 1, k - 1))
                    IN b.p.redat_num = CheckAt /\ IsSample(b.p, d[k]) /\ b.m.power_num >= TEMP_COUNT}

\* What is reported after the bytes d.
Reported(s, d) ==
  LET at == AveragedAt(s, d)
      After(k) == Eaten(s, SubSeq(d, 1, k)).m
  IN IF at = {} THEN averages ELSE Averages(After(Max(at)), {After(k) : k \in at})

\* uart_recvTask: fifo_len is read once.  Of what arrives later the flags may
\* be raised before the task clears them, and are then lost.
uart_recvTask ==
  /\ rxEvents > 0
  /\ \E fifo_len \in Max({0, Len(rxFifo) - MaxWaiting}) .. Len(rxFifo) :
       LET start == [p |-> parser, m |-> meter]
           bytes == SubSeq(rxFifo, 1, fifo_len)
           all == Eaten(start, bytes)
           rest == SubSeq(rxFifo, fifo_len + 1, Len(rxFifo))
       IN /\ parser' = all.p /\ meter' = all.m /\ rxFifo' = rest
          /\ averages' = Reported(start, bytes)
          /\ \E late \in SUBSET (IF rest = <<>> THEN {}
                                 ELSE rxFlags \cap {"FULL", "TOUT"}) :
               rxFlags' = (rxFlags \ {"FULL", "TOUT"}) \cup late
  /\ rxEvents' = rxEvents - 1
  /\ rxEnabled' = TRUE
  /\ UNCHANGED sent

MeterInit ==
  /\ rxFifo = <<>> /\ rxFlags = {} /\ rxEnabled = TRUE /\ rxEvents = 0
  /\ parser = [redat_num |-> 0, head |-> 0, sum |-> 0, val |-> NoQuantities]
  /\ LET zeros == [n \in 1 .. TEMP_COUNT |-> 0] IN
       meter = [voltages |-> zeros, powers |-> zeros, currents |-> zeros, power_num |-> 0]
  /\ averages = [voltage |-> 0, power |-> 0, current |-> 0]
  /\ sent = <<[frame |-> <<>>, whole |-> FALSE], [frame |-> <<>>, whole |-> FALSE]>>

MeterNext == ChipSends \/ FrameError \/ Received \/ Overflow \/ uart_recvTask

MeterSpec == MeterInit /\ [][MeterNext]_powerVars

-----------------------------------------------------------------------------

\* Types: and power_num stops one above the number of samples.
MeterTypeOK ==
  /\ Len(rxFifo) <= FifoSize /\ rxFlags \subseteq Interrupts
  /\ rxEnabled \in BOOLEAN /\ rxEvents \in 0 .. 1
  /\ parser.redat_num \in 0 .. CheckAt /\ parser.sum \in 0 .. 255
  /\ meter.power_num \in 0 .. TEMP_COUNT + 1
  /\ averages \in [{"voltage", "power", "current"} -> 0 .. 65535]

\* The receiver recovers by itself.  While its interrupts are disabled an event is
\* on its way to the task that enables them: the meter does not fall silent for
\* good.  And framing is found again: when the FIFO is empty, the last of two
\* whole frames is read, whatever came before them, and a sample if its head is
\* that of one - unless a byte of the first looks like a head (a checksum that does swallows the head of the next
\* frame, and of every frame like it).
MeterRecovers ==
  LET bytes == Tail(Bytes(sent[1].frame))
      f == sent[2].frame
  IN /\ rxEnabled <=> rxEvents = 0
     /\ (/\ rxFifo = <<>> /\ sent[1].whole /\ sent[2].whole
         /\ \A n \in DOMAIN bytes : ~ HeadLike(bytes[n]))
        => /\ parser.redat_num = 0
           /\ Counted(f.head) =>
                /\ meter.powers[1] = IF HasBit(2, f.head) THEN 0 ELSE PowerOf(f)
                /\ HasBit(64, f.Adj) => meter.voltages[1] = U16(f.Uk \div f.Ut)

\* What is reported, without bounds on the width of the sum.
TrimmedMean(samples) ==
  LET s == Range(samples) IN
  (Sums(samples)[TEMP_COUNT] - Max(s) - Min(s)) \div (TEMP_COUNT - 2)

\* The mean of the samples without the highest and the lowest is reported
\* (the comment of uart.c:443).
AverageIsTrimmedMean ==
  meter.power_num > TEMP_COUNT /\ averages.voltage # 0 =>
    /\ averages.voltage = TrimmedMean(meter.voltages)
    /\ averages.power = TrimmedMean(meter.powers)
=============================================================================
