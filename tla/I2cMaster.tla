------------------------------ MODULE I2cMaster ------------------------------
(***************************************************************************)
(* The bit-banged bus to the port expander (driver/i2c_master.c) and the   *)
(* two transactions user_io.c makes of it.  The main program drives the    *)
(* lines one level at a time; the interrupt of the keys drives the same    *)
(* lines, in a transaction of its own, between any two of its steps, and   *)
(* i2c_master_setDC remembers the levels in two globals that both use.  A  *)
(* watchdog reset may strike anywhere.                                     *)
(*                                                                         *)
(* The expander is external: a slave with an input register 0 and an       *)
(* output register 1 that reads the lines as I2C prescribes.               *)
(*                                                                         *)
(* Run is a RECURSIVE operator: nothing is proved here.                    *)
(***************************************************************************)
EXTENDS Integers, Sequences, SequencesExt

CONSTANTS Values,     \* bytes the program writes to the output register
          Input,      \* the byte of the input register
          MaxDisturbances   \* bound: interrupts and resets

VARIABLES wire,     \* the lines, the globals and the slave
          doing,    \* Idle, Reading, Initialising, or the byte being written
          todo,     \* what is left of it: a program and the step it is at
          result,   \* of the last transaction of the main program
          disturbances  \* so far

i2cVars == <<wire, doing, todo, result, disturbances>>

IIC_ADDR == 64

Idle == -1
Reading == -2
Initialising == -3
Stopping == -4

\* A step sets both lines, takes the level of SDA, or looks at the acknowledge.
\* -1: the level m_nLastSDA or m_nLastSCL remembers.
DC(sda, scl) == [op |-> "set", sda |-> sda, scl |-> scl]
Sample == [op |-> "sample", sda |-> 0, scl |-> 0]
Check == [op |-> "check", sda |-> 0, scl |-> 0]
Bit(b, i) == (b \div 2^i) % 2

i2c_master_start == <<DC(1, -1), DC(1, 1), DC(0, 1)>>
i2c_master_stop == <<DC(0, -1), DC(0, 1), DC(1, 1)>>
i2c_master_checkAck == <<DC(-1, 0), DC(1, 0), DC(1, 1), Sample, DC(1, 0), Check>>
i2c_master_send_nack == <<DC(-1, 0), DC(1, 0), DC(1, 1), DC(1, 0), DC(1, 0)>>
i2c_master_readByte ==
  <<DC(-1, 0)>> \o FlattenSeq([i \in 1 .. 8 |-> <<DC(1, 0), DC(1, 1), Sample>>]) \o <<DC(1, 0)>>
i2c_master_writeByte(b) ==
  <<DC(-1, 0)>> \o FlattenSeq([i \in 1 .. 8 |-> <<DC(Bit(b, 8 - i), 0), DC(Bit(b, 8 - i), 1),
                                                 DC(Bit(b, 8 - i), 0)>>])
Clocks(n) ==
  <<DC(1, 0), DC(0, 0), DC(1, 0)>>
  \o FlattenSeq([i \in 1 .. n |-> <<DC(1, 0), DC(1, 1)>>]) \o i2c_master_stop
\* The mutant is one clock short.
i2c_master_init_27 == Clocks(27)
i2c_master_init == Clocks(28)

io_iic_write(addr, val) ==
  i2c_master_start \o i2c_master_writeByte(IIC_ADDR) \o i2c_master_checkAck
  \o i2c_master_writeByte(addr) \o i2c_master_checkAck
  \o i2c_master_writeByte(val) \o i2c_master_checkAck \o i2c_master_stop
io_iic_read(addr) ==
  i2c_master_start \o i2c_master_writeByte(IIC_ADDR) \o i2c_master_checkAck
  \o i2c_master_writeByte(addr) \o i2c_master_checkAck \o i2c_master_stop
  \o i2c_master_start \o i2c_master_writeByte(IIC_ADDR + 1) \o i2c_master_checkAck
  \o i2c_master_readByte \o i2c_master_send_nack \o i2c_master_stop

\* The programs, by what they do; a byte stands for the write of it.
Steps == [p \in Values \cup {Reading, Initialising, Stopping} |->
            CASE p = Reading      -> io_iic_read(0)
              [] p = Initialising -> i2c_master_init
              [] p = Stopping     -> i2c_master_stop
              [] OTHER            -> io_iic_write(1, p)]
From(p) == [of |-> p, at |-> 1, args |-> <<>>]
Ended(t) == t.at > Len(Steps[t.of])

(***************************************************************************)
(* The slave: the byte it is in ("phase"), the clocks of that byte, the    *)
(* bits so far, whether it pulls SDA low, the register pointer and the     *)
(* output register.                                                        *)
(***************************************************************************)
Slave == [phase |-> "idle", n |-> 0, shift |-> 0, drive |-> 1, reg |-> 0, out |-> 255, log |-> {}]
Register(v) == IF v.reg = 0 THEN Input ELSE v.out
OnStart(v) == [v EXCEPT !.phase = "addr", !.n = 0, !.shift = 0, !.drive = 1]
OnStop(v) == [v EXCEPT !.phase = "idle", !.drive = 1]

OnRise(v, sda) ==
  IF v.phase \in {"idle", "other"} THEN v
  ELSE IF v.n < 8 THEN [v EXCEPT !.n = @ + 1, !.shift = IF v.phase = "send" THEN 0 ELSE 2 * @ + sda]
  ELSE IF v.phase = "data" /\ v.reg = 1
       THEN [v EXCEPT !.n = 9, !.out = v.shift, !.log = @ \cup {v.shift}]
  ELSE IF v.phase = "send" THEN [v EXCEPT !.n = 9, !.shift = sda]
  ELSE [v EXCEPT !.n = 9]

\* After the last bit of a byte the acknowledge, after its clock the next byte.
OnFall(v) ==
  LET next == CASE v.phase = "addr" -> IF v.shift = IIC_ADDR THEN "reg" ELSE "send"
                [] v.phase = "send" -> IF v.shift = 1 THEN "other" ELSE "send"
                [] OTHER -> "data"
      n    == IF v.n = 9 THEN 0 ELSE v.n
      w    == [v EXCEPT !.n = n, !.shift = IF v.n = 9 THEN 0 ELSE @,
                        !.phase = IF v.n = 9 THEN next ELSE @,
                        !.reg = IF v.n = 9 /\ v.phase = "reg" THEN v.shift ELSE @]
  IN  IF v.phase \in {"idle", "other"} THEN v
      ELSE IF v.n = 8 /\ v.phase = "addr" /\ v.shift \notin {IIC_ADDR, IIC_ADDR + 1}
           THEN [v EXCEPT !.phase = "other", !.drive = 1]
      ELSE [w EXCEPT !.drive = IF w.phase = "send" THEN IF n = 8 THEN 1 ELSE Bit(Register(w), 7 - n)
                               ELSE IF n = 8 THEN 0 ELSE 1]

(***************************************************************************)
(* The lines.  Both ends only pull SDA low; when both lines change at once *)
(* either change may come first.                                           *)
(***************************************************************************)
Wire == [sda |-> 1, scl |-> 1, lastSda |-> 0, lastScl |-> 0, slave |-> Slave]
Sda(w) == IF w.sda = 1 /\ w.slave.drive = 1 THEN 1 ELSE 0

SetSda(w, x) ==
  LET u == [w EXCEPT !.sda = x]
  IN  IF w.scl = 0 \/ Sda(u) = Sda(w) THEN u
      ELSE [u EXCEPT !.slave = IF Sda(u) = 0 THEN OnStart(@) ELSE OnStop(@)]
SetScl(w, x) ==
  IF x = w.scl THEN w
  ELSE [w EXCEPT !.scl = x, !.slave = IF x = 1 THEN OnRise(@, Sda(w)) ELSE OnFall(@)]
SetBoth(w, sda, scl, first) ==
  IF first = "sda" THEN SetScl(SetSda(w, sda), scl) ELSE SetSda(SetScl(w, scl), sda)

\* i2c_master_setDC: first it remembers the levels, then it sets them.
Remember(w, sda, scl) == [w EXCEPT !.lastSda = sda, !.lastScl = scl]
i2c_master_setDC(w, sda, scl) == SetBoth(Remember(w, sda, scl), sda, scl, "sda")

\* A transaction t under way: its wire, its steps, the level it took, and whether
\* every byte was acknowledged; without an acknowledge it goes on to the stop.
Levels(t) ==
  LET s == Steps[t.todo.of][t.todo.at]
  IN  <<IF s.sda = -1 THEN t.wire.lastSda ELSE s.sda, IF s.scl = -1 THEN t.wire.lastScl ELSE s.scl>>
Op(t) == Steps[t.todo.of][t.todo.at].op
After(t) == [t EXCEPT !.todo.at = @ + 1, !.todo.args = <<>>]
\* The mutant does not look at the level.
CheckedNever(t) == After(t)
Checked(t) ==
  IF t.level = 0 THEN After(t) ELSE [t EXCEPT !.todo = From(Stopping), !.ok = FALSE]
Step(t) ==
  CASE Op(t) = "set"    -> [After(t) EXCEPT !.wire = i2c_master_setDC(@, Levels(t)[1], Levels(t)[2])]
    [] Op(t) = "sample" -> [After(t) EXCEPT !.level = Sda(t.wire)]
    [] Op(t) = "check"  -> Checked(t)

Begin(w, p) == [wire |-> w, todo |-> From(p), level |-> 1, ok |-> TRUE]

RECURSIVE Run(_)
Run(t) == IF Ended(t.todo) THEN t ELSE Run(Step(t))

\* user_io_set_plug_all tries again if the write fails.
user_io_set_plug_all(w, v) ==
  LET once == Run(Begin(w, v)) IN IF once.ok THEN once ELSE Run(Begin(once.wire, v))

\* io_intr_handler reads the keys, five times if it must, and then, unless it is
\* no single key, its message ends in user_io_set_plug_all.  How it may leave the
\* wire w.
RECURSIVE AfterInterrupt(_, _)
AfterInterrupt(w, tries) ==
  LET r == Run(Begin(w, Reading))
  IN  IF r.ok THEN {r.wire} \cup {user_io_set_plug_all(r.wire, v).wire : v \in Values}
      ELSE IF tries = 1 THEN {r.wire}
      ELSE AfterInterrupt(r.wire, tries - 1)

Init ==
  /\ wire = Wire
  /\ todo = From(Initialising) /\ doing = Initialising
  /\ result = [level |-> 1, ok |-> TRUE]
  /\ disturbances = 0

\* The main program starts a transaction.
Transact ==
  /\ doing = Idle
  /\ doing' \in Values \cup {Reading}
  /\ todo' = From(doing')
  /\ wire' = [wire EXCEPT !.slave.log = {}]
  /\ result' = [level |-> 1, ok |-> TRUE]
  /\ UNCHANGED disturbances

Now == [wire |-> wire, todo |-> todo, level |-> result.level, ok |-> result.ok]
Goes(t) ==
  /\ wire' = t.wire /\ todo' = t.todo
  /\ result' = [level |-> t.level, ok |-> t.ok]
  /\ UNCHANGED <<doing, disturbances>>

\* The two halves of i2c_master_setDC.
Remembered ==
  [Now EXCEPT !.wire = Remember(@, Levels(Now)[1], Levels(Now)[2]), !.todo.args = Levels(Now)]
HowSet(t) ==
  {[After(t) EXCEPT !.wire = SetBoth(@, t.todo.args[1], t.todo.args[2], first)] :
     first \in {"sda", "scl"}}

Remembers ==
  /\ ~Ended(todo) /\ Op(Now) = "set" /\ todo.args = <<>> /\ disturbances < MaxDisturbances
  /\ Goes(Remembered)
Sets ==
  /\ todo.args # <<>> /\ disturbances < MaxDisturbances
  /\ \E t \in HowSet(Now) : Goes(t)

Looks == ~Ended(todo) /\ Op(Now) # "set" /\ disturbances < MaxDisturbances /\ Goes(Step(Now))

\* When nothing can come in between any more, all the steps that are left: both
\* lines can change at once only in the first of them.
Rest ==
  /\ disturbances = MaxDisturbances /\ ~Ended(todo)
  /\ \E t \in CASE todo.args # <<>> -> HowSet(Now)
               [] Op(Now) = "set" /\ todo.args = <<>> -> HowSet(Remembered)
               [] OTHER -> {Now} :
       Goes(Run(t))

Return ==
  /\ doing # Idle /\ Ended(todo)
  /\ doing' = Idle
  /\ UNCHANGED <<wire, todo, result, disturbances>>

\* The interrupt is enabled at the end of user_io_init, and runs to its end.  What
\* it writes is not logged: the log is of the writes of the main program.
KeyInterrupt ==
  /\ doing # Initialising /\ disturbances < MaxDisturbances
  /\ disturbances' = disturbances + 1
  /\ \E w \in AfterInterrupt(wire, 5) : wire' = [w EXCEPT !.slave.log = wire.slave.log]
  /\ UNCHANGED <<todo, doing, result>>

\* The processor starts over and its pins float; the slave stays as it is.
\* i2c_master_gpio_init raises both lines without setting the globals.
BusReset ==
  /\ disturbances < MaxDisturbances
  /\ disturbances' = disturbances + 1
  /\ \E first \in {"sda", "scl"} :
       wire' = [SetBoth(wire, 1, 1, first) EXCEPT !.lastSda = 0, !.lastScl = 0]
  /\ todo' = From(Initialising) /\ doing' = Initialising
  /\ result' = [level |-> 1, ok |-> TRUE]

Next == Transact \/ Remembers \/ Sets \/ Looks \/ Rest \/ Return \/ KeyInterrupt \/ BusReset

Spec == Init /\ [][Next]_i2cVars
-----------------------------------------------------------------------------
WireTypeOK ==
  /\ {wire.sda, wire.scl, wire.slave.drive} \subseteq 0 .. 1
  /\ wire.slave.n \in 0 .. 9 /\ wire.slave.shift \in 0 .. 255

\* Whatever interrupts and resets came in between: a write of the main program
\* that returned true has reached the output register - that write, not one of
\* the interrupt.
TrueMeansWritten ==
  (doing \in Values /\ Ended(todo) /\ result.ok) => doing \in wire.slave.log

\* Wherever an interrupt or a reset left the slave, also where the stop at the end
\* of i2c_master_init finds SDA held low by it: user_io_set_plug_all succeeds if
\* nothing disturbs it again, and what it wrote is in the output register.
SetRecovers ==
  doing = Idle =>
    \A v \in Values : LET t == user_io_set_plug_all(wire, v) IN t.ok /\ t.wire.slave.out = v
=============================================================================
