---------------------------- MODULE DeviceConfig ----------------------------
(***************************************************************************)
(* user_config_t (app/include/user_config.h), its defaults, what a reboot   *)
(* makes of a flash image (user_setting_get_config), what the NOR flash     *)
(* makes of a write, and the relay byte user_io_set_plug_all computes.      *)
(* Pure definitions: the state machine is in PlugControl.                   *)
(*                                                                         *)
(* Strings are abstracted to what the code tests: `name' to whether its     *)
(* first three bytes are not all 0xff, the four MQTT fields to one byte.    *)
(* The hour, minute and weekday of a task belong to the clock and are left   *)
(* out here; `repeat' keeps its value because 0 means "fire once".          *)
(***************************************************************************)
EXTENDS Integers

CONSTANTS
  PlugNum,   \* PLUG_NUM: the number of sockets, socket 0 being the master
  TaskNum    \* PLUG_TIME_TASK_NUM: timer tasks per socket

\* One relay line per socket, bits 7 down to 4 of the output byte.
ASSUME PlugNumAssumption == PlugNum \in 2 .. 4
ASSUME TaskNumAssumption == TaskNum \in Nat \ {0}

Byte == 0 .. 255
Plug == 0 .. PlugNum - 1
Branch == Plug \ {0}
Slot == 0 .. TaskNum - 1

Task == [on : Byte, repeat : Byte, action : Byte]

Config == [named    : BOOLEAN,
           version  : Byte,
           interval : Byte,
           mqtt     : Byte,
           on       : [Plug -> Byte],
           task     : [Plug -> [Slot -> Task]]]

USER_CONFIG_VERSION == 5

-----------------------------------------------------------------------------
(* Defaults and loading.                                                   *)

DefaultTask == [on |-> 0, repeat |-> 0, action |-> 1]

DefaultConfig ==
  [named    |-> TRUE,
   version  |-> USER_CONFIG_VERSION,
   interval |-> 5,
   mqtt     |-> 0,
   on       |-> [p \in Plug |-> 1],
   task     |-> [p \in Plug |-> [s \in Slot |-> DefaultTask]]]

\* A sector after spi_flash_erase_sector: every byte reads 0xff.
Erased ==
  [named    |-> FALSE,
   version  |-> 255,
   interval |-> 255,
   mqtt     |-> 255,
   on       |-> [p \in Plug |-> 255],
   task     |-> [p \in Plug |-> [s \in Slot |->
                   [on |-> 255, repeat |-> 255, action |-> 255]]]]

\* Version 4 images are upgraded in RAM only; they reach the flash with the
\* next save.
Migrate(c) ==
  IF c.version = 4
  THEN [c EXCEPT !.version = USER_CONFIG_VERSION, !.interval = 5]
  ELSE c

NeedsDefaults(c) == ~ c.named \/ c.version # USER_CONFIG_VERSION

\* The configuration the device runs with after booting from image c.
Load(c) == IF NeedsDefaults(Migrate(c)) THEN DefaultConfig ELSE Migrate(c)

-----------------------------------------------------------------------------
(* NOR flash: a write can only clear bits.                                 *)

AndBit(a, b, m) ==
  IF (a \div m) % 2 = 1 /\ (b \div m) % 2 = 1 THEN m ELSE 0

And8(a, b) ==
  AndBit(a, b, 1)  + AndBit(a, b, 2)  + AndBit(a, b, 4)  + AndBit(a, b, 8) +
  AndBit(a, b, 16) + AndBit(a, b, 32) + AndBit(a, b, 64) + AndBit(a, b, 128)

Program(old, new) ==
  [named    |-> old.named \/ new.named,
   version  |-> And8(old.version, new.version),
   interval |-> And8(old.interval, new.interval),
   mqtt     |-> And8(old.mqtt, new.mqtt),
   on       |-> [p \in Plug |-> And8(old.on[p], new.on[p])],
   task     |-> [p \in Plug |-> [s \in Slot |->
     [on     |-> And8(old.task[p][s].on, new.task[p][s].on),
      repeat |-> And8(old.task[p][s].repeat, new.task[p][s].repeat),
      action |-> And8(old.task[p][s].action, new.task[p][s].action)]]]]

\* Where a field is in the image: name and MQTT fields, then the sockets, each
\* with `on' and its tasks; version and interval are in the last word.
PlaceOn(p) == p * (1 + TaskNum)
PlaceTask(p, s) == p * (1 + TaskNum) + 1 + s
Places == 0 .. PlugNum * (1 + TaskNum)

\* A write that is cut off at place k.
ProgramUpTo(old, new, k) ==
  LET all == Program(old, new) IN
  [all EXCEPT
    !.version  = old.version,
    !.interval = old.interval,
    !.on   = [p \in Plug |-> IF PlaceOn(p) < k THEN all.on[p] ELSE old.on[p]],
    !.task = [p \in Plug |-> [s \in Slot |->
               IF PlaceTask(p, s) < k THEN all.task[p][s] ELSE old.task[p][s]]]]

-----------------------------------------------------------------------------
(* The byte written to the IO expander, as the set of its bits.             *)

Bit(v, k) == (v \div 2^k) % 2

\* Mutant: the master on bit 4, as if the sockets were numbered upwards.
RelayByteMirrored(on) ==
  0 .. 3 \cup { b \in 0 .. 7 : \E p \in Plug :
                  b - p - 4 \in 0 .. 7 /\ Bit(on[p], b - p - 4) = 1 }

\* val = 0x0f | on[0] << 7 | on[1] << 6 | ..., truncated to 8 bits: bit k of
\* on[p] lands on bit k + 7 - p.
RelayByte(on) ==
  0 .. 3 \cup { b \in 0 .. 7 : \E p \in Plug :
                  b + p - 7 \in 0 .. 7 /\ Bit(on[p], b + p - 7) = 1 }

\* val_plug: the line that drives socket p.
Line(p) == 7 - p

\* What the user asked of the sockets: master on iff on[0], and so on.
RelayShows(byte, on) == \A p \in Plug : (Line(p) \in byte) <=> (on[p] # 0)

\* "Opening a branch opens the master, closing the master closes every
\* branch" (user_json.c): no branch is on under a closed master.
MasterCovers(on) == \A p \in Branch : on[p] # 0 => on[0] # 0
=============================================================================
