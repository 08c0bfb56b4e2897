---------------------------- MODULE PlugControl ----------------------------
(***************************************************************************)
(* The sockets: user_config in RAM, its copy in flash, the relay byte of   *)
(* the IO expander and the last state report, under everything that        *)
(* changes them.                                                           *)
(*                                                                         *)
(* Two contexts run the same code. "main" is the SDK's event loop: network *)
(* messages, the 1 s timer, the 20 ms key timer and boot each run to       *)
(* completion there. "isr" is io_intr_handler, the GPIO interrupt of the   *)
(* three branch buttons: it may start between any two stores of main to    *)
(* the sockets, calls user_json_analysis itself, and finishes before main  *)
(* resumes. A context holds the locals of the handler it is running: pc,   *)
(* job (which handler), req (the parsed message), todo (what is left of    *)
(* the loop it is in), arg, snap, buf, and the two flags of                *)
(* user_json_analysis.                                                     *)
(*                                                                         *)
(* Not here: when a task is due (Tick takes any set of enabled tasks), how *)
(* a report travels (MqttSession), and what the button must do to be a     *)
(* short press or a reset (KeyScan). os_malloc never fails.                *)
(***************************************************************************)
EXTENDS DeviceConfig

CONSTANTS
  Requests,      \* the messages clients may send (a set of Request)
  InitialFlash,  \* what the sector may hold when the device is first powered
  MaxPress       \* bound on branch-button presses in a behaviour

NoSet == -1      \* the message carries no "on" for this socket

\* A message that names this device.  set: plug_X.on; task: the task_Y objects
\* with all five fields, as <<X, Y, task>>; rename: sockets given a name;
\* interval: 0 when absent or out of 1..255; name: setting.name present;
\* mqtt: which of the four setting.mqtt_* fields are present.
Request == [set      : [Plug -> {NoSet, 0, 1}],
            task     : SUBSET (Plug \X Slot \X Task),
            rename   : SUBSET Plug,
            interval : Byte,
            name     : BOOLEAN,
            mqtt     : {"none", "some", "all"}]

ASSUME RequestsAssumption == Requests \subseteq Request
ASSUME FlashAssumption == InitialFlash \subseteq Config
ASSUME MaxPressAssumption == MaxPress \in Nat

VARIABLES
  cfg,         \* user_config
  flash,       \* sector SETTING_SAVE_ADDR
  relay,       \* output byte of the IO expander
  acked,       \* did the last relay write get its acknowledge?
  reported,    \* "on" values of the last report sent
  known,       \* has one been sent since boot?
  restarting,  \* system_restart() called, not yet executed
  pc, job, req, todo, due, arg, snap, buf, save, retained,
  presses,     \* presses so far (bounded by MaxPress)
  hit,         \* history: windows of main a press has fallen into since boot
  spent        \* history: one-shot tasks that fired and were not set again

vars == <<cfg, flash, relay, acked, reported, known, restarting, pc, job, req,
          todo, due, arg, snap, buf, save, retained, presses, hit, spent>>

locals == <<job, req, todo, due, arg, snap, buf, save, retained>>
device == <<flash, relay, acked, reported, known, restarting>>
ghosts == <<presses, hit, spent>>

Ctx == {"main", "isr"}

Label == {"idle", "setting", "plug", "rule", "clear", "store", "body", "args",
          "back", "val", "i2c", "retry", "send", "copy", "erase", "write",
          "fire", "master"}

Job == {"none", "json", "timer", "boot", "reset"}

AllOff == [p \in Plug |-> 0]

NoRequest == [set      |-> [p \in Plug |-> NoSet],
              task     |-> {},
              rename   |-> {},
              interval |-> 0,
              name     |-> FALSE,
              mqtt     |-> "none"]

\* {"mac":..,"plug_p":{"on":v},..} as io_intr_handler and the key build it.
SwitchRequest(ps, v) ==
  [NoRequest EXCEPT !.set = [p \in Plug |-> IF p \in ps THEN v ELSE NoSet]]

\* The sockets the message has a plug_X object for.
Touched(r) ==
  { p \in Plug : \/ r.set[p] # NoSet
                 \/ p \in r.rename
                 \/ \E t \in r.task : t[1] = p }

\* Interrupts run to completion; main waits for them.
At(c, l) == pc[c] = l /\ (c = "main" => pc["isr"] = "idle")

Goto(c, l) == pc' = [pc EXCEPT ![c] = l]

First(p, S) == p \in S /\ \A q \in S : p <= q

-----------------------------------------------------------------------------
(* Where a press must not fall: history of the windows it did fall into; and *)
(* one thing a task must not do.                                            *)

\* "boot": the image last booted from was saved after one of the others;
\* "rule": a socket was set, the master rule is still to be applied to it;
\* "args": some of the arguments of user_io_set_plug_all have been read;
\* "back": they are being written back; "relay": some of the byte has been read,
\* it is not yet on the bus; "flash": the save has begun copying and is not yet
\* written; "report": some of the report's values have been read, it has not
\* been sent.
\* "task": a timer task opened the master and noted no change (no press).
Windows == {"boot", "rule", "args", "back", "relay", "flash", "report", "task"}

Window ==
  LET l == pc["main"]
      OnTheWay == {"args", "back", "val", "i2c", "retry", "send"}
  IN
  { w \in Windows :
      \/ w = "rule" /\ l \in {"rule", "clear", "master"}
      \/ w = "args" /\ l = "args" /\ todo["main"] # Plug
      \/ w = "back" /\ l = "back"
      \/ w = "relay" /\ l = "val" /\ todo["main"] # Plug
      \/ w = "relay" /\ l \in {"i2c", "retry"}
      \/ w = "flash" /\ l = "copy" /\ todo["main"] # Plug
      \/ w = "flash" /\ l \in {"erase", "write"}
      \/ w = "report" /\ job["main"] = "json" /\ l \in OnTheWay
      \/ w = "report" /\ l = "body" /\ todo["main"] # Plug
      \/ w = "report" /\ l = "send" }

-----------------------------------------------------------------------------
(* user_json_analysis.                                                     *)

\* A message arrives: parsed, and it names this device.
StartJson(c, r) ==
  /\ job' = [job EXCEPT ![c] = "json"]
  /\ req' = [req EXCEPT ![c] = r]
  /\ todo' = [todo EXCEPT ![c] = Touched(r)]
  /\ Goto(c, "setting")
  /\ UNCHANGED <<due, arg, snap, buf, save, retained>>

\* interval and "setting".  With all four MQTT fields and no broker session
\* (up is user_mqtt_is_connect()) the device asks for a restart, which the SDK
\* performs later, from the event loop.
Setting(c, up) ==
  LET r == req[c] IN
  /\ At(c, "setting")
  /\ cfg' = [cfg EXCEPT !.interval = IF r.interval # 0 THEN r.interval ELSE @,
                        !.named    = @ \/ r.name,
                        !.mqtt     = IF r.mqtt # "none" THEN 1 ELSE @]
  /\ restarting' = (restarting \/ (r.mqtt = "all" /\ ~ up))
  /\ save' = [save EXCEPT ![c] = r.interval # 0 \/ r.name \/ r.mqtt # "none"]
  /\ Goto(c, IF todo[c] = {} THEN "body" ELSE "plug")
  /\ todo' = [todo EXCEPT ![c] = IF @ = {} THEN Plug ELSE @]
  /\ UNCHANGED <<flash, relay, acked, reported, known, job, req, due, arg,
                 snap, buf, retained, ghosts>>

\* Mutant: a plug_X object without "on" is taken to switch the socket.
AlwaysSwitches(c, x) == TRUE

\* Does the message switch socket x?
Switches(c, x) == req[c].set[x] # NoSet

\* user_config.plug[x].on = !!v
PlugOn(c, x) ==
  /\ At(c, "plug")
  /\ First(x, todo[c])
  /\ IF Switches(c, x)
     THEN /\ cfg' = [cfg EXCEPT !.on[x] = req[c].set[x]]
          /\ retained' = [retained EXCEPT ![c] = TRUE]
          /\ Goto(c, "rule")
     ELSE Goto(c, "store") /\ UNCHANGED <<cfg, retained>>
  /\ UNCHANGED <<device, job, req, todo, due, arg, snap, buf, save, ghosts>>

\* Mutant: the master is closed without its branches.
NeverCloses(x) == FALSE

\* Opening a branch opens the master; closing the master closes the branches.
Opens(x) == x > 0 /\ cfg.on[x] = 1
Closes(x) == x = 0 /\ cfg.on[x] = 0

PlugRule(c, x) ==
  /\ At(c, "rule")
  /\ First(x, todo[c])
  /\ IF Opens(x)
     THEN /\ cfg' = [cfg EXCEPT !.on[0] = 1]
          /\ Goto(c, "store")
          /\ UNCHANGED todo
     ELSE /\ UNCHANGED cfg
          /\ IF Closes(x)
             THEN Goto(c, "clear") /\ todo' = [todo EXCEPT ![c] = Branch]
             ELSE Goto(c, "store") /\ UNCHANGED todo
  /\ UNCHANGED <<device, job, req, due, arg, snap, buf, save, retained, ghosts>>

\* plug[1].on = 0; plug[2].on = 0; ... one store after the other.
PlugClear(c, b) ==
  /\ At(c, "clear")
  /\ First(b, todo[c])
  /\ cfg' = [cfg EXCEPT !.on[b] = 0]
  /\ IF todo[c] = {b}
     THEN Goto(c, "store") /\ todo' = [todo EXCEPT ![c] = Touched(req[c])]
     ELSE todo' = [todo EXCEPT ![c] = @ \ {b}] /\ UNCHANGED pc
  /\ UNCHANGED <<device, job, req, due, arg, snap, buf, save, retained, ghosts>>

\* plug_X.setting: a name, and the tasks that carry all five fields.
PlugStore(c, x) ==
  LET sets(s) == { t \in req[c].task : t[1] = x /\ t[2] = s }
      set == { s \in Slot : sets(s) # {} }
  IN
  /\ At(c, "store")
  /\ First(x, todo[c])
  /\ cfg' = [cfg EXCEPT !.task[x] =
               [s \in Slot |-> IF s \in set THEN (CHOOSE t \in sets(s) : TRUE)[3]
                                            ELSE cfg.task[x][s]]]
  /\ spent' = spent \ ({x} \X set)
  /\ retained' = [retained EXCEPT ![c] = @ \/ set # {} \/ x \in req[c].rename]
  /\ todo' = [todo EXCEPT ![c] = IF @ = {x} THEN Plug ELSE @ \ {x}]
  /\ Goto(c, IF todo[c] = {x} THEN "body" ELSE "plug")
  /\ UNCHANGED <<device, job, req, due, arg, snap, buf, save, presses, hit>>

\* Mutant: the report repeats what was asked for.
ReportRequest(c) ==
  [p \in Plug |-> IF req[c].set[p] # NoSet THEN req[c].set[p] ELSE cfg.on[p]]

\* The values the report will carry are read here, before any relay is driven
\* (a message), or after the configuration was saved (the timer).
ReportBody(c) == cfg.on

\* Mutant: the relays are driven only if settings came with the message.
DrivesOnSetting(c) == job[c] = "json" /\ save[c]

\* Only a message that set a socket drives the relays.
Drives(c) == job[c] = "json" /\ retained[c]

\* One socket after the other; a press may come between two of them.
Body(c, p) ==
  /\ At(c, "body")
  /\ First(p, todo[c])
  /\ snap' = [snap EXCEPT ![c][p] = ReportBody(c)[p]]
  /\ IF todo[c] = {p}
     THEN /\ Goto(c, IF Drives(c) THEN "args" ELSE "send")
          /\ todo' = [todo EXCEPT ![c] = Plug]
     ELSE todo' = [todo EXCEPT ![c] = @ \ {p}] /\ UNCHANGED pc
  /\ UNCHANGED <<cfg, device, job, req, due, arg, buf, save, retained, ghosts>>

-----------------------------------------------------------------------------
(* user_io_set_plug_all.                                                   *)

\* The arguments plug[0].on .. plug[3].on are evaluated in an order the
\* language leaves open; a press may come between two of them.
ReadArgs(c, S) ==
  /\ At(c, "args")
  /\ S # {} /\ S \subseteq todo[c]
  /\ arg' = [arg EXCEPT ![c] = [p \in Plug |-> IF p \in S THEN cfg.on[p]
                                                          ELSE @[p]]]
  /\ IF S = todo[c]
     THEN Goto(c, "back") /\ todo' = [todo EXCEPT ![c] = Plug]
     ELSE todo' = [todo EXCEPT ![c] = @ \ S] /\ UNCHANGED pc
  /\ UNCHANGED <<cfg, device, job, req, due, snap, buf, save, retained, ghosts>>

\* Mutant: 0 toggles the socket.
StoredToggling(c, p) == CASE arg[c][p] = 0 -> 1 - cfg.on[p]
                          [] arg[c][p] = 1 -> 1
                          [] OTHER -> cfg.on[p]

\* on[i] == 0 || on[i] == 1: the argument is stored back into user_config.
Stored(c, p) == IF arg[c][p] \in {0, 1} THEN arg[c][p] ELSE cfg.on[p]

WriteBack(c, p) ==
  /\ At(c, "back")
  /\ First(p, todo[c])
  /\ cfg' = [cfg EXCEPT !.on[p] = Stored(c, p)]
  /\ IF todo[c] = {p}
     THEN Goto(c, "val") /\ todo' = [todo EXCEPT ![c] = Plug]
     ELSE todo' = [todo EXCEPT ![c] = @ \ {p}] /\ UNCHANGED pc
  /\ UNCHANGED <<device, job, req, due, arg, snap, buf, save, retained, ghosts>>

\* val = 0x0f | plug[0].on << 7 | ..., in any order, too.
ComputeByte(c, p) ==
  /\ At(c, "val")
  /\ p \in todo[c]
  /\ arg' = [arg EXCEPT ![c][p] = cfg.on[p]]
  /\ todo' = [todo EXCEPT ![c] = @ \ {p}]
  /\ IF todo[c] = {p} THEN Goto(c, "i2c") ELSE UNCHANGED pc
  /\ UNCHANGED <<cfg, device, job, req, due, snap, buf, save, retained, ghosts>>

\* Where the caller of user_io_set_plug_all goes on.
AfterRelay(c) == CASE job[c] = "json"  -> "send"
                   [] job[c] = "timer" -> "copy"
                   [] OTHER            -> "idle"

\* The handler of context c returns: its locals are gone.
Return(c) ==
  /\ job' = [job EXCEPT ![c] = "none"]
  /\ req' = [req EXCEPT ![c] = NoRequest]
  /\ todo' = [todo EXCEPT ![c] = {}]
  /\ due' = IF c = "main" THEN {} ELSE due
  /\ arg' = [arg EXCEPT ![c] = AllOff]
  /\ snap' = [snap EXCEPT ![c] = AllOff]
  /\ buf' = [buf EXCEPT ![c] = Erased]
  /\ save' = [save EXCEPT ![c] = FALSE]
  /\ retained' = [retained EXCEPT ![c] = FALSE]

\* Go on at label l, where "idle" is the return to the event loop (or from the
\* interrupt) and "copy" enters user_setting_set_config.
Continue(c, l) ==
  /\ Goto(c, l)
  /\ IF l = "idle" THEN Return(c)
     ELSE /\ todo' = [todo EXCEPT ![c] = IF l \in {"copy", "body", "val"} THEN Plug ELSE @]
          /\ UNCHANGED <<job, req, due, arg, snap, buf, save, retained>>

\* One write on the bus.  A missed acknowledge leaves it open whether the
\* expander latched the byte.
Transfer(byte, ok) ==
  /\ relay' \in IF ok THEN {byte} ELSE {relay, byte}
  /\ acked' = ok

\* One retry, and its result is ignored.
WriteRelay(c, ok) ==
  /\ \/ At(c, "i2c") /\ Continue(c, IF ok THEN AfterRelay(c) ELSE "retry")
     \/ At(c, "retry") /\ Continue(c, AfterRelay(c))
  /\ Transfer(RelayByte(arg[c]), ok)
  /\ UNCHANGED <<cfg, flash, reported, known, restarting, ghosts>>

-----------------------------------------------------------------------------
(* user_send and user_setting_set_config.                                  *)

\* Mutant: only settings are saved.
SavesSetting(c) == job[c] = "json" /\ save[c]

\* update_user_config_flag of a message; the timer has saved already.
Saves(c) == job[c] = "json" /\ (save[c] \/ retained[c])

\* A message is answered before it is saved.
Send(c) ==
  /\ At(c, "send")
  /\ reported' = snap[c]
  /\ known' = TRUE
  /\ Continue(c, IF Saves(c) THEN "copy" ELSE "idle")
  /\ UNCHANGED <<cfg, flash, relay, acked, restarting, ghosts>>

\* os_memcpy(p, &user_config, length), socket by socket; an interrupt writes
\* only the `on' values.
Copied(c, p) ==
  [cfg EXCEPT !.on   = [buf[c].on EXCEPT ![p] = cfg.on[p]],
              !.task = [buf[c].task EXCEPT ![p] = cfg.task[p]]]

CopyPlug(c, p) ==
  /\ At(c, "copy")
  /\ First(p, todo[c])
  /\ buf' = [buf EXCEPT ![c] = Copied(c, p)]
  /\ todo' = [todo EXCEPT ![c] = @ \ {p}]
  /\ IF todo[c] = {p} THEN Goto(c, "erase") ELSE UNCHANGED pc
  /\ UNCHANGED <<cfg, device, job, req, due, arg, snap, save, retained, ghosts>>

EraseSector(c) ==
  /\ At(c, "erase")
  /\ flash' = Erased
  /\ Goto(c, "write")
  /\ UNCHANGED <<cfg, relay, acked, reported, known, restarting, locals, ghosts>>

\* Programming does not erase: if an interrupt saved in between, the sector
\* ends up with the bits both images have set.  A completed save of main
\* replaces what an interrupt had saved half-way through main's changes.
WriteSector(c) ==
  /\ At(c, "write")
  /\ flash' = Program(flash, buf[c])
  /\ Continue(c, CASE job[c] = "timer" -> "body"
                   [] job[c] = "boot"  -> "val"
                   [] OTHER            -> "idle")
  /\ hit' = IF c = "main" THEN hit \ {"rule"} ELSE hit
  /\ UNCHANGED <<cfg, relay, acked, reported, known, restarting, presses, spent>>
-----------------------------------------------------------------------------
(* What starts a handler.                                                  *)

Idle == pc["main"] = "idle" /\ pc["isr"] = "idle"

\* user_con_received and the MQTT data callback.
Message(r) ==
  /\ Idle
  /\ StartJson("main", r)
  /\ UNCHANGED <<cfg, device, ghosts>>

\* user_key_short_press, outside SmartConfig: everything off if anything is
\* on, else everything on.
KeyShort ==
  /\ Idle
  /\ StartJson("main", SwitchRequest(Plug,
                   IF \E p \in Plug : cfg.on[p] # 0 THEN 0 ELSE 1))
  /\ UNCHANGED <<cfg, device, ghosts>>

\* Mutant: the restart is relied on to save.
KeyResetUnsaved ==
  /\ Idle
  /\ cfg' = [cfg EXCEPT !.named = FALSE]
  /\ UNCHANGED <<device, pc, locals, ghosts>>

\* user_key_long_10s_press: the name is wiped so that the next boot loads the
\* defaults.
KeyReset ==
  /\ Idle
  /\ cfg' = [cfg EXCEPT !.named = FALSE]
  /\ job' = [job EXCEPT !["main"] = "reset"]
  /\ todo' = [todo EXCEPT !["main"] = Plug]
  /\ Goto("main", "copy")
  /\ UNCHANGED <<device, req, due, arg, snap, buf, save, retained, ghosts>>

\* user_os_timer_func in a second in which the tasks D are due.
Tick(D) ==
  /\ Idle
  /\ D # {}
  /\ \A t \in D : cfg.task[t[1]][t[2]].on # 0
  /\ job' = [job EXCEPT !["main"] = "timer"]
  /\ due' = D
  /\ Goto("main", "fire")
  /\ UNCHANGED <<cfg, device, req, todo, arg, snap, buf, save, retained, ghosts>>

\* Mutant: disarming a one-shot does not set the flag.
DirtyBySwitch(p, s) == save["main"] \/ cfg.on[p] # cfg.task[p][s].action

\* The comparison is between a uint8_t and an int8_t.
Differs(on, action) == on # action \/ action > 127

\* update_user_config_flag: this task or an earlier one of the tick changed
\* something.
Dirty(p, s) == \/ save["main"]
               \/ Differs(cfg.on[p], cfg.task[p][s].action)
               \/ cfg.task[p][s].repeat = 0

\* The task of the tick whose turn it is: sockets ascending, then slots.
Turn(p, s) ==
  /\ <<p, s>> \in due
  /\ \A q \in due : p < q[1] \/ (p = q[1] /\ s <= q[2])

\* The task switches its socket and, fired once, disarms itself.
Fire(p, s) ==
  LET t    == cfg.task[p][s]
      once == t.repeat = 0
  IN
  /\ At("main", "fire")
  /\ Turn(p, s)
  /\ cfg' = [cfg EXCEPT !.on[p] = t.action,
                        !.task[p][s].on = IF once THEN 0 ELSE @]
  /\ save' = [save EXCEPT !["main"] = Dirty(p, s)]
  /\ spent' = IF once THEN spent \cup {<<p, s>>} ELSE spent
  /\ Goto("main", "master")
  /\ UNCHANGED <<device, job, req, todo, due, arg, snap, buf, retained, presses, hit>>

\* A branch that is on opens the master, and nothing notes that it did.
FireMaster(p, s) ==
  LET opens == p > 0 /\ cfg.on[p] = 1
      left  == due \ {<<p, s>>}
  IN
  /\ At("main", "master")
  /\ Turn(p, s)
  /\ cfg' = IF opens THEN [cfg EXCEPT !.on[0] = 1] ELSE cfg
  /\ hit' = IF opens /\ cfg.on[0] # 1 /\ ~ save["main"] THEN hit \cup {"task"} ELSE hit
  /\ IF left = {} /\ ~ save["main"]
     THEN Goto("main", "idle") /\ Return("main")
     ELSE /\ due' = left
          /\ Goto("main", IF left = {} THEN "val" ELSE "fire")
          /\ todo' = [todo EXCEPT !["main"] = IF left = {} THEN Plug ELSE @]
          /\ UNCHANGED <<job, req, arg, snap, buf, save, retained>>
  /\ UNCHANGED <<device, presses, spent>>

\* user_init enables the GPIO interrupt after the configuration is loaded and,
\* if need be, the defaults are saved.
InterruptsOn ==
  ~ (job["main"] = "boot" /\ pc["main"] \in {"copy", "erase", "write"})

\* io_intr_handler finds the button of branch p pressed and toggles it.
ButtonIrq(p) ==
  /\ InterruptsOn
  /\ pc["isr"] = "idle"
  /\ presses < MaxPress
  /\ presses' = presses + 1
  /\ hit' = hit \cup Window
  /\ StartJson("isr", SwitchRequest({p}, IF cfg.on[p] = 0 THEN 1 ELSE 0))
  /\ UNCHANGED <<cfg, device, spent>>

\* Someone else calls system_restart(): a released reset button, a new Wi-Fi
\* configuration.
RequestRestart ==
  /\ Idle
  /\ ~ restarting
  /\ restarting' = TRUE
  /\ UNCHANGED <<cfg, flash, relay, acked, reported, known, pc, locals, ghosts>>

\* user_init up to user_setting_get_config, from the image in flash; the rest
\* of the boot job is to save the defaults, if they were needed, and to drive
\* the relays.  What a press in a "rule", "args", "back" or "flash" window did
\* may be in the flash and come back.
Boot(image) ==
  LET fresh == NeedsDefaults(Migrate(image)) IN
  /\ flash' = image
  /\ cfg' = Load(image)
  /\ pc' = [c \in Ctx |-> IF c = "isr" THEN "idle"
                          ELSE IF fresh THEN "copy" ELSE "val"]
  /\ job' = [c \in Ctx |-> IF c = "main" THEN "boot" ELSE "none"]
  /\ req' = [c \in Ctx |-> NoRequest]
  /\ todo' = [c \in Ctx |-> IF c = "main" THEN Plug ELSE {}]
  /\ due' = {}
  /\ arg' = [c \in Ctx |-> AllOff]
  /\ snap' = [c \in Ctx |-> AllOff]
  /\ buf' = [c \in Ctx |-> Erased]
  /\ save' = [c \in Ctx |-> FALSE]
  /\ retained' = [c \in Ctx |-> FALSE]
  /\ acked' = FALSE
  /\ reported' = AllOff
  /\ known' = FALSE
  /\ restarting' = FALSE
  /\ hit' = IF fresh \/ hit \cap {"rule", "args", "back", "flash", "boot"} = {}
            THEN {} ELSE {"boot"}
  /\ UNCHANGED presses

\* The restart asked for happens once the event loop is idle; the expander
\* keeps its outputs.
Restart ==
  /\ Idle
  /\ restarting
  /\ Boot(flash)
  /\ UNCHANGED <<relay, spent>>

\* What a write under way may leave in the sector.
CutOff ==
  { ProgramUpTo(flash, buf[c], k) : c \in {d \in Ctx : At(d, "write")}, k \in Places }

\* Power fails at any point.  A one-shot whose disarming had not reached the
\* flash is armed again afterwards.
PowerLoss ==
  /\ \E image \in {flash} \cup CutOff : Boot(image)
  /\ relay' = {}
  /\ spent' = IF /\ job["main"] = "timer"
                 /\ pc["main"] \in {"fire", "master", "val", "i2c", "retry", "copy", "erase"}
              THEN {} ELSE spent

Init ==
  /\ flash \in InitialFlash
  /\ cfg = Load(flash)
  /\ pc = [c \in Ctx |-> IF c = "isr" THEN "idle"
                         ELSE IF NeedsDefaults(Migrate(flash)) THEN "copy" ELSE "val"]
  /\ todo = [c \in Ctx |-> IF c = "main" THEN Plug ELSE {}]
  /\ job = [c \in Ctx |-> IF c = "main" THEN "boot" ELSE "none"]
  /\ req = [c \in Ctx |-> NoRequest]
  /\ due = {}
  /\ arg = [c \in Ctx |-> AllOff]
  /\ snap = [c \in Ctx |-> AllOff]
  /\ buf = [c \in Ctx |-> Erased]
  /\ save = [c \in Ctx |-> FALSE]
  /\ retained = [c \in Ctx |-> FALSE]
  /\ relay = {}
  /\ acked = FALSE
  /\ reported = AllOff
  /\ known = FALSE
  /\ restarting = FALSE
  /\ presses = 0
  /\ hit = {}
  /\ spent = {}

\* One step of the handler context c is running.
Step(c) ==
  \/ \E up \in BOOLEAN : Setting(c, up)
  \/ \E x \in Plug : \/ PlugOn(c, x)
                     \/ PlugRule(c, x)
                     \/ PlugClear(c, x)
                     \/ PlugStore(c, x)
                     \/ WriteBack(c, x)
                     \/ CopyPlug(c, x)
                     \/ Body(c, x)
                     \/ ComputeByte(c, x)
  \/ \E S \in SUBSET Plug : ReadArgs(c, S)
  \/ \E ok \in BOOLEAN : WriteRelay(c, ok)
  \/ Send(c)
  \/ EraseSector(c)
  \/ WriteSector(c)

Next ==
  \/ \E c \in Ctx : Step(c)
  \/ \E p \in Plug, s \in Slot : Fire(p, s) \/ FireMaster(p, s)
  \/ \E r \in Requests : Message(r)
  \/ KeyShort
  \/ KeyReset
  \/ \E D \in SUBSET (Plug \X Slot) : Tick(D)
  \/ \E p \in Branch : ButtonIrq(p)
  \/ RequestRestart
  \/ Restart
  \/ PowerLoss

Spec == Init /\ [][Next]_vars

-----------------------------------------------------------------------------
(* Properties.                                                             *)

\* Every variable has the type the C code gives it.
TypeOK ==
  /\ cfg \in Config
  /\ flash \in Config
  /\ relay \subseteq 0 .. 7
  /\ acked \in BOOLEAN
  /\ reported \in [Plug -> Byte]
  /\ known \in BOOLEAN
  /\ restarting \in BOOLEAN
  /\ pc \in [Ctx -> Label]
  /\ job \in [Ctx -> Job]
  /\ req \in [Ctx -> Request]
  /\ todo \in [Ctx -> SUBSET Plug]
  /\ due \subseteq Plug \X Slot
  /\ arg \in [Ctx -> [Plug -> Byte]]
  /\ snap \in [Ctx -> [Plug -> Byte]]
  /\ buf \in [Ctx -> Config]
  /\ save \in [Ctx -> BOOLEAN]
  /\ retained \in [Ctx -> BOOLEAN]
  /\ presses \in 0 .. MaxPress
  /\ hit \subseteq Windows
  /\ spent \subseteq Plug \X Slot

\* No branch is left on under a closed master once every handler is done
\* (json_plug_analysis), unless a press fell between two reads of the arguments
\* of user_io_set_plug_all.  For a device without tasks that switch the master
\* off, or a socket to neither 0 nor 1 (NoTaskClosesMaster in
\* PlugMaster_proofs): see ClosedMasterClosesAll.
MasterRule == (Idle /\ hit \cap {"args", "boot"} = {}) => MasterCovers(cfg.on)

\* Once every handler is done the relays are what user_config says, whatever
\* the order of messages, timers and presses, provided the expander has
\* acknowledged and no press fell between computing the byte and the end of
\* its transfer; a master that a timer task opened without noting it is not.
RelayAgrees ==
  (Idle /\ acked /\ hit \cap {"relay", "task"} = {})
     => RelayShows(relay, cfg.on)

\* Once every handler is done a reboot would bring back exactly the
\* configuration in RAM, unless a press fell inside a save or a timer task
\* opened the master without noting it.
FlashAgrees ==
  (Idle /\ cfg.named /\ hit \cap {"flash", "task"} = {})
     => Load(flash) = cfg

\* The last report a client has seen is the state of the sockets, unless a
\* press fell between reading the values and sending them, or a timer task opened
\* the master without noting it.
ReportAgrees ==
  (Idle /\ known /\ hit \cap {"report", "task"} = {}) => reported = cfg.on

\* Storing the arguments of user_io_set_plug_all back into user_config changes
\* nothing, unless a press fell between reading and storing them (which it then
\* undoes).
WriteBackIsIdle ==
  [][ (\E c \in Ctx, p \in Plug : WriteBack(c, p))
        => cfg' = cfg \/ hit \cap {"args", "back"} # {} ]_vars

\* A one-shot task that has fired stays disarmed, across saves, restarts and
\* power failures, until a client sets it again.
OneShotStaysOff == \A t \in spent : cfg.task[t[1]][t[2]].on = 0

\* After user_key_long_10s_press the next boot loads the defaults, whatever
\* messages, timers and presses come (and save) before it, unless a message
\* names the device again.
ResetIsPending == (Idle /\ ~ cfg.named) => NeedsDefaults(Migrate(flash))

\* "Closing the master closes every branch" (comment in json_plug_analysis),
\* taken of every way to close it.  The 1 s timer does not do it.
ClosedMasterClosesAll == Idle => MasterCovers(cfg.on)

\* "Save the settings after changing them, read them at power-on" (comment at
\* the head of user_setting.c), taken of every interleaving.
SettingsPersist == (Idle /\ cfg.named) => Load(flash) = cfg
=============================================================================
