------------------------ MODULE PlugControl_proofs ------------------------
(***************************************************************************)
(* What holds of the sockets for every number of sockets and tasks, every    *)
(* set of client messages, every initial content of the flash and every      *)
(* number of presses.                                                       *)
(***************************************************************************)
EXTENDS PlugControl, TLAPS

-----------------------------------------------------------------------------
(* The operators of DeviceConfig stay within their types.                   *)

LEMMA PlugFacts == /\ PlugNum \in Nat /\ 0 \in Plug /\ Plug \subseteq Int
                   /\ Branch \subseteq Plug
  BY PlugNumAssumption DEF Plug, Branch

\* A programmed byte is a byte.
LEMMA And8Byte == ASSUME NEW a, NEW b PROVE And8(a, b) \in Byte
<1>1. \A m \in Nat : AndBit(a, b, m) \in {0, m}
  BY DEF AndBit
<1>2. /\ AndBit(a, b, 1) \in {0, 1}    /\ AndBit(a, b, 2) \in {0, 2}
      /\ AndBit(a, b, 4) \in {0, 4}    /\ AndBit(a, b, 8) \in {0, 8}
      /\ AndBit(a, b, 16) \in {0, 16}  /\ AndBit(a, b, 32) \in {0, 32}
      /\ AndBit(a, b, 64) \in {0, 64}  /\ AndBit(a, b, 128) \in {0, 128}
  BY <1>1
<1> QED BY <1>2 DEF And8, Byte

LEMMA ProgramConfig == ASSUME NEW old \in Config, NEW new \in Config
                       PROVE  Program(old, new) \in Config
<1>1. old.named \/ new.named \in BOOLEAN
  BY DEF Config
<1> QED BY <1>1, And8Byte DEF Program, Config, Task

LEMMA ProgramUpToConfig ==
  ASSUME NEW old \in Config, NEW new \in Config, NEW k \in Places
  PROVE  ProgramUpTo(old, new, k) \in Config
<1> DEFINE all == Program(old, new)
           v == old.version
           i == old.interval
           on == [p \in Plug |-> IF PlaceOn(p) < k THEN all.on[p] ELSE old.on[p]]
           task == [p \in Plug |-> [s \in Slot |->
                      IF PlaceTask(p, s) < k THEN all.task[p][s] ELSE old.task[p][s]]]
<1>1. all \in Config
  BY ProgramConfig
<1>2. v \in Byte /\ i \in Byte
  BY DEF Config
<1>3. on \in [Plug -> Byte]
  <2>1. all.on \in [Plug -> Byte] /\ old.on \in [Plug -> Byte]
    BY <1>1 DEF Config
  <2> HIDE DEF all
  <2> QED BY <2>1
<1>4. task \in [Plug -> [Slot -> Task]]
  <2>1. /\ all.task \in [Plug -> [Slot -> Task]]
        /\ old.task \in [Plug -> [Slot -> Task]]
    BY <1>1 DEF Config
  <2> HIDE DEF all
  <2> QED BY <2>1
<1>5. ProgramUpTo(old, new, k) =
        [all EXCEPT !.version = v, !.interval = i, !.on = on, !.task = task]
  BY Zenon DEF ProgramUpTo
<1> HIDE DEF all, v, i, on, task
<1> QED BY <1>1, <1>2, <1>3, <1>4, <1>5 DEF Config

LEMMA ConstantConfigs == DefaultConfig \in Config /\ Erased \in Config
  BY DEF DefaultConfig, Erased, DefaultTask, Config, Task, Byte,
         USER_CONFIG_VERSION

LEMMA LoadConfig == ASSUME NEW c \in Config PROVE Load(c) \in Config
<1>1. Migrate(c) \in Config
  <2>1. [c EXCEPT !.version = 5] \in Config
    BY DEF Config, Byte
  <2>2. \A d \in Config : [d EXCEPT !.interval = 5] \in Config
    BY SMTT(30) DEF Config, Byte
  <2>3. [c EXCEPT !.version = 5, !.interval = 5] \in Config
    BY <2>1, <2>2, Zenon
  <2> QED BY <2>3, Zenon DEF Migrate, USER_CONFIG_VERSION
<1> QED BY <1>1, ConstantConfigs DEF Load

LEMMA RelayByteBits == \A on : RelayByte(on) \subseteq 0 .. 7
  BY DEF RelayByte

LEMMA MessageTypes ==
  /\ NoRequest \in Request
  /\ \A ps \in SUBSET Plug, v \in {0, 1} : SwitchRequest(ps, v) \in Request
  /\ \A r \in Request : Touched(r) \subseteq Plug
  /\ AllOff \in [Plug -> Byte]
<1>1. NoRequest \in Request
  BY DEF NoRequest, Request, NoSet, Byte
<1>2. ASSUME NEW ps \in SUBSET Plug, NEW v \in {0, 1}
      PROVE  SwitchRequest(ps, v) \in Request
  BY <1>1 DEF SwitchRequest, Request, NoSet
<1> QED BY <1>1, <1>2 DEF Touched, AllOff, Byte

-----------------------------------------------------------------------------
(* Type correctness.                                                       *)

\* What the event loop and the interrupt share, and what each keeps.
SharedOK == /\ cfg \in Config
            /\ flash \in Config
            /\ relay \subseteq 0 .. 7
            /\ reported \in [Plug -> Byte]
            /\ presses \in 0 .. MaxPress
            /\ hit \subseteq Windows
            /\ spent \subseteq Plug \X Slot
FlagsOK == acked \in BOOLEAN /\ known \in BOOLEAN /\ restarting \in BOOLEAN
LocalsOK == /\ pc \in [Ctx -> Label]
            /\ job \in [Ctx -> Job]
            /\ req \in [Ctx -> Request]
            /\ todo \in [Ctx -> SUBSET Plug]
            /\ due \subseteq Plug \X Slot
            /\ arg \in [Ctx -> [Plug -> Byte]]
            /\ snap \in [Ctx -> [Plug -> Byte]]
            /\ buf \in [Ctx -> Config]
            /\ save \in [Ctx -> BOOLEAN]
            /\ retained \in [Ctx -> BOOLEAN]

LEMMA TypeSplit == /\ TypeOK <=> SharedOK /\ FlagsOK /\ LocalsOK
                   /\ TypeOK' <=> SharedOK' /\ FlagsOK' /\ LocalsOK'
<1>1. TypeOK <=> SharedOK /\ FlagsOK /\ LocalsOK
  BY DEF TypeOK, SharedOK, FlagsOK, LocalsOK
<1>2. TypeOK' <=> SharedOK' /\ FlagsOK' /\ LocalsOK'
  BY DEF TypeOK, SharedOK, FlagsOK, LocalsOK
<1> QED BY <1>1, <1>2

\* Setting one field of the configuration to a value of its type.
LEMMA SetField ==
  ASSUME NEW d \in Config
  PROVE  /\ d.on \in [Plug -> Byte]
         /\ d.task \in [Plug -> [Slot -> Task]]
         /\ \A on \in [Plug -> Byte] : [d EXCEPT !.on = on] \in Config
         /\ \A t \in [Plug -> [Slot -> Task]] : [d EXCEPT !.task = t] \in Config
         /\ \A b \in BOOLEAN : [d EXCEPT !.named = b] \in Config
         /\ \A b \in Byte : /\ [d EXCEPT !.interval = b] \in Config
                            /\ [d EXCEPT !.mqtt = b] \in Config
  BY DEF Config

LEMMA SetOn == ASSUME NEW d \in Config, NEW x \in Plug, NEW v \in Byte
               PROVE  [d EXCEPT !.on[x] = v] \in Config
<1>1. [d.on EXCEPT ![x] = v] \in [Plug -> Byte]
  BY SetField
<1> QED BY <1>1, SetField

LEMMA TypePlugOn == ASSUME TypeOK, NEW c \in Ctx, NEW x \in Plug, PlugOn(c, x)
                    PROVE  TypeOK'
<1>1. SharedOK'
  <2>1. cfg' \in Config
    <3>1. cfg \in Config  BY DEF TypeOK
    <3>2. CASE Switches(c, x)
      <4>1. req[c].set[x] \in Byte
        BY <3>2 DEF TypeOK, Switches, Request, NoSet, Byte
      <4>2. cfg' = [cfg EXCEPT !.on[x] = req[c].set[x]]
        BY <3>2, Zenon DEF PlugOn
      <4> QED BY <3>1, <4>1, <4>2, SetOn, Zenon
    <3>3. CASE ~ Switches(c, x)
      BY <3>1, <3>3, Zenon DEF PlugOn
    <3> QED BY <3>2, <3>3
  <2> QED BY <2>1 DEF TypeOK, SharedOK, PlugOn, device, ghosts
<1>2. FlagsOK'
  BY Zenon DEF TypeOK, FlagsOK, PlugOn, device
<1>3. LocalsOK'
  BY DEF TypeOK, LocalsOK, PlugOn, Goto, Label
<1> QED BY <1>1, <1>2, <1>3, TypeSplit, Zenon

LEMMA TypeSetting == ASSUME TypeOK, NEW c \in Ctx, NEW up \in BOOLEAN, Setting(c, up)
                     PROVE  TypeOK'
<1> DEFINE r == req[c]
<1>1. cfg \in Config /\ r \in Request
  BY DEF TypeOK
<1>2. SharedOK'
  <2> DEFINE i == IF r.interval # 0 THEN r.interval ELSE cfg.interval
             n == cfg.named \/ r.name
             m == IF r.mqtt # "none" THEN 1 ELSE cfg.mqtt
             d == [cfg EXCEPT !.interval = i]
             e == [d EXCEPT !.named = n]
  <2>1. i \in Byte /\ m \in Byte
    BY <1>1 DEF Config, Request, Byte
  <2>2. n \in BOOLEAN
    BY Zenon
  <2>3. d \in Config  BY <1>1, <2>1, SetField
  <2>4. e \in Config  BY <2>2, <2>3, SetField
  <2>5. [e EXCEPT !.mqtt = m] \in Config  BY <2>1, <2>4, SetField
  <2>6. d.named = cfg.named /\ e.mqtt = cfg.mqtt
    BY <1>1 DEF Config
  <2>7. cfg' = [e EXCEPT !.mqtt = m]
    BY <2>6, Zenon DEF Setting
  <2> QED BY <2>5, <2>7 DEF TypeOK, SharedOK, Setting, ghosts
<1>3. FlagsOK'
  BY Zenon DEF TypeOK, FlagsOK, Setting
<1>4. LocalsOK'
  <2>1. (r.interval # 0 \/ r.name \/ r.mqtt # "none") \in BOOLEAN
    BY Zenon
  <2>2. save' \in [Ctx -> BOOLEAN]
    BY <2>1, Zenon DEF TypeOK, Setting
  <2> QED BY <2>2 DEF TypeOK, LocalsOK, Setting, Goto, Label
<1> QED BY <1>2, <1>3, <1>4, TypeSplit, Zenon

LEMMA TypePlugRule == ASSUME TypeOK, NEW c \in Ctx, NEW x \in Plug,
                             PlugRule(c, x) \/ PlugClear(c, x)
                      PROVE  TypeOK'
<1>1. SharedOK'
  <2>1. cfg' \in Config
    <3>1. cfg \in Config  BY DEF TypeOK
    <3>2. 0 \in Byte /\ 1 \in Byte  BY DEF Byte
    <3>3. \/ cfg' = [cfg EXCEPT !.on[0] = 1]
          \/ cfg' = [cfg EXCEPT !.on[x] = 0]
          \/ cfg' = cfg
      <4>1. CASE PlugRule(c, x)
        BY <4>1, Zenon DEF PlugRule
      <4>2. CASE PlugClear(c, x)
        BY <4>2, Zenon DEF PlugClear
      <4> QED BY <4>1, <4>2
    <3>4. /\ [cfg EXCEPT !.on[0] = 1] \in Config
          /\ [cfg EXCEPT !.on[x] = 0] \in Config
      BY <3>1, <3>2, SetOn, PlugFacts
    <3> QED BY <3>1, <3>3, <3>4, Zenon
  <2> QED BY <2>1 DEF TypeOK, SharedOK, PlugRule, PlugClear, device, ghosts
<1>2. FlagsOK'
  BY Zenon DEF TypeOK, FlagsOK, PlugRule, PlugClear, device
<1>3. LocalsOK'
  <2>1. Touched(req[c]) \subseteq Plug
    BY MessageTypes DEF TypeOK
  <2>2. todo' \in [Ctx -> SUBSET Plug] /\ pc' \in [Ctx -> Label]
    <3>1. CASE PlugRule(c, x)
      BY <3>1, PlugFacts, ZenonT(40) DEF TypeOK, PlugRule, Goto, Label
    <3>2. CASE PlugClear(c, x)
      <4>1. CASE todo[c] = {x}
        <5>1. todo' = [todo EXCEPT ![c] = Touched(req[c])] /\ pc' = [pc EXCEPT ![c] = "store"]
          BY <3>2, <4>1, Zenon DEF PlugClear, Goto
        <5> QED BY <2>1, <5>1 DEF TypeOK, Label
      <4>2. CASE todo[c] # {x}
        <5>1. todo' = [todo EXCEPT ![c] = @ \ {x}] /\ pc' = pc
          BY <3>2, <4>2, Zenon DEF PlugClear
        <5> QED BY <5>1 DEF TypeOK
      <4> QED BY <4>1, <4>2
    <3> QED BY <3>1, <3>2
  <2>3. UNCHANGED <<job, req, due, arg, snap, buf, save, retained>>
    BY Zenon DEF PlugRule, PlugClear
  <2> QED BY <2>2, <2>3 DEF TypeOK, LocalsOK
<1> QED BY <1>1, <1>2, <1>3, TypeSplit, Zenon

LEMMA TypePlugStore == ASSUME TypeOK, NEW c \in Ctx, NEW x \in Plug, PlugStore(c, x)
                       PROVE  TypeOK'
<1> DEFINE sets(s) == { t \in req[c].task : t[1] = x /\ t[2] = s }
           set == { s \in Slot : sets(s) # {} }
           tasks == [s \in Slot |-> IF s \in set THEN (CHOOSE t \in sets(s) : TRUE)[3]
                                                 ELSE cfg.task[x][s]]
<1>1. cfg \in Config /\ req[c] \in Request
  BY DEF TypeOK
<1>2. SharedOK'
  <2>1. tasks \in [Slot -> Task]
    <3>1. ASSUME NEW s \in Slot PROVE tasks[s] \in Task
      <4>1. CASE s \in set
        <5>1. (CHOOSE t \in sets(s) : TRUE) \in sets(s)
          BY <4>1, Zenon
        <5>2. (CHOOSE t \in sets(s) : TRUE) \in Plug \X Slot \X Task
          BY <1>1, <5>1 DEF Request
        <5>3. \A t \in Plug \X Slot \X Task : t[3] \in Task
          OBVIOUS
        <5> QED BY <4>1, <5>2, <5>3, Zenon
      <4>2. CASE s \notin set
        <5>1. cfg.task[x][s] \in Task  BY <1>1, SetField
        <5> QED BY <4>2, <5>1, Zenon
      <4> QED BY <4>1, <4>2
    <3> HIDE DEF set, sets
    <3> QED BY <3>1
  <2>2. cfg' = [cfg EXCEPT !.task[x] = tasks]
    BY Zenon DEF PlugStore
  <2>3. [cfg.task EXCEPT ![x] = tasks] \in [Plug -> [Slot -> Task]]
    BY <1>1, <2>1, SetField
  <2> HIDE DEF tasks
  <2>4. cfg' \in Config
    BY <1>1, <2>2, <2>3, SetField
  <2>5. spent' \subseteq spent
    BY Zenon DEF PlugStore
  <2> QED BY <2>4, <2>5 DEF TypeOK, SharedOK, PlugStore, device
<1>3. FlagsOK'
  BY Zenon DEF TypeOK, FlagsOK, PlugStore, device
<1>4. LocalsOK'
  <2>1. (retained[c] \/ set # {} \/ x \in req[c].rename) \in BOOLEAN
    BY Zenon
  <2>2. retained' \in [Ctx -> BOOLEAN]
    BY <2>1, Zenon DEF TypeOK, PlugStore
  <2>3. todo' \in [Ctx -> SUBSET Plug] /\ pc' \in [Ctx -> Label]
    BY DEF TypeOK, PlugStore, Goto, Label
  <2>4. UNCHANGED <<job, req, due, arg, snap, buf, save>>
    BY Zenon DEF PlugStore
  <2> QED BY <2>2, <2>3, <2>4 DEF TypeOK, LocalsOK
<1> QED BY <1>2, <1>3, <1>4, TypeSplit, Zenon

\* Leaving a handler, or going on inside it.
LEMMA TypeReturn == ASSUME TypeOK, NEW c \in Ctx, NEW l \in Label,
                           Goto(c, l), Return(c)
                    PROVE  LocalsOK'
<1>1. /\ pc' \in [Ctx -> Label]
      /\ job' \in [Ctx -> Job]
      /\ todo' \in [Ctx -> SUBSET Plug]
      /\ due' \subseteq Plug \X Slot
  BY DEF TypeOK, Return, Goto, Job
<1>2. /\ req' \in [Ctx -> Request]
      /\ arg' \in [Ctx -> [Plug -> Byte]]
      /\ snap' \in [Ctx -> [Plug -> Byte]]
      /\ buf' \in [Ctx -> Config]
  BY MessageTypes, ConstantConfigs DEF TypeOK, Return
<1>3. save' \in [Ctx -> BOOLEAN] /\ retained' \in [Ctx -> BOOLEAN]
  BY DEF TypeOK, Return
<1> QED BY <1>1, <1>2, <1>3 DEF LocalsOK

LEMMA TypeContinue == ASSUME TypeOK, NEW c \in Ctx, NEW l \in Label, Continue(c, l)
                      PROVE  LocalsOK'
<1>1. Goto(c, l)
  BY Zenon DEF Continue
<1>2. CASE l = "idle"
  BY <1>1, <1>2, TypeReturn, Zenon DEF Continue
<1>3. CASE l # "idle"
  <2>1. /\ todo' = [todo EXCEPT ![c] = IF l \in {"copy", "body", "val"} THEN Plug ELSE @]
        /\ UNCHANGED <<job, req, due, arg, snap, buf, save, retained>>
    BY <1>3, Zenon DEF Continue
  <2> QED BY <1>1, <2>1 DEF TypeOK, LocalsOK, Goto
<1> QED BY <1>2, <1>3

LEMMA TypeBody == ASSUME TypeOK, NEW c \in Ctx, NEW p \in Plug, Body(c, p)
                  PROVE  TypeOK'
<1>1. cfg.on \in [Plug -> Byte]
  BY SetField DEF TypeOK
<1>2. SharedOK'
  BY DEF TypeOK, SharedOK, Body, device, ghosts
<1>3. FlagsOK'
  BY Zenon DEF TypeOK, FlagsOK, Body, device
<1>4. LocalsOK'
  <2>1. snap' = [snap EXCEPT ![c][p] = cfg.on[p]]
    BY Zenon DEF Body, ReportBody
  <2>2. snap' \in [Ctx -> [Plug -> Byte]]
    BY <1>1, <2>1 DEF TypeOK
  <2>3. CASE todo[c] = {p}
    <3>1. /\ \E l \in {"args", "send"} : pc' = [pc EXCEPT ![c] = l]
          /\ todo' = [todo EXCEPT ![c] = Plug]
      BY <2>3, Zenon DEF Body, Goto
    <3> QED BY <2>2, <3>1 DEF TypeOK, LocalsOK, Body, Label
  <2>4. CASE todo[c] # {p}
    <3>1. pc' = pc /\ todo' = [todo EXCEPT ![c] = @ \ {p}]
      BY <2>4, Zenon DEF Body
    <3> QED BY <2>2, <3>1 DEF TypeOK, LocalsOK, Body
  <2> QED BY <2>3, <2>4
<1> QED BY <1>2, <1>3, <1>4, TypeSplit, Zenon

LEMMA TypeReadArgs == ASSUME TypeOK, NEW c \in Ctx, NEW S \in SUBSET Plug,
                             ReadArgs(c, S)
                      PROVE  TypeOK'
<1>1. cfg.on \in [Plug -> Byte]
  BY SetField DEF TypeOK
<1>2. SharedOK'
  BY DEF TypeOK, SharedOK, ReadArgs, device, ghosts
<1>3. FlagsOK'
  BY Zenon DEF TypeOK, FlagsOK, ReadArgs, device
<1>4. LocalsOK'
  <2>1. arg' = [arg EXCEPT ![c] = [p \in Plug |-> IF p \in S THEN cfg.on[p] ELSE @[p]]]
    BY Zenon DEF ReadArgs
  <2>2. [p \in Plug |-> IF p \in S THEN cfg.on[p] ELSE arg[c][p]] \in [Plug -> Byte]
    BY <1>1 DEF TypeOK
  <2>3. arg' \in [Ctx -> [Plug -> Byte]]
    BY <2>1, <2>2 DEF TypeOK
  <2>4. CASE S = todo[c]
    <3>1. pc' = [pc EXCEPT ![c] = "back"] /\ todo' = [todo EXCEPT ![c] = Plug]
      BY <2>4, Zenon DEF ReadArgs, Goto
    <3> QED BY <2>3, <3>1 DEF TypeOK, LocalsOK, ReadArgs, Label
  <2>5. CASE S # todo[c]
    <3>1. pc' = pc /\ todo' = [todo EXCEPT ![c] = @ \ S]
      BY <2>5, Zenon DEF ReadArgs
    <3> QED BY <2>3, <3>1 DEF TypeOK, LocalsOK, ReadArgs
  <2> QED BY <2>4, <2>5
<1> QED BY <1>2, <1>3, <1>4, TypeSplit, Zenon

LEMMA TypeWriteBack == ASSUME TypeOK, NEW c \in Ctx, NEW p \in Plug, WriteBack(c, p)
                       PROVE  TypeOK'
<1>1. SharedOK'
  <2>1. cfg \in Config /\ Stored(c, p) \in Byte
    BY SetField DEF TypeOK, Stored
  <2>2. cfg' \in Config
    BY <2>1, SetOn, Zenon DEF WriteBack
  <2> QED BY <2>2 DEF TypeOK, SharedOK, WriteBack, device, ghosts
<1>2. FlagsOK'
  BY Zenon DEF TypeOK, FlagsOK, WriteBack, device
<1>3. LocalsOK'
  <2>1. todo' \in [Ctx -> SUBSET Plug] /\ pc' \in [Ctx -> Label]
    <3>1. CASE todo[c] = {p}
      <4>1. pc' = [pc EXCEPT ![c] = "val"] /\ todo' = [todo EXCEPT ![c] = Plug]
        BY <3>1, Zenon DEF WriteBack, Goto
      <4> QED BY <4>1 DEF TypeOK, Label
    <3>2. CASE todo[c] # {p}
      <4>1. pc' = pc /\ todo' = [todo EXCEPT ![c] = @ \ {p}]
        BY <3>2, Zenon DEF WriteBack
      <4> QED BY <4>1 DEF TypeOK
    <3> QED BY <3>1, <3>2
  <2> QED BY <2>1 DEF TypeOK, LocalsOK, WriteBack
<1> QED BY <1>1, <1>2, <1>3, TypeSplit, Zenon

LEMMA TypeComputeByte == ASSUME TypeOK, NEW c \in Ctx, NEW p \in Plug, ComputeByte(c, p)
                         PROVE  TypeOK'
<1>1. cfg.on \in [Plug -> Byte]
  BY SetField DEF TypeOK
<1>2. SharedOK'
  BY DEF TypeOK, SharedOK, ComputeByte, device, ghosts
<1>3. FlagsOK'
  BY Zenon DEF TypeOK, FlagsOK, ComputeByte, device
<1>4. LocalsOK'
  <2>1. /\ arg' = [arg EXCEPT ![c][p] = cfg.on[p]]
        /\ todo' = [todo EXCEPT ![c] = @ \ {p}]
        /\ pc' = pc \/ pc' = [pc EXCEPT ![c] = "i2c"]
    BY Zenon DEF ComputeByte, Goto
  <2>2. arg' \in [Ctx -> [Plug -> Byte]]
    BY <1>1, <2>1 DEF TypeOK
  <2> QED BY <2>1, <2>2 DEF TypeOK, LocalsOK, ComputeByte, Label
<1> QED BY <1>2, <1>3, <1>4, TypeSplit, Zenon

LEMMA TypeWriteRelay == ASSUME TypeOK, NEW c \in Ctx, NEW ok \in BOOLEAN,
                               WriteRelay(c, ok)
                        PROVE  TypeOK'
<1>1. SharedOK'
  <2>1. relay' = RelayByte(arg[c]) \/ relay' = relay
    BY DEF WriteRelay, Transfer
  <2> QED BY <2>1, RelayByteBits DEF TypeOK, SharedOK, WriteRelay, ghosts
<1>2. FlagsOK'
  BY Zenon DEF TypeOK, FlagsOK, WriteRelay, Transfer
<1>3. LocalsOK'
  <2>1. AfterRelay(c) \in Label /\ "retry" \in Label
    BY DEF AfterRelay, Label
  <2> QED BY <2>1, TypeContinue, Zenon DEF WriteRelay
<1> QED BY <1>1, <1>2, <1>3, TypeSplit, Zenon

LEMMA TypeSend == ASSUME TypeOK, NEW c \in Ctx, Send(c) PROVE TypeOK'
<1>1. SharedOK'
  BY DEF TypeOK, SharedOK, Send, ghosts
<1>2. FlagsOK'
  BY Zenon DEF TypeOK, FlagsOK, Send
<1>3. LocalsOK'
  <2>1. "copy" \in Label /\ "idle" \in Label
    BY DEF Label
  <2> QED BY <2>1, TypeContinue, Zenon DEF Send
<1> QED BY <1>1, <1>2, <1>3, TypeSplit, Zenon

LEMMA CopiedConfig == ASSUME TypeOK, NEW c \in Ctx, NEW p \in Plug
                      PROVE  Copied(c, p) \in Config
<1> DEFINE on == [buf[c].on EXCEPT ![p] = cfg.on[p]]
           task == [buf[c].task EXCEPT ![p] = cfg.task[p]]
           d == [cfg EXCEPT !.on = on]
<1>1. cfg \in Config /\ buf[c] \in Config
  BY DEF TypeOK
<1>2. on \in [Plug -> Byte] /\ task \in [Plug -> [Slot -> Task]]
  BY <1>1, SetField
<1>3. d \in Config  BY <1>1, <1>2, SetField
<1>4. [d EXCEPT !.task = task] \in Config  BY <1>2, <1>3, SetField
<1> QED BY <1>4, Zenon DEF Copied

LEMMA TypeCopyPlug == ASSUME TypeOK, NEW c \in Ctx, NEW p \in Plug, CopyPlug(c, p)
                      PROVE  TypeOK'
<1>1. SharedOK'
  BY DEF TypeOK, SharedOK, CopyPlug, device, ghosts
<1>2. FlagsOK'
  BY Zenon DEF TypeOK, FlagsOK, CopyPlug, device
<1>3. LocalsOK'
  <2>1. buf' \in [Ctx -> Config] /\ todo' \in [Ctx -> SUBSET Plug]
    BY CopiedConfig DEF TypeOK, CopyPlug
  <2>2. pc' \in [Ctx -> Label]
    BY DEF TypeOK, CopyPlug, Goto, Label
  <2> QED BY <2>1, <2>2 DEF TypeOK, LocalsOK, CopyPlug
<1> QED BY <1>1, <1>2, <1>3, TypeSplit, Zenon

LEMMA TypeEraseSector == ASSUME TypeOK, NEW c \in Ctx, EraseSector(c) PROVE TypeOK'
<1>1. SharedOK'
  BY ConstantConfigs DEF TypeOK, SharedOK, EraseSector, ghosts
<1>2. FlagsOK'
  BY Zenon DEF TypeOK, FlagsOK, EraseSector
<1>3. LocalsOK'
  BY DEF TypeOK, LocalsOK, EraseSector, locals, Goto, Label
<1> QED BY <1>1, <1>2, <1>3, TypeSplit, Zenon

LEMMA TypeWriteSector == ASSUME TypeOK, NEW c \in Ctx, WriteSector(c) PROVE TypeOK'
<1>1. SharedOK'
  <2>1. flash' \in Config
    <3>1. flash \in Config /\ buf[c] \in Config  BY DEF TypeOK
    <3> QED BY <3>1, ProgramConfig, Zenon DEF WriteSector
  <2> QED BY <2>1 DEF TypeOK, SharedOK, WriteSector
<1>2. FlagsOK'
  BY Zenon DEF TypeOK, FlagsOK, WriteSector
<1>3. LocalsOK'
  <2> DEFINE l == CASE job[c] = "timer" -> "body"
                    [] job[c] = "boot"  -> "val"
                    [] OTHER            -> "idle"
  <2>1. l \in Label
    BY DEF Label
  <2>2. Continue(c, l)
    BY Zenon DEF WriteSector
  <2> HIDE DEF l
  <2> QED BY <2>1, <2>2, TypeContinue, Zenon
<1> QED BY <1>1, <1>2, <1>3, TypeSplit, Zenon

\* A handler that analyses a message starts, in either context.
LEMMA TypeStartJson == ASSUME TypeOK, NEW c \in Ctx, NEW r \in Request, StartJson(c, r)
                       PROVE  LocalsOK'
<1>1. Touched(r) \subseteq Plug
  BY MessageTypes
<1> QED BY <1>1 DEF TypeOK, LocalsOK, StartJson, Goto, Label, Job

LEMMA TypeMessage == ASSUME TypeOK, NEW r \in Requests, Message(r) PROVE TypeOK'
<1>1. r \in Request /\ "main" \in Ctx
  BY RequestsAssumption DEF Ctx
<1>2. SharedOK'
  BY DEF TypeOK, SharedOK, Message, device, ghosts
<1>3. FlagsOK'
  BY Zenon DEF TypeOK, FlagsOK, Message, device
<1>4. LocalsOK'
  BY <1>1, TypeStartJson, Zenon DEF Message
<1> QED BY <1>2, <1>3, <1>4, TypeSplit, Zenon

LEMMA TypeKeyShort == ASSUME TypeOK, KeyShort PROVE TypeOK'
<1> DEFINE v == IF \E p \in Plug : cfg.on[p] # 0 THEN 0 ELSE 1
<1>1. SwitchRequest(Plug, v) \in Request /\ "main" \in Ctx
  BY MessageTypes DEF Ctx
<1>2. SharedOK'
  BY DEF TypeOK, SharedOK, KeyShort, device, ghosts
<1>3. FlagsOK'
  BY Zenon DEF TypeOK, FlagsOK, KeyShort, device
<1>4. StartJson("main", SwitchRequest(Plug, v))
  BY Zenon DEF KeyShort
<1> HIDE DEF v
<1>5. LocalsOK'
  BY <1>1, <1>4, TypeStartJson, Zenon
<1> QED BY <1>2, <1>3, <1>5, TypeSplit, Zenon

LEMMA TypeButtonIrq == ASSUME TypeOK, NEW p \in Branch, ButtonIrq(p) PROVE TypeOK'
<1> DEFINE v == IF cfg.on[p] = 0 THEN 1 ELSE 0
<1>1. SwitchRequest({p}, v) \in Request /\ "isr" \in Ctx
  BY MessageTypes, PlugFacts DEF Ctx
<1>2. SharedOK'
  <2>1. Window \subseteq Windows
    BY DEF Window
  <2>2. presses' \in 0 .. MaxPress
    <3>1. presses' = presses + 1 /\ presses < MaxPress /\ presses \in 0 .. MaxPress
      BY DEF TypeOK, ButtonIrq
    <3> QED BY <3>1, MaxPressAssumption
  <2>3. hit' \subseteq Windows
    BY <2>1 DEF TypeOK, ButtonIrq
  <2> QED BY <2>2, <2>3 DEF TypeOK, SharedOK, ButtonIrq, device
<1>3. FlagsOK'
  BY Zenon DEF TypeOK, FlagsOK, ButtonIrq, device
<1>4. StartJson("isr", SwitchRequest({p}, v))
  BY Zenon DEF ButtonIrq
<1> HIDE DEF v
<1>5. LocalsOK'
  BY <1>1, <1>4, TypeStartJson, Zenon
<1> QED BY <1>2, <1>3, <1>5, TypeSplit, Zenon

LEMMA TypeKeyReset == ASSUME TypeOK, KeyReset PROVE TypeOK'
<1>1. SharedOK'
  <2>1. FALSE \in BOOLEAN  OBVIOUS
  <2>2. [cfg EXCEPT !.named = FALSE] \in Config
    BY <2>1, SetField DEF TypeOK
  <2> QED BY <2>2 DEF TypeOK, SharedOK, KeyReset, device, ghosts
<1>2. FlagsOK'
  BY Zenon DEF TypeOK, FlagsOK, KeyReset, device
<1>3. LocalsOK'
  BY DEF TypeOK, LocalsOK, KeyReset, Goto, Label, Job
<1> QED BY <1>1, <1>2, <1>3, TypeSplit, Zenon

LEMMA TypeTick == ASSUME TypeOK, NEW D \in SUBSET (Plug \X Slot), Tick(D) PROVE TypeOK'
<1>1. SharedOK'
  BY DEF TypeOK, SharedOK, Tick, device, ghosts
<1>2. FlagsOK'
  BY Zenon DEF TypeOK, FlagsOK, Tick, device
<1>3. LocalsOK'
  BY DEF TypeOK, LocalsOK, Tick, Goto, Label, Job
<1> QED BY <1>1, <1>2, <1>3, TypeSplit, Zenon

LEMMA TypeFire == ASSUME TypeOK, NEW p \in Plug, NEW s \in Slot, Fire(p, s)
                  PROVE  TypeOK'
<1> DEFINE t == cfg.task[p][s]
           off == IF t.repeat = 0 THEN 0 ELSE t.on
           u == [t EXCEPT !.on = off]
           row == [cfg.task[p] EXCEPT ![s] = u]
           task == [cfg.task EXCEPT ![p] = row]
           d == [cfg EXCEPT !.on[p] = t.action]
<1>1. cfg \in Config /\ t \in Task
  BY SetField DEF TypeOK
<1>2. SharedOK'
  <2>1. t.action \in Byte  BY <1>1 DEF Task
  <2>2. u \in Task
    <3>1. off \in Byte  BY <1>1 DEF Task, Byte
    <3> HIDE DEF off, t
    <3> QED BY <1>1, <3>1 DEF Task
  <2>3. task \in [Plug -> [Slot -> Task]]
    <3>1. cfg.task \in [Plug -> [Slot -> Task]]  BY <1>1, SetField
    <3> HIDE DEF u
    <3>2. row \in [Slot -> Task]
      BY <2>2, <3>1
    <3> HIDE DEF row
    <3> QED BY <3>1, <3>2
  <2>4. d \in Config
    <3> HIDE DEF t
    <3> QED BY <1>1, <2>1, SetOn
  <2>5. d.task = cfg.task  BY <1>1 DEF Config
  <2>6. [d EXCEPT !.task = task] \in Config  BY <2>3, <2>4, SetField
  <2>7. cfg' = [d EXCEPT !.task = task]
    BY <2>5, Zenon DEF Fire
  <2>8. spent' \subseteq Plug \X Slot
    BY DEF TypeOK, Fire
  <2>9. cfg' \in Config  BY <2>6, <2>7, Zenon
  <2> QED BY <2>8, <2>9 DEF TypeOK, SharedOK, Fire, device
<1>3. FlagsOK'
  BY Zenon DEF TypeOK, FlagsOK, Fire, device
<1>4. LocalsOK'
  <2>1. "main" \in Ctx /\ "master" \in Label
    BY DEF Ctx, Label
  <2>2. Dirty(p, s) \in BOOLEAN
    BY Zenon DEF Dirty
  <2>3. save' \in [Ctx -> BOOLEAN]
    BY <2>2, Zenon DEF TypeOK, Fire
  <2>4. /\ pc' = [pc EXCEPT !["main"] = "master"]
        /\ UNCHANGED <<job, req, todo, due, arg, snap, buf, retained>>
    BY Zenon DEF Fire, Goto
  <2> QED BY <2>1, <2>3, <2>4 DEF TypeOK, LocalsOK
<1> QED BY <1>2, <1>3, <1>4, TypeSplit, Zenon

LEMMA TypeFireMaster == ASSUME TypeOK, NEW p \in Plug, NEW s \in Slot, FireMaster(p, s)
                        PROVE  TypeOK'
<1> DEFINE left == due \ {<<p, s>>}
<1>1. SharedOK'
  <2>1. 0 \in Plug /\ 1 \in Byte  BY PlugFacts DEF Byte
  <2>2. [cfg EXCEPT !.on[0] = 1] \in Config
    BY <2>1, SetOn DEF TypeOK
  <2>3. cfg' \in {cfg, [cfg EXCEPT !.on[0] = 1]} /\ UNCHANGED <<device, spent>>
    BY Zenon DEF FireMaster
  <2>4. hit' \subseteq Windows
    BY DEF FireMaster, TypeOK, Windows
  <2> QED BY <2>2, <2>3, <2>4 DEF TypeOK, SharedOK, device, FireMaster
<1>2. FlagsOK'
  BY Zenon DEF TypeOK, FlagsOK, FireMaster, device
<1>3. LocalsOK'
  <2>1. "main" \in Ctx /\ "idle" \in Label /\ "val" \in Label /\ "fire" \in Label
    BY DEF Ctx, Label
  <2>2. CASE left = {} /\ ~ save["main"]
    BY <2>1, <2>2, TypeReturn, Zenon DEF FireMaster
  <2>3. CASE ~ (left = {} /\ ~ save["main"])
    <3>1. /\ due' = left
          /\ pc' = [pc EXCEPT !["main"] = IF left = {} THEN "val" ELSE "fire"]
          /\ todo' = [todo EXCEPT !["main"] = IF left = {} THEN Plug ELSE @]
          /\ UNCHANGED <<job, req, arg, snap, buf, save, retained>>
      BY <2>3, Zenon DEF FireMaster, Goto
    <3> QED BY <2>1, <3>1 DEF TypeOK, LocalsOK
  <2> QED BY <2>2, <2>3
<1> QED BY <1>1, <1>2, <1>3, TypeSplit, Zenon

LEMMA TypeRequestRestart == ASSUME TypeOK, RequestRestart PROVE TypeOK'
<1>1. SharedOK'
  BY DEF TypeOK, SharedOK, RequestRestart, ghosts
<1>2. FlagsOK'
  BY Zenon DEF TypeOK, FlagsOK, RequestRestart
<1>3. LocalsOK'
  BY DEF TypeOK, LocalsOK, RequestRestart, locals
<1> QED BY <1>1, <1>2, <1>3, TypeSplit, Zenon

\* A boot is from the image in flash, or from what a write cut off has left.
LEMMA BootImage ==
  ASSUME TypeOK, Restart \/ PowerLoss
  PROVE  \E image \in {flash} \cup CutOff : image \in Config /\ Boot(image)
<1>1. PICK image \in {flash} \cup CutOff : Boot(image)
  BY Zenon DEF Restart, PowerLoss
<1>2. image \in Config
  <2>1. CASE image \in CutOff
    <3>1. PICK c \in Ctx, k \in Places : image = ProgramUpTo(flash, buf[c], k)
      BY <2>1 DEF CutOff
    <3>2. flash \in Config /\ buf[c] \in Config
      BY DEF TypeOK
    <3> QED BY <3>1, <3>2, ProgramUpToConfig
  <2> QED BY <2>1 DEF TypeOK
<1> QED BY <1>1, <1>2

LEMMA TypeBoot == ASSUME TypeOK, NEW image \in Config, Boot(image), relay' \subseteq 0 .. 7,
                         spent' \subseteq spent
                  PROVE  TypeOK'
<1>1. SharedOK'
  <2>1. cfg' \in Config
    BY LoadConfig DEF TypeOK, Boot
  <2>2. hit' \subseteq Windows
    BY DEF Boot, Windows
  <2> QED BY <2>1, <2>2, MessageTypes DEF TypeOK, SharedOK, Boot
<1>2. FlagsOK'
  BY Zenon DEF FlagsOK, Boot
<1>3. LocalsOK'
  <2>1. /\ req' \in [Ctx -> Request]
        /\ arg' \in [Ctx -> [Plug -> Byte]]
        /\ snap' \in [Ctx -> [Plug -> Byte]]
        /\ buf' \in [Ctx -> Config]
    BY MessageTypes, ConstantConfigs, Zenon DEF Boot
  <2>2. save' \in [Ctx -> BOOLEAN] /\ retained' \in [Ctx -> BOOLEAN]
    BY Zenon DEF Boot
  <2>3. /\ pc' \in [Ctx -> Label]
        /\ job' \in [Ctx -> Job]
        /\ todo' \in [Ctx -> SUBSET Plug]
        /\ due' \subseteq Plug \X Slot
    BY DEF Boot, Label, Job
  <2> QED BY <2>1, <2>2, <2>3 DEF LocalsOK
<1> QED BY <1>1, <1>2, <1>3, TypeSplit, Zenon

LEMMA TypeInit == Init => TypeOK
<1> SUFFICES ASSUME Init PROVE TypeOK
  OBVIOUS
<1>1. SharedOK
  <2>1. flash \in Config
    BY FlashAssumption DEF Init
  <2>2. cfg \in Config
    BY <2>1, LoadConfig DEF Init
  <2>3. presses \in 0 .. MaxPress
    BY MaxPressAssumption DEF Init
  <2> QED BY <2>1, <2>2, <2>3, MessageTypes DEF SharedOK, Init
<1>2. FlagsOK
  BY Zenon DEF FlagsOK, Init
<1>3. LocalsOK
  <2>1. /\ req \in [Ctx -> Request]
        /\ arg \in [Ctx -> [Plug -> Byte]]
        /\ snap \in [Ctx -> [Plug -> Byte]]
        /\ buf \in [Ctx -> Config]
    BY MessageTypes, ConstantConfigs, Zenon DEF Init
  <2>2. save \in [Ctx -> BOOLEAN] /\ retained \in [Ctx -> BOOLEAN]
    BY Zenon DEF Init
  <2>3. /\ pc \in [Ctx -> Label]
        /\ job \in [Ctx -> Job]
        /\ todo \in [Ctx -> SUBSET Plug]
        /\ due \subseteq Plug \X Slot
    BY DEF Init, Label, Job
  <2> QED BY <2>1, <2>2, <2>3 DEF LocalsOK
<1> QED BY <1>1, <1>2, <1>3, TypeSplit, Zenon

LEMMA TypeStep == TypeOK /\ [Next]_vars => TypeOK'
<1> SUFFICES ASSUME TypeOK, [Next]_vars PROVE TypeOK'
  OBVIOUS
<1>1. ASSUME NEW c \in Ctx, Step(c) PROVE TypeOK'
  BY <1>1, TypeSetting, TypePlugOn, TypePlugRule, TypePlugStore, TypeWriteBack,
     TypeCopyPlug, TypeBody, TypeReadArgs, TypeComputeByte, TypeWriteRelay,
     TypeSend, TypeEraseSector, TypeWriteSector, Zenon DEF Step
<1>2. ASSUME NEW p \in Plug, NEW s \in Slot, Fire(p, s) \/ FireMaster(p, s) PROVE TypeOK'
  BY <1>2, TypeFire, TypeFireMaster
<1>3. ASSUME NEW r \in Requests, Message(r) PROVE TypeOK'
  BY <1>3, TypeMessage
<1>4. CASE KeyShort  BY <1>4, TypeKeyShort
<1>5. CASE KeyReset  BY <1>5, TypeKeyReset
<1>6. ASSUME NEW d \in SUBSET (Plug \X Slot), Tick(d) PROVE TypeOK'
  BY <1>6, TypeTick
<1>7. ASSUME NEW p \in Branch, ButtonIrq(p) PROVE TypeOK'
  BY <1>7, TypeButtonIrq
<1>8. CASE RequestRestart  BY <1>8, TypeRequestRestart
<1>9. CASE Restart
  BY <1>9, BootImage, TypeBoot DEF Restart, TypeOK
<1>10. CASE PowerLoss
  BY <1>10, BootImage, TypeBoot DEF PowerLoss
<1>11. CASE UNCHANGED vars
  <2>1. SharedOK'  BY <1>11 DEF TypeOK, SharedOK, vars
  <2>2. FlagsOK'  BY <1>11, Zenon DEF TypeOK, FlagsOK, vars
  <2>3. LocalsOK'  BY <1>11 DEF TypeOK, LocalsOK, vars
  <2> QED BY <2>1, <2>2, <2>3, TypeSplit, Zenon
<1> QED
  BY <1>1, <1>2, <1>3, <1>4, <1>5, <1>6, <1>7, <1>8, <1>9, <1>10, <1>11, Zenon
     DEF Next

\* Every variable keeps its C type, whatever the messages, tasks and presses.
THEOREM PlugTypeOK == Spec => []TypeOK
  BY TypeInit, TypeStep, PTL DEF Spec

-----------------------------------------------------------------------------
(* What a step of a context leaves alone.                                   *)

\* A step of context c is not taken while the interrupt holds it up, touches
\* nobody else's locals, and reaches "back" not at all and "args" with nothing
\* read yet.
Moves(c) ==
  /\ c = "main" => pc["isr"] = "idle"
  /\ c = "isr" => pc["isr"] # "idle"
  /\ \A d \in Ctx \ {c} : /\ pc'[d] = pc[d] /\ todo'[d] = todo[d]
                          /\ arg'[d] = arg[d] /\ buf'[d] = buf[d]
  /\ pc'[c] # "back"
  /\ pc'[c] = "args" => todo'[c] = Plug
  /\ hit' \cap {"args", "back"} = hit \cap {"args", "back"}

\* It has nothing to do with saving.
Quiet(c) ==
  /\ pc[c] \notin {"copy", "erase"}
  /\ buf'[c] \in {buf[c], Erased}
  /\ pc'[c] = "idle" => buf'[c] = Erased
  /\ flash' = flash
  /\ cfg'.named = FALSE => cfg.named = FALSE

LEMMA NamedField ==
  ASSUME NEW d \in Config
  PROVE  /\ \A on : [d EXCEPT !.on = on].named = d.named
         /\ \A t : [d EXCEPT !.task = t].named = d.named
         /\ \A x, v : [d EXCEPT !.on[x] = v].named = d.named
         /\ \A x, t : [d EXCEPT !.task[x] = t].named = d.named
  BY DEF Config

LEMMA MovesPlug ==
  ASSUME TypeOK, NEW c \in Ctx, NEW x \in Plug,
         PlugOn(c, x) \/ PlugRule(c, x) \/ PlugClear(c, x) \/ PlugStore(c, x)
  PROVE  Moves(c) /\ Quiet(c)
<1>1. cfg'.named = cfg.named
  <2>0. cfg \in Config  BY DEF TypeOK
  <2>1. CASE PlugOn(c, x)
    <3>1. cfg' = cfg \/ cfg' = [cfg EXCEPT !.on[x] = req[c].set[x]]
      BY <2>1, Zenon DEF PlugOn
    <3>2. [cfg EXCEPT !.on[x] = req[c].set[x]].named = cfg.named
      BY <2>0, NamedField
    <3> QED BY <3>1, <3>2, Zenon
  <2>2. CASE PlugRule(c, x)
    <3>1. cfg' = cfg \/ cfg' = [cfg EXCEPT !.on[0] = 1]
      BY <2>2, Zenon DEF PlugRule
    <3>2. [cfg EXCEPT !.on[0] = 1].named = cfg.named
      BY <2>0, NamedField
    <3> QED BY <3>1, <3>2, Zenon
  <2>3. CASE PlugClear(c, x)
    <3>1. cfg' = [cfg EXCEPT !.on[x] = 0]
      BY <2>3, Zenon DEF PlugClear
    <3> QED BY <2>0, <3>1, NamedField
  <2>4. CASE PlugStore(c, x)
    <3>1. \E t : cfg' = [cfg EXCEPT !.task[x] = t]
      BY <2>4, Zenon DEF PlugStore
    <3> QED BY <2>0, <3>1, NamedField
  <2> QED BY <2>1, <2>2, <2>3, <2>4
<1>2. /\ UNCHANGED <<arg, buf, flash, hit>>
      /\ pc[c] \in {"plug", "rule", "clear", "store"}
      /\ c = "main" => pc["isr"] = "idle"
  BY Zenon DEF PlugOn, PlugRule, PlugClear, PlugStore, At, device, ghosts
<1>3. \/ pc' = pc
      \/ \E l \in {"rule", "clear", "store", "plug", "body"} : pc' = [pc EXCEPT ![c] = l]
  <2>1. CASE PlugOn(c, x)
    BY <2>1 DEF PlugOn, Goto
  <2>2. CASE PlugRule(c, x)
    BY <2>2 DEF PlugRule, Goto
  <2>3. CASE PlugClear(c, x)
    BY <2>3 DEF PlugClear, Goto
  <2>4. CASE PlugStore(c, x)
    BY <2>4 DEF PlugStore, Goto
  <2> QED BY <2>1, <2>2, <2>3, <2>4
<1>4. todo' = todo \/ \E S : todo' = [todo EXCEPT ![c] = S]
  <2>1. CASE PlugOn(c, x)
    BY <2>1, Zenon DEF PlugOn
  <2>2. CASE PlugRule(c, x)
    BY <2>2, Zenon DEF PlugRule
  <2>3. CASE PlugClear(c, x)
    BY <2>3, Zenon DEF PlugClear
  <2>4. CASE PlugStore(c, x)
    BY <2>4, Zenon DEF PlugStore
  <2> QED BY <2>1, <2>2, <2>3, <2>4
<1>5. \A d \in Ctx \ {c} : pc'[d] = pc[d] /\ todo'[d] = todo[d]
  BY <1>3, <1>4 DEF TypeOK
<1>6. pc'[c] \in {"rule", "clear", "store", "plug", "body"}
  BY <1>2, <1>3 DEF TypeOK
<1> QED BY <1>1, <1>2, <1>5, <1>6 DEF Moves, Quiet

LEMMA MovesSetting == ASSUME TypeOK, NEW c \in Ctx, NEW up \in BOOLEAN, Setting(c, up)
                      PROVE  Moves(c) /\ Quiet(c)
<1> DEFINE i == IF req[c].interval # 0 THEN req[c].interval ELSE cfg.interval
           n == cfg.named \/ req[c].name
           m == IF req[c].mqtt # "none" THEN 1 ELSE cfg.mqtt
<1>1. \A f, g, h : [cfg EXCEPT !.interval = f, !.named = g, !.mqtt = h].named = g
  BY DEF TypeOK, Config
<1>2. cfg' = [cfg EXCEPT !.interval = i, !.named = n, !.mqtt = m]
  BY Zenon DEF Setting
<1>3. cfg'.named = n
  <2> HIDE DEF i, n, m
  <2> QED BY <1>1, <1>2
<1>4. cfg'.named = FALSE => cfg.named = FALSE
  <2>1. cfg.named \in BOOLEAN
    BY DEF TypeOK, Config
  <2>2. ~ cfg.named => cfg.named = FALSE
    BY <2>1, Zenon
  <2>3. cfg'.named = FALSE => ~ n
    BY <1>3, Zenon
  <2> QED BY <2>2, <2>3, Zenon
<1>5. /\ UNCHANGED <<arg, buf, flash, hit>>
      /\ \E S : todo' = [todo EXCEPT ![c] = S]
      /\ pc[c] = "setting"
      /\ c = "main" => pc["isr"] = "idle"
      /\ pc' = [pc EXCEPT ![c] = IF todo[c] = {} THEN "body" ELSE "plug"]
  BY Zenon DEF Setting, At, Goto, ghosts
<1> QED BY <1>4, <1>5 DEF Moves, Quiet, TypeOK

LEMMA MovesBody == ASSUME TypeOK, NEW c \in Ctx, NEW x \in Plug,
                          Body(c, x) \/ ComputeByte(c, x)
                   PROVE  Moves(c) /\ Quiet(c)
<1>1. /\ UNCHANGED <<cfg, buf, flash, hit>>
      /\ pc[c] \in {"body", "val"}
      /\ c = "main" => pc["isr"] = "idle"
  BY Zenon DEF Body, ComputeByte, At, device, ghosts
<1>2. CASE Body(c, x)
  <2>1. /\ arg' = arg
        /\ \/ /\ \E l \in {"args", "send"} : pc' = [pc EXCEPT ![c] = l]
              /\ todo' = [todo EXCEPT ![c] = Plug]
           \/ pc' = pc /\ todo' = [todo EXCEPT ![c] = @ \ {x}]
    BY <1>2, Zenon DEF Body, Goto
  <2> QED BY <1>1, <1>2, <2>1 DEF Body, At, Moves, Quiet, TypeOK
<1>3. CASE ComputeByte(c, x)
  <2>1. /\ arg' = [arg EXCEPT ![c][x] = cfg.on[x]]
        /\ todo' = [todo EXCEPT ![c] = @ \ {x}]
        /\ pc' = pc \/ pc' = [pc EXCEPT ![c] = "i2c"]
    BY <1>3, Zenon DEF ComputeByte, Goto
  <2> QED BY <1>1, <1>3, <2>1 DEF ComputeByte, At, Moves, Quiet, TypeOK
<1> QED BY <1>2, <1>3

LEMMA ContinueMoves ==
  ASSUME TypeOK, NEW c \in Ctx, NEW l, Continue(c, l)
  PROVE  /\ \A d \in Ctx \ {c} : /\ pc'[d] = pc[d] /\ todo'[d] = todo[d]
                                 /\ arg'[d] = arg[d] /\ buf'[d] = buf[d]
         /\ pc'[c] = l
         /\ buf'[c] \in {buf[c], Erased}
         /\ l = "idle" => buf'[c] = Erased
<1>1. CASE l = "idle"
  <2>1. Goto(c, l) /\ Return(c)  BY <1>1, Zenon DEF Continue
  <2> QED BY <1>1, <2>1 DEF Goto, Return, TypeOK
<1>2. CASE l # "idle"
  <2>1. /\ Goto(c, l)
        /\ todo' = [todo EXCEPT ![c] = IF l \in {"copy", "body", "val"} THEN Plug ELSE @]
        /\ UNCHANGED <<job, req, due, arg, snap, buf, save, retained>>
    BY <1>2, Zenon DEF Continue
  <2> QED BY <1>2, <2>1 DEF Goto, TypeOK
<1> QED BY <1>1, <1>2

LEMMA MovesWriteRelay == ASSUME TypeOK, NEW c \in Ctx, NEW ok \in BOOLEAN,
                                WriteRelay(c, ok)
                         PROVE  Moves(c) /\ Quiet(c)
<1>1. /\ UNCHANGED <<cfg, flash, hit>>
      /\ pc[c] \in {"i2c", "retry"}
      /\ c = "main" => pc["isr"] = "idle"
  BY Zenon DEF WriteRelay, At, ghosts
<1>2. \E l \in {"send", "copy", "idle", "retry"} : Continue(c, l)
  <2>1. AfterRelay(c) \in {"send", "copy", "idle"}
    BY DEF AfterRelay
  <2> QED BY <2>1, Zenon DEF WriteRelay
<1> QED BY <1>1, <1>2, ContinueMoves DEF Moves, Quiet

LEMMA MovesSend == ASSUME TypeOK, NEW c \in Ctx, Send(c) PROVE Moves(c) /\ Quiet(c)
<1>1. /\ UNCHANGED <<cfg, flash, hit>>
      /\ pc[c] = "send"
      /\ c = "main" => pc["isr"] = "idle"
  BY Zenon DEF Send, At, ghosts
<1>2. \E l \in {"copy", "idle"} : Continue(c, l)
  BY Zenon DEF Send
<1> QED BY <1>1, <1>2, ContinueMoves DEF Moves, Quiet

LEMMA MovesCopy == ASSUME TypeOK, NEW c \in Ctx, NEW p \in Plug, CopyPlug(c, p)
                   PROVE  Moves(c)
<1>1. /\ UNCHANGED <<arg, hit>>
      /\ pc[c] = "copy"
      /\ c = "main" => pc["isr"] = "idle"
      /\ buf' = [buf EXCEPT ![c] = Copied(c, p)]
      /\ todo' = [todo EXCEPT ![c] = @ \ {p}]
      /\ pc' = pc \/ pc' = [pc EXCEPT ![c] = "erase"]
  BY Zenon DEF CopyPlug, Goto, At, ghosts
<1> QED BY <1>1 DEF Moves, TypeOK

LEMMA MovesErase == ASSUME TypeOK, NEW c \in Ctx, EraseSector(c) PROVE Moves(c)
<1>1. /\ UNCHANGED <<arg, hit, todo, buf>>
      /\ pc[c] = "erase"
      /\ c = "main" => pc["isr"] = "idle"
      /\ pc' = [pc EXCEPT ![c] = "write"]
  BY Zenon DEF EraseSector, Goto, At, locals, ghosts
<1> QED BY <1>1 DEF Moves, TypeOK

LEMMA MovesWrite == ASSUME TypeOK, NEW c \in Ctx, WriteSector(c) PROVE Moves(c)
<1>1. /\ pc[c] = "write"
      /\ c = "main" => pc["isr"] = "idle"
  BY Zenon DEF WriteSector, At
<1>2. hit' \cap {"args", "back"} = hit \cap {"args", "back"}
  BY DEF WriteSector
<1>3. \E l \in {"body", "val", "idle"} : Continue(c, l)
  <2>1. (CASE job[c] = "timer" -> "body"
           [] job[c] = "boot"  -> "val"
           [] OTHER            -> "idle") \in {"body", "val", "idle"}
    OBVIOUS
  <2> QED BY <2>1, Zenon DEF WriteSector
<1> QED BY <1>1, <1>2, <1>3, ContinueMoves DEF Moves

\* The steps that start a handler in main, and the tasks of the timer.
LEMMA MovesMain ==
  ASSUME TypeOK,
         \/ \E r \in Requests : Message(r)
         \/ KeyShort
         \/ \E D \in SUBSET (Plug \X Slot) : Tick(D)
         \/ \E p \in Plug, s \in Slot : Fire(p, s) \/ FireMaster(p, s)
  PROVE  Moves("main") /\ Quiet("main")
<1>1. "main" \in Ctx  BY DEF Ctx
<1>2. ASSUME NEW r, Idle, StartJson("main", r), UNCHANGED <<cfg, device, ghosts>>
      PROVE  Moves("main") /\ Quiet("main")
  <2>1. /\ UNCHANGED <<cfg, flash, hit, arg, buf>>
        /\ pc["main"] = "idle" /\ pc["isr"] = "idle"
        /\ pc' = [pc EXCEPT !["main"] = "setting"]
        /\ todo' = [todo EXCEPT !["main"] = Touched(r)]
    BY <1>2, Zenon DEF Idle, StartJson, Goto, device, ghosts
  <2> QED BY <1>1, <2>1 DEF Moves, Quiet, TypeOK
<1>3. ASSUME NEW r \in Requests, Message(r) PROVE Moves("main") /\ Quiet("main")
  BY <1>2, <1>3, Zenon DEF Message
<1>4. CASE KeyShort
  BY <1>2, <1>4, Zenon DEF KeyShort
<1>5. ASSUME NEW D \in SUBSET (Plug \X Slot), Tick(D)
      PROVE  Moves("main") /\ Quiet("main")
  <2>1. /\ UNCHANGED <<cfg, flash, hit, arg, buf, todo>>
        /\ pc["main"] = "idle" /\ pc["isr"] = "idle"
        /\ pc' = [pc EXCEPT !["main"] = "fire"]
    BY <1>5, Zenon DEF Tick, Idle, Goto, device, ghosts
  <2> QED BY <1>1, <2>1 DEF Moves, Quiet, TypeOK
<1>6. ASSUME NEW p \in Plug, NEW s \in Slot, Fire(p, s)
      PROVE  Moves("main") /\ Quiet("main")
  <2>1. /\ UNCHANGED <<flash, hit, todo, arg, buf>>
        /\ pc["main"] = "fire" /\ pc["isr"] = "idle"
        /\ pc' = [pc EXCEPT !["main"] = "master"]
    BY <1>6, Zenon DEF Fire, At, Goto, device
  <2>2. cfg'.named = cfg.named
    <3>1. \A f, g : [cfg EXCEPT !.on[p] = f, !.task[p][s].on = g].named = cfg.named
      BY DEF TypeOK, Config
    <3>2. \E f, g : cfg' = [cfg EXCEPT !.on[p] = f, !.task[p][s].on = g]
      BY <1>6, Zenon DEF Fire
    <3> QED BY <3>1, <3>2
  <2> QED BY <1>1, <2>1, <2>2 DEF Moves, Quiet, TypeOK
<1>7. ASSUME NEW p \in Plug, NEW s \in Slot, FireMaster(p, s)
      PROVE  Moves("main") /\ Quiet("main")
  <2>1. /\ UNCHANGED flash
        /\ pc["main"] = "master" /\ pc["isr"] = "idle"
        /\ hit' = hit \/ hit' = hit \cup {"task"}
    BY <1>7, Zenon DEF FireMaster, At, device
  <2>2. cfg'.named = cfg.named
    <3>1. cfg' \in {cfg, [cfg EXCEPT !.on[0] = 1]}
      BY <1>7, Zenon DEF FireMaster
    <3>2. [cfg EXCEPT !.on[0] = 1].named = cfg.named
      BY NamedField DEF TypeOK
    <3> QED BY <3>1, <3>2, Zenon
  <2>3. hit' \cap {"args", "back"} = hit \cap {"args", "back"}
    BY <2>1
  <2>4. \/ Goto("main", "idle") /\ Return("main")
        \/ /\ UNCHANGED <<arg, buf>>
           /\ \E S : todo' = [todo EXCEPT !["main"] = S]
           /\ \E l \in {"val", "fire"} : pc' = [pc EXCEPT !["main"] = l]
    BY <1>7, Zenon DEF FireMaster, Goto
  <2>5. CASE Goto("main", "idle") /\ Return("main")
    BY <1>1, <2>1, <2>2, <2>3, <2>5 DEF Moves, Quiet, Goto, Return, TypeOK
  <2>6. CASE /\ UNCHANGED <<arg, buf>>
             /\ \E S : todo' = [todo EXCEPT !["main"] = S]
             /\ \E l \in {"val", "fire"} : pc' = [pc EXCEPT !["main"] = l]
    BY <1>1, <2>1, <2>2, <2>3, <2>6 DEF Moves, Quiet, TypeOK
  <2> QED BY <2>4, <2>5, <2>6
<1> QED BY <1>3, <1>4, <1>5, <1>6, <1>7

LEMMA MovesReset == ASSUME TypeOK, KeyReset PROVE Moves("main")
<1>1. "main" \in Ctx  BY DEF Ctx
<1>2. /\ UNCHANGED <<arg, buf, hit>>
      /\ pc["main"] = "idle" /\ pc["isr"] = "idle"
      /\ pc' = [pc EXCEPT !["main"] = "copy"]
      /\ todo' = [todo EXCEPT !["main"] = Plug]
  BY Zenon DEF KeyReset, Idle, Goto, ghosts
<1> QED BY <1>1, <1>2 DEF Moves, TypeOK

-----------------------------------------------------------------------------
(* A factory reset cannot be undone by what comes before the reboot.        *)

\* Once the name is wiped every image still to be written is unnamed, and so is
\* the sector as soon as the reset's own save has erased it.
ResetInv ==
  /\ \A c \in Ctx : pc[c] = "idle" => buf[c].named = FALSE
  /\ cfg.named = FALSE =>
       /\ \A c \in Ctx : buf[c].named = FALSE
       /\ flash.named = FALSE \/ pc["main"] \in {"copy", "erase"}

LEMMA ResetQuiet == ASSUME ResetInv, NEW c \in Ctx, Moves(c), Quiet(c)
                    PROVE  ResetInv'
<1>1. Erased.named = FALSE
  BY DEF Erased
<1>2. \A d \in Ctx : buf'[d].named \in {buf[d].named, FALSE}
  BY <1>1 DEF Moves, Quiet
<1>3. \A d \in Ctx : pc'[d] = "idle" => buf'[d].named = FALSE
  BY <1>1, <1>2 DEF Moves, Quiet, ResetInv
<1>4. pc["main"] \in {"copy", "erase"} => pc'["main"] \in {"copy", "erase"}
  BY DEF Moves, Quiet, Ctx
<1> QED BY <1>2, <1>3, <1>4 DEF ResetInv, Quiet

\* The three steps of a save.
LEMMA ResetSave ==
  ASSUME TypeOK, ResetInv, NEW c \in Ctx,
         (\E p \in Plug : CopyPlug(c, p)) \/ EraseSector(c) \/ WriteSector(c)
  PROVE  ResetInv'
<1>1. Erased.named = FALSE
  BY DEF Erased
<1>2. ASSUME NEW p \in Plug, CopyPlug(c, p) PROVE ResetInv'
  <2>1. Copied(c, p).named = cfg.named
    BY DEF TypeOK, Config, Copied
  <2>2. /\ cfg' = cfg /\ flash' = flash
        /\ buf' = [buf EXCEPT ![c] = Copied(c, p)]
        /\ pc[c] = "copy"
        /\ pc' = pc \/ pc' = [pc EXCEPT ![c] = "erase"]
    BY <1>2, Zenon DEF CopyPlug, At, Goto, device
  <2>3. /\ \A d \in Ctx : pc'[d] = "idle" => pc[d] = "idle" /\ d # c
        /\ pc["main"] \in {"copy", "erase"} => pc'["main"] \in {"copy", "erase"}
    BY <2>2 DEF TypeOK, Ctx
  <2>4. \A d \in Ctx : buf'[d] = IF d = c THEN Copied(c, p) ELSE buf[d]
    BY <2>2 DEF TypeOK
  <2>5. \A d \in Ctx \ {c} : buf'[d] = buf[d]
    BY <2>4
  <2>6. buf'[c].named = cfg.named
    BY <2>1, <2>4
  <2> QED BY <2>2, <2>3, <2>5, <2>6 DEF ResetInv
<1>3. CASE EraseSector(c)
  <2>1. /\ cfg' = cfg /\ flash' = Erased /\ buf' = buf
        /\ pc' = [pc EXCEPT ![c] = "write"]
    BY <1>3, Zenon DEF EraseSector, Goto, locals
  <2> QED BY <1>1, <2>1 DEF ResetInv, TypeOK
<1>4. CASE WriteSector(c)
  <2>1. flash'.named = (flash.named \/ buf[c].named)
    BY <1>4 DEF WriteSector, Program
  <2>2. Moves(c)
    BY <1>4, MovesWrite
  <2>3. cfg' = cfg /\ pc[c] = "write"
    BY <1>4, Zenon DEF WriteSector, At
  <2>4. \E l \in {"body", "val", "idle"} : Continue(c, l)
    <3>1. (CASE job[c] = "timer" -> "body"
             [] job[c] = "boot"  -> "val"
             [] OTHER            -> "idle") \in {"body", "val", "idle"}
      OBVIOUS
    <3> QED BY <1>4, <3>1, Zenon DEF WriteSector
  <2>5. \A d \in Ctx : /\ buf'[d].named \in {buf[d].named, FALSE}
                       /\ pc'[d] = "idle" => buf'[d].named = FALSE
    BY <1>1, <2>2, <2>4, ContinueMoves, ZenonT(40) DEF Moves, ResetInv
  <2>6. pc["main"] \in {"copy", "erase"} => pc'["main"] \in {"copy", "erase"}
    BY <2>2, <2>3 DEF Moves, Ctx
  <2>7. flash.named = FALSE /\ buf[c].named = FALSE => flash'.named = FALSE
    BY <2>1, Zenon
  <2>8. ASSUME cfg'.named = FALSE
        PROVE  flash'.named = FALSE \/ pc'["main"] \in {"copy", "erase"}
    BY <2>3, <2>6, <2>7, <2>8, Zenon DEF ResetInv
  <2>9. ASSUME cfg'.named = FALSE, NEW d \in Ctx PROVE buf'[d].named = FALSE
    <3>1. cfg.named = FALSE
      BY <2>3, <2>9
    <3>2. \A e \in Ctx : buf[e].named = FALSE
      BY <3>1 DEF ResetInv
    <3> QED BY <2>5, <3>2, Zenon
  <2>10. \A d \in Ctx : pc'[d] = "idle" => buf'[d].named = FALSE
    BY <2>5, Zenon
  <2>11. cfg'.named = FALSE => \A d \in Ctx : buf'[d].named = FALSE
    BY <2>9
  <2>12. cfg'.named = FALSE => flash'.named = FALSE \/ pc'["main"] \in {"copy", "erase"}
    BY <2>8
  <2> QED BY <2>10, <2>11, <2>12 DEF ResetInv
<1> QED BY <1>2, <1>3, <1>4

LEMMA ResetInit == Init => ResetInv
<1> SUFFICES ASSUME Init PROVE ResetInv
  OBVIOUS
<1>1. flash \in Config
  BY FlashAssumption DEF Init
<1>2. Load(flash).named # FALSE
  BY <1>1 DEF Load, NeedsDefaults, DefaultConfig, Migrate, Config
<1> QED BY <1>2 DEF Init, ResetInv, Erased

LEMMA ResetStep == TypeOK /\ ResetInv /\ [Next]_vars => ResetInv'
<1> SUFFICES ASSUME TypeOK, ResetInv, [Next]_vars PROVE ResetInv'
  OBVIOUS
<1>1. ASSUME NEW c \in Ctx, Step(c) PROVE ResetInv'
  <2>1. ASSUME NEW up \in BOOLEAN, Setting(c, up) PROVE ResetInv'
    BY <2>1, MovesSetting, ResetQuiet
  <2>2. ASSUME NEW x \in Plug,
               PlugOn(c, x) \/ PlugRule(c, x) \/ PlugClear(c, x) \/ PlugStore(c, x)
        PROVE  ResetInv'
    BY <2>2, MovesPlug, ResetQuiet
  <2>3. ASSUME NEW x \in Plug, WriteBack(c, x) PROVE ResetInv'
    <3>1. cfg'.named = cfg.named
      BY <2>3 DEF WriteBack, TypeOK, Config
    <3>2. /\ UNCHANGED <<flash, buf>>
          /\ pc' = pc \/ pc' = [pc EXCEPT ![c] = "val"]
          /\ pc[c] = "back"
      BY <2>3, Zenon DEF WriteBack, At, Goto, device
    <3>3. /\ \A d \in Ctx : pc'[d] = "idle" => pc[d] = "idle"
          /\ pc["main"] \in {"copy", "erase"} => pc'["main"] \in {"copy", "erase"}
      BY <3>2 DEF TypeOK, Ctx
    <3> QED BY <3>1, <3>2, <3>3, Zenon DEF ResetInv
  <2>4. ASSUME NEW S \in SUBSET Plug, ReadArgs(c, S) PROVE ResetInv'
    <3>1. /\ UNCHANGED <<cfg, flash, buf>>
          /\ pc' = pc \/ pc' = [pc EXCEPT ![c] = "back"]
          /\ pc[c] = "args"
      BY <2>4, Zenon DEF ReadArgs, At, Goto, device
    <3>2. /\ \A d \in Ctx : pc'[d] = "idle" => pc[d] = "idle"
          /\ pc["main"] \in {"copy", "erase"} => pc'["main"] \in {"copy", "erase"}
      BY <3>1 DEF TypeOK, Ctx
    <3> QED BY <3>1, <3>2, Zenon DEF ResetInv
  <2>5. ASSUME NEW x \in Plug, Body(c, x) \/ ComputeByte(c, x) PROVE ResetInv'
    BY <2>5, MovesBody, ResetQuiet
  <2>6. ASSUME NEW ok \in BOOLEAN, WriteRelay(c, ok) PROVE ResetInv'
    BY <2>6, MovesWriteRelay, ResetQuiet
  <2>7. CASE Send(c)
    BY <2>7, MovesSend, ResetQuiet
  <2>8. CASE (\E p \in Plug : CopyPlug(c, p)) \/ EraseSector(c) \/ WriteSector(c)
    BY <2>8, ResetSave
  <2> QED BY <1>1, <2>1, <2>2, <2>3, <2>4, <2>5, <2>6, <2>7, <2>8, Zenon DEF Step
<1>2. CASE \/ \E r \in Requests : Message(r)
           \/ KeyShort
           \/ \E D \in SUBSET (Plug \X Slot) : Tick(D)
           \/ \E p \in Plug, s \in Slot : Fire(p, s) \/ FireMaster(p, s)
  <2>1. "main" \in Ctx  BY DEF Ctx
  <2> QED BY <1>2, <2>1, MovesMain, ResetQuiet
<1>3. CASE KeyReset
  <2>1. /\ UNCHANGED <<flash, buf>>
        /\ pc["main"] = "idle" /\ pc["isr"] = "idle"
        /\ pc' = [pc EXCEPT !["main"] = "copy"]
    BY <1>3, Zenon DEF KeyReset, Idle, Goto, device
  <2>2. \A c \in Ctx : buf[c].named = FALSE
    BY <2>1 DEF ResetInv, Ctx
  <2> QED BY <2>1, <2>2 DEF ResetInv, TypeOK, Ctx
<1>4. ASSUME NEW p \in Branch, ButtonIrq(p) PROVE ResetInv'
  <2>1. /\ UNCHANGED <<cfg, flash, buf>>
        /\ pc' = [pc EXCEPT !["isr"] = "setting"]
    BY <1>4, Zenon DEF ButtonIrq, StartJson, Goto, device
  <2> QED BY <2>1 DEF ResetInv, TypeOK, Ctx
<1>5. CASE RequestRestart
  BY <1>5 DEF RequestRestart, locals, ResetInv
<1>6. CASE Restart \/ PowerLoss
  <2>0. PICK image \in Config : Boot(image)
    BY <1>6, BootImage
  <2>1. cfg' = Load(image) /\ buf' = [c \in Ctx |-> Erased]
    BY <2>0, Zenon DEF Boot
  <2>2. Load(image).named # FALSE
    BY DEF Load, NeedsDefaults, DefaultConfig, Migrate, Config
  <2> QED BY <2>1, <2>2 DEF ResetInv, Erased
<1>7. CASE UNCHANGED vars
  BY <1>7 DEF vars, ResetInv
<1> QED BY <1>1, <1>2, <1>3, <1>4, <1>5, <1>6, <1>7, Zenon DEF Next

\* A factory reset stays pending through every message, timer and press that
\* comes, and is saved, before the reboot.
THEOREM ResetStaysPending == Spec => []ResetIsPending
<1>1. TypeOK /\ ResetInv => ResetIsPending
  BY DEF TypeOK, ResetInv, ResetIsPending, Idle, NeedsDefaults, Migrate, Config
<1> QED BY <1>1, TypeInit, TypeStep, ResetInit, ResetStep, PTL DEF Spec

-----------------------------------------------------------------------------
(* Writing the arguments of user_io_set_plug_all back changes nothing.      *)

\* No press has fallen between reading an argument and storing it.
Undisturbed == hit \cap {"args", "back"} = {}

\* The arguments read so far are still what user_config says; and if main is
\* held up by an interrupt, it had not started to read them.
ArgsInv ==
  Undisturbed =>
    /\ \A c \in Ctx : pc[c] = "args" =>
         \A p \in Plug : p \notin todo[c] => arg[c][p] = cfg.on[p]
    /\ \A c \in Ctx : pc[c] = "back" => \A p \in Plug : arg[c][p] = cfg.on[p]
    /\ pc["isr"] # "idle" =>
         pc["main"] # "back" /\ (pc["main"] = "args" => todo["main"] = Plug)

\* A step that neither reads an argument nor stores one: if it is main's there
\* is no interrupt, and if it is the interrupt's, main has read nothing yet.
LEMMA ArgsMoves == ASSUME TypeOK, ArgsInv, NEW c \in Ctx, Moves(c)
                   PROVE  ArgsInv'
<1> SUFFICES ASSUME Undisturbed' PROVE ArgsInv'
  BY DEF ArgsInv
<1>1. Undisturbed
  BY DEF Moves, Undisturbed
<1>2. CASE c = "main"
  <2>1. pc'["isr"] = "idle"
    BY <1>2 DEF Moves, Ctx
  <2>2. pc'["main"] # "back" /\ (pc'["main"] = "args" => todo'["main"] = Plug)
    BY <1>2 DEF Moves
  <2> QED BY <2>1, <2>2 DEF ArgsInv, Ctx
<1>3. CASE c = "isr"
  <2>1. pc'["main"] = pc["main"] /\ todo'["main"] = todo["main"]
    BY <1>3 DEF Moves, Ctx
  <2>2. pc["main"] # "back" /\ (pc["main"] = "args" => todo["main"] = Plug)
    BY <1>1, <1>3 DEF Moves, ArgsInv
  <2>3. pc'["isr"] # "back" /\ (pc'["isr"] = "args" => todo'["isr"] = Plug)
    BY <1>3 DEF Moves
  <2> QED BY <2>1, <2>2, <2>3 DEF ArgsInv, Ctx
<1> QED BY <1>2, <1>3 DEF Ctx

LEMMA StoreIsIdle == ASSUME TypeOK, ArgsInv, Undisturbed,
                            NEW c \in Ctx, NEW p \in Plug, WriteBack(c, p)
                     PROVE  cfg' = cfg
<1>1. Stored(c, p) = cfg.on[p]
  BY DEF WriteBack, At, ArgsInv, Stored
<1>2. cfg' = [cfg EXCEPT !.on[p] = cfg.on[p]]
  BY <1>1, Zenon DEF WriteBack
<1>3. \A d \in Config : [d EXCEPT !.on[p] = d.on[p]] = d
  BY DEF Config
<1> QED BY <1>2, <1>3, Zenon DEF TypeOK

LEMMA ArgsRead == ASSUME TypeOK, ArgsInv, NEW c \in Ctx, NEW S \in SUBSET Plug,
                         ReadArgs(c, S)
                  PROVE  ArgsInv'
<1> SUFFICES ASSUME Undisturbed' PROVE ArgsInv'
  BY DEF ArgsInv
<1> DEFINE now == [p \in Plug |-> IF p \in S THEN cfg.on[p] ELSE arg[c][p]]
<1>1. /\ pc[c] = "args" /\ cfg' = cfg /\ hit' = hit
      /\ c = "main" => pc["isr"] = "idle"
      /\ arg' = [arg EXCEPT ![c] = now]
  BY Zenon DEF ReadArgs, At, ghosts
<1>2. Undisturbed
  BY <1>1 DEF Undisturbed
<1>3. \/ /\ S = todo[c]
         /\ pc' = [pc EXCEPT ![c] = "back"] /\ todo' = [todo EXCEPT ![c] = Plug]
      \/ pc' = pc /\ todo' = [todo EXCEPT ![c] = @ \ S]
  BY Zenon DEF ReadArgs, Goto
<1>4. \A p \in Plug : p \in S \/ p \notin todo[c] => now[p] = cfg.on[p]
  BY <1>1, <1>2 DEF ArgsInv
<1>5. /\ arg'[c] = now
      /\ \A d \in Ctx \ {c} : arg'[d] = arg[d] /\ pc'[d] = pc[d] /\ todo'[d] = todo[d]
  BY <1>1, <1>3 DEF TypeOK
<1> HIDE DEF now
<1>6. \/ pc'[c] = "back" /\ S = todo[c]
      \/ pc'[c] = "args" /\ todo'[c] = todo[c] \ S
  BY <1>1, <1>3 DEF TypeOK
<1>7. pc'["isr"] # "idle" =>
         pc'["main"] # "back" /\ (pc'["main"] = "args" => todo'["main"] = Plug)
  <2>1. CASE c = "main"
    BY <2>1, <1>1, <1>5 DEF Ctx
  <2>2. CASE c = "isr"
    BY <2>2, <1>1, <1>2, <1>5 DEF Ctx, ArgsInv
  <2> QED BY <2>1, <2>2 DEF Ctx
<1>8. ASSUME NEW d \in Ctx, pc'[d] = "args", NEW p \in Plug, p \notin todo'[d]
      PROVE  arg'[d][p] = cfg'.on[p]
  <2>1. CASE d = c
    BY <2>1, <1>1, <1>4, <1>5, <1>6, <1>8
  <2>2. CASE d # c
    BY <2>2, <1>1, <1>2, <1>5, <1>8 DEF ArgsInv
  <2> QED BY <2>1, <2>2
<1>9. ASSUME NEW d \in Ctx, pc'[d] = "back", NEW p \in Plug
      PROVE  arg'[d][p] = cfg'.on[p]
  <2>1. CASE d = c
    BY <2>1, <1>1, <1>4, <1>5, <1>6, <1>9
  <2>2. CASE d # c
    BY <2>2, <1>1, <1>2, <1>5, <1>9 DEF ArgsInv
  <2> QED BY <2>1, <2>2
<1> QED BY <1>7, <1>8, <1>9 DEF ArgsInv

LEMMA ArgsStore == ASSUME TypeOK, ArgsInv, NEW c \in Ctx, NEW p \in Plug,
                          WriteBack(c, p)
                   PROVE  ArgsInv'
<1> SUFFICES ASSUME Undisturbed' PROVE ArgsInv'
  BY DEF ArgsInv
<1>1. /\ pc[c] = "back" /\ hit' = hit /\ arg' = arg
      /\ c = "main" => pc["isr"] = "idle"
  BY Zenon DEF WriteBack, At, ghosts
<1>2. Undisturbed
  BY <1>1 DEF Undisturbed
<1>3. cfg' = cfg
  BY <1>2, StoreIsIdle
<1>4. \A d \in Ctx : /\ pc'[d] = pc[d] \/ (d = c /\ pc'[d] = "val")
                     /\ d # c => todo'[d] = todo[d]
  <2>1. \/ pc' = [pc EXCEPT ![c] = "val"] /\ todo' = [todo EXCEPT ![c] = Plug]
        \/ pc' = pc /\ todo' = [todo EXCEPT ![c] = @ \ {p}]
    BY Zenon DEF WriteBack, Goto
  <2> QED BY <2>1 DEF TypeOK
<1>5. CASE c = "main"
  BY <1>1, <1>2, <1>3, <1>4, <1>5 DEF ArgsInv, Ctx
<1>6. CASE c = "isr"
  BY <1>1, <1>2, <1>3, <1>4, <1>6 DEF ArgsInv, Ctx
<1> QED BY <1>5, <1>6 DEF Ctx

LEMMA ArgsInit == Init => ArgsInv
<1> SUFFICES ASSUME Init PROVE ArgsInv
  OBVIOUS
<1>1. pc["isr"] = "idle" /\ pc["main"] \in {"copy", "val"}
  BY DEF Init, Ctx
<1> QED BY <1>1 DEF ArgsInv, Ctx

LEMMA ArgsStep == TypeOK /\ ArgsInv /\ [Next]_vars => ArgsInv'
<1> SUFFICES ASSUME TypeOK, ArgsInv, [Next]_vars PROVE ArgsInv'
  OBVIOUS
<1>1. ASSUME NEW c \in Ctx, Step(c) PROVE ArgsInv'
  <2>1. ASSUME NEW up \in BOOLEAN, Setting(c, up) PROVE ArgsInv'
    BY <2>1, MovesSetting, ArgsMoves
  <2>2. ASSUME NEW x \in Plug,
               PlugOn(c, x) \/ PlugRule(c, x) \/ PlugClear(c, x) \/ PlugStore(c, x)
        PROVE  ArgsInv'
    BY <2>2, MovesPlug, ArgsMoves
  <2>3. ASSUME NEW x \in Plug, WriteBack(c, x) PROVE ArgsInv'
    BY <2>3, ArgsStore
  <2>4. ASSUME NEW S \in SUBSET Plug, ReadArgs(c, S) PROVE ArgsInv'
    BY <2>4, ArgsRead
  <2>5. ASSUME NEW x \in Plug, Body(c, x) \/ ComputeByte(c, x) PROVE ArgsInv'
    BY <2>5, MovesBody, ArgsMoves
  <2>6. ASSUME NEW ok \in BOOLEAN, WriteRelay(c, ok) PROVE ArgsInv'
    BY <2>6, MovesWriteRelay, ArgsMoves
  <2>7. CASE Send(c)
    BY <2>7, MovesSend, ArgsMoves
  <2>8. CASE (\E p \in Plug : CopyPlug(c, p)) \/ EraseSector(c) \/ WriteSector(c)
    BY <2>8, MovesCopy, MovesErase, MovesWrite, ArgsMoves
  <2> QED BY <1>1, <2>1, <2>2, <2>3, <2>4, <2>5, <2>6, <2>7, <2>8, Zenon DEF Step
<1>2. CASE \/ \E r \in Requests : Message(r)
           \/ KeyShort
           \/ \E D \in SUBSET (Plug \X Slot) : Tick(D)
           \/ \E p \in Plug, s \in Slot : Fire(p, s) \/ FireMaster(p, s)
  <2>1. "main" \in Ctx  BY DEF Ctx
  <2> QED BY <1>2, <2>1, MovesMain, ArgsMoves
<1>3. CASE KeyReset
  <2>1. "main" \in Ctx  BY DEF Ctx
  <2> QED BY <1>3, <2>1, MovesReset, ArgsMoves
<1>4. ASSUME NEW p \in Branch, ButtonIrq(p) PROVE ArgsInv'
  <2> SUFFICES ASSUME Undisturbed' PROVE ArgsInv'
    BY DEF ArgsInv
  <2>1. /\ cfg' = cfg /\ arg' = arg
        /\ pc' = [pc EXCEPT !["isr"] = "setting"]
        /\ todo' = [todo EXCEPT !["isr"] = Touched(SwitchRequest({p}, IF cfg.on[p] = 0 THEN 1 ELSE 0))]
        /\ hit' = hit \cup Window
    BY <1>4, Zenon DEF ButtonIrq, StartJson, Goto
  <2>2. Undisturbed /\ Window \cap {"args", "back"} = {}
    BY <2>1 DEF Undisturbed
  <2>3. pc["main"] # "back" /\ (pc["main"] = "args" => todo["main"] = Plug)
    BY <2>2 DEF Window, Windows
  <2>4. /\ pc'["main"] = pc["main"] /\ todo'["main"] = todo["main"]
        /\ pc'["isr"] = "setting"
    BY <2>1 DEF TypeOK, Ctx
  <2> QED BY <2>3, <2>4 DEF ArgsInv, Ctx
<1>5. CASE RequestRestart
  BY <1>5 DEF RequestRestart, locals, ghosts, ArgsInv, Undisturbed
<1>6. CASE Restart \/ PowerLoss
  <2>1. pc'["isr"] = "idle" /\ pc'["main"] \in {"copy", "val"}
    <3>1. PICK image \in Config : Boot(image)
      BY <1>6, BootImage
    <3> QED BY <3>1, Zenon DEF Boot, Ctx
  <2> QED BY <2>1 DEF ArgsInv, Ctx
<1>7. CASE UNCHANGED vars
  BY <1>7 DEF vars, ArgsInv, Undisturbed
<1> QED BY <1>1, <1>2, <1>3, <1>4, <1>5, <1>6, <1>7, Zenon DEF Next

\* user_io_set_plug_all stores its arguments back without changing anything, for
\* every interleaving in which no press falls between reading and storing.
THEOREM WriteBackChangesNothing == Spec => WriteBackIsIdle
<1>1. TypeOK /\ ArgsInv /\ [Next]_vars
        => [ (\E c \in Ctx, p \in Plug : WriteBack(c, p))
               => cfg' = cfg \/ hit \cap {"args", "back"} # {} ]_vars
  BY StoreIsIdle DEF Undisturbed
<1> QED BY <1>1, TypeInit, TypeStep, ArgsInit, ArgsStep, PTL DEF Spec, WriteBackIsIdle
=============================================================================
