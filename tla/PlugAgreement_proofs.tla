----------------------- MODULE PlugAgreement_proofs -----------------------
(***************************************************************************)
(* Proofs that the parts of the strip agree once every handler is done:    *)
(* the last report is the state of the sockets, the relays show it, a      *)
(* reboot would bring it back, and a one-shot task that has fired stays    *)
(* off in RAM and in flash.  For any number of sockets and tasks, any      *)
(* messages, presses and initial flash, as in PlugControl_proofs, whose    *)
(* lemmas on types and on the steps of one context these use.              *)
(*                                                                         *)
(* The argument of each agreement is the same: whenever the two parts      *)
(* differ, some handler under way still has to bring them together         *)
(* (WillReport, WillDrive, WillSave); and what it has read for that is     *)
(* still current (HasValues, HasByte, Copying), for a press that makes it  *)
(* stale falls into one of the windows the property excepts.               *)
(***************************************************************************)
EXTENDS PlugControl_proofs

-----------------------------------------------------------------------------
(* One-shot tasks.                                                         *)

Off(d, t) == d.task[t[1]][t[2]].on = 0

\* A boot from image d does not arm t: it is off there, or d is not loaded.
OffAtBoot(d, t) == Off(d, t) \/ d.version \notin {4, USER_CONFIG_VERSION}

\* A reboot would not arm a spent task again.
InFlash == \A t \in spent : OffAtBoot(flash, t)

\* The timer has fired and not yet erased the image with the armed task.
Late == /\ job["main"] = "timer"
        /\ pc["main"] \in {"fire", "master", "val", "i2c", "retry", "copy", "erase"}

\* A spent task is off in every image: the one in RAM, those a save has
\* copied, and the one in flash but for a tick that is going to save.
SpentInv ==
  /\ \A t \in spent : Off(cfg, t)
  /\ \A c \in Ctx, t \in spent :
       (pc[c] = "copy" /\ t[1] \notin todo[c]) \/ pc[c] \in {"erase", "write"}
         => Off(buf[c], t)
  /\ InFlash \/ Late
  /\ pc["main"] \in {"fire", "master"} => job["main"] = "timer" /\ (save["main"] \/ InFlash)

LEMMA LoadOff ==
  ASSUME NEW d \in Config, NEW t \in Plug \X Slot, OffAtBoot(d, t)
  PROVE  Off(Load(d), t)
<1>1. t[1] \in Plug /\ t[2] \in Slot
  OBVIOUS
<1>2. Off(DefaultConfig, t)
  BY <1>1 DEF Off, DefaultConfig, DefaultTask
<1>3. Migrate(d).task = d.task
  BY DEF Config, Migrate
<1>4. d.version \notin {4, USER_CONFIG_VERSION} => NeedsDefaults(Migrate(d))
  BY DEF Migrate, NeedsDefaults
<1> QED BY <1>2, <1>3, <1>4 DEF Off, OffAtBoot, Load

\* Programming clears what is clear in the new image; cut off half-way, it
\* leaves the version as it was.
LEMMA ProgramOff ==
  ASSUME NEW old \in Config, NEW new \in Config, NEW t \in Plug \X Slot, Off(new, t)
  PROVE  /\ OffAtBoot(Program(old, new), t)
         /\ \A k \in Places : OffAtBoot(old, t) => OffAtBoot(ProgramUpTo(old, new, k), t)
<1>1. \A a : And8(a, 0) = 0
  BY DEF And8, AndBit
<1>2. t[1] \in Plug /\ t[2] \in Slot
  OBVIOUS
<1>3. Off(Program(old, new), t)
  BY <1>1, <1>2 DEF Off, Program
<1>4. ASSUME NEW k \in Places, OffAtBoot(old, t) PROVE OffAtBoot(ProgramUpTo(old, new, k), t)
  <2> DEFINE all == Program(old, new)
             torn == ProgramUpTo(old, new, k)
  <2>1. /\ torn.version = old.version
        /\ torn.task = [p \in Plug |-> [s \in Slot |->
               IF PlaceTask(p, s) < k THEN all.task[p][s] ELSE old.task[p][s]]]
    BY DEF ProgramUpTo, Program
  <2>2. torn.task[t[1]][t[2]] \in {all.task[t[1]][t[2]], old.task[t[1]][t[2]]}
    <3> HIDE DEF torn, all
    <3> QED BY <1>2, <2>1
  <2> HIDE DEF torn, all
  <2>3. CASE Off(old, t)
    <3>1. Off(all, t)  BY <1>3 DEF all
    <3>2. Off(torn, t)  BY <2>2, <2>3, <3>1 DEF Off
    <3> QED BY <3>2 DEF OffAtBoot, torn
  <2>4. CASE ~ Off(old, t)
    BY <1>4, <2>1, <2>4 DEF OffAtBoot, torn
  <2> QED BY <2>3, <2>4
<1> QED BY <1>3, <1>4 DEF OffAtBoot

LEMMA ErasedOff == \A t : OffAtBoot(Erased, t)
  BY DEF OffAtBoot, Erased, USER_CONFIG_VERSION

\* What a step of context c leaves of the tasks and of the other context, unless
\* it saves or belongs to the tasks of the timer.
Keeps(c) ==
  /\ spent' \subseteq spent
  /\ \A t \in spent' : cfg'.task[t[1]][t[2]] = cfg.task[t[1]][t[2]]
  /\ flash' = flash
  /\ \A d \in Ctx \ {c} : /\ pc'[d] = pc[d] /\ todo'[d] = todo[d] /\ buf'[d] = buf[d]
                          /\ job'[d] = job[d] /\ save'[d] = save[d]
  /\ pc'[c] = "copy" => todo'[c] = Plug
  /\ pc'[c] \notin {"erase", "write", "fire", "master"}
  /\ c = "main" => (Late => Late')

LEMMA SpentKept == ASSUME TypeOK, SpentInv, NEW c \in Ctx, Keeps(c)
                   PROVE  SpentInv'
<1>1. \A t \in spent' : t \in spent /\ t[1] \in Plug
  BY DEF Keeps, TypeOK
<1>2. \A t \in spent' : Off(cfg', t)
  BY <1>1 DEF Keeps, SpentInv, Off
<1>3. InFlash => InFlash'
  BY <1>1 DEF Keeps, InFlash
<1>4. Late => Late'
  BY DEF Keeps, Late, Ctx
<1>5. pc'["main"] \in {"fire", "master"}
        => job'["main"] = "timer" /\ (save'["main"] \/ InFlash')
  BY <1>3 DEF Keeps, SpentInv, Ctx
<1>6. ASSUME NEW d \in Ctx, NEW t \in spent',
             (pc'[d] = "copy" /\ t[1] \notin todo'[d]) \/ pc'[d] \in {"erase", "write"}
      PROVE  Off(buf'[d], t)
  <2>1. d # c
    BY <1>1, <1>6 DEF Keeps
  <2> QED BY <1>1, <1>6, <2>1 DEF Keeps, SpentInv
<1>7. InFlash' \/ Late'
  BY <1>3, <1>4 DEF SpentInv
<1> QED BY <1>2, <1>5, <1>6, <1>7 DEF SpentInv, Off

\* The steps of user_json_analysis and user_io_set_plug_all.
LEMMA TaskField ==
  ASSUME NEW d \in Config
  PROVE  /\ \A on : [d EXCEPT !.on = on].task = d.task
         /\ \A x, v : [d EXCEPT !.on[x] = v].task = d.task
         /\ \A f, g, h : [d EXCEPT !.interval = f, !.named = g, !.mqtt = h].task = d.task
         /\ \A b : [d EXCEPT !.named = b].task = d.task
  BY DEF Config

LEMMA KeepsPlug ==
  ASSUME TypeOK, NEW c \in Ctx, NEW x \in Plug,
         PlugOn(c, x) \/ PlugRule(c, x) \/ PlugClear(c, x) \/ WriteBack(c, x)
  PROVE  Keeps(c)
<1>0. cfg \in Config  BY DEF TypeOK
<1>1. cfg'.task = cfg.task
  <2>1. cfg' = cfg \/ \E y, v : cfg' = [cfg EXCEPT !.on[y] = v]
    <3>1. CASE PlugOn(c, x)  BY <3>1, Zenon DEF PlugOn
    <3>2. CASE PlugRule(c, x)  BY <3>2, Zenon DEF PlugRule
    <3>3. CASE PlugClear(c, x)  BY <3>3, Zenon DEF PlugClear
    <3>4. CASE WriteBack(c, x)  BY <3>4, Zenon DEF WriteBack
    <3> QED BY <3>1, <3>2, <3>3, <3>4
  <2>2. \A y, v : [cfg EXCEPT !.on[y] = v].task = cfg.task
    BY <1>0, TaskField
  <2> QED BY <2>1, <2>2, Zenon
<1>2. /\ UNCHANGED <<spent, flash, buf, job, save>>
      /\ pc[c] \in {"plug", "rule", "clear", "back"}
  BY Zenon DEF PlugOn, PlugRule, PlugClear, WriteBack, At, device, ghosts
<1>3. /\ pc' = pc \/ \E l \in {"rule", "clear", "store", "val"} : pc' = [pc EXCEPT ![c] = l]
      /\ todo' = todo \/ \E S : todo' = [todo EXCEPT ![c] = S]
  <2>1. CASE PlugOn(c, x)  BY <2>1, Zenon DEF PlugOn, Goto
  <2>2. CASE PlugRule(c, x)  BY <2>2, Zenon DEF PlugRule, Goto
  <2>3. CASE PlugClear(c, x)  BY <2>3, Zenon DEF PlugClear, Goto
  <2>4. CASE WriteBack(c, x)  BY <2>4, Zenon DEF WriteBack, Goto
  <2> QED BY <2>1, <2>2, <2>3, <2>4
<1>4. \A d \in Ctx \ {c} : pc'[d] = pc[d] /\ todo'[d] = todo[d]
  BY <1>3 DEF TypeOK
<1>5. pc'[c] \in {"rule", "clear", "store", "val", "plug", "back"}
  BY <1>2, <1>3 DEF TypeOK
<1>6. c = "main" => ~ Late
  BY <1>2 DEF Late
<1> QED BY <1>1, <1>2, <1>4, <1>5, <1>6 DEF Keeps

LEMMA KeepsStore == ASSUME TypeOK, NEW c \in Ctx, NEW x \in Plug, PlugStore(c, x)
                    PROVE  Keeps(c)
<1> DEFINE sets(s) == { t \in req[c].task : t[1] = x /\ t[2] = s }
           set == { s \in Slot : sets(s) # {} }
           tasks == [s \in Slot |-> IF s \in set THEN (CHOOSE t \in sets(s) : TRUE)[3]
                                                 ELSE cfg.task[x][s]]
<1>1. /\ cfg' = [cfg EXCEPT !.task[x] = tasks]
      /\ spent' = spent \ ({x} \X set)
      /\ todo' = [todo EXCEPT ![c] = IF @ = {x} THEN Plug ELSE @ \ {x}]
      /\ pc' = [pc EXCEPT ![c] = IF todo[c] = {x} THEN "body" ELSE "plug"]
      /\ UNCHANGED <<flash, buf, job, save>>
      /\ pc[c] = "store"
  BY Zenon DEF PlugStore, At, Goto, device
<1>2. \A d : [cfg EXCEPT !.task[x] = d].task = [cfg.task EXCEPT ![x] = d]
  BY DEF TypeOK, Config
<1>3. \A s \in Slot : s \notin set => tasks[s] = cfg.task[x][s]
  <2> HIDE DEF set
  <2> QED OBVIOUS
<1>4. cfg'.task = [cfg.task EXCEPT ![x] = tasks]
  BY <1>1, <1>2, Zenon
<1> HIDE DEF set, tasks
<1>5. ASSUME NEW t \in spent' PROVE cfg'.task[t[1]][t[2]] = cfg.task[t[1]][t[2]]
  <2>1. t \in Plug \X Slot /\ t \in spent
    BY <1>1 DEF TypeOK
  <2>2. t[1] \in Plug /\ t[2] \in Slot /\ t = <<t[1], t[2]>>
    BY <2>1
  <2>3. t[1] = x => t[2] \notin set
    BY <1>1, <2>2
  <2>4. cfg.task \in [Plug -> [Slot -> Task]]
    BY DEF TypeOK, Config
  <2> QED BY <1>3, <1>4, <2>2, <2>3, <2>4
<1>6. /\ \A d \in Ctx \ {c} : pc'[d] = pc[d] /\ todo'[d] = todo[d]
      /\ pc'[c] \in {"body", "plug"}
  BY <1>1 DEF TypeOK
<1> QED BY <1>1, <1>5, <1>6 DEF Keeps, Late

LEMMA KeepsSetting == ASSUME TypeOK, NEW c \in Ctx, NEW up \in BOOLEAN, Setting(c, up)
                      PROVE  Keeps(c)
<1>1. cfg'.task = cfg.task
  <2>1. \E f, g, h : cfg' = [cfg EXCEPT !.interval = f, !.named = g, !.mqtt = h]
    BY Zenon DEF Setting
  <2> QED BY <2>1, TaskField DEF TypeOK
<1>2. /\ UNCHANGED <<spent, flash, buf, job>>
      /\ pc[c] = "setting"
      /\ pc' = [pc EXCEPT ![c] = IF todo[c] = {} THEN "body" ELSE "plug"]
      /\ todo' = [todo EXCEPT ![c] = IF @ = {} THEN Plug ELSE @]
      /\ \E b : save' = [save EXCEPT ![c] = b]
  BY Zenon DEF Setting, At, Goto, ghosts
<1> QED BY <1>1, <1>2 DEF Keeps, Late, TypeOK

LEMMA KeepsBody ==
  ASSUME TypeOK, NEW c \in Ctx,
         \/ \E x \in Plug : Body(c, x) \/ ComputeByte(c, x)
         \/ \E S \in SUBSET Plug : ReadArgs(c, S)
  PROVE  Keeps(c)
<1>1. /\ UNCHANGED <<cfg, spent, flash, buf, job, save>>
      /\ pc[c] \in {"body", "val", "args"}
  BY Zenon DEF Body, ComputeByte, ReadArgs, At, device, ghosts
<1>2. /\ \E S : todo' = [todo EXCEPT ![c] = S]
      /\ \/ pc' = pc
         \/ \E l \in {"args", "send", "back"} :
              pc' = [pc EXCEPT ![c] = l] /\ pc[c] \in {"body", "args"}
         \/ pc[c] = "val" /\ pc' = [pc EXCEPT ![c] = "i2c"]
  <2>1. CASE \E x \in Plug : Body(c, x)  BY <2>1, Zenon DEF Body, Goto, At
  <2>2. CASE \E x \in Plug : ComputeByte(c, x)  BY <2>2, Zenon DEF ComputeByte, Goto, At
  <2>3. CASE \E S \in SUBSET Plug : ReadArgs(c, S)  BY <2>3, Zenon DEF ReadArgs, Goto, At
  <2> QED BY <2>1, <2>2, <2>3
<1>3. /\ \A d \in Ctx \ {c} : pc'[d] = pc[d] /\ todo'[d] = todo[d]
      /\ pc'[c] \in {"args", "send", "back", "i2c", "body", "val"}
      /\ pc[c] = "val" => pc'[c] \in {"val", "i2c"}
  BY <1>1, <1>2 DEF TypeOK
<1>4. c = "main" => (Late => Late')
  BY <1>1, <1>3 DEF Late
<1> QED BY <1>1, <1>3, <1>4 DEF Keeps

\* Leaving a handler, or going on inside it.
LEMMA ContinueKeeps ==
  ASSUME TypeOK, NEW c \in Ctx, NEW l, Continue(c, l)
  PROVE  /\ \A d \in Ctx \ {c} : /\ pc'[d] = pc[d] /\ todo'[d] = todo[d] /\ buf'[d] = buf[d]
                                 /\ job'[d] = job[d] /\ save'[d] = save[d]
         /\ pc'[c] = l
         /\ l \in {"copy", "body", "val"} => todo'[c] = Plug
         /\ l # "idle" => /\ UNCHANGED <<job, req, due, arg, snap, buf, save, retained>>
                          /\ l \notin {"copy", "body", "val"} => todo'[c] = todo[c]
<1>1. CASE l = "idle"
  <2>1. Goto(c, l) /\ Return(c)  BY <1>1, Zenon DEF Continue
  <2> QED BY <1>1, <2>1 DEF Goto, Return, TypeOK
<1>2. CASE l # "idle"
  <2>1. /\ Goto(c, l)
        /\ todo' = [todo EXCEPT ![c] = IF l \in {"copy", "body", "val"} THEN Plug ELSE @]
        /\ UNCHANGED <<job, req, due, arg, snap, buf, save, retained>>
    BY <1>2, Zenon DEF Continue
  <2> QED BY <1>2, <2>1 DEF Goto, TypeOK
<1> QED BY <1>1, <1>2

LEMMA KeepsRelay == ASSUME TypeOK, NEW c \in Ctx, NEW ok \in BOOLEAN,
                           WriteRelay(c, ok) \/ Send(c)
                    PROVE  Keeps(c)
<1>1. UNCHANGED <<cfg, flash, spent>> /\ pc[c] \in {"i2c", "retry", "send"}
  BY Zenon DEF WriteRelay, Send, At, ghosts
<1>2. PICK l \in {"send", "copy", "idle", "retry"} :
        Continue(c, l) /\ (Late /\ c = "main" => l \in {"copy", "retry"})
  <2>1. CASE WriteRelay(c, ok)
    <3>1. AfterRelay(c) \in {"send", "copy", "idle"} /\ (job[c] = "timer" => AfterRelay(c) = "copy")
      BY DEF AfterRelay
    <3> QED BY <2>1, <3>1, Zenon DEF WriteRelay, Late
  <2>2. CASE Send(c)
    <3>1. pc[c] = "send" /\ \E l \in {"copy", "idle"} : Continue(c, l)
      BY <2>2, Zenon DEF Send, At
    <3> QED BY <3>1 DEF Late
  <2> QED BY <2>1, <2>2
<1>3. c = "main" => (Late => Late')
  BY <1>2, ContinueKeeps DEF Late
<1> QED BY <1>1, <1>2, <1>3, ContinueKeeps DEF Keeps

\* The three steps of a save.
LEMMA SpentSave ==
  ASSUME TypeOK, SpentInv, NEW c \in Ctx,
         (\E p \in Plug : CopyPlug(c, p)) \/ EraseSector(c) \/ WriteSector(c)
  PROVE  SpentInv'
<1>1. \A t \in spent : t \in Plug \X Slot /\ t[1] \in Plug /\ t[2] \in Slot
  BY DEF TypeOK
<1>2. ASSUME NEW p \in Plug, CopyPlug(c, p) PROVE SpentInv'
  <2>1. /\ UNCHANGED <<cfg, flash, job, save, spent>>
        /\ buf' = [buf EXCEPT ![c] = Copied(c, p)]
        /\ todo' = [todo EXCEPT ![c] = @ \ {p}]
        /\ pc' = IF todo[c] = {p} THEN [pc EXCEPT ![c] = "erase"] ELSE pc
        /\ pc[c] = "copy"
    BY <1>2, Zenon DEF CopyPlug, At, Goto, device, ghosts
  <2>2. /\ \A d \in Ctx \ {c} : pc'[d] = pc[d] /\ todo'[d] = todo[d] /\ buf'[d] = buf[d]
        /\ buf'[c] = Copied(c, p) /\ todo'[c] = todo[c] \ {p}
        /\ pc'[c] \in {"copy", "erase"} /\ (pc'[c] = "erase" => todo[c] = {p})
    BY <2>1 DEF TypeOK
  <2>3. Copied(c, p).task = [buf[c].task EXCEPT ![p] = cfg.task[p]]
    BY DEF Copied, TypeOK, Config
  <2>4. ASSUME NEW t \in spent, t[1] = p \/ t[1] \notin todo[c] PROVE Off(buf'[c], t)
    <3>1. buf[c].task \in [Plug -> [Slot -> Task]] /\ t[1] \in Plug
      BY <1>1 DEF TypeOK, Config
    <3>2. CASE t[1] = p
      BY <2>2, <2>3, <3>1, <3>2 DEF SpentInv, Off
    <3>3. CASE t[1] # p
      <4>1. Off(buf[c], t)
        BY <2>1, <2>4, <3>3 DEF SpentInv
      <4> QED BY <2>2, <2>3, <3>1, <3>3, <4>1 DEF Off
    <3> QED BY <3>2, <3>3
  <2>5. ASSUME NEW d \in Ctx, NEW t \in spent',
               (pc'[d] = "copy" /\ t[1] \notin todo'[d]) \/ pc'[d] \in {"erase", "write"}
        PROVE  Off(buf'[d], t)
    <3>1. t \in spent  BY <2>1
    <3>2. CASE d = c
      <4>1. t[1] = p \/ t[1] \notin todo[c]
        BY <2>2, <2>5, <3>2
      <4> QED BY <2>4, <3>1, <3>2, <4>1
    <3>3. CASE d # c
      BY <2>2, <2>5, <3>1, <3>3 DEF SpentInv
    <3> QED BY <3>2, <3>3
  <2>6. /\ Late => Late'
        /\ InFlash => InFlash'
        /\ pc'["main"] \in {"fire", "master"} => pc'["main"] = pc["main"]
    BY <2>1, <2>2 DEF Late, InFlash, Ctx
  <2>7. \A t \in spent' : Off(cfg', t)
    BY <2>1 DEF SpentInv, Off
  <2>8. pc'["main"] \in {"fire", "master"}
          => job'["main"] = "timer" /\ (save'["main"] \/ InFlash')
    BY <2>1, <2>6 DEF SpentInv
  <2>9. InFlash' \/ Late'
    BY <2>6 DEF SpentInv
  <2> QED BY <2>5, <2>7, <2>8, <2>9 DEF SpentInv, Off
<1>3. CASE EraseSector(c)
  <2>1. /\ UNCHANGED <<cfg, job, save, spent, todo, buf>>
        /\ flash' = Erased
        /\ pc' = [pc EXCEPT ![c] = "write"] /\ pc[c] = "erase"
    BY <1>3, Zenon DEF EraseSector, At, Goto, locals, ghosts
  <2>2. \A d \in Ctx : pc'[d] = pc[d] \/ (d = c /\ pc'[d] = "write")
    BY <2>1 DEF TypeOK
  <2>3. InFlash'
    BY <1>1, <2>1, ErasedOff DEF InFlash
  <2>4. \A t \in spent' : Off(cfg', t)
    BY <2>1 DEF SpentInv, Off
  <2>5. ASSUME NEW d \in Ctx, NEW t \in spent',
               (pc'[d] = "copy" /\ t[1] \notin todo'[d]) \/ pc'[d] \in {"erase", "write"}
        PROVE  Off(buf'[d], t)
    BY <2>1, <2>2, <2>5 DEF SpentInv
  <2>6. pc'["main"] \in {"fire", "master"} => job'["main"] = "timer"
    BY <2>1, <2>2 DEF SpentInv, Ctx
  <2> QED BY <2>3, <2>4, <2>5, <2>6 DEF SpentInv, Off
<1>4. CASE WriteSector(c)
  <2>1. /\ UNCHANGED <<cfg, spent>>
        /\ flash' = Program(flash, buf[c])
        /\ pc[c] = "write"
    BY <1>4, Zenon DEF WriteSector, At
  <2>2. PICK l \in {"body", "val", "idle"} : Continue(c, l)
    <3>1. (CASE job[c] = "timer" -> "body"
             [] job[c] = "boot"  -> "val"
             [] OTHER            -> "idle") \in {"body", "val", "idle"}
      OBVIOUS
    <3> QED BY <1>4, <3>1, Zenon DEF WriteSector
  <2>3. /\ pc'[c] \in {"body", "val", "idle"}
        /\ \A d \in Ctx \ {c} : /\ pc'[d] = pc[d] /\ todo'[d] = todo[d]
                                /\ buf'[d] = buf[d] /\ job'[d] = job[d]
    BY <2>2, ContinueKeeps
  <2>4. InFlash'
    <3>1. flash \in Config /\ buf[c] \in Config
      BY DEF TypeOK
    <3>2. \A t \in spent : OffAtBoot(Program(flash, buf[c]), t)
      BY <1>1, <2>1, <3>1, ProgramOff DEF SpentInv
    <3> QED BY <2>1, <3>2 DEF InFlash
  <2>5. \A t \in spent' : Off(cfg', t)
    BY <2>1 DEF SpentInv, Off
  <2>6. ASSUME NEW d \in Ctx, NEW t \in spent',
               (pc'[d] = "copy" /\ t[1] \notin todo'[d]) \/ pc'[d] \in {"erase", "write"}
        PROVE  Off(buf'[d], t)
    BY <2>1, <2>3, <2>6 DEF SpentInv
  <2>7. pc'["main"] \in {"fire", "master"} => job'["main"] = "timer"
    BY <2>3 DEF SpentInv, Ctx
  <2> QED BY <2>4, <2>5, <2>6, <2>7 DEF SpentInv, Off
<1> QED BY <1>2, <1>3, <1>4

\* A task that fires once is spent, and the tick will save.
LEMMA SpentFire ==
  ASSUME TypeOK, SpentInv, NEW p \in Plug, NEW s \in Slot, Fire(p, s)
  PROVE  SpentInv'
<1> DEFINE once == cfg.task[p][s].repeat = 0
           x == IF once THEN 0 ELSE cfg.task[p][s].on
<1>1. /\ UNCHANGED <<flash, job, todo, buf>>
      /\ spent' = IF once THEN spent \cup {<<p, s>>} ELSE spent
      /\ save' = [save EXCEPT !["main"] = Dirty(p, s)]
      /\ pc' = [pc EXCEPT !["main"] = "master"]
      /\ pc["main"] = "fire" /\ pc["isr"] = "idle"
      /\ cfg' = [cfg EXCEPT !.on[p] = cfg.task[p][s].action, !.task[p][s].on = x]
  BY Zenon DEF Fire, At, Goto, device
<1>2. "main" \in Ctx /\ \A d \in Ctx : d = "main" \/ d = "isr"
  BY DEF Ctx
<1>3. pc'["main"] = "master" /\ pc'["isr"] = "idle"
  BY <1>1 DEF TypeOK, Ctx
<1>4. job'["main"] = "timer"
  BY <1>1 DEF SpentInv
<1>5. /\ cfg'.task[p][s].on = x
      /\ \A q \in Plug, r \in Slot : <<q, r>> # <<p, s>> => cfg'.task[q][r] = cfg.task[q][r]
  <2>1. ASSUME NEW v, NEW w,
               cfg' = [cfg EXCEPT !.on[p] = v, !.task[p][s].on = w]
        PROVE  cfg'.task = [cfg.task EXCEPT ![p][s].on = w]
    BY <2>1 DEF TypeOK, Config
  <2>2. cfg'.task = [cfg.task EXCEPT ![p][s].on = x]
    <3> DEFINE v == cfg.task[p][s].action
    <3>1. cfg' = [cfg EXCEPT !.on[p] = v, !.task[p][s].on = x]
      BY <1>1
    <3> HIDE DEF x, v
    <3> QED BY <2>1, <3>1
  <2>3. cfg.task \in [Plug -> [Slot -> Task]]
    BY DEF TypeOK, Config
  <2> HIDE DEF x
  <2> QED BY <2>2, <2>3 DEF Task
<1>6. ASSUME NEW t \in spent' PROVE Off(cfg', t)
  <2>1. t \in Plug \X Slot /\ t = <<t[1], t[2]>> /\ t[1] \in Plug /\ t[2] \in Slot
    BY <1>1 DEF TypeOK
  <2>2. CASE t = <<p, s>> /\ once
    BY <1>5, <2>2 DEF Off
  <2>3. CASE t = <<p, s>> /\ ~ once
    <3>1. t \in spent  BY <1>1, <2>3
    <3>2. cfg.task[p][s].on = 0  BY <2>3, <3>1 DEF SpentInv, Off
    <3> QED BY <1>5, <2>3, <3>2 DEF Off
  <2>4. CASE t # <<p, s>>
    <3>1. t \in spent  BY <1>1, <2>4
    <3> QED BY <1>5, <2>1, <2>4, <3>1 DEF SpentInv, Off
  <2> QED BY <2>2, <2>3, <2>4
<1>7. save'["main"] \/ InFlash'
  <2>1. save'["main"] = Dirty(p, s)
    BY <1>1, <1>2 DEF TypeOK
  <2>2. CASE once
    BY <2>1, <2>2 DEF Dirty
  <2>3. CASE ~ once
    <3>1. save["main"] \/ InFlash
      BY <1>1 DEF SpentInv
    <3>2. InFlash => InFlash'
      BY <1>1, <2>3 DEF InFlash
    <3>3. save["main"] => save'["main"]
      BY <2>1 DEF Dirty
    <3> QED BY <3>1, <3>2, <3>3
  <2> QED BY <2>2, <2>3
<1>8. Late'
  BY <1>3, <1>4 DEF Late
<1>9. \A d \in Ctx : pc'[d] \notin {"copy", "erase", "write"}
  BY <1>2, <1>3
<1> QED BY <1>4, <1>6, <1>7, <1>8, <1>9 DEF SpentInv, Off

LEMMA SpentMaster ==
  ASSUME TypeOK, SpentInv, NEW p \in Plug, NEW s \in Slot, FireMaster(p, s)
  PROVE  SpentInv'
<1> DEFINE left == due \ {<<p, s>>}
<1>1. /\ UNCHANGED <<flash, spent>>
      /\ pc["main"] = "master" /\ pc["isr"] = "idle"
  BY Zenon DEF FireMaster, At, device
<1>2. cfg'.task = cfg.task
  <2>1. cfg' \in {cfg, [cfg EXCEPT !.on[0] = 1]}
    BY Zenon DEF FireMaster
  <2>2. [cfg EXCEPT !.on[0] = 1].task = cfg.task
    BY TaskField DEF TypeOK
  <2> QED BY <2>1, <2>2, Zenon
<1>3. \A t \in spent' : Off(cfg', t)
  BY <1>1, <1>2 DEF SpentInv, Off
<1>4. "main" \in Ctx /\ \A d \in Ctx : d = "main" \/ d = "isr"
  BY DEF Ctx
<1>5. job["main"] = "timer" /\ (save["main"] \/ InFlash)
  BY <1>1 DEF SpentInv
<1>6. InFlash => InFlash'
  BY <1>1 DEF InFlash
<1>7. CASE left = {} /\ ~ save["main"]
  <2>1. pc' = [pc EXCEPT !["main"] = "idle"]
    BY <1>7, Zenon DEF FireMaster, Goto
  <2>2. \A d \in Ctx : pc'[d] = "idle"
    BY <1>1, <1>4, <2>1 DEF TypeOK
  <2>3. InFlash'
    BY <1>5, <1>6, <1>7
  <2> QED BY <1>3, <1>4, <2>2, <2>3 DEF SpentInv, Off
<1>8. CASE ~ (left = {} /\ ~ save["main"])
  <2>1. /\ UNCHANGED <<job, save>>
        /\ \E l \in {"val", "fire"} : pc' = [pc EXCEPT !["main"] = l]
    BY <1>8, Zenon DEF FireMaster, Goto
  <2>2. pc'["main"] \in {"val", "fire"} /\ pc'["isr"] = "idle"
    BY <1>1, <1>4, <2>1 DEF TypeOK, Ctx
  <2>3. Late'
    BY <1>5, <2>1, <2>2 DEF Late
  <2>4. job'["main"] = "timer" /\ (save'["main"] \/ InFlash')
    BY <1>5, <1>6, <2>1
  <2>5. \A d \in Ctx : pc'[d] \notin {"copy", "erase", "write"}
    BY <1>4, <2>2
  <2> QED BY <1>3, <2>3, <2>4, <2>5 DEF SpentInv, Off
<1> QED BY <1>7, <1>8

\* The starts of a handler.
LEMMA KeepsStart ==
  ASSUME TypeOK, \/ \E r \in Requests : Message(r)
                 \/ KeyShort
                 \/ KeyReset
  PROVE  Keeps("main")
<1>1. "main" \in Ctx  BY DEF Ctx
<1>2. ASSUME NEW r, Idle, StartJson("main", r), UNCHANGED <<cfg, device, ghosts>>
      PROVE  Keeps("main")
  <2>1. /\ UNCHANGED <<cfg, flash, spent, buf, save>>
        /\ pc["main"] = "idle"
        /\ pc' = [pc EXCEPT !["main"] = "setting"]
        /\ todo' = [todo EXCEPT !["main"] = Touched(r)]
        /\ job' = [job EXCEPT !["main"] = "json"]
    BY <1>2, Zenon DEF Idle, StartJson, Goto, device, ghosts
  <2> QED BY <1>1, <2>1 DEF Keeps, Late, TypeOK
<1>3. ASSUME NEW r \in Requests, Message(r) PROVE Keeps("main")
  BY <1>2, <1>3, Zenon DEF Message
<1>4. CASE KeyShort
  BY <1>2, <1>4, Zenon DEF KeyShort
<1>5. CASE KeyReset
  <2>1. /\ UNCHANGED <<flash, spent, buf, save>>
        /\ cfg' = [cfg EXCEPT !.named = FALSE]
        /\ pc["main"] = "idle"
        /\ pc' = [pc EXCEPT !["main"] = "copy"]
        /\ todo' = [todo EXCEPT !["main"] = Plug]
        /\ job' = [job EXCEPT !["main"] = "reset"]
    BY <1>5, Zenon DEF KeyReset, Idle, Goto, device, ghosts
  <2>2. cfg'.task = cfg.task
    BY <2>1, TaskField DEF TypeOK
  <2> QED BY <1>1, <2>1, <2>2 DEF Keeps, Late, TypeOK
<1> QED BY <1>3, <1>4, <1>5

LEMMA KeepsIrq == ASSUME TypeOK, NEW p \in Branch, ButtonIrq(p)
                  PROVE  Keeps("isr")
<1>1. /\ UNCHANGED <<cfg, flash, spent, buf, save>>
      /\ pc' = [pc EXCEPT !["isr"] = "setting"]
      /\ \E S : todo' = [todo EXCEPT !["isr"] = S]
      /\ job' = [job EXCEPT !["isr"] = "json"]
  BY Zenon DEF ButtonIrq, StartJson, Goto, device
<1>2. "isr" \in Ctx /\ "isr" # "main"  BY DEF Ctx
<1> QED BY <1>1, <1>2 DEF Keeps, TypeOK

LEMMA SpentInit == Init => SpentInv
<1> SUFFICES ASSUME Init PROVE SpentInv
  OBVIOUS
<1>1. pc["isr"] = "idle" /\ pc["main"] \in {"copy", "val"} /\ spent = {}
  BY DEF Init, Ctx
<1> QED BY <1>1 DEF SpentInv, InFlash

LEMMA SpentBoot == ASSUME TypeOK, SpentInv, Restart \/ PowerLoss PROVE SpentInv'
<1>1. PICK image \in {flash} \cup CutOff : image \in Config /\ Boot(image)
  BY BootImage
<1>2. /\ cfg' = Load(image) /\ flash' = image
      /\ pc'["isr"] = "idle" /\ pc'["main"] \in {"copy", "val"}
      /\ pc'["main"] = "copy" => todo'["main"] = Plug
  BY <1>1 DEF Boot, Ctx
<1>3. InFlash => \A t \in spent : OffAtBoot(image, t)
  <2>1. CASE image = flash
    BY <2>1 DEF InFlash
  <2>2. CASE image \in CutOff
    <3>1. PICK c \in Ctx, k \in Places : At(c, "write") /\ image = ProgramUpTo(flash, buf[c], k)
      BY <2>2 DEF CutOff
    <3>2. \A t \in spent : Off(buf[c], t) /\ t \in Plug \X Slot
      BY <3>1 DEF SpentInv, At, TypeOK
    <3>3. flash \in Config /\ buf[c] \in Config
      BY DEF TypeOK
    <3> QED BY <3>1, <3>2, <3>3, ProgramOff DEF InFlash
  <2> QED BY <2>1, <2>2
<1>4. \A t \in spent' : t \in spent /\ OffAtBoot(image, t) /\ t \in Plug \X Slot
  <2>1. CASE Restart
    <3>1. ~ Late /\ spent' = spent
      BY <2>1 DEF Restart, Idle, Late
    <3> QED BY <1>3, <3>1 DEF SpentInv, TypeOK
  <2>2. CASE PowerLoss
    <3>1. spent' = IF Late THEN {} ELSE spent
      BY <2>2, Zenon DEF PowerLoss, Late
    <3> QED BY <1>3, <3>1 DEF SpentInv, TypeOK
  <2> QED BY <2>1, <2>2
<1>5. InFlash'
  BY <1>2, <1>4 DEF InFlash
<1>6. \A d \in Ctx : pc'[d] \in {"idle", "val"} \/ (pc'[d] = "copy" /\ todo'[d] = Plug)
  BY <1>2 DEF Ctx
<1>7. \A t \in spent' : Off(cfg', t)
  BY <1>1, <1>2, <1>4, LoadOff
<1>8. \A t \in spent' : t[1] \in Plug
  BY <1>4
<1> QED BY <1>2, <1>5, <1>6, <1>7, <1>8 DEF SpentInv, Off

LEMMA SpentStep == TypeOK /\ SpentInv /\ [Next]_vars => SpentInv'
<1> SUFFICES ASSUME TypeOK, SpentInv, [Next]_vars PROVE SpentInv'
  OBVIOUS
<1>1. ASSUME NEW c \in Ctx, Step(c) PROVE SpentInv'
  <2>1. ASSUME NEW up \in BOOLEAN, Setting(c, up) PROVE SpentInv'
    BY <2>1, KeepsSetting, SpentKept
  <2>2. ASSUME NEW x \in Plug,
               PlugOn(c, x) \/ PlugRule(c, x) \/ PlugClear(c, x) \/ WriteBack(c, x)
        PROVE  SpentInv'
    BY <2>2, KeepsPlug, SpentKept
  <2>3. ASSUME NEW x \in Plug, PlugStore(c, x) PROVE SpentInv'
    BY <2>3, KeepsStore, SpentKept
  <2>4. CASE \/ \E x \in Plug : Body(c, x) \/ ComputeByte(c, x)
             \/ \E S \in SUBSET Plug : ReadArgs(c, S)
    BY <2>4, KeepsBody, SpentKept
  <2>5. ASSUME NEW ok \in BOOLEAN, WriteRelay(c, ok) \/ Send(c) PROVE SpentInv'
    BY <2>5, KeepsRelay, SpentKept
  <2>6. CASE (\E p \in Plug : CopyPlug(c, p)) \/ EraseSector(c) \/ WriteSector(c)
    BY <2>6, SpentSave
  <2> QED BY <1>1, <2>1, <2>2, <2>3, <2>4, <2>5, <2>6, Zenon DEF Step
<1>2. ASSUME NEW p \in Plug, NEW s \in Slot, Fire(p, s) \/ FireMaster(p, s) PROVE SpentInv'
  BY <1>2, SpentFire, SpentMaster
<1>3. CASE (\E r \in Requests : Message(r)) \/ KeyShort \/ KeyReset
  <2>1. "main" \in Ctx  BY DEF Ctx
  <2> QED BY <1>3, <2>1, KeepsStart, SpentKept
<1>4. ASSUME NEW D \in SUBSET (Plug \X Slot), Tick(D) PROVE SpentInv'
  <2>1. /\ UNCHANGED <<cfg, flash, spent, save>>
        /\ pc["main"] = "idle" /\ pc["isr"] = "idle"
        /\ pc' = [pc EXCEPT !["main"] = "fire"]
        /\ job' = [job EXCEPT !["main"] = "timer"]
    BY <1>4, Zenon DEF Tick, Idle, Goto, device, ghosts
  <2>2. pc'["main"] = "fire" /\ pc'["isr"] = "idle" /\ job'["main"] = "timer"
    BY <2>1 DEF TypeOK, Ctx
  <2>3. InFlash'
    <3>1. ~ Late  BY <2>1 DEF Late
    <3> QED BY <2>1, <3>1 DEF SpentInv, InFlash
  <2>4. \A d \in Ctx : pc'[d] \notin {"copy", "erase", "write"}
    BY <2>2 DEF Ctx
  <2>5. \A t \in spent' : Off(cfg', t)
    BY <2>1 DEF SpentInv, Off
  <2> QED BY <2>2, <2>3, <2>4, <2>5 DEF SpentInv, Off
<1>5. ASSUME NEW p \in Branch, ButtonIrq(p) PROVE SpentInv'
  <2>1. "isr" \in Ctx  BY DEF Ctx
  <2> QED BY <1>5, <2>1, KeepsIrq, SpentKept
<1>6. CASE Restart \/ PowerLoss
  BY <1>6, SpentBoot
<1>7. CASE RequestRestart \/ UNCHANGED vars
  <2>1. UNCHANGED <<cfg, flash, pc, todo, buf, job, save, spent>>
    BY <1>7, Zenon DEF RequestRestart, vars, locals, ghosts
  <2> QED BY <2>1 DEF SpentInv, InFlash, Late, Off
<1> QED BY <1>1, <1>2, <1>3, <1>4, <1>5, <1>6, <1>7, Zenon DEF Next

\* A one-shot task of user_os_timer_func that has fired is not armed again by
\* saves, restarts, presses or power failures, until a client sets it.
THEOREM SpentTaskStaysOff == Spec => []OneShotStaysOff
<1>1. SpentInv => OneShotStaysOff
  BY DEF SpentInv, Off, OneShotStaysOff
<1> QED BY <1>1, TypeInit, TypeStep, SpentInit, SpentStep, PTL DEF Spec

-----------------------------------------------------------------------------
(* Reports and relays.                                                     *)

\* The press or the task that the two agreements except has happened.
Misreported == hit \cap {"report", "task"} # {}
Unswitched == hit \cap {"relay", "task"} # {}

\* Which handler can be where.
LabelOK(c) ==
  /\ pc[c] \in {"setting", "plug", "rule", "clear", "store", "args", "back"}
       => job[c] = "json"
  /\ pc[c] \in {"body", "send"} => job[c] \in {"json", "timer"}
  /\ pc[c] \in {"fire", "master"} => c = "main" /\ job[c] = "timer"
  /\ pc[c] \in {"rule", "clear", "args", "back"} => retained[c]
  /\ c = "isr" /\ pc[c] # "idle" => job[c] = "json"

\* The handler has still to send a report with values it has not read yet, or
\* has read and that are the last of main.
WillReport(c) ==
  \/ job[c] = "json" /\ pc[c] \in {"setting", "plug", "rule", "clear", "store", "body",
                                   "args", "back", "val", "i2c", "retry", "send"}
  \/ /\ job[c] = "timer"
     /\ \/ pc[c] \in {"fire", "master"} /\ save[c]
        \/ pc[c] \in {"val", "i2c", "retry", "copy", "erase", "write", "body", "send"}

\* Its report is composed, in snap; the sockets whose value it has read.
HasValues(c) == \/ pc[c] = "send"
                \/ job[c] = "json" /\ pc[c] \in {"args", "back", "val", "i2c", "retry"}

Values(c) == { p \in Plug : HasValues(c) \/ (pc[c] = "body" /\ p \notin todo[c]) }

\* The handler has still to drive the relays.
WillDrive(c) ==
  \/ pc[c] \in {"args", "back", "val", "i2c", "retry"}
  \/ job[c] = "json" /\ retained[c] /\ pc[c] \in {"plug", "rule", "clear", "store", "body"}
  \/ job[c] = "timer" /\ pc[c] \in {"fire", "master"} /\ save[c]

\* The byte is computed, in arg; the sockets it has been computed of.
HasByte(c) == pc[c] \in {"i2c", "retry"}

Loaded(c) == { p \in Plug : HasByte(c) \/ (pc[c] = "val" /\ p \notin todo[c]) }

ReportInv ==
  /\ \A c \in Ctx : LabelOK(c)
  /\ hit \cap {"args", "back"} # {} => Misreported
  /\ ~ Misreported =>
       /\ \A c \in Ctx, p \in Plug : p \in Values(c) => /\ snap[c][p] = cfg.on[p]
                                                        /\ c = "main" => pc["isr"] = "idle"
       /\ known => reported = cfg.on \/ \E c \in Ctx : WillReport(c)

RelayInv ==
  ~ Unswitched =>
    /\ \A c \in Ctx, p \in Plug : p \in Loaded(c) => /\ arg[c][p] = cfg.on[p]
                                                     /\ c = "main" => pc["isr"] = "idle"
    /\ acked => relay = RelayByte(cfg.on) \/ \E c \in Ctx : WillDrive(c)

\* A step of context c leaves the other one alone.
Alone(c) ==
  /\ c = "main" => pc["isr"] = "idle"
  /\ c = "isr" => pc["isr"] # "idle"
  /\ \A d \in Ctx \ {c} : /\ pc'[d] = pc[d] /\ job'[d] = job[d] /\ save'[d] = save[d]
                          /\ arg'[d] = arg[d] /\ snap'[d] = snap[d]
                          /\ retained'[d] = retained[d] /\ todo'[d] = todo[d]
  /\ LabelOK(c)'
  /\ hit \ {"rule"} \subseteq hit'
  /\ hit' \cap {"args", "back"} = hit \cap {"args", "back"}

\* To the report it changes the sockets and will report them, or changes
\* nothing, or sends.
Tells(c) ==
  ~ Misreported' =>
    \/ WillReport(c)' /\ Values(c)' = {} /\ UNCHANGED <<reported, known>>
    \/ /\ cfg'.on = cfg.on /\ UNCHANGED <<reported, known>>
       /\ WillReport(c) => WillReport(c)'
       /\ \A p \in Plug : p \in Values(c)' => \/ snap'[c][p] = cfg'.on[p]
                                              \/ p \in Values(c) /\ snap'[c][p] = snap[c][p]
    \/ cfg'.on = cfg.on /\ HasValues(c) /\ reported' = snap[c] /\ Values(c)' = {}

\* To the relays it changes the sockets and will drive them, or changes
\* nothing, or drives them.
Switching(c) ==
  ~ Unswitched' =>
    \/ WillDrive(c)' /\ Loaded(c)' = {} /\ UNCHANGED <<relay, acked>>
    \/ /\ cfg'.on = cfg.on /\ UNCHANGED <<relay, acked>>
       /\ WillDrive(c) => WillDrive(c)'
       /\ \A p \in Plug : p \in Loaded(c)' => \/ arg'[c][p] = cfg'.on[p]
                                              \/ p \in Loaded(c) /\ arg'[c][p] = arg[c][p]
    \/ /\ cfg'.on = cfg.on /\ HasByte(c)
       /\ acked' => relay' = RelayByte(arg[c])
       /\ Loaded(c)' # {} => arg'[c] = arg[c]

LEMMA ReportKept == ASSUME TypeOK, ReportInv, NEW c \in Ctx, Alone(c), Tells(c)
                    PROVE  ReportInv'
<1>1. \A d \in Ctx \ {c} : /\ LabelOK(d)' <=> LabelOK(d)
                           /\ WillReport(d)' <=> WillReport(d)
                           /\ Values(d)' = Values(d)
  BY DEF Alone, LabelOK, WillReport, HasValues, Values
<1>2. \A d \in Ctx : LabelOK(d)'
  BY <1>1 DEF ReportInv, Alone
<1>3. Misreported => Misreported'
  BY DEF Alone, Misreported
<1>4. hit' \cap {"args", "back"} # {} => Misreported'
  BY <1>3 DEF Alone, ReportInv
<1>5. ASSUME ~ Misreported'
      PROVE  /\ \A d \in Ctx, p \in Plug : p \in Values(d)' => /\ snap'[d][p] = cfg'.on[p]
                                                               /\ d = "main" => pc'["isr"] = "idle"
             /\ known' => reported' = cfg'.on \/ \E d \in Ctx : WillReport(d)'
  <2>1. /\ \A d \in Ctx, p \in Plug : p \in Values(d) => /\ snap[d][p] = cfg.on[p]
                                                         /\ d = "main" => pc["isr"] = "idle"
        /\ known => reported = cfg.on \/ \E d \in Ctx : WillReport(d)
    BY <1>3, <1>5 DEF ReportInv
  <2>2. ASSUME NEW d \in Ctx \ {c} PROVE Values(d)' = {}
    <3>1. CASE d = "main"
      <4>1. \A p \in Plug : p \notin Values(d)
        BY <2>1, <3>1 DEF Alone, Ctx
      <4> QED BY <1>1, <4>1 DEF Values
    <3>2. CASE d = "isr"
      <4>1. pc[d] = "idle"
        BY <3>2 DEF Alone, Ctx
      <4> QED BY <1>1, <4>1 DEF Values, HasValues
    <3> QED BY <3>1, <3>2 DEF Ctx
  <2>3. c = "main" => pc'["isr"] = "idle"
    BY DEF Alone, Ctx
  <2>4. CASE WillReport(c)' /\ Values(c)' = {} /\ UNCHANGED <<reported, known>>
    BY <2>2, <2>4
  <2>5. CASE /\ cfg'.on = cfg.on /\ UNCHANGED <<reported, known>>
             /\ WillReport(c) => WillReport(c)'
             /\ \A p \in Plug : p \in Values(c)' => \/ snap'[c][p] = cfg'.on[p]
                                                    \/ p \in Values(c) /\ snap'[c][p] = snap[c][p]
    BY <1>1, <2>1, <2>2, <2>3, <2>5
  <2>6. CASE cfg'.on = cfg.on /\ HasValues(c) /\ reported' = snap[c] /\ Values(c)' = {}
    <3>1. \A p \in Plug : snap[c][p] = cfg.on[p]
      BY <2>1, <2>6 DEF Values
    <3>2. snap[c] = cfg.on
      BY <3>1 DEF TypeOK, Config
    <3> QED BY <2>2, <2>6, <3>2
  <2> QED BY <1>5, <2>4, <2>5, <2>6 DEF Tells
<1> QED BY <1>2, <1>4, <1>5 DEF ReportInv

LEMMA RelayKept == ASSUME TypeOK, RelayInv, NEW c \in Ctx, Alone(c), Switching(c)
                   PROVE  RelayInv'
<1> SUFFICES ASSUME ~ Unswitched' PROVE RelayInv'
  BY DEF RelayInv
<1>1. \A d \in Ctx \ {c} : /\ WillDrive(d)' <=> WillDrive(d)
                           /\ Loaded(d)' = Loaded(d)
  BY DEF Alone, WillDrive, HasByte, Loaded
<1>2. ~ Unswitched
  BY DEF Alone, Unswitched
<1>3. /\ \A d \in Ctx, p \in Plug : p \in Loaded(d) => /\ arg[d][p] = cfg.on[p]
                                                       /\ d = "main" => pc["isr"] = "idle"
      /\ acked => relay = RelayByte(cfg.on) \/ \E d \in Ctx : WillDrive(d)
  BY <1>2 DEF RelayInv
<1>4. ASSUME NEW d \in Ctx \ {c} PROVE Loaded(d)' = {}
  <2>1. CASE d = "main"
    <3>1. \A p \in Plug : p \notin Loaded(d)
      BY <1>3, <2>1 DEF Alone, Ctx
    <3> QED BY <1>1, <3>1 DEF Loaded
  <2>2. CASE d = "isr"
    <3>1. pc[d] = "idle"
      BY <2>2 DEF Alone, Ctx
    <3> QED BY <1>1, <3>1 DEF Loaded, HasByte
  <2> QED BY <2>1, <2>2 DEF Ctx
<1>5. c = "main" => pc'["isr"] = "idle"
  BY DEF Alone, Ctx
<1>6. /\ \A d \in Ctx, p \in Plug : p \in Loaded(d)' => /\ arg'[d][p] = cfg'.on[p]
                                                        /\ d = "main" => pc'["isr"] = "idle"
      /\ acked' => relay' = RelayByte(cfg'.on) \/ \E d \in Ctx : WillDrive(d)'
  <2>1. CASE WillDrive(c)' /\ Loaded(c)' = {} /\ UNCHANGED <<relay, acked>>
    BY <1>4, <2>1
  <2>2. CASE /\ cfg'.on = cfg.on /\ UNCHANGED <<relay, acked>>
             /\ WillDrive(c) => WillDrive(c)'
             /\ \A p \in Plug : p \in Loaded(c)' => \/ arg'[c][p] = cfg'.on[p]
                                                    \/ p \in Loaded(c) /\ arg'[c][p] = arg[c][p]
    BY <1>1, <1>3, <1>4, <1>5, <2>2
  <2>3. CASE /\ cfg'.on = cfg.on /\ HasByte(c)
             /\ acked' => relay' = RelayByte(arg[c])
             /\ Loaded(c)' # {} => arg'[c] = arg[c]
    <3>1. \A p \in Plug : arg[c][p] = cfg.on[p]
      BY <1>3, <2>3 DEF Loaded
    <3>2. arg[c] = cfg.on
      BY <3>1 DEF TypeOK, Config
    <3> QED BY <1>4, <1>5, <2>3, <3>2
  <2> QED BY <2>1, <2>2, <2>3 DEF Switching
<1> QED BY <1>6 DEF RelayInv

\* What the assignments to user_config leave of the sockets.
LEMMA OnField ==
  ASSUME NEW d \in Config
  PROVE  /\ \A x, v : [d EXCEPT !.on[x] = v].on = [d.on EXCEPT ![x] = v]
         /\ \A x, t : [d EXCEPT !.task[x] = t].on = d.on
         /\ \A f, g, h : [d EXCEPT !.interval = f, !.named = g, !.mqtt = h].on = d.on
         /\ \A b : [d EXCEPT !.named = b].on = d.on
  BY DEF Config

LEMMA AgreeSetting == ASSUME TypeOK, ReportInv, NEW c \in Ctx, NEW up \in BOOLEAN,
                             Setting(c, up)
                      PROVE  Alone(c) /\ Tells(c) /\ Switching(c)
<1>1. cfg'.on = cfg.on
  <2>1. \E f, g, h : cfg' = [cfg EXCEPT !.interval = f, !.named = g, !.mqtt = h]
    BY Zenon DEF Setting
  <2> QED BY <2>1, OnField DEF TypeOK
<1>2. /\ UNCHANGED <<relay, acked, reported, known, hit, arg, snap, retained, job>>
      /\ pc[c] = "setting" /\ (c = "main" => pc["isr"] = "idle")
      /\ pc' = [pc EXCEPT ![c] = IF todo[c] = {} THEN "body" ELSE "plug"]
      /\ todo' = [todo EXCEPT ![c] = IF @ = {} THEN Plug ELSE @]
      /\ \E b : save' = [save EXCEPT ![c] = b]
  BY Zenon DEF Setting, At, Goto, ghosts
<1>3. /\ \A d \in Ctx \ {c} : pc'[d] = pc[d] /\ save'[d] = save[d] /\ todo'[d] = todo[d]
      /\ pc'[c] \in {"plug", "body"} /\ (pc'[c] = "body" => todo'[c] = Plug)
      /\ job[c] = "json"
  BY <1>2 DEF TypeOK, ReportInv, LabelOK
<1>4. Alone(c)
  BY <1>2, <1>3 DEF Alone, LabelOK
<1>5. Tells(c)
  BY <1>2, <1>3 DEF Tells, WillReport, HasValues, Values
<1>6. Switching(c)
  BY <1>1, <1>2, <1>3 DEF Switching, WillDrive, HasByte, Loaded
<1> QED BY <1>4, <1>5, <1>6

LEMMA AgreePlug ==
  ASSUME TypeOK, ReportInv, NEW c \in Ctx, NEW x \in Plug,
         PlugOn(c, x) \/ PlugRule(c, x) \/ PlugClear(c, x) \/ PlugStore(c, x)
  PROVE  Alone(c) /\ Tells(c) /\ Switching(c)
<1>1. /\ UNCHANGED <<relay, acked, reported, known, hit, arg, snap, job, save>>
      /\ pc[c] \in {"plug", "rule", "clear", "store"} /\ (c = "main" => pc["isr"] = "idle")
  BY Zenon DEF PlugOn, PlugRule, PlugClear, PlugStore, At, device, ghosts
<1>2. job[c] = "json"
  BY <1>1 DEF ReportInv, LabelOK
<1>3. /\ \A d \in Ctx \ {c} : /\ pc'[d] = pc[d] /\ retained'[d] = retained[d]
                            /\ todo'[d] = todo[d]
      /\ pc'[c] = "body" => todo'[c] = Plug
      /\ \/ pc'[c] \in {"rule", "clear", "store"} /\ retained'[c]
         \/ /\ pc'[c] \in {"store", "plug", "body"} /\ cfg'.on = cfg.on
            /\ retained[c] => retained'[c]
  <2>1. CASE PlugOn(c, x)
    <3>1. /\ \/ pc' = [pc EXCEPT ![c] = "rule"] /\ retained' = [retained EXCEPT ![c] = TRUE]
             \/ pc' = [pc EXCEPT ![c] = "store"] /\ cfg' = cfg /\ retained' = retained
          /\ todo' = todo
      BY <2>1, Zenon DEF PlugOn, Goto
    <3> QED BY <3>1 DEF TypeOK
  <2>2. CASE PlugRule(c, x)
    <3>1. /\ pc[c] = "rule" /\ retained' = retained
          /\ \E l \in {"clear", "store"} : pc' = [pc EXCEPT ![c] = l]
          /\ \E S : todo' = [todo EXCEPT ![c] = S] \/ todo' = todo
      BY <2>2, Zenon DEF PlugRule, Goto, At
    <3> QED BY <3>1 DEF TypeOK, ReportInv, LabelOK
  <2>3. CASE PlugClear(c, x)
    <3>1. /\ pc[c] = "clear" /\ retained' = retained
          /\ pc' = pc \/ pc' = [pc EXCEPT ![c] = "store"]
          /\ \E S : todo' = [todo EXCEPT ![c] = S]
      BY <2>3, Zenon DEF PlugClear, Goto, At
    <3> QED BY <3>1 DEF TypeOK, ReportInv, LabelOK
  <2>4. CASE PlugStore(c, x)
    <3>1. /\ pc' = [pc EXCEPT ![c] = IF todo[c] = {x} THEN "body" ELSE "plug"]
          /\ todo' = [todo EXCEPT ![c] = IF @ = {x} THEN Plug ELSE @ \ {x}]
          /\ \E b : retained' = [retained EXCEPT ![c] = @ \/ b]
          /\ \E t : cfg' = [cfg EXCEPT !.task[x] = t]
      <4>1. \E b1, b2 : retained' = [retained EXCEPT ![c] = @ \/ b1 \/ b2]
        BY <2>4, Zenon DEF PlugStore
      <4> QED BY <2>4, <4>1, Zenon DEF PlugStore, Goto
    <3>2. cfg'.on = cfg.on
      BY <3>1, OnField DEF TypeOK
    <3> QED BY <3>1, <3>2 DEF TypeOK
  <2> QED BY <2>1, <2>2, <2>3, <2>4
<1>4. Alone(c)
  BY <1>1, <1>2, <1>3 DEF Alone, LabelOK
<1>5. Tells(c)
  BY <1>1, <1>2, <1>3 DEF Tells, WillReport, HasValues, Values
<1>6. Switching(c)
  BY <1>1, <1>2, <1>3 DEF Switching, WillDrive, HasByte, Loaded
<1> QED BY <1>4, <1>5, <1>6

LEMMA AgreeBody == ASSUME TypeOK, ReportInv, NEW c \in Ctx, NEW x \in Plug, Body(c, x)
                   PROVE  Alone(c) /\ Tells(c) /\ Switching(c)
<1>1. /\ UNCHANGED <<cfg, relay, acked, reported, known, hit, arg, job, save, retained>>
      /\ pc[c] = "body" /\ (c = "main" => pc["isr"] = "idle") /\ x \in todo[c]
      /\ snap' = [snap EXCEPT ![c][x] = cfg.on[x]]
      /\ \/ /\ todo[c] = {x} /\ todo' = [todo EXCEPT ![c] = Plug]
            /\ pc' = [pc EXCEPT ![c] = IF job[c] = "json" /\ retained[c] THEN "args" ELSE "send"]
         \/ pc' = pc /\ todo' = [todo EXCEPT ![c] = @ \ {x}]
  BY Zenon DEF Body, At, First, Goto, device, ghosts, ReportBody, Drives
<1>2. /\ \A d \in Ctx \ {c} : pc'[d] = pc[d] /\ snap'[d] = snap[d] /\ todo'[d] = todo[d]
      /\ snap'[c][x] = cfg.on[x] /\ \A p \in Plug \ {x} : snap'[c][p] = snap[c][p]
      /\ \/ todo[c] = {x} /\ pc'[c] = IF job[c] = "json" /\ retained[c] THEN "args" ELSE "send"
         \/ pc'[c] = "body" /\ todo'[c] = todo[c] \ {x}
      /\ job[c] \in {"json", "timer"}
      /\ c = "isr" => job[c] = "json"
  BY <1>1 DEF TypeOK, ReportInv, LabelOK
<1>3. Alone(c)
  BY <1>1, <1>2 DEF Alone, LabelOK
<1>4. Tells(c)
  <2>1. \A p \in Plug : p \in Values(c)' => p = x \/ p \in Values(c)
    BY <1>1, <1>2 DEF Values, HasValues
  <2>2. WillReport(c)'
    BY <1>1, <1>2 DEF WillReport
  <2> QED BY <1>1, <1>2, <2>1, <2>2 DEF Tells
<1>5. Switching(c)
  BY <1>1, <1>2 DEF Switching, WillDrive, HasByte, Loaded
<1> QED BY <1>3, <1>4, <1>5

LEMMA AgreeArgs == ASSUME TypeOK, ReportInv, NEW c \in Ctx, NEW S \in SUBSET Plug,
                          ReadArgs(c, S)
                   PROVE  Alone(c) /\ Tells(c) /\ Switching(c)
<1>1. /\ UNCHANGED <<cfg, relay, acked, reported, known, hit, snap, job, save, retained>>
      /\ pc[c] = "args" /\ (c = "main" => pc["isr"] = "idle")
      /\ \E a : arg' = [arg EXCEPT ![c] = a]
      /\ pc' = pc \/ pc' = [pc EXCEPT ![c] = "back"]
      /\ \E T : todo' = [todo EXCEPT ![c] = T]
  BY Zenon DEF ReadArgs, At, Goto, device, ghosts
<1>2. /\ \A d \in Ctx \ {c} : pc'[d] = pc[d] /\ arg'[d] = arg[d] /\ todo'[d] = todo[d]
      /\ pc'[c] \in {"args", "back"}
      /\ job[c] = "json" /\ retained[c]
  BY <1>1 DEF TypeOK, ReportInv, LabelOK
<1>3. Alone(c)
  BY <1>1, <1>2 DEF Alone, LabelOK
<1>4. Tells(c)
  BY <1>1, <1>2 DEF Tells, WillReport, HasValues, Values
<1>5. Switching(c)
  BY <1>1, <1>2 DEF Switching, WillDrive, HasByte, Loaded
<1> QED BY <1>3, <1>4, <1>5

\* The report is safe because the arguments stored back are those read.
LEMMA AgreeStore == ASSUME TypeOK, ReportInv, ArgsInv, NEW c \in Ctx, NEW p \in Plug,
                           WriteBack(c, p)
                    PROVE  Alone(c) /\ Tells(c) /\ Switching(c)
<1>1. /\ UNCHANGED <<relay, acked, reported, known, hit, arg, snap, job, save, retained>>
      /\ pc[c] = "back" /\ (c = "main" => pc["isr"] = "idle")
      /\ \/ pc' = pc /\ \E T : todo' = [todo EXCEPT ![c] = T]
         \/ pc' = [pc EXCEPT ![c] = "val"] /\ todo' = [todo EXCEPT ![c] = Plug]
  BY Zenon DEF WriteBack, At, Goto, device, ghosts
<1>2. /\ \A d \in Ctx \ {c} : pc'[d] = pc[d] /\ todo'[d] = todo[d]
      /\ pc'[c] = "back" \/ (pc'[c] = "val" /\ todo'[c] = Plug)
      /\ job[c] = "json" /\ retained[c]
  BY <1>1 DEF TypeOK, ReportInv, LabelOK
<1>3. Alone(c)
  BY <1>1, <1>2 DEF Alone, LabelOK
<1>4. Tells(c)
  <2>1. ~ Misreported' => cfg' = cfg
    <3>1. ~ Misreported' => Undisturbed
      BY <1>1 DEF Misreported, Undisturbed, ReportInv
    <3> QED BY <3>1, StoreIsIdle
  <2> QED BY <1>1, <1>2, <2>1 DEF Tells, WillReport, HasValues, Values
<1>5. Switching(c)
  BY <1>1, <1>2 DEF Switching, WillDrive, HasByte, Loaded
<1> QED BY <1>3, <1>4, <1>5

LEMMA AgreeByte == ASSUME TypeOK, ReportInv, NEW c \in Ctx, NEW x \in Plug, ComputeByte(c, x)
                   PROVE  Alone(c) /\ Tells(c) /\ Switching(c)
<1>1. /\ UNCHANGED <<cfg, relay, acked, reported, known, hit, snap, job, save, retained>>
      /\ pc[c] = "val" /\ (c = "main" => pc["isr"] = "idle")
      /\ arg' = [arg EXCEPT ![c][x] = cfg.on[x]]
      /\ todo' = [todo EXCEPT ![c] = @ \ {x}]
      /\ \/ todo[c] = {x} /\ pc' = [pc EXCEPT ![c] = "i2c"]
         \/ pc' = pc
  BY Zenon DEF ComputeByte, At, Goto, device, ghosts
<1>2. /\ \A d \in Ctx \ {c} : pc'[d] = pc[d] /\ arg'[d] = arg[d] /\ todo'[d] = todo[d]
      /\ arg'[c][x] = cfg.on[x] /\ \A p \in Plug \ {x} : arg'[c][p] = arg[c][p]
      /\ todo'[c] = todo[c] \ {x}
      /\ (todo[c] = {x} /\ pc'[c] = "i2c") \/ pc'[c] = "val"
      /\ c = "isr" => job[c] = "json"
  BY <1>1 DEF TypeOK, ReportInv, LabelOK
<1>3. Alone(c)
  BY <1>1, <1>2 DEF Alone, LabelOK
<1>4. Tells(c)
  BY <1>1, <1>2 DEF Tells, WillReport, HasValues, Values
<1>5. Switching(c)
  <2>1. \A p \in Plug : p \in Loaded(c)' => p = x \/ p \in Loaded(c)
    BY <1>1, <1>2 DEF Loaded, HasByte
  <2>2. WillDrive(c)'
    BY <1>2 DEF WillDrive
  <2> QED BY <1>1, <1>2, <2>1, <2>2 DEF Switching
<1> QED BY <1>3, <1>4, <1>5

LEMMA AgreeContinue ==
  ASSUME TypeOK, NEW c \in Ctx, NEW l, Continue(c, l)
  PROVE  /\ \A d \in Ctx \ {c} : /\ pc'[d] = pc[d] /\ job'[d] = job[d] /\ save'[d] = save[d]
                                 /\ arg'[d] = arg[d] /\ snap'[d] = snap[d]
                                 /\ retained'[d] = retained[d] /\ todo'[d] = todo[d]
         /\ pc'[c] = l
         /\ l \in {"body", "val"} => todo'[c] = Plug
         /\ l = "idle" => job'[c] = "none"
         /\ l # "idle" => UNCHANGED <<job, save, arg, snap, retained>>
<1>1. CASE l = "idle"
  <2>1. Goto(c, l) /\ Return(c)  BY <1>1, Zenon DEF Continue
  <2> QED BY <1>1, <2>1 DEF Goto, Return, TypeOK
<1>2. CASE l # "idle"
  <2>1. /\ Goto(c, l) /\ UNCHANGED <<job, req, due, arg, snap, buf, save, retained>>
        /\ todo' = [todo EXCEPT ![c] = IF l \in {"copy", "body", "val"} THEN Plug ELSE @]
    BY <1>2, Zenon DEF Continue
  <2> QED BY <1>2, <2>1 DEF Goto, TypeOK
<1> QED BY <1>1, <1>2

LEMMA AgreeRelay == ASSUME TypeOK, ReportInv, NEW c \in Ctx, NEW ok \in BOOLEAN,
                           WriteRelay(c, ok)
                    PROVE  Alone(c) /\ Tells(c) /\ Switching(c)
<1>1. /\ UNCHANGED <<cfg, reported, known, hit>>
      /\ pc[c] \in {"i2c", "retry"} /\ (c = "main" => pc["isr"] = "idle")
      /\ acked' => relay' = RelayByte(arg[c])
  <2>1. relay' \in (IF ok THEN {RelayByte(arg[c])} ELSE {relay, RelayByte(arg[c])})
        /\ acked' = ok
    BY Zenon DEF WriteRelay, Transfer
  <2> QED BY <2>1, Zenon DEF WriteRelay, At, ghosts
<1>2. PICK l \in {"retry", AfterRelay(c)} : Continue(c, l)
  BY Zenon DEF WriteRelay
<1>3. /\ job[c] = "json" => l \in {"retry", "send"}
      /\ job[c] = "timer" => l \in {"retry", "copy"}
      /\ job[c] \notin {"json", "timer"} => l \in {"retry", "idle"}
  BY <1>2 DEF AfterRelay
<1>4. c = "isr" => job[c] = "json"
  BY <1>1 DEF ReportInv, LabelOK
<1>5. Alone(c)
  BY <1>1, <1>2, <1>3, <1>4, AgreeContinue DEF Alone, LabelOK
<1>6. Tells(c)
  BY <1>1, <1>2, <1>3, <1>4, AgreeContinue DEF Tells, WillReport, HasValues, Values
<1>7. Switching(c)
  BY <1>1, <1>2, <1>3, AgreeContinue DEF Switching, HasByte, Loaded
<1> QED BY <1>5, <1>6, <1>7

LEMMA AgreeSend == ASSUME TypeOK, ReportInv, NEW c \in Ctx, Send(c)
                   PROVE  Alone(c) /\ Tells(c) /\ Switching(c)
<1>1. /\ UNCHANGED <<cfg, relay, acked, hit>>
      /\ reported' = snap[c]
      /\ pc[c] = "send" /\ (c = "main" => pc["isr"] = "idle")
  BY Zenon DEF Send, At, ghosts
<1>2. PICK l \in {"copy", "idle"} : Continue(c, l)
  BY Zenon DEF Send
<1>3. c = "isr" => job[c] = "json"
  BY <1>1 DEF ReportInv, LabelOK
<1>4. Alone(c)
  BY <1>1, <1>2, <1>3, AgreeContinue DEF Alone, LabelOK
<1>5. Tells(c)
  BY <1>1, <1>2, AgreeContinue DEF Tells, HasValues, Values
<1>6. Switching(c)
  BY <1>1, <1>2, AgreeContinue DEF Switching, WillDrive, HasByte, Loaded
<1> QED BY <1>4, <1>5, <1>6

LEMMA AgreeSave ==
  ASSUME TypeOK, ReportInv, NEW c \in Ctx,
         (\E p \in Plug : CopyPlug(c, p)) \/ EraseSector(c) \/ WriteSector(c)
  PROVE  Alone(c) /\ Tells(c) /\ Switching(c)
<1>1. /\ UNCHANGED <<cfg, relay, acked, reported, known>>
      /\ pc[c] \in {"copy", "erase", "write"} /\ (c = "main" => pc["isr"] = "idle")
  BY Zenon DEF CopyPlug, EraseSector, WriteSector, At, device
<1>2. hit' = hit \/ hit' = hit \ {"rule"}
  <2>1. CASE (\E p \in Plug : CopyPlug(c, p)) \/ EraseSector(c)
    BY <2>1, Zenon DEF CopyPlug, EraseSector, ghosts
  <2>2. CASE WriteSector(c)
    BY <2>2, Zenon DEF WriteSector
  <2> QED BY <2>1, <2>2
<1>3. c = "isr" => job[c] = "json"
  BY <1>1 DEF ReportInv, LabelOK
<1>4. CASE (\E p \in Plug : CopyPlug(c, p)) \/ EraseSector(c)
  <2>1. /\ UNCHANGED <<job, save, arg, snap, retained>>
        /\ pc' = pc \/ \E l \in {"erase", "write"} : pc' = [pc EXCEPT ![c] = l]
        /\ todo' = todo \/ \E T : todo' = [todo EXCEPT ![c] = T]
    BY <1>4, Zenon DEF CopyPlug, EraseSector, Goto, locals
  <2>2. /\ \A d \in Ctx \ {c} : pc'[d] = pc[d] /\ todo'[d] = todo[d]
        /\ pc'[c] \in {"copy", "erase", "write"}
    BY <1>1, <2>1 DEF TypeOK
  <2>3. Alone(c)
    BY <1>1, <1>2, <1>3, <2>1, <2>2 DEF Alone, LabelOK
  <2>4. Tells(c)
    BY <1>1, <2>1, <2>2 DEF Tells, WillReport, HasValues, Values
  <2>5. Switching(c)
    BY <1>1, <2>1, <2>2 DEF Switching, WillDrive, HasByte, Loaded
  <2> QED BY <2>3, <2>4, <2>5
<1>5. CASE WriteSector(c)
  <2>1. PICK l : Continue(c, l) /\ l = (CASE job[c] = "timer" -> "body"
                                          [] job[c] = "boot"  -> "val"
                                          [] OTHER            -> "idle")
    BY <1>5, Zenon DEF WriteSector
  <2>2. /\ job[c] = "timer" => l = "body"
        /\ job[c] = "boot" => l = "val"
        /\ job[c] \notin {"timer", "boot"} => l = "idle"
    BY <2>1
  <2>3. Alone(c)
    BY <1>1, <1>2, <1>3, <2>1, <2>2, AgreeContinue DEF Alone, LabelOK
  <2>4. Tells(c)
    BY <1>1, <2>1, <2>2, AgreeContinue DEF Tells, WillReport, HasValues, Values
  <2>5. Switching(c)
    BY <1>1, <2>1, <2>2, AgreeContinue DEF Switching, WillDrive, HasByte, Loaded
  <2> QED BY <2>3, <2>4, <2>5
<1> QED BY <1>4, <1>5

\* A task that changes its socket is noted; one that opens the master is noted
\* with it, or the master is what "task" in hit says.
LEMMA AgreeFire ==
  ASSUME TypeOK, ReportInv, NEW p \in Plug, NEW s \in Slot, Fire(p, s)
  PROVE  Alone("main") /\ Tells("main") /\ Switching("main")
<1> DEFINE action == cfg.task[p][s].action
<1>1. /\ UNCHANGED <<relay, acked, reported, known, hit, job, todo, arg, snap, retained>>
      /\ pc["main"] = "fire" /\ pc["isr"] = "idle"
      /\ pc' = [pc EXCEPT !["main"] = "master"]
      /\ save' = [save EXCEPT !["main"] = Dirty(p, s)]
      /\ \E b : cfg' = [cfg EXCEPT !.on[p] = action, !.task[p][s].on = b]
  BY Zenon DEF Fire, At, Goto, device
<1>2. "main" \in Ctx  BY DEF Ctx
<1>3. cfg'.on = [cfg.on EXCEPT ![p] = action]
  <2>1. \A a, b : [cfg EXCEPT !.on[p] = a, !.task[p][s].on = b].on = [cfg.on EXCEPT ![p] = a]
    BY DEF TypeOK, Config
  <2> HIDE DEF action
  <2> QED BY <1>1, <2>1
<1>4. /\ \A d \in Ctx \ {"main"} : pc'[d] = pc[d] /\ save'[d] = save[d]
      /\ pc'["main"] = "master" /\ save'["main"] = Dirty(p, s)
      /\ job["main"] = "timer"
  BY <1>1, <1>2 DEF TypeOK, ReportInv, LabelOK
<1>5. ~ save'["main"] => cfg'.on = cfg.on /\ ~ save["main"]
  <2>1. ~ Dirty(p, s) => cfg.on[p] = action /\ ~ save["main"]
    BY DEF Dirty, Differs
  <2>2. cfg.on \in [Plug -> Byte]
    BY DEF TypeOK, Config
  <2>3. cfg.on[p] = action => [cfg.on EXCEPT ![p] = action] = cfg.on
    BY <2>2
  <2> QED BY <1>3, <1>4, <2>1, <2>3
<1>6. Alone("main")
  BY <1>1, <1>4 DEF Alone, LabelOK
<1>7. Tells("main")
  BY <1>1, <1>4, <1>5 DEF Tells, WillReport, HasValues, Values
<1>8. Switching("main")
  BY <1>1, <1>4, <1>5 DEF Switching, WillDrive, HasByte, Loaded
<1> QED BY <1>6, <1>7, <1>8

LEMMA AgreeMaster ==
  ASSUME TypeOK, ReportInv, NEW p \in Plug, NEW s \in Slot, FireMaster(p, s)
  PROVE  Alone("main") /\ Tells("main") /\ Switching("main")
<1> DEFINE opens == p > 0 /\ cfg.on[p] = 1
           left  == due \ {<<p, s>>}
<1>1. /\ UNCHANGED <<relay, acked, reported, known>>
      /\ pc["main"] = "master" /\ pc["isr"] = "idle"
      /\ cfg' = IF opens THEN [cfg EXCEPT !.on[0] = 1] ELSE cfg
      /\ hit' = IF opens /\ cfg.on[0] # 1 /\ ~ save["main"] THEN hit \cup {"task"} ELSE hit
      /\ \/ left = {} /\ ~ save["main"] /\ Goto("main", "idle") /\ Return("main")
         \/ /\ ~ (left = {} /\ ~ save["main"])
            /\ Goto("main", IF left = {} THEN "val" ELSE "fire")
            /\ todo' = [todo EXCEPT !["main"] = IF left = {} THEN Plug ELSE @]
            /\ UNCHANGED <<job, save, arg, snap, retained>>
  BY Zenon DEF FireMaster, At, device
<1>2. "main" \in Ctx /\ job["main"] = "timer"
  BY <1>1 DEF Ctx, ReportInv, LabelOK
<1>3. save["main"] \/ cfg'.on = cfg.on \/ "task" \in hit'
  <2>1. cfg.on \in [Plug -> Byte]
    BY DEF TypeOK, Config
  <2>2. cfg.on[0] = 1 => [cfg.on EXCEPT ![0] = 1] = cfg.on
    BY <2>1
  <2>3. [cfg EXCEPT !.on[0] = 1].on = [cfg.on EXCEPT ![0] = 1]
    BY OnField DEF TypeOK
  <2>4. CASE opens /\ cfg.on[0] # 1 /\ ~ save["main"]
    BY <1>1, <2>4
  <2>5. CASE ~ opens
    BY <1>1, <2>5
  <2>6. CASE opens /\ cfg.on[0] = 1
    BY <1>1, <2>2, <2>3, <2>6
  <2> QED BY <2>4, <2>5, <2>6
<1>4. hit \subseteq hit' /\ hit' \cap {"args", "back"} = hit \cap {"args", "back"}
  BY <1>1
<1>5. save["main"] \/ cfg'.on = cfg.on \/ (Misreported' /\ Unswitched')
  BY <1>3 DEF Misreported, Unswitched
<1>6. CASE left = {} /\ ~ save["main"] /\ Goto("main", "idle") /\ Return("main")
  <2>1. /\ \A d \in Ctx \ {"main"} :
             /\ pc'[d] = pc[d] /\ job'[d] = job[d] /\ save'[d] = save[d]
             /\ arg'[d] = arg[d] /\ snap'[d] = snap[d] /\ retained'[d] = retained[d]
             /\ todo'[d] = todo[d]
        /\ pc'["main"] = "idle"
    BY <1>2, <1>6 DEF Goto, Return, TypeOK
  <2>2. Alone("main")
    BY <1>1, <1>4, <2>1 DEF Alone, LabelOK
  <2>3. Tells("main")
    BY <1>1, <1>2, <1>5, <1>6, <2>1 DEF Tells, WillReport, HasValues, Values
  <2>4. Switching("main")
    BY <1>1, <1>2, <1>5, <1>6, <2>1 DEF Switching, WillDrive, HasByte, Loaded
  <2> QED BY <2>2, <2>3, <2>4
<1>7. CASE /\ ~ (left = {} /\ ~ save["main"])
           /\ Goto("main", IF left = {} THEN "val" ELSE "fire")
           /\ todo' = [todo EXCEPT !["main"] = IF left = {} THEN Plug ELSE @]
           /\ UNCHANGED <<job, save, arg, snap, retained>>
  <2>1. /\ \A d \in Ctx \ {"main"} : pc'[d] = pc[d] /\ todo'[d] = todo[d]
        /\ \/ pc'["main"] = "val" /\ save["main"] /\ todo'["main"] = Plug
           \/ pc'["main"] = "fire"
    BY <1>2, <1>7 DEF Goto, TypeOK
  <2>2. Alone("main")
    BY <1>1, <1>2, <1>4, <1>7, <2>1 DEF Alone, LabelOK
  <2>3. Tells("main")
    BY <1>1, <1>2, <1>5, <1>7, <2>1 DEF Tells, WillReport, HasValues, Values
  <2>4. Switching("main")
    BY <1>1, <1>2, <1>5, <1>7, <2>1 DEF Switching, WillDrive, HasByte, Loaded
  <2> QED BY <2>2, <2>3, <2>4
<1> QED BY <1>1, <1>6, <1>7

LEMMA AgreeStart ==
  ASSUME TypeOK, \/ \E r \in Requests : Message(r)
                 \/ KeyShort
                 \/ KeyReset
                 \/ \E D \in SUBSET (Plug \X Slot) : Tick(D)
  PROVE  Alone("main") /\ Tells("main") /\ Switching("main")
<1>1. "main" \in Ctx  BY DEF Ctx
<1>2. ASSUME NEW l \in {"setting", "copy", "fire"}, NEW j \in Job,
             pc' = [pc EXCEPT !["main"] = l], job' = [job EXCEPT !["main"] = j],
             l = "setting" => j = "json", l = "fire" => j = "timer", l = "copy" => j = "reset",
             Idle, cfg'.on = cfg.on, \E T : todo' \in {todo, [todo EXCEPT !["main"] = T]},
             UNCHANGED <<relay, acked, reported, known, hit, save, arg, snap, retained>>
      PROVE  Alone("main") /\ Tells("main") /\ Switching("main")
  <2>1. /\ \A d \in Ctx \ {"main"} : pc'[d] = pc[d] /\ job'[d] = job[d] /\ todo'[d] = todo[d]
        /\ pc'["main"] = l /\ job'["main"] = j
        /\ pc["main"] = "idle" /\ pc["isr"] = "idle"
    BY <1>1, <1>2 DEF TypeOK, Idle
  <2>2. Alone("main")
    BY <1>2, <2>1 DEF Alone, LabelOK
  <2>3. Tells("main")
    BY <1>2, <2>1 DEF Tells, WillReport, HasValues, Values
  <2>4. Switching("main")
    BY <1>2, <2>1 DEF Switching, WillDrive, HasByte, Loaded
  <2> QED BY <2>2, <2>3, <2>4
<1>3. ASSUME NEW r, Idle, StartJson("main", r), UNCHANGED <<cfg, device, ghosts>>
      PROVE  Alone("main") /\ Tells("main") /\ Switching("main")
  <2>1. "json" \in Job  BY DEF Job
  <2>2. /\ pc' = [pc EXCEPT !["main"] = "setting"] /\ job' = [job EXCEPT !["main"] = "json"]
        /\ Idle /\ cfg' = cfg /\ todo' = [todo EXCEPT !["main"] = Touched(r)]
        /\ UNCHANGED <<relay, acked, reported, known, hit, save, arg, snap, retained>>
    BY <1>3, Zenon DEF StartJson, Goto, device, ghosts
  <2> QED BY <1>2, <2>1, <2>2
<1>4. ASSUME NEW r \in Requests, Message(r)
      PROVE  Alone("main") /\ Tells("main") /\ Switching("main")
  BY <1>3, <1>4, Zenon DEF Message
<1>5. CASE KeyShort
  BY <1>3, <1>5, Zenon DEF KeyShort
<1>6. CASE KeyReset
  <2>1. "reset" \in Job  BY DEF Job
  <2>2. /\ pc' = [pc EXCEPT !["main"] = "copy"] /\ job' = [job EXCEPT !["main"] = "reset"]
        /\ Idle /\ cfg' = [cfg EXCEPT !.named = FALSE]
        /\ todo' = [todo EXCEPT !["main"] = Plug]
        /\ UNCHANGED <<relay, acked, reported, known, hit, save, arg, snap, retained>>
    BY <1>6, Zenon DEF KeyReset, Goto, device, ghosts
  <2>3. cfg'.on = cfg.on
    BY <2>2, OnField DEF TypeOK
  <2> QED BY <1>2, <2>1, <2>2, <2>3
<1>7. ASSUME NEW D \in SUBSET (Plug \X Slot), Tick(D)
      PROVE  Alone("main") /\ Tells("main") /\ Switching("main")
  <2>1. "timer" \in Job  BY DEF Job
  <2>2. /\ pc' = [pc EXCEPT !["main"] = "fire"] /\ job' = [job EXCEPT !["main"] = "timer"]
        /\ Idle /\ cfg' = cfg /\ todo' = todo
        /\ UNCHANGED <<relay, acked, reported, known, hit, save, arg, snap, retained>>
    BY <1>7, Zenon DEF Tick, Goto, device, ghosts
  <2> QED BY <1>2, <2>1, <2>2
<1> QED BY <1>4, <1>5, <1>6, <1>7

\* A press: in a window it excepts main, outside them main has neither values
\* nor a byte.
LEMMA AgreeIrq == ASSUME TypeOK, NEW p \in Branch, ButtonIrq(p)
                  PROVE  (ReportInv => ReportInv') /\ (RelayInv => RelayInv')
<1>1. /\ UNCHANGED <<cfg, relay, acked, reported, known, save, arg, snap>>
      /\ pc["isr"] = "idle"
      /\ pc' = [pc EXCEPT !["isr"] = "setting"]
      /\ job' = [job EXCEPT !["isr"] = "json"]
      /\ retained' = retained
      /\ \E T : todo' = [todo EXCEPT !["isr"] = T]
      /\ hit' = hit \cup Window
  BY Zenon DEF ButtonIrq, StartJson, Goto, device
<1>2. /\ "isr" \in Ctx /\ "main" \in Ctx
      /\ pc'["isr"] = "setting" /\ job'["isr"] = "json"
      /\ pc'["main"] = pc["main"] /\ job'["main"] = job["main"] /\ todo'["main"] = todo["main"]
      /\ \A d \in Ctx : d = "main" \/ d = "isr"
  BY <1>1 DEF Ctx, TypeOK
<1>3. ASSUME ReportInv PROVE ReportInv'
  <2>1. \A d \in Ctx : LabelOK(d)'
    BY <1>1, <1>2, <1>3 DEF ReportInv, LabelOK
  <2>2. /\ HasValues("main") => "report" \in Window
        /\ Values("main") # {} => "report" \in Window
    BY DEF Values, HasValues, Window, Windows
  <2>3. Window \cap {"args", "back"} # {} => "report" \in Window
    <3>1. Window \cap {"args", "back"} # {} => pc["main"] \in {"args", "back"}
      BY DEF Window, Windows
    <3>2. pc["main"] \in {"args", "back"} => HasValues("main")
      BY <1>2, <1>3 DEF ReportInv, LabelOK, HasValues
    <3> QED BY <2>2, <3>1, <3>2
  <2>4. hit' \cap {"args", "back"} # {} => Misreported'
    BY <1>1, <1>3, <2>3 DEF ReportInv, Misreported
  <2>5. ASSUME ~ Misreported'
        PROVE  /\ \A d \in Ctx, q \in Plug : q \notin Values(d)'
               /\ known' => reported' = cfg'.on \/ \E d \in Ctx : WillReport(d)'
    <3>1. Values("main") = {}
      BY <1>1, <2>2, <2>5 DEF Misreported
    <3>2. Values("main")' = {} /\ Values("isr")' = {}
      BY <1>2, <3>1 DEF Values, HasValues
    <3>3. WillReport("isr")'
      BY <1>2 DEF WillReport
    <3> QED BY <1>2, <3>2, <3>3
  <2> QED BY <2>1, <2>4, <2>5 DEF ReportInv
<1>4. ASSUME RelayInv, ~ Unswitched' PROVE RelayInv'
  <2>1. ~ Unswitched
    BY <1>1, <1>4 DEF Unswitched
  <2>2. Loaded("main") # {} => "relay" \in Window
    BY DEF Loaded, HasByte, Window, Windows
  <2>3. \A d \in Ctx : Loaded(d)' = {}
    <3>1. Loaded("main") = {}
      BY <1>1, <1>4, <2>2 DEF Unswitched
    <3> QED BY <1>2, <3>1 DEF Loaded, HasByte
  <2>4. \A d \in Ctx : WillDrive(d) => WillDrive(d)'
    BY <1>1, <1>2 DEF WillDrive
  <2>5. acked' => relay' = RelayByte(cfg'.on) \/ \E d \in Ctx : WillDrive(d)'
    BY <1>1, <1>4, <2>1, <2>4 DEF RelayInv
  <2> QED BY <2>3, <2>5 DEF RelayInv
<1>5. Unswitched' => RelayInv'
  BY DEF RelayInv
<1> QED BY <1>3, <1>4, <1>5

\* After a boot nothing is reported and nothing acknowledged.
LEMMA AgreeBoot == ASSUME NEW image, Boot(image) PROVE ReportInv' /\ RelayInv'
<1>1. /\ pc'["isr"] = "idle" /\ pc'["main"] \in {"copy", "val"} /\ job'["main"] = "boot"
      /\ ~ known' /\ ~ acked' /\ hit' \subseteq {"boot"} /\ todo'["main"] = Plug
      /\ "isr" # "main" /\ \A d \in Ctx : d = "main" \/ d = "isr"
  BY DEF Boot, Ctx
<1>2. \A d \in Ctx : LabelOK(d)' /\ Values(d)' = {} /\ Loaded(d)' = {}
  BY <1>1 DEF LabelOK, HasValues, HasByte, Values, Loaded
<1> QED BY <1>1, <1>2 DEF ReportInv, RelayInv

LEMMA AgreeInit == Init => ReportInv /\ RelayInv
<1> SUFFICES ASSUME Init PROVE ReportInv /\ RelayInv
  OBVIOUS
<1>1. /\ pc["isr"] = "idle" /\ pc["main"] \in {"copy", "val"} /\ job["main"] = "boot"
      /\ ~ known /\ ~ acked /\ hit = {} /\ todo["main"] = Plug
      /\ "isr" # "main" /\ \A d \in Ctx : d = "main" \/ d = "isr"
  BY DEF Init, Ctx
<1>2. \A d \in Ctx : LabelOK(d) /\ Values(d) = {} /\ Loaded(d) = {}
  BY <1>1 DEF LabelOK, HasValues, HasByte, Values, Loaded
<1> QED BY <1>1, <1>2 DEF ReportInv, RelayInv

LEMMA AgreeStep ==
  TypeOK /\ ArgsInv /\ ReportInv /\ RelayInv /\ [Next]_vars => ReportInv' /\ RelayInv'
<1> SUFFICES ASSUME TypeOK, ArgsInv, ReportInv, RelayInv, [Next]_vars
             PROVE  ReportInv' /\ RelayInv'
  OBVIOUS
<1>1. ASSUME NEW c \in Ctx, Step(c) PROVE ReportInv' /\ RelayInv'
  <2>1. Alone(c) /\ Tells(c) /\ Switching(c)
    BY <1>1, AgreeSetting, AgreePlug, AgreeBody, AgreeArgs, AgreeStore, AgreeByte, AgreeRelay,
       AgreeSend, AgreeSave, Zenon DEF Step
  <2> QED BY <2>1, ReportKept, RelayKept
<1>2. CASE \/ \E p \in Plug, s \in Slot : Fire(p, s) \/ FireMaster(p, s)
           \/ \E r \in Requests : Message(r)
           \/ KeyShort
           \/ KeyReset
           \/ \E D \in SUBSET (Plug \X Slot) : Tick(D)
  <2>1. Alone("main") /\ Tells("main") /\ Switching("main")
    BY <1>2, AgreeFire, AgreeMaster, AgreeStart
  <2>2. "main" \in Ctx  BY DEF Ctx
  <2> QED BY <2>1, <2>2, ReportKept, RelayKept
<1>3. CASE \E p \in Branch : ButtonIrq(p)
  BY <1>3, AgreeIrq
<1>4. CASE Restart \/ PowerLoss
  BY <1>4, BootImage, AgreeBoot
<1>5. CASE RequestRestart \/ UNCHANGED vars
  <2>1. UNCHANGED <<cfg, relay, acked, reported, known, pc, job, todo, arg, snap, save, retained,
                    hit>>
    BY <1>5, Zenon DEF RequestRestart, vars, locals, ghosts
  <2>2. \A d \in Ctx : /\ pc'[d] = pc[d] /\ job'[d] = job[d] /\ save'[d] = save[d]
                       /\ arg'[d] = arg[d] /\ snap'[d] = snap[d] /\ retained'[d] = retained[d]
                       /\ todo'[d] = todo[d]
    BY <2>1
  <2>3. \A d \in Ctx : LabelOK(d)' <=> LabelOK(d)
    BY <2>2 DEF LabelOK
  <2>4. \A d \in Ctx : (WillReport(d)' <=> WillReport(d)) /\ Values(d)' = Values(d)
    BY <2>2 DEF WillReport, HasValues, Values
  <2>5. \A d \in Ctx : (WillDrive(d)' <=> WillDrive(d)) /\ Loaded(d)' = Loaded(d)
    BY <2>2 DEF WillDrive, HasByte, Loaded
  <2>6. ReportInv'
    <3>1. hit' = hit /\ (Misreported' <=> Misreported)
      BY <2>1 DEF Misreported
    <3>2. "isr" \in Ctx  BY DEF Ctx
    <3> QED BY <2>1, <2>2, <2>3, <2>4, <3>1, <3>2 DEF ReportInv
  <2>7. RelayInv'
    <3>1. Unswitched' <=> Unswitched
      BY <2>1 DEF Unswitched
    <3>2. "isr" \in Ctx  BY DEF Ctx
    <3> QED BY <2>1, <2>2, <2>5, <3>1, <3>2 DEF RelayInv
  <2> QED BY <2>6, <2>7
<1> QED BY <1>1, <1>2, <1>3, <1>4, <1>5, Zenon DEF Next

\* The byte shows sockets that are 0 or 1: each on its own line.
LEMMA ByteShows == ASSUME NEW on \in [Plug -> {0, 1}] PROVE RelayShows(RelayByte(on), on)
<1>1. \A p \in Plug : p \in 0 .. 3
  BY PlugNumAssumption DEF Plug
<1>2. Bit(0, 0) = 0 /\ Bit(0, 1) = 0 /\ Bit(0, 2) = 0 /\ Bit(0, 3) = 0
  BY DEF Bit
<1>3. Bit(1, 0) = 1 /\ Bit(1, 1) = 0 /\ Bit(1, 2) = 0 /\ Bit(1, 3) = 0
  BY DEF Bit
<1>4. \A v \in {0, 1}, k \in 0 .. 3 : Bit(v, k) = 1 <=> v = 1 /\ k = 0
  <2> SUFFICES ASSUME NEW v \in {0, 1}, NEW k \in 0 .. 3 PROVE Bit(v, k) = 1 <=> v = 1 /\ k = 0
    OBVIOUS
  <2>1. k \in {0, 1, 2, 3}
    OBVIOUS
  <2> QED BY <1>2, <1>3, <2>1
<1>5. ASSUME NEW p \in Plug PROVE Line(p) \in RelayByte(on) <=> on[p] # 0
  <2>1. Line(p) \in 0 .. 7 /\ Line(p) \notin 0 .. 3 /\ on[p] \in {0, 1}
    BY <1>1 DEF Line
  <2>2. Line(p) \in RelayByte(on)
          <=> \E q \in Plug : Line(p) + q - 7 \in 0 .. 7 /\ Bit(on[q], Line(p) + q - 7) = 1
    BY <2>1 DEF RelayByte
  <2>3. ASSUME NEW q \in Plug, Line(p) + q - 7 \in 0 .. 7
        PROVE  Bit(on[q], Line(p) + q - 7) = 1 <=> on[q] = 1 /\ q = p
    <3>1. Line(p) + q - 7 \in 0 .. 3 /\ on[q] \in {0, 1} /\ (Line(p) + q - 7 = 0 <=> q = p)
      BY <1>1, <2>3 DEF Line
    <3> QED BY <1>4, <3>1
  <2>4. Line(p) + p - 7 \in 0 .. 7
    BY <1>1 DEF Line
  <2> QED BY <2>1, <2>2, <2>3, <2>4
<1> QED BY <1>5 DEF RelayShows

\* The last report a client has seen is the state of the sockets once every
\* handler is done, but for the presses and the tasks ReportAgrees excepts.
THEOREM LastReportAgrees == Spec => []ReportAgrees
<1>1. ReportInv => ReportAgrees
  BY DEF ReportInv, ReportAgrees, Misreported, Idle, WillReport, Ctx
<1> QED BY <1>1, TypeInit, TypeStep, ArgsInit, ArgsStep, AgreeInit, AgreeStep, PTL DEF Spec

\* The relays are what user_config says once every handler is done, but for the
\* presses and tasks RelayAgrees excepts, of sockets that are 0 or 1: the byte
\* user_io_set_plug_all shifts together shows no others.
THEOREM RelaysAgree == Spec => [](cfg.on \in [Plug -> {0, 1}] => RelayAgrees)
<1>1. RelayInv => (cfg.on \in [Plug -> {0, 1}] => RelayAgrees)
  <2> SUFFICES ASSUME RelayInv, cfg.on \in [Plug -> {0, 1}], Idle, acked, ~ Unswitched
               PROVE  RelayShows(relay, cfg.on)
    BY DEF RelayAgrees, Unswitched
  <2>1. relay = RelayByte(cfg.on)
    BY DEF RelayInv, Idle, WillDrive, Ctx
  <2> QED BY <2>1, ByteShows
<1> QED BY <1>1, TypeInit, TypeStep, ArgsInit, ArgsStep, AgreeInit, AgreeStep, PTL DEF Spec

-----------------------------------------------------------------------------
(* The flash.                                                              *)

\* A press has fallen inside a save of main, or a task opened the master unnoted.
Unsaved == hit \cap {"flash", "task"} # {}

\* The handler is going to save, or is saving.
WillSave(c) ==
  \/ pc[c] \in {"copy", "erase", "write"}
  \/ /\ job[c] = "json" /\ (save[c] \/ retained[c])
     /\ pc[c] \in {"plug", "rule", "clear", "store", "body", "args", "back", "val", "i2c",
                   "retry", "send"}
  \/ job[c] = "timer" /\ pc[c] \in {"fire", "master"} /\ save[c]
  \/ job[c] = "timer" /\ pc[c] \in {"val", "i2c", "retry"}

\* It has copied something.
Copying(c) == pc[c] \in {"erase", "write"} \/ (pc[c] = "copy" /\ todo[c] # Plug)

\* The image has the fields outside the sockets, and socket p, of user_config.
SameHead(d) == /\ d.named = cfg.named /\ d.version = cfg.version
               /\ d.interval = cfg.interval /\ d.mqtt = cfg.mqtt
SamePlug(d, p) == d.on[p] = cfg.on[p] /\ d.task[p] = cfg.task[p]

SavedInv ==
  /\ cfg.version = USER_CONFIG_VERSION
  /\ ~ Unsaved =>
       /\ \A c \in Ctx : Copying(c) => SameHead(buf[c]) /\ (c = "main" => pc["isr"] = "idle")
       /\ \A c \in Ctx, p \in Plug :
            (pc[c] = "copy" /\ p \notin todo[c]) \/ pc[c] \in {"erase", "write"}
              => SamePlug(buf[c], p)
       /\ \A c \in Ctx : pc[c] = "write" => flash = Erased
       /\ cfg.named => Load(flash) = cfg \/ \E c \in Ctx : WillSave(c)

\* An image that agrees everywhere is user_config; programmed into an erased
\* sector it is read back, and loading it changes nothing.
LEMMA SameImage == ASSUME NEW d \in Config, cfg \in Config, SameHead(d),
                          \A p \in Plug : SamePlug(d, p)
                   PROVE  d = cfg
<1>1. d.on = cfg.on /\ d.task = cfg.task
  BY DEF Config, SamePlug
<1> QED BY <1>1 DEF Config, SameHead

LEMMA ProgramByte == ASSUME NEW x \in Byte PROVE And8(255, x) = x
  BY DEF And8, AndBit, Byte

LEMMA ProgramErased == ASSUME NEW d \in Config PROVE Program(Erased, d) = d
<1> DEFINE e == Program(Erased, d)
<1>1. e.named = d.named
  <2>1. (FALSE \/ d.named) = d.named
    BY DEF Config
  <2> QED BY <2>1 DEF Program, Erased
<1>2. e.version = d.version /\ e.interval = d.interval /\ e.mqtt = d.mqtt
  BY ProgramByte DEF Program, Erased, Config
<1>3. e.on = d.on
  <2>1. e.on = [p \in Plug |-> And8(255, d.on[p])]
    BY DEF Program, Erased
  <2> QED BY <2>1, ProgramByte DEF Config
<1>4. e.task = d.task
  <2>1. \A p \in Plug, s \in Slot : e.task[p][s] = d.task[p][s]
    <3> SUFFICES ASSUME NEW p \in Plug, NEW s \in Slot PROVE e.task[p][s] = d.task[p][s]
      OBVIOUS
    <3>1. e.task[p][s] = [on     |-> And8(255, d.task[p][s].on),
                          repeat |-> And8(255, d.task[p][s].repeat),
                          action |-> And8(255, d.task[p][s].action)]
      BY DEF Program, Erased
    <3>2. d.task[p][s] \in Task
      BY DEF Config
    <3> QED BY <3>1, <3>2, ProgramByte DEF Task
  <2>2. e.task \in [Plug -> [Slot -> Task]] /\ d.task \in [Plug -> [Slot -> Task]]
    BY ProgramConfig, ConstantConfigs DEF Config
  <2> QED BY <2>1, <2>2
<1>5. e \in Config
  BY ProgramConfig, ConstantConfigs
<1> HIDE DEF e
<1>6. e = d
  BY <1>1, <1>2, <1>3, <1>4, <1>5 DEF Config
<1> QED BY <1>6 DEF e

LEMMA LoadVersion == ASSUME NEW d \in Config
                     PROVE  /\ Load(d).version = USER_CONFIG_VERSION
                            /\ d.named /\ d.version = USER_CONFIG_VERSION => Load(d) = d
  BY DEF Load, NeedsDefaults, Migrate, DefaultConfig, USER_CONFIG_VERSION, Config

\* The step does not save, and touches only locals of context c.
Apart(c) ==
  /\ flash' = flash
  /\ \A d \in Ctx \ {c} : todo'[d] = todo[d] /\ buf'[d] = buf[d]
  /\ pc'[c] = "copy" => todo'[c] = Plug
  /\ pc'[c] \notin {"erase", "write"}

\* What it changes it is going to save.
Retains(c) ==
  /\ cfg'.version = cfg.version
  /\ ~ Unsaved' => WillSave(c)' \/ (cfg' = cfg /\ ~ WillSave(c))

LEMMA SavedKept == ASSUME TypeOK, SavedInv, NEW c \in Ctx, Alone(c), Apart(c), Retains(c)
                   PROVE  SavedInv'
<1>1. cfg'.version = USER_CONFIG_VERSION
  BY DEF SavedInv, Retains
<1>2. ASSUME ~ Unsaved'
      PROVE  /\ \A d \in Ctx : Copying(d)' => SameHead(buf[d])' /\ (d = "main" => pc'["isr"] = "idle")
             /\ \A d \in Ctx, p \in Plug :
                  (pc'[d] = "copy" /\ p \notin todo'[d]) \/ pc'[d] \in {"erase", "write"}
                    => SamePlug(buf[d], p)'
             /\ \A d \in Ctx : pc'[d] = "write" => flash' = Erased
             /\ cfg'.named => Load(flash') = cfg' \/ \E d \in Ctx : WillSave(d)'
  <2>1. ~ Unsaved
    BY <1>2 DEF Alone, Unsaved
  <2>2. \A d \in Ctx \ {c} : (WillSave(d)' <=> WillSave(d)) /\ (Copying(d)' <=> Copying(d))
    BY DEF Alone, Apart, WillSave, Copying
  <2>3. \A d \in Ctx \ {c} : ~ Copying(d)
    BY <2>1 DEF SavedInv, Alone, Ctx, Copying
  <2>4. \A d \in Ctx : ~ Copying(d)'
    BY <2>2, <2>3 DEF Apart, Copying
  <2>5. \A d \in Ctx, p \in Plug :
           ~ ((pc'[d] = "copy" /\ p \notin todo'[d]) \/ pc'[d] \in {"erase", "write"})
    BY <2>4 DEF Copying
  <2>6. cfg'.named => Load(flash') = cfg' \/ \E d \in Ctx : WillSave(d)'
    <3>1. CASE WillSave(c)'
      BY <3>1
    <3>2. CASE cfg' = cfg /\ ~ WillSave(c)
      BY <2>1, <2>2, <3>2 DEF SavedInv, Apart
    <3> QED BY <1>2, <3>1, <3>2 DEF Retains
  <2> QED BY <2>4, <2>5, <2>6 DEF Copying
<1> QED BY <1>1, <1>2 DEF SavedInv

LEMMA VersionField ==
  ASSUME NEW d \in Config
  PROVE  /\ \A x, v : [d EXCEPT !.on[x] = v].version = d.version
         /\ \A x, t : [d EXCEPT !.task[x] = t].version = d.version
         /\ \A f, g, h : [d EXCEPT !.interval = f, !.named = g, !.mqtt = h].version = d.version
         /\ \A b : [d EXCEPT !.named = b].version = d.version
  BY DEF Config

LEMMA KeptApart == ASSUME NEW c \in Ctx, Keeps(c) PROVE Apart(c)
  BY DEF Keeps, Apart

LEMMA RetainSetting == ASSUME TypeOK, ReportInv, NEW c \in Ctx, NEW up \in BOOLEAN,
                              Setting(c, up)
                       PROVE  Retains(c)
<1> DEFINE r == req[c]
           sets == r.interval # 0 \/ r.name \/ r.mqtt # "none"
           i == IF r.interval # 0 THEN r.interval ELSE cfg.interval
           n == cfg.named \/ r.name
           m == IF r.mqtt # "none" THEN 1 ELSE cfg.mqtt
<1>1. /\ pc[c] = "setting" /\ job' = job
      /\ cfg' = [cfg EXCEPT !.interval = i, !.named = n, !.mqtt = m]
      /\ pc' = [pc EXCEPT ![c] = IF todo[c] = {} THEN "body" ELSE "plug"]
      /\ save' = [save EXCEPT ![c] = sets]
  BY Zenon DEF Setting, At, Goto
<1>2. pc'[c] \in {"body", "plug"} /\ save'[c] = sets /\ job'[c] = "json"
  BY <1>1 DEF TypeOK, ReportInv, LabelOK
<1>3. cfg'.version = cfg.version
  <2> HIDE DEF i, n, m
  <2> QED BY <1>1, VersionField DEF TypeOK
<1>4. CASE sets
  BY <1>2, <1>3, <1>4 DEF Retains, WillSave
<1>5. CASE ~ sets
  <2>1. i = cfg.interval /\ m = cfg.mqtt
    BY <1>5
  <2>2. n = cfg.named
    <3>1. cfg.named \in BOOLEAN /\ ~ r.name
      BY <1>5 DEF TypeOK, Config
    <3> QED BY <3>1
  <2>3. [cfg EXCEPT !.interval = cfg.interval, !.named = cfg.named, !.mqtt = cfg.mqtt] = cfg
    BY DEF TypeOK, Config
  <2>4. cfg' = cfg
    <3> HIDE DEF i, n, m
    <3> QED BY <1>1, <2>1, <2>2, <2>3
  <2> QED BY <1>1, <2>4 DEF Retains, WillSave
<1> QED BY <1>4, <1>5

LEMMA RetainPlug ==
  ASSUME TypeOK, ReportInv, NEW c \in Ctx, NEW x \in Plug,
         \/ PlugOn(c, x) \/ PlugRule(c, x) \/ PlugClear(c, x) \/ PlugStore(c, x)
         \/ WriteBack(c, x)
  PROVE  Retains(c)
<1>1. /\ UNCHANGED <<job, save>>
      /\ pc[c] \in {"plug", "rule", "clear", "store", "back"}
      /\ cfg \in Config
  BY Zenon DEF PlugOn, PlugRule, PlugClear, PlugStore, WriteBack, At, TypeOK
<1>2. job[c] = "json"
  BY <1>1 DEF ReportInv, LabelOK
<1>2a. ASSUME NEW y, NEW v, cfg' = [cfg EXCEPT !.on[y] = v] PROVE cfg'.version = cfg.version
  <2>1. [cfg EXCEPT !.on[y] = v].version = cfg.version
    BY <1>1, VersionField
  <2> QED BY <1>2a, <2>1, Zenon
<1>3. ASSUME NEW l \in {"plug", "rule", "clear", "store", "body", "back", "val"},
             pc'[c] = l, cfg'.version = cfg.version,
             retained'[c] \/ (cfg' = cfg /\ (retained[c] => retained'[c]))
      PROVE  Retains(c)
  BY <1>1, <1>2, <1>3 DEF Retains, WillSave
<1>4. CASE PlugOn(c, x)
  <2>1. \/ /\ pc' = [pc EXCEPT ![c] = "rule"] /\ retained' = [retained EXCEPT ![c] = TRUE]
           /\ \E v : cfg' = [cfg EXCEPT !.on[x] = v]
        \/ pc' = [pc EXCEPT ![c] = "store"] /\ cfg' = cfg /\ retained' = retained
    BY <1>4, Zenon DEF PlugOn, Goto
  <2>2. \/ pc'[c] = "rule" /\ retained'[c] /\ \E v : cfg' = [cfg EXCEPT !.on[x] = v]
        \/ pc'[c] = "store" /\ cfg' = cfg /\ retained' = retained
    BY <2>1 DEF TypeOK
  <2>3. cfg'.version = cfg.version
    BY <1>2a, <2>2
  <2> QED BY <1>3, <2>2, <2>3
<1>5. CASE PlugRule(c, x) \/ PlugClear(c, x) \/ WriteBack(c, x)
  <2>1. /\ pc[c] \in {"rule", "clear", "back"} /\ retained' = retained
        /\ pc' = pc \/ \E l \in {"clear", "store", "val"} : pc' = [pc EXCEPT ![c] = l]
        /\ cfg' = cfg \/ \E y, v : cfg' = [cfg EXCEPT !.on[y] = v]
    <3>1. CASE PlugRule(c, x)
      BY <3>1, Zenon DEF PlugRule, Goto, At
    <3>2. CASE PlugClear(c, x)
      BY <3>2, Zenon DEF PlugClear, Goto, At
    <3>3. CASE WriteBack(c, x)
      BY <3>3, Zenon DEF WriteBack, Goto, At
    <3> QED BY <1>5, <3>1, <3>2, <3>3
  <2>2. retained'[c]
    BY <2>1 DEF ReportInv, LabelOK
  <2>3. pc'[c] \in {"rule", "clear", "back", "store", "val"}
    BY <2>1 DEF TypeOK
  <2>4. cfg'.version = cfg.version
    <3>1. CASE cfg' = cfg  BY <3>1
    <3>2. CASE \E y, v : cfg' = [cfg EXCEPT !.on[y] = v]
      <4>1. PICK y, v : cfg' = [cfg EXCEPT !.on[y] = v]  BY <3>2
      <4> QED BY <1>2a, <4>1
    <3> QED BY <2>1, <3>1, <3>2
  <2> QED BY <1>3, <2>2, <2>3, <2>4
<1>6. CASE PlugStore(c, x)
  <2> DEFINE sets(s) == { t \in req[c].task : t[1] = x /\ t[2] = s }
             set == { s \in Slot : sets(s) # {} }
             tasks == [s \in Slot |-> IF s \in set THEN (CHOOSE t \in sets(s) : TRUE)[3]
                                                   ELSE cfg.task[x][s]]
  <2>1. /\ cfg' = [cfg EXCEPT !.task[x] = tasks]
        /\ retained' = [retained EXCEPT ![c] = @ \/ set # {} \/ x \in req[c].rename]
        /\ pc' = [pc EXCEPT ![c] = IF todo[c] = {x} THEN "body" ELSE "plug"]
    BY <1>6, Zenon DEF PlugStore, Goto
  <2>2. set = {} => tasks = cfg.task[x]
    <3>1. set = {} => tasks = [s \in Slot |-> cfg.task[x][s]]
      <4> HIDE DEF set
      <4> QED OBVIOUS
    <3>2. cfg.task[x] \in [Slot -> Task]
      BY <1>1 DEF Config
    <3> QED BY <3>1, <3>2
  <2>3. [cfg EXCEPT !.task[x] = cfg.task[x]] = cfg
    BY <1>1 DEF Config
  <2> HIDE DEF set, tasks
  <2>4. /\ pc'[c] \in {"body", "plug"}
        /\ retained'[c] <=> retained[c] \/ set # {} \/ x \in req[c].rename
    BY <2>1 DEF TypeOK
  <2>5. cfg'.version = cfg.version
    BY <1>1, <2>1, VersionField
  <2>6. retained'[c] \/ (cfg' = cfg /\ (retained[c] => retained'[c]))
    BY <2>1, <2>2, <2>3, <2>4
  <2> QED BY <1>3, <2>4, <2>5, <2>6
<1> QED BY <1>4, <1>5, <1>6

LEMMA RetainRelay ==
  ASSUME TypeOK, ReportInv, NEW c \in Ctx,
         \/ \E x \in Plug : Body(c, x) \/ ComputeByte(c, x)
         \/ \E S \in SUBSET Plug : ReadArgs(c, S)
         \/ (\E ok \in BOOLEAN : WriteRelay(c, ok)) \/ Send(c)
  PROVE  Retains(c)
<1>1. cfg' = cfg
  BY Zenon DEF Body, ReadArgs, ComputeByte, WriteRelay, Send
<1>2. LabelOK(c)
  BY DEF ReportInv
<1>3. ASSUME NEW x \in Plug, Body(c, x) PROVE Retains(c)
  <2>1. /\ pc[c] = "body" /\ UNCHANGED <<job, save, retained>>
        /\ pc' = pc \/ \E l \in {"args", "send"} : pc' = [pc EXCEPT ![c] = l]
    BY <1>3, Zenon DEF Body, At, Goto
  <2>2. pc'[c] \in {"body", "args", "send"}
    BY <2>1 DEF TypeOK
  <2> QED BY <1>1, <2>1, <2>2 DEF Retains, WillSave
<1>4. CASE (\E S \in SUBSET Plug : ReadArgs(c, S)) \/ (\E x \in Plug : ComputeByte(c, x))
  <2>1. /\ UNCHANGED <<job, save, retained>>
        /\ \/ pc[c] = "args" /\ (pc' = pc \/ pc' = [pc EXCEPT ![c] = "back"])
           \/ pc[c] = "val" /\ (pc' = pc \/ pc' = [pc EXCEPT ![c] = "i2c"])
    BY <1>4, Zenon DEF ReadArgs, ComputeByte, At, Goto
  <2>2. \/ pc[c] = "args" /\ pc'[c] \in {"args", "back"}
        \/ pc[c] = "val" /\ pc'[c] \in {"val", "i2c"}
    BY <2>1 DEF TypeOK
  <2> QED BY <1>1, <1>2, <2>1, <2>2 DEF Retains, WillSave, LabelOK
<1>5. ASSUME NEW ok \in BOOLEAN, WriteRelay(c, ok) PROVE Retains(c)
  <2>1. pc[c] \in {"i2c", "retry"} /\ \E l \in {"retry", AfterRelay(c)} : Continue(c, l)
    BY <1>5, Zenon DEF WriteRelay, At
  <2>2. PICK l \in {"retry", AfterRelay(c)} : Continue(c, l)
    BY <2>1
  <2>3. /\ job[c] = "json" => l \in {"retry", "send"}
        /\ job[c] = "timer" => l \in {"retry", "copy"}
        /\ job[c] \notin {"json", "timer"} => l \in {"retry", "idle"}
    BY <2>2 DEF AfterRelay
  <2> QED BY <1>1, <2>1, <2>2, <2>3, AgreeContinue DEF Retains, WillSave
<1>6. CASE Send(c)
  <2>1. pc[c] = "send" /\ Continue(c, IF Saves(c) THEN "copy" ELSE "idle")
    BY <1>6, Zenon DEF Send, At
  <2>2. Saves(c) => pc'[c] = "copy"
    BY <2>1, AgreeContinue
  <2>3. ~ Saves(c) => ~ WillSave(c)
    BY <2>1 DEF Saves, WillSave
  <2> QED BY <1>1, <2>2, <2>3 DEF Retains, WillSave
<1> QED BY <1>3, <1>4, <1>5, <1>6

LEMMA RetainStart ==
  ASSUME TypeOK, \/ \E r \in Requests : Message(r)
                 \/ KeyShort
                 \/ KeyReset
                 \/ \E D \in SUBSET (Plug \X Slot) : Tick(D)
  PROVE  Apart("main") /\ Retains("main")
<1>1. "main" \in Ctx  BY DEF Ctx
<1>2. ASSUME NEW r, Idle, StartJson("main", r), UNCHANGED <<cfg, device, ghosts>>
      PROVE  Apart("main") /\ Retains("main")
  <2>1. /\ UNCHANGED <<cfg, flash, buf>> /\ pc["main"] = "idle"
        /\ pc' = [pc EXCEPT !["main"] = "setting"]
        /\ todo' = [todo EXCEPT !["main"] = Touched(r)]
    BY <1>2, Zenon DEF Idle, StartJson, Goto, device
  <2> QED BY <1>1, <2>1 DEF Apart, Retains, WillSave, TypeOK
<1>3. ASSUME NEW r \in Requests, Message(r) PROVE Apart("main") /\ Retains("main")
  BY <1>2, <1>3, Zenon DEF Message
<1>4. CASE KeyShort
  BY <1>2, <1>4, Zenon DEF KeyShort
<1>5. CASE KeyReset
  <2>1. /\ UNCHANGED <<flash, buf>>
        /\ cfg' = [cfg EXCEPT !.named = FALSE]
        /\ pc' = [pc EXCEPT !["main"] = "copy"]
        /\ todo' = [todo EXCEPT !["main"] = Plug]
    BY <1>5, Zenon DEF KeyReset, Goto, device
  <2>2. cfg'.version = cfg.version
    BY <2>1, VersionField DEF TypeOK
  <2> QED BY <1>1, <2>1, <2>2 DEF Apart, Retains, WillSave, TypeOK
<1>6. ASSUME NEW D \in SUBSET (Plug \X Slot), Tick(D) PROVE Apart("main") /\ Retains("main")
  <2>1. /\ UNCHANGED <<cfg, flash, buf, todo>> /\ pc["main"] = "idle"
        /\ pc' = [pc EXCEPT !["main"] = "fire"]
    BY <1>6, Zenon DEF Tick, Idle, Goto, device
  <2> QED BY <1>1, <2>1 DEF Apart, Retains, WillSave, TypeOK
<1> QED BY <1>3, <1>4, <1>5, <1>6

LEMMA RetainFire == ASSUME TypeOK, ReportInv, NEW p \in Plug, NEW s \in Slot, Fire(p, s)
                    PROVE  Apart("main") /\ Retains("main")
<1> DEFINE action == cfg.task[p][s].action
           once == cfg.task[p][s].repeat = 0
           x == IF once THEN 0 ELSE cfg.task[p][s].on
<1>1. /\ UNCHANGED <<flash, buf, todo, job>>
      /\ pc["main"] = "fire"
      /\ pc' = [pc EXCEPT !["main"] = "master"]
      /\ save' = [save EXCEPT !["main"] = Dirty(p, s)]
      /\ cfg' = [cfg EXCEPT !.on[p] = action, !.task[p][s].on = x]
  BY Zenon DEF Fire, At, Goto, device
<1>2. "main" \in Ctx  BY DEF Ctx
<1>3. /\ pc'["main"] = "master" /\ save'["main"] = Dirty(p, s)
      /\ job["main"] = "timer"
  BY <1>1, <1>2 DEF TypeOK, ReportInv, LabelOK
<1>4. cfg'.version = cfg.version
  <2>1. ASSUME NEW v, NEW w, cfg' = [cfg EXCEPT !.on[p] = v, !.task[p][s].on = w]
        PROVE  cfg'.version = cfg.version
    BY <2>1 DEF TypeOK, Config
  <2>2. ASSUME NEW v, NEW w, v = action, w = x PROVE cfg'.version = cfg.version
    <3>1. cfg' = [cfg EXCEPT !.on[p] = v, !.task[p][s].on = w]
      BY <1>1, <2>2
    <3> QED BY <2>1, <3>1
  <2> QED BY <2>2
<1>5. CASE Dirty(p, s)
  BY <1>1, <1>2, <1>3, <1>4, <1>5 DEF Apart, Retains, WillSave
<1>6. CASE ~ Dirty(p, s)
  <2>1. cfg.on[p] = action /\ ~ once /\ ~ save["main"]
    BY <1>6 DEF Dirty, Differs
  <2>2. [cfg EXCEPT !.on[p] = cfg.on[p], !.task[p][s].on = cfg.task[p][s].on] = cfg
    <3> DEFINE t == cfg.task[p][s]
    <3>1. /\ cfg \in Config /\ cfg.task \in [Plug -> [Slot -> Task]]
          /\ cfg.task[p] \in [Slot -> Task] /\ t \in Task
      BY DEF TypeOK, Config
    <3>2. [t EXCEPT !.on = t.on] = t
      BY <3>1 DEF Task
    <3>3. [cfg.task[p] EXCEPT ![s] = t] = cfg.task[p]
      BY <3>1
    <3>4. [cfg.task EXCEPT ![p] = cfg.task[p]] = cfg.task
      BY <3>1
    <3>5. [cfg.task EXCEPT ![p][s].on = t.on] = cfg.task
      BY <3>2, <3>3, <3>4
    <3>6. [cfg EXCEPT !.on[p] = cfg.on[p]] = cfg
      BY <3>1 DEF Config
    <3>7. [cfg EXCEPT !.task = cfg.task] = cfg
      BY <3>1 DEF Config
    <3> QED BY <3>5, <3>6, <3>7
  <2>3. action = cfg.on[p] /\ x = cfg.task[p][s].on
    BY <2>1
  <2>4. cfg' = cfg
    <3>1. ASSUME NEW v, NEW w, v = cfg.on[p], w = cfg.task[p][s].on,
                 cfg' = [cfg EXCEPT !.on[p] = v, !.task[p][s].on = w]
          PROVE  cfg' = cfg
      BY <2>2, <3>1
    <3> HIDE DEF action, x
    <3> QED BY <1>1, <2>3, <3>1
  <2> QED BY <1>1, <1>2, <1>3, <2>1, <2>4 DEF Apart, Retains, WillSave
<1> QED BY <1>5, <1>6

LEMMA RetainMaster ==
  ASSUME TypeOK, ReportInv, NEW p \in Plug, NEW s \in Slot, FireMaster(p, s)
  PROVE  Apart("main") /\ Retains("main")
<1> DEFINE opens == p > 0 /\ cfg.on[p] = 1
           left  == due \ {<<p, s>>}
<1>1. /\ flash' = flash
      /\ pc["main"] = "master"
      /\ cfg' = IF opens THEN [cfg EXCEPT !.on[0] = 1] ELSE cfg
      /\ hit' = IF opens /\ cfg.on[0] # 1 /\ ~ save["main"] THEN hit \cup {"task"} ELSE hit
      /\ \/ left = {} /\ ~ save["main"] /\ Goto("main", "idle") /\ Return("main")
         \/ /\ ~ (left = {} /\ ~ save["main"])
            /\ Goto("main", IF left = {} THEN "val" ELSE "fire")
            /\ \E T : todo' = [todo EXCEPT !["main"] = T]
            /\ UNCHANGED <<job, save, buf>>
  BY Zenon DEF FireMaster, At, device
<1>2. "main" \in Ctx /\ job["main"] = "timer"
  BY <1>1 DEF Ctx, ReportInv, LabelOK
<1>3. (save["main"] \/ cfg' = cfg \/ Unsaved') /\ cfg'.version = cfg.version
  <2>1. cfg.on[0] = 1 => [cfg EXCEPT !.on[0] = 1] = cfg
    BY DEF TypeOK, Config
  <2>2. [cfg EXCEPT !.on[0] = 1].version = cfg.version
    BY VersionField DEF TypeOK
  <2>3. CASE ~ opens
    BY <1>1, <2>3
  <2>4. CASE opens /\ cfg.on[0] = 1
    <3>1. cfg' = [cfg EXCEPT !.on[0] = 1]  BY <1>1, <2>4
    <3>2. cfg' = cfg  BY <2>1, <2>4, <3>1, Zenon
    <3> QED BY <3>2
  <2>5. CASE opens /\ cfg.on[0] # 1
    <3>1. cfg' = [cfg EXCEPT !.on[0] = 1]  BY <1>1, <2>5
    <3>2. cfg'.version = cfg.version  BY <2>2, <3>1, Zenon
    <3>3. save["main"] \/ "task" \in hit'  BY <1>1, <2>5
    <3> QED BY <3>2, <3>3 DEF Unsaved
  <2> QED BY <2>3, <2>4, <2>5
<1>4. CASE left = {} /\ ~ save["main"] /\ Goto("main", "idle") /\ Return("main")
  <2>1. /\ \A d \in Ctx \ {"main"} : todo'[d] = todo[d] /\ buf'[d] = buf[d]
        /\ pc'["main"] = "idle"
    BY <1>2, <1>4 DEF Goto, Return, TypeOK
  <2> QED BY <1>1, <1>2, <1>3, <1>4, <2>1 DEF Apart, Retains, WillSave
<1>5. CASE /\ ~ (left = {} /\ ~ save["main"])
           /\ Goto("main", IF left = {} THEN "val" ELSE "fire")
           /\ \E T : todo' = [todo EXCEPT !["main"] = T]
           /\ UNCHANGED <<job, save, buf>>
  <2>1. /\ (pc'["main"] = "val" /\ save["main"]) \/ pc'["main"] = "fire"
        /\ \A d \in Ctx \ {"main"} : todo'[d] = todo[d]
    BY <1>2, <1>5 DEF Goto, TypeOK
  <2> QED BY <1>1, <1>2, <1>3, <1>5, <2>1 DEF Apart, Retains, WillSave
<1> QED BY <1>1, <1>4, <1>5

\* The three steps of a save: the copies agree with user_config, the sector is
\* erased, and what is then programmed is user_config.
LEMMA SavedSave ==
  ASSUME TypeOK, ReportInv, SavedInv, NEW c \in Ctx,
         (\E p \in Plug : CopyPlug(c, p)) \/ EraseSector(c) \/ WriteSector(c)
  PROVE  SavedInv'
<1>1. Alone(c) /\ cfg' = cfg
  <2>1. cfg' = cfg
    BY Zenon DEF CopyPlug, EraseSector, WriteSector
  <2> QED BY <2>1, AgreeSave
<1>2. cfg'.version = USER_CONFIG_VERSION
  BY <1>1 DEF SavedInv
<1> SUFFICES ASSUME ~ Unsaved' PROVE SavedInv'
  BY <1>2 DEF SavedInv
<1>3. ~ Unsaved
  BY <1>1 DEF Alone, Unsaved
<1>4. \A d \in Ctx \ {c} : ~ Copying(d) /\ pc'[d] = pc[d]
  BY <1>1, <1>3 DEF SavedInv, Alone, Ctx, Copying
<1>5. c = "main" => pc'["isr"] = "idle"
  BY <1>1 DEF Alone, Ctx
<1>6. ASSUME NEW p \in Plug, CopyPlug(c, p) PROVE SavedInv'
  <2>1. /\ buf' = [buf EXCEPT ![c] = Copied(c, p)]
        /\ todo' = [todo EXCEPT ![c] = @ \ {p}]
        /\ pc' = IF todo[c] = {p} THEN [pc EXCEPT ![c] = "erase"] ELSE pc
        /\ pc[c] = "copy"
    BY <1>6, Zenon DEF CopyPlug, At, Goto
  <2>2. /\ buf'[c] = Copied(c, p) /\ todo'[c] = todo[c] \ {p}
        /\ pc'[c] = IF todo[c] = {p} THEN "erase" ELSE "copy"
        /\ \A d \in Ctx \ {c} : todo'[d] = todo[d] /\ buf'[d] = buf[d]
    BY <2>1 DEF TypeOK
  <2>3. \A d \in Ctx \ {c} : ~ Copying(d)'
    BY <1>4, <2>2 DEF Copying
  <2>4. /\ Copied(c, p).named = cfg.named /\ Copied(c, p).version = cfg.version
        /\ Copied(c, p).interval = cfg.interval /\ Copied(c, p).mqtt = cfg.mqtt
        /\ Copied(c, p).on = [buf[c].on EXCEPT ![p] = cfg.on[p]]
        /\ Copied(c, p).task = [buf[c].task EXCEPT ![p] = cfg.task[p]]
    BY DEF Copied, TypeOK, Config
  <2>5. \A q \in Plug : q \notin todo[c] \ {p} => SamePlug(Copied(c, p), q)
    <3>1. buf[c].on \in [Plug -> Byte] /\ buf[c].task \in [Plug -> [Slot -> Task]]
      BY DEF TypeOK, Config
    <3>2. \A q \in Plug : q \notin todo[c] => SamePlug(buf[c], q)
      BY <1>3, <2>1 DEF SavedInv
    <3> QED BY <2>4, <3>1, <3>2 DEF SamePlug
  <2>6. SameHead(buf[c])' /\ \A q \in Plug : q \notin todo'[c] => SamePlug(buf[c], q)'
    BY <1>1, <2>2, <2>4, <2>5 DEF SameHead, SamePlug
  <2>7. pc'[c] = "erase" => \A q \in Plug : q \notin todo'[c]
    BY <2>2
  <2>8. \A d \in Ctx : pc'[d] # "write"
    BY <2>2, <2>3 DEF Copying
  <2>9. WillSave(c)'
    BY <2>2 DEF WillSave
  <2>10. \A d \in Ctx : Copying(d)' => SameHead(buf[d])' /\ (d = "main" => pc'["isr"] = "idle")
    BY <1>5, <2>3, <2>6
  <2>11. \A d \in Ctx, q \in Plug :
           (pc'[d] = "copy" /\ q \notin todo'[d]) \/ pc'[d] \in {"erase", "write"}
             => SamePlug(buf[d], q)'
    <3>1. \A d \in Ctx \ {c}, q \in Plug :
             ~ ((pc'[d] = "copy" /\ q \notin todo'[d]) \/ pc'[d] \in {"erase", "write"})
      BY <2>3 DEF Copying
    <3> QED BY <2>2, <2>6, <2>7, <2>8, <3>1
  <2> QED BY <1>2, <2>8, <2>9, <2>10, <2>11 DEF SavedInv
<1>7. CASE EraseSector(c)
  <2>1. /\ UNCHANGED <<todo, buf>>
        /\ flash' = Erased
        /\ pc' = [pc EXCEPT ![c] = "write"] /\ pc[c] = "erase"
    BY <1>7, Zenon DEF EraseSector, At, Goto, locals
  <2>2. pc'[c] = "write"
    BY <2>1 DEF TypeOK
  <2>3. \A d \in Ctx \ {c} : ~ Copying(d)'
    BY <1>4, <2>1 DEF Copying
  <2>4. SameHead(buf[c])' /\ \A q \in Plug : SamePlug(buf[c], q)'
    <3>1. SameHead(buf[c]) /\ \A q \in Plug : SamePlug(buf[c], q)
      BY <1>3, <2>1 DEF SavedInv, Copying
    <3> QED BY <1>1, <2>1, <3>1 DEF SameHead, SamePlug
  <2>5. \A d \in Ctx, q \in Plug :
           (pc'[d] = "copy" /\ q \notin todo'[d]) \/ pc'[d] \in {"erase", "write"}
             => SamePlug(buf[d], q)'
    <3>1. \A d \in Ctx \ {c}, q \in Plug :
             ~ ((pc'[d] = "copy" /\ q \notin todo'[d]) \/ pc'[d] \in {"erase", "write"})
      BY <2>3 DEF Copying
    <3> QED BY <2>4, <3>1
  <2>6. \A d \in Ctx : Copying(d)' => SameHead(buf[d])' /\ (d = "main" => pc'["isr"] = "idle")
    BY <1>5, <2>3, <2>4
  <2>7. WillSave(c)'
    BY <2>2 DEF WillSave
  <2> QED BY <1>2, <2>1, <2>5, <2>6, <2>7 DEF SavedInv
<1>8. CASE WriteSector(c)
  <2>1. flash' = Program(flash, buf[c]) /\ pc[c] = "write"
    BY <1>8, Zenon DEF WriteSector, At
  <2>2. PICK l \in {"body", "val", "idle"} : Continue(c, l)
    <3>1. (CASE job[c] = "timer" -> "body"
             [] job[c] = "boot"  -> "val"
             [] OTHER            -> "idle") \in {"body", "val", "idle"}
      OBVIOUS
    <3> QED BY <1>8, <3>1, Zenon DEF WriteSector
  <2>3. /\ pc'[c] \in {"body", "val", "idle"}
        /\ \A d \in Ctx \ {c} : todo'[d] = todo[d]
    BY <2>2, ContinueKeeps
  <2>4. \A d \in Ctx : ~ Copying(d)'
    BY <1>4, <2>3 DEF Copying
  <2>5. buf[c] = cfg
    <3>1. SameHead(buf[c]) /\ \A q \in Plug : SamePlug(buf[c], q)
      BY <1>3, <2>1 DEF SavedInv, Copying
    <3>2. buf[c] \in Config /\ cfg \in Config
      BY DEF TypeOK
    <3> QED BY <3>1, <3>2, SameImage
  <2>6. flash' = cfg
    <3>1. flash = Erased
      BY <1>3, <2>1 DEF SavedInv
    <3> QED BY <2>1, <2>5, <3>1, ProgramErased DEF TypeOK
  <2>7. cfg'.named => Load(flash') = cfg'
    BY <1>1, <1>2, <2>6, LoadVersion DEF TypeOK
  <2>8. \A d \in Ctx, q \in Plug :
           ~ ((pc'[d] = "copy" /\ q \notin todo'[d]) \/ pc'[d] \in {"erase", "write"})
    BY <2>4 DEF Copying
  <2> QED BY <1>2, <2>4, <2>7, <2>8 DEF SavedInv, Copying
<1> QED BY <1>6, <1>7, <1>8

LEMMA SavedIrq == ASSUME TypeOK, SavedInv, NEW p \in Branch, ButtonIrq(p)
                  PROVE  SavedInv'
<1>1. /\ UNCHANGED <<cfg, flash, buf, save, retained>>
      /\ pc["isr"] = "idle"
      /\ pc' = [pc EXCEPT !["isr"] = "setting"]
      /\ \E S : todo' = [todo EXCEPT !["isr"] = S]
      /\ job' = [job EXCEPT !["isr"] = "json"]
      /\ hit' = hit \cup Window
  BY Zenon DEF ButtonIrq, StartJson, Goto, device
<1>2. /\ "isr" \in Ctx /\ "main" \in Ctx /\ pc'["isr"] = "setting"
      /\ pc'["main"] = pc["main"] /\ todo'["main"] = todo["main"] /\ job'["main"] = job["main"]
      /\ \A d \in Ctx : d = "main" \/ d = "isr"
  BY <1>1 DEF Ctx, TypeOK
<1> SUFFICES ASSUME ~ Unsaved' PROVE SavedInv'
  BY <1>1 DEF SavedInv
<1>3. ~ Unsaved
  BY <1>1 DEF Unsaved
<1>4. Copying("main") => "flash" \in Window
  BY DEF Copying, Window, Windows
<1>5. \A d \in Ctx : ~ Copying(d)'
  BY <1>1, <1>2, <1>4 DEF Copying, Unsaved
<1>6. \A d \in Ctx : WillSave(d) => WillSave(d)'
  BY <1>1, <1>2 DEF WillSave
<1>7. \A d \in Ctx, q \in Plug :
         ~ ((pc'[d] = "copy" /\ q \notin todo'[d]) \/ pc'[d] \in {"erase", "write"})
  BY <1>5 DEF Copying
<1>8. cfg'.named => Load(flash') = cfg' \/ \E d \in Ctx : WillSave(d)'
  BY <1>1, <1>3, <1>6 DEF SavedInv
<1> QED BY <1>1, <1>5, <1>7, <1>8 DEF SavedInv, Copying

\* The device boots with what the sector loads as.
LEMMA SavedBoot == ASSUME NEW image \in Config, Boot(image) PROVE SavedInv'
<1>1. /\ cfg' = Load(image)
      /\ pc'["isr"] = "idle" /\ pc'["main"] \in {"copy", "val"}
      /\ pc'["main"] = "copy" => todo'["main"] = Plug
      /\ \A d \in Ctx : d = "main" \/ d = "isr"
  BY DEF Boot, Ctx
<1>2. \A d \in Ctx : ~ Copying(d)'
  BY <1>1 DEF Copying
<1>3. \A d \in Ctx, q \in Plug :
         ~ ((pc'[d] = "copy" /\ q \notin todo'[d]) \/ pc'[d] \in {"erase", "write"})
  BY <1>2 DEF Copying
<1>4. cfg'.version = USER_CONFIG_VERSION
  BY <1>1, LoadVersion
<1>5. flash' = image
  BY DEF Boot
<1> QED BY <1>1, <1>2, <1>3, <1>4, <1>5 DEF SavedInv, Copying

LEMMA SavedInit == Init => SavedInv
<1> SUFFICES ASSUME Init PROVE SavedInv
  OBVIOUS
<1>1. /\ cfg = Load(flash) /\ flash \in Config
      /\ pc["isr"] = "idle" /\ pc["main"] \in {"copy", "val"}
      /\ pc["main"] = "copy" => todo["main"] = Plug
      /\ \A d \in Ctx : d = "main" \/ d = "isr"
  BY FlashAssumption DEF Init, Ctx
<1>2. \A d \in Ctx : ~ Copying(d)
  BY <1>1 DEF Copying
<1>3. \A d \in Ctx, q \in Plug :
         ~ ((pc[d] = "copy" /\ q \notin todo[d]) \/ pc[d] \in {"erase", "write"})
  BY <1>2 DEF Copying
<1>4. cfg.version = USER_CONFIG_VERSION
  BY <1>1, LoadVersion
<1> QED BY <1>1, <1>2, <1>3, <1>4 DEF SavedInv, Copying

LEMMA SavedStep == TypeOK /\ ArgsInv /\ ReportInv /\ SavedInv /\ [Next]_vars => SavedInv'
<1> SUFFICES ASSUME TypeOK, ArgsInv, ReportInv, SavedInv, [Next]_vars PROVE SavedInv'
  OBVIOUS
<1>1. ASSUME NEW c \in Ctx, Step(c) PROVE SavedInv'
  <2>1. CASE (\E p \in Plug : CopyPlug(c, p)) \/ EraseSector(c) \/ WriteSector(c)
    BY <2>1, SavedSave
  <2>2. CASE ~ ((\E p \in Plug : CopyPlug(c, p)) \/ EraseSector(c) \/ WriteSector(c))
    <3>1. Alone(c)
      BY <1>1, AgreeSetting, AgreePlug, AgreeBody, AgreeArgs, AgreeStore, AgreeByte,
         AgreeRelay, AgreeSend, AgreeSave, Zenon DEF Step
    <3>2. Apart(c)
      BY <1>1, <2>2, KeepsSetting, KeepsPlug, KeepsStore, KeepsBody, KeepsRelay, KeptApart,
         Zenon DEF Step
    <3>3. Retains(c)
      BY <1>1, <2>2, RetainSetting, RetainPlug, RetainRelay, Zenon DEF Step
    <3> QED BY <3>1, <3>2, <3>3, SavedKept
  <2> QED BY <2>1, <2>2
<1>2. CASE \/ \E p \in Plug, s \in Slot : Fire(p, s) \/ FireMaster(p, s)
           \/ \E r \in Requests : Message(r)
           \/ KeyShort
           \/ KeyReset
           \/ \E D \in SUBSET (Plug \X Slot) : Tick(D)
  <2>1. Alone("main") /\ Apart("main") /\ Retains("main")
    BY <1>2, AgreeFire, AgreeMaster, AgreeStart, RetainFire, RetainMaster, RetainStart
  <2>2. "main" \in Ctx  BY DEF Ctx
  <2> QED BY <2>1, <2>2, SavedKept
<1>3. CASE \E p \in Branch : ButtonIrq(p)
  BY <1>3, SavedIrq
<1>4. CASE Restart \/ PowerLoss
  BY <1>4, BootImage, SavedBoot
<1>5. CASE RequestRestart \/ UNCHANGED vars
  <2>1. UNCHANGED <<cfg, flash, pc, job, todo, buf, save, retained, hit>>
    BY <1>5, Zenon DEF RequestRestart, vars, locals, ghosts
  <2>2. \A d \in Ctx : /\ pc'[d] = pc[d] /\ job'[d] = job[d] /\ save'[d] = save[d]
                       /\ todo'[d] = todo[d] /\ buf'[d] = buf[d] /\ retained'[d] = retained[d]
    BY <2>1
  <2>3. \A d \in Ctx : (WillSave(d)' <=> WillSave(d)) /\ (Copying(d)' <=> Copying(d))
    BY <2>2 DEF WillSave, Copying
  <2>4. \A d \in Ctx, q \in Plug : /\ SameHead(buf[d])' <=> SameHead(buf[d])
                                   /\ SamePlug(buf[d], q)' <=> SamePlug(buf[d], q)
    BY <2>1, <2>2 DEF SameHead, SamePlug
  <2>5. (Unsaved' <=> Unsaved) /\ "isr" \in Ctx
    BY <2>1 DEF Unsaved, Ctx
  <2>6. \A d \in Ctx :
          (Copying(d)' => SameHead(buf[d])' /\ (d = "main" => pc'["isr"] = "idle"))
            <=> (Copying(d) => SameHead(buf[d]) /\ (d = "main" => pc["isr"] = "idle"))
    <3>1. \E p : p \in Plug
      BY PlugFacts
    <3> QED BY <2>2, <2>3, <2>4, <2>5, <3>1
  <2> QED BY <2>1, <2>2, <2>3, <2>4, <2>5, <2>6 DEF SavedInv
<1> QED BY <1>1, <1>2, <1>3, <1>4, <1>5, Zenon DEF Next

\* A reboot brings back the configuration in RAM once every handler is done, but
\* for the presses inside user_setting_set_config and the tasks FlashAgrees
\* excepts.
THEOREM FlashHoldsConfig == Spec => []FlashAgrees
<1>1. SavedInv => FlashAgrees
  BY DEF SavedInv, FlashAgrees, Unsaved, Idle, WillSave, Ctx
<1> QED BY <1>1, TypeInit, TypeStep, ArgsInit, ArgsStep, AgreeInit, AgreeStep,
           SavedInit, SavedStep, PTL DEF Spec
=============================================================================
