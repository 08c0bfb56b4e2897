------------------------- MODULE PlugMaster_proofs -------------------------
(***************************************************************************)
(* Proof that no branch is left on under a closed master (MasterRule), for  *)
(* any number of sockets, messages, presses, restarts and power failures,   *)
(* on a strip whose tasks and stored image do not break the rule.           *)
(*                                                                         *)
(* The rule is broken in the middle of almost every handler.  CoverInv says  *)
(* who is on the way to mend it (Mending); that what user_io_set_plug_all    *)
(* has read obeys it (ReadsCover); that a press that falls where the rule is *)
(* broken is noted (PressIsNoted); and that the flash obeys it as long as    *)
(* none has (FlashCovers), for an image saved in between comes back at boot. *)
(* What a save writes is the matter of SavedInv (PlugAgreement_proofs).      *)
(***************************************************************************)
EXTENDS PlugAgreement_proofs

\* A task does not switch the master off, and its action is 0 or 1.
SafeAction(p, a) == a = 1 \/ (p # 0 /\ a = 0)

SafeTasks(d) == \A p \in Plug, s \in Slot : SafeAction(p, d.task[p][s].action)

OnOrOff(on) == \A p \in Plug : on[p] \in {0, 1}

SafeImage(d) == SafeTasks(d) /\ OnOrOff(d.on) /\ MasterCovers(d.on)

\* The assumption of the theorem: no message sets such a task, and no image that
\* the device may be powered with first holds one or breaks the rule.
NoTaskClosesMaster ==
  /\ \A r \in Requests : \A t \in r.task : SafeAction(t[1], t[3].action)
  /\ \A d \in InitialFlash : SafeImage(Load(d))

-----------------------------------------------------------------------------
(* The invariant.                                                          *)

Trusted == hit \cap {"args", "boot"} = {}

\* No press since boot has fallen where an image saved by it could break the rule.
Calm == hit \cap {"rule", "args", "back", "flash", "boot"} = {}

\* The interrupt handles one branch, and never closes the master.
WalkOK(c) ==
  /\ c = "isr" => pc[c] # "clear"
  /\ pc[c] = "clear" => todo[c] \subseteq Branch
  /\ c = "isr" /\ pc[c] \in {"setting", "plug", "rule", "store"} => todo[c] \subseteq Branch

RequestOK(c) == \A t \in req[c].task : SafeAction(t[1], t[3].action)

\* Branch p is on under a closed master, and somebody is going to see to it:
\* the rule is to be applied to p, or to the master;
\* p is to be cleared; its task is to open the master; or the main loop is
\* between storing the master and storing p.
Mending(p) ==
  \/ \E c \in Ctx : pc[c] = "rule" /\ First(p, todo[c])
  \/ pc["main"] = "rule" /\ First(0, todo["main"])
  \/ pc["main"] = "clear" /\ p \in todo["main"]
  \/ pc["main"] = "master" /\ \E s \in Slot : Turn(p, s)
  \/ pc["main"] = "back" /\ p \in todo["main"] /\ 0 \notin todo["main"]

Uncovered(p) == cfg.on[p] # 0 /\ cfg.on[0] = 0

OnCovers == \A p \in Branch : Uncovered(p) => Mending(p)

\* The arguments main is storing obey the rule.
ReadsCover ==
  /\ \A c \in Ctx : pc[c] = "args" => \A p \in Plug : p \notin todo[c] => arg[c][p] = cfg.on[p]
  /\ pc["isr"] = "back" => \A p \in Plug : arg["isr"][p] = cfg.on[p]
  /\ pc["isr"] # "idle" /\ pc["main"] = "args" => todo["main"] = Plug
  /\ pc["main"] = "back" =>
       /\ MasterCovers(arg["main"]) /\ OnOrOff(arg["main"])
       /\ 0 \in todo["main"] => todo["main"] = Plug
       /\ 0 \notin todo["main"] /\ arg["main"][0] # 0 => cfg.on[0] # 0

PressIsNoted ==
  pc["isr"] # "idle" => /\ pc["main"] \in {"rule", "clear", "master"} => "rule" \in hit
                        /\ pc["main"] = "back" => "back" \in hit

\* A task that opens the master has switched its branch on, which is noted.
TaskIsNoted ==
  /\ "task" \notin hit
  /\ \A p \in Branch, s \in Slot :
       pc["main"] = "master" /\ Turn(p, s) /\ Uncovered(p)
         => save["main"] \/ (pc["isr"] = "rule" /\ First(p, todo["isr"]))

FlashCovers == Calm => SafeImage(Load(flash))

Covers == /\ SafeTasks(cfg) /\ OnOrOff(cfg.on)
          /\ ReadsCover /\ PressIsNoted /\ OnCovers /\ TaskIsNoted /\ FlashCovers

CoverInv == /\ \A c \in Ctx : WalkOK(c) /\ RequestOK(c)
            /\ Trusted => Covers

-----------------------------------------------------------------------------
(* Steps that leave the sockets as they are.                                *)

\* A step of context c as the other one sees it.
Frame(c) ==
  /\ c = "main" => pc["isr"] = "idle"
  /\ c = "isr" => pc["isr"] # "idle" /\ due' = due
  /\ \A d \in Ctx \ {c} : /\ pc'[d] = pc[d] /\ todo'[d] = todo[d] /\ arg'[d] = arg[d]
                          /\ req'[d] = req[d] /\ save'[d] = save[d]
  /\ RequestOK(c)'
  /\ hit' = hit \/ (c = "main" /\ hit' = hit \ {"rule"})

\* It neither changes a socket nor is where the rule is broken.
Leaves(c) ==
  /\ cfg'.on = cfg.on
  /\ SafeTasks(cfg) => SafeTasks(cfg')
  /\ pc[c] \notin {"rule", "clear", "master", "args", "back"}
  /\ pc'[c] \notin {"rule", "clear", "master", "back"}
  /\ pc'[c] = "args" => todo'[c] = Plug
  /\ WalkOK(c)'
  /\ Trusted /\ Covers => FlashCovers'

LEMMA CoverOthers == ASSUME CoverInv, NEW c \in Ctx, Frame(c), WalkOK(c)'
                     PROVE  /\ \A d \in Ctx : WalkOK(d)' /\ RequestOK(d)'
                            /\ Trusted' => Trusted
<1>1. \A d \in Ctx \ {c} : WalkOK(d)' /\ RequestOK(d)'
  BY DEF CoverInv, Frame, WalkOK, RequestOK
<1>2. Trusted' => Trusted
  BY DEF Frame, Trusted
<1> QED BY <1>1, <1>2 DEF Frame

\* Only main mends anything while another context moves, and only as it did.
LEMMA MendingKept ==
  ASSUME NEW c \in Ctx, Frame(c), NEW p, Mending(p),
         pc[c] \notin {"rule", "clear", "master", "back"}
  PROVE  Mending(p)'
<1>1. PICK d \in Ctx : /\ d # c
                       /\ \/ pc[d] = "rule" /\ First(p, todo[d])
                          \/ /\ d = "main"
                             /\ \/ pc[d] = "rule" /\ First(0, todo[d])
                                \/ pc[d] = "clear" /\ p \in todo[d]
                                \/ pc[d] = "master" /\ \E s \in Slot : Turn(p, s)
                                \/ pc[d] = "back" /\ p \in todo[d] /\ 0 \notin todo[d]
  BY DEF Mending, Ctx
<1>2. pc'[d] = pc[d] /\ todo'[d] = todo[d]
  BY <1>1 DEF Frame
<1>3. d = "main" => \A s : Turn(p, s)' <=> Turn(p, s)
  BY <1>1 DEF Frame, Ctx, Turn
<1>4. CASE pc[d] = "rule" /\ First(p, todo[d])
  BY <1>2, <1>4 DEF Mending, First
<1>5. CASE d = "main" /\ pc[d] # "rule"
  BY <1>1, <1>2, <1>3, <1>5 DEF Mending
<1>6. CASE d = "main" /\ pc[d] = "rule" /\ First(0, todo[d])
  BY <1>2, <1>6 DEF Mending, First
<1> QED BY <1>1, <1>4, <1>5, <1>6

LEMMA CoverKept == ASSUME CoverInv, NEW c \in Ctx, Frame(c), Leaves(c)
                   PROVE  CoverInv'
<1>1. /\ \A d \in Ctx : WalkOK(d)' /\ RequestOK(d)'
      /\ Trusted' => Trusted
  BY CoverOthers DEF Leaves
<1> SUFFICES ASSUME Trusted' PROVE Covers'
  BY <1>1 DEF CoverInv
<1>2. Covers
  BY <1>1 DEF CoverInv
<1>3. SafeTasks(cfg') /\ OnOrOff(cfg'.on)
  BY <1>2 DEF Covers, Leaves, OnOrOff
<1>4. \A p : Uncovered(p)' <=> Uncovered(p)
  BY DEF Leaves, Uncovered
<1>5. ReadsCover'
  <2>1. ReadsCover  BY <1>2 DEF Covers
  <2>2. "main" \in Ctx /\ "isr" \in Ctx /\ (c = "main" \/ c = "isr") /\ "main" # "isr"
    BY DEF Ctx
  <2>3. CASE c = "main"
    <3>1. pc["isr"] = "idle" /\ pc'["isr"] = "idle"
      BY <2>2, <2>3 DEF Frame
    <3>2. pc'["main"] # "back" /\ (pc'["main"] = "args" => todo'["main"] = Plug)
      BY <2>3 DEF Leaves
    <3> QED BY <3>1, <3>2 DEF ReadsCover, Ctx
  <2>4. CASE c = "isr"
    <3>1. /\ pc["isr"] # "idle" /\ pc'["isr"] # "back"
          /\ pc'["isr"] = "args" => todo'["isr"] = Plug
      BY <2>4 DEF Frame, Leaves
    <3>2. pc'["main"] = pc["main"] /\ todo'["main"] = todo["main"] /\ arg'["main"] = arg["main"]
      BY <2>2, <2>4 DEF Frame
    <3>3. cfg'.on = cfg.on  BY DEF Leaves
    <3> QED BY <2>1, <3>1, <3>2, <3>3 DEF ReadsCover, Ctx
  <2> QED BY <2>2, <2>3, <2>4
<1>6. PressIsNoted'
  <2>1. CASE c = "main"
    BY <2>1 DEF Frame, PressIsNoted, Ctx
  <2>2. CASE c = "isr"
    BY <1>2, <2>2 DEF Frame, Covers, PressIsNoted, Ctx
  <2> QED BY <2>1, <2>2 DEF Ctx
<1>7. OnCovers'
  BY <1>2, <1>4, MendingKept DEF Covers, OnCovers, Leaves
<1>8. TaskIsNoted'
  <2>1. "task" \notin hit'
    BY <1>2 DEF Covers, TaskIsNoted, Frame
  <2>2. ASSUME NEW p \in Branch, NEW s \in Slot,
               pc'["main"] = "master" /\ Turn(p, s)' /\ Uncovered(p)'
        PROVE  save'["main"]
    <3>1. c = "isr"
      BY <2>2 DEF Leaves, Ctx
    <3>2. /\ pc["main"] = "master" /\ due' = due /\ save'["main"] = save["main"]
          /\ pc["isr"] # "rule"
      BY <2>2, <3>1 DEF Frame, Leaves, Ctx
    <3>3. Turn(p, s) /\ Uncovered(p)
      BY <1>4, <2>2, <3>2 DEF Turn
    <3> QED BY <1>2, <3>2, <3>3 DEF Covers, TaskIsNoted
  <2> QED BY <2>1, <2>2 DEF TaskIsNoted
<1>9. FlashCovers'
  BY <1>1, <1>2 DEF Leaves
<1> QED BY <1>3, <1>5, <1>6, <1>7, <1>8, <1>9 DEF Covers

-----------------------------------------------------------------------------
(* Every step of a context is a Frame.                                      *)

LEMMA SafeDefaults == SafeImage(DefaultConfig)
<1>1. \A p \in Plug : DefaultConfig.on[p] = 1
  BY DEF DefaultConfig
<1>2. \A p \in Plug, s \in Slot : DefaultConfig.task[p][s].action = 1
  BY DEF DefaultConfig, DefaultTask
<1> QED BY <1>1, <1>2, PlugFacts DEF SafeImage, SafeTasks, SafeAction, OnOrOff, MasterCovers

LEMMA SafeRequests ==
  /\ \A t \in NoRequest.task : SafeAction(t[1], t[3].action)
  /\ \A ps, v : \A t \in SwitchRequest(ps, v).task : SafeAction(t[1], t[3].action)
<1>1. NoRequest.task = {}
  BY DEF NoRequest
<1>2. \A ps, v : SwitchRequest(ps, v).task = {}
  BY <1>1 DEF SwitchRequest, NoRequest
<1> QED BY <1>1, <1>2

LEMMA FrameStep ==
  ASSUME TypeOK, CoverInv, NEW c \in Ctx, Alone(c),
         \/ UNCHANGED <<todo, req, due>>
         \/ (\E S : todo' = [todo EXCEPT ![c] = S]) /\ UNCHANGED <<req, due>>
         \/ \E l : Continue(c, l),
         hit' = hit \/ (c = "main" /\ hit' = hit \ {"rule"})
  PROVE  Frame(c)
<1>1. /\ \A d \in Ctx \ {c} : todo'[d] = todo[d] /\ req'[d] = req[d]
      /\ c = "isr" => due' = due
      /\ req'[c] \in {req[c], NoRequest}
  <2>1. CASE UNCHANGED <<todo, req, due>>
    BY <2>1
  <2>2. CASE (\E S : todo' = [todo EXCEPT ![c] = S]) /\ UNCHANGED <<req, due>>
    BY <2>2 DEF TypeOK
  <2>3. CASE \E l : Continue(c, l)
    <3>1. PICK l : Continue(c, l)
      BY <2>3
    <3>2. CASE l = "idle"
      <4>1. Return(c)  BY <3>1, <3>2, Zenon DEF Continue
      <4> QED BY <4>1 DEF Return, TypeOK, Ctx
    <3>3. CASE l # "idle"
      <4>1. UNCHANGED <<req, due>> /\ \E S : todo' = [todo EXCEPT ![c] = S]
        BY <3>1, <3>3, Zenon DEF Continue
      <4> QED BY <4>1 DEF TypeOK
    <3> QED BY <3>2, <3>3
  <2> QED BY <2>1, <2>2, <2>3
<1>2. RequestOK(c)'
  BY <1>1, SafeRequests DEF CoverInv, RequestOK
<1> QED BY <1>1, <1>2 DEF Frame, Alone

LEMMA FramePlug ==
  ASSUME TypeOK, ReportInv, CoverInv, NEW c \in Ctx, NEW x \in Plug,
         PlugOn(c, x) \/ PlugRule(c, x) \/ PlugClear(c, x) \/ PlugStore(c, x)
  PROVE  Frame(c)
<1>1. UNCHANGED <<req, due, hit>>
  BY Zenon DEF PlugOn, PlugRule, PlugClear, PlugStore, ghosts
<1>2. todo' = todo \/ \E S : todo' = [todo EXCEPT ![c] = S]
  <2>1. CASE PlugOn(c, x)  BY <2>1, Zenon DEF PlugOn
  <2>2. CASE PlugRule(c, x)  BY <2>2, Zenon DEF PlugRule
  <2>3. CASE PlugClear(c, x)  BY <2>3, Zenon DEF PlugClear
  <2>4. CASE PlugStore(c, x)  BY <2>4, Zenon DEF PlugStore
  <2> QED BY <2>1, <2>2, <2>3, <2>4
<1>3. Alone(c)
  BY AgreePlug
<1> QED BY <1>1, <1>2, <1>3, FrameStep

\* The steps that leave the sockets as they are.
LEMMA CoverQuiet ==
  ASSUME TypeOK, ReportInv, CoverInv, NEW c \in Ctx,
         \/ \E up \in BOOLEAN : Setting(c, up)
         \/ \E x \in Plug : Body(c, x) \/ ComputeByte(c, x)
         \/ \E ok \in BOOLEAN : WriteRelay(c, ok)
         \/ Send(c)
         \/ \E p \in Plug : CopyPlug(c, p)
         \/ EraseSector(c)
  PROVE  CoverInv'
<1>1. Alone(c)
  BY AgreeSetting, AgreeBody, AgreeByte, AgreeRelay, AgreeSend, AgreeSave
<1>2. /\ hit' = hit
      /\ \/ UNCHANGED <<todo, req, due>>
         \/ (\E S : todo' = [todo EXCEPT ![c] = S]) /\ UNCHANGED <<req, due>>
         \/ \E l : Continue(c, l)
  <2>1. CASE \E up \in BOOLEAN : Setting(c, up)  BY <2>1, Zenon DEF Setting, ghosts
  <2>2. CASE \E x \in Plug : Body(c, x)  BY <2>2, Zenon DEF Body, ghosts
  <2>3. CASE \E x \in Plug : ComputeByte(c, x)  BY <2>3, Zenon DEF ComputeByte, ghosts
  <2>4. CASE \E ok \in BOOLEAN : WriteRelay(c, ok)  BY <2>4, Zenon DEF WriteRelay, ghosts
  <2>5. CASE Send(c)  BY <2>5, Zenon DEF Send, ghosts
  <2>6. CASE \E p \in Plug : CopyPlug(c, p)  BY <2>6, Zenon DEF CopyPlug, ghosts
  <2>7. CASE EraseSector(c)  BY <2>7, Zenon DEF EraseSector, locals, ghosts
  <2> QED BY <2>1, <2>2, <2>3, <2>4, <2>5, <2>6, <2>7
<1>3. Frame(c)
  BY <1>1, <1>2, FrameStep
<1>4. cfg'.on = cfg.on /\ cfg'.task = cfg.task
  <2>1. CASE \E up \in BOOLEAN : Setting(c, up)
    <3>1. \E f, g, h : cfg' = [cfg EXCEPT !.interval = f, !.named = g, !.mqtt = h]
      <4>1. PICK up \in BOOLEAN : Setting(c, up)  BY <2>1
      <4> QED BY <4>1, Zenon DEF Setting
    <3> QED BY <3>1, OnField, TaskField DEF TypeOK
  <2>2. CASE ~ \E up \in BOOLEAN : Setting(c, up)
    <3>1. cfg' = cfg
      BY <2>2, Zenon DEF Body, ComputeByte, WriteRelay, Send, CopyPlug, EraseSector
    <3> QED BY <3>1
  <2> QED BY <2>1, <2>2
<1>5. /\ pc[c] \in {"setting", "body", "val", "i2c", "retry", "send", "copy", "erase"}
      /\ pc'[c] \in {"setting", "plug", "body", "args", "val", "i2c", "retry", "send", "copy",
                     "erase", "write", "idle"}
      /\ pc'[c] = "args" => todo'[c] = Plug
      /\ pc'[c] \in {"setting", "plug"} => todo'[c] = todo[c] /\ pc[c] = "setting"
  <2>1. CASE \E up \in BOOLEAN : Setting(c, up)
    <3>1. /\ pc[c] = "setting" /\ todo' = [todo EXCEPT ![c] = IF @ = {} THEN Plug ELSE @]
          /\ pc' = [pc EXCEPT ![c] = IF todo[c] = {} THEN "body" ELSE "plug"]
      BY <2>1, Zenon DEF Setting, At, Goto
    <3> QED BY <3>1 DEF TypeOK
  <2>2. CASE \E x \in Plug : Body(c, x)
    <3>1. /\ pc[c] = "body"
          /\ \/ /\ todo' = [todo EXCEPT ![c] = Plug]
                /\ \E l \in {"args", "send"} : pc' = [pc EXCEPT ![c] = l]
             \/ pc' = pc
      BY <2>2, Zenon DEF Body, At, Goto
    <3> QED BY <3>1 DEF TypeOK
  <2>3. CASE \E x \in Plug : ComputeByte(c, x)
    <3>1. pc[c] = "val" /\ (pc' = pc \/ pc' = [pc EXCEPT ![c] = "i2c"])
      BY <2>3, Zenon DEF ComputeByte, At, Goto
    <3> QED BY <3>1 DEF TypeOK
  <2>4. CASE (\E ok \in BOOLEAN : WriteRelay(c, ok)) \/ Send(c)
    <3>1. AfterRelay(c) \in {"send", "copy", "idle"}
      BY DEF AfterRelay
    <3>2. /\ pc[c] \in {"i2c", "retry", "send"}
          /\ \E l \in {"retry", "send", "copy", "idle"} : Continue(c, l)
      BY <2>4, <3>1, Zenon DEF WriteRelay, Send, At
    <3> QED BY <3>2, ContinueKeeps
  <2>5. CASE \E p \in Plug : CopyPlug(c, p)
    <3>1. pc[c] = "copy" /\ (pc' = pc \/ pc' = [pc EXCEPT ![c] = "erase"])
      BY <2>5, Zenon DEF CopyPlug, At, Goto
    <3> QED BY <3>1 DEF TypeOK
  <2>6. CASE EraseSector(c)
    <3>1. pc[c] = "erase" /\ pc' = [pc EXCEPT ![c] = "write"]
      BY <2>6, Zenon DEF EraseSector, At, Goto
    <3> QED BY <3>1 DEF TypeOK
  <2> QED BY <2>1, <2>2, <2>3, <2>4, <2>5, <2>6
<1>6. WalkOK(c)'
  BY <1>5 DEF CoverInv, WalkOK
<1>7. Trusted /\ Covers => FlashCovers'
  <2>1. flash' = flash \/ flash' = Erased
    BY Zenon DEF Setting, Body, ComputeByte, WriteRelay, Send, CopyPlug, EraseSector, device
  <2>2. CASE flash' = flash
    BY <1>2, <2>2 DEF Covers, FlashCovers, Calm
  <2>3. CASE flash' = Erased
    <3>1. SafeImage(Load(Erased))
      <4>1. Load(Erased) = DefaultConfig
        BY DEF Load, NeedsDefaults, Migrate, Erased
      <4> QED BY <4>1, SafeDefaults
    <3> QED BY <2>3, <3>1 DEF FlashCovers
  <2> QED BY <2>1, <2>2, <2>3
<1>8. Leaves(c)
  BY <1>4, <1>5, <1>6, <1>7 DEF Leaves, SafeTasks
<1> QED BY <1>3, <1>8, CoverKept

-----------------------------------------------------------------------------
(* user_json_analysis: the socket is set, then the rule applied to it.       *)

\* What a step of c must show if it changes the sockets or the place where the
\* rule is broken.
LEMMA CoverMoved ==
  ASSUME CoverInv, NEW c \in Ctx, Frame(c), WalkOK(c)',
         Trusted /\ Covers => Covers'
  PROVE  CoverInv'
  BY CoverOthers DEF CoverInv

\* A step before the arguments are read does not disturb what was read: if it
\* is main's there is no interrupt, if it is the interrupt's main has read
\* nothing, and what main stores is as safe as before unless the master closes.
LEMMA ReadsKept ==
  ASSUME ReadsCover, NEW c \in Ctx, Frame(c), pc'[c] \notin {"args", "back"},
         c = "isr" => (cfg.on[0] # 0 => cfg'.on[0] # 0)
  PROVE  ReadsCover'
<1>1. CASE c = "main"
  <2>1. pc["isr"] = "idle" /\ pc'["isr"] = "idle" /\ pc'["main"] \notin {"args", "back"}
    BY <1>1 DEF Frame, Ctx
  <2> QED BY <2>1 DEF ReadsCover, Ctx
<1>2. CASE c = "isr"
  <2>1. /\ pc["isr"] # "idle" /\ pc'["isr"] \notin {"args", "back"}
        /\ pc'["main"] = pc["main"] /\ todo'["main"] = todo["main"] /\ arg'["main"] = arg["main"]
    BY <1>2 DEF Frame, Ctx
  <2> QED BY <1>2, <2>1 DEF ReadsCover, Ctx
<1> QED BY <1>1, <1>2 DEF Ctx

LEMMA NotedKept ==
  ASSUME Covers, NEW c \in Ctx, Frame(c)
  PROVE  PressIsNoted' /\ (flash' = flash /\ hit' = hit => FlashCovers')
<1>1. PressIsNoted'
  <2>1. CASE c = "main"
    BY <2>1 DEF Frame, PressIsNoted, Ctx
  <2>2. CASE c = "isr"
    BY <2>2 DEF Frame, Covers, PressIsNoted, Ctx
  <2> QED BY <2>1, <2>2 DEF Ctx
<1> QED BY <1>1 DEF Covers, FlashCovers, Calm

LEMMA CoverSwitch ==
  ASSUME TypeOK, ReportInv, CoverInv, NEW c \in Ctx, NEW x \in Plug, PlugOn(c, x)
  PROVE  CoverInv'
<1>0. Frame(c) /\ cfg \in Config
  BY FramePlug DEF TypeOK
<1>1. /\ UNCHANGED <<flash, hit, todo, due>>
      /\ pc[c] = "plug" /\ First(x, todo[c])
  BY Zenon DEF PlugOn, At, device, ghosts
<1>2. CASE Switches(c, x)
  <2>1. /\ cfg' = [cfg EXCEPT !.on[x] = req[c].set[x]]
        /\ pc' = [pc EXCEPT ![c] = "rule"]
    BY <1>2, Zenon DEF PlugOn, Goto
  <2>2. pc'[c] = "rule"
    BY <2>1 DEF TypeOK
  <2>3. req[c].set[x] \in {0, 1}
    BY <1>2 DEF TypeOK, Switches, Request
  <2>4. cfg'.on = [cfg.on EXCEPT ![x] = req[c].set[x]] /\ cfg'.task = cfg.task
    BY <1>0, <2>1, OnField, TaskField
  <2>5. cfg.on \in [Plug -> Byte]
    BY <1>0, SetField
  <2>6. WalkOK(c)'
    BY <1>1, <2>2 DEF CoverInv, WalkOK
  <2>7. ASSUME Trusted, Covers PROVE Covers'
    <3>1. SafeTasks(cfg') /\ OnOrOff(cfg'.on)
      BY <2>3, <2>4, <2>5, <2>7 DEF Covers, SafeTasks, OnOrOff
    <3>2. c = "isr" => x # 0
      BY <1>1 DEF CoverInv, WalkOK, First, Branch
    <3>3. 0 \in Plug /\ (x # 0 => cfg'.on[0] = cfg.on[0])
      BY <2>4, <2>5, PlugFacts
    <3>4. ReadsCover'
      BY <1>0, <2>2, <2>7, <3>2, <3>3, ReadsKept DEF Covers
    <3>5. First(x, todo'[c])
      BY <1>1 DEF First
    <3>6. \A p \in Branch : p # x /\ x # 0 => (Uncovered(p)' <=> Uncovered(p))
      BY <2>4, <2>5, <3>3 DEF Uncovered, Branch
    <3>7. OnCovers'
      <4>1. ASSUME NEW p \in Branch, Uncovered(p)' PROVE Mending(p)'
        <5>1. CASE x = p
          BY <2>2, <3>5, <5>1 DEF Mending
        <5>2. CASE x = 0
          <6>1. c = "main"  BY <3>2, <5>2 DEF Ctx
          <6> QED BY <2>2, <3>5, <5>2, <6>1 DEF Mending
        <5>3. CASE x # p /\ x # 0
          <6>1. Mending(p)
            BY <2>7, <3>6, <4>1, <5>3 DEF Covers, OnCovers
          <6> QED BY <1>0, <1>1, <6>1, MendingKept
        <5> QED BY <5>1, <5>2, <5>3
      <4> QED BY <4>1 DEF OnCovers
    <3>8. TaskIsNoted'
      <4>1. ASSUME NEW p \in Branch, NEW s \in Slot,
                   pc'["main"] = "master", Turn(p, s)', Uncovered(p)'
            PROVE  save'["main"] \/ (pc'["isr"] = "rule" /\ First(p, todo'["isr"]))
        <5>1. c = "isr"
          BY <2>2, <4>1 DEF Ctx
        <5>2. pc["main"] = "master" /\ save'["main"] = save["main"] /\ pc["isr"] # "rule"
          BY <1>0, <1>1, <4>1, <5>1 DEF Frame, Ctx
        <5>3. Turn(p, s)
          BY <1>1, <4>1 DEF Turn
        <5>4. CASE x = p
          BY <2>2, <3>5, <5>1, <5>4
        <5>5. CASE x # p
          BY <2>7, <3>2, <3>6, <4>1, <5>1, <5>2, <5>3, <5>5 DEF Covers, TaskIsNoted
        <5> QED BY <5>4, <5>5
      <4>2. "task" \notin hit'
        BY <1>1, <2>7 DEF Covers, TaskIsNoted
      <4> QED BY <4>1, <4>2 DEF TaskIsNoted
    <3> QED BY <1>0, <1>1, <2>7, <3>1, <3>4, <3>7, <3>8, NotedKept DEF Covers
  <2> QED BY <1>0, <2>6, <2>7, CoverMoved
<1>3. CASE ~ Switches(c, x)
  <2>1. cfg' = cfg /\ pc' = [pc EXCEPT ![c] = "store"]
    BY <1>3, Zenon DEF PlugOn, Goto
  <2>2. pc'[c] = "store"
    BY <2>1 DEF TypeOK
  <2>3. WalkOK(c)'
    BY <1>1, <2>2 DEF CoverInv, WalkOK
  <2>4. Trusted /\ Covers => FlashCovers'
    BY <1>1 DEF Covers, FlashCovers, Calm
  <2>5. Leaves(c)
    BY <1>1, <2>1, <2>2, <2>3, <2>4 DEF Leaves
  <2> QED BY <1>0, <2>5, CoverKept
<1> QED BY <1>2, <1>3

LEMMA FirstOne == ASSUME NEW S \in SUBSET Plug, NEW p \in Plug, NEW q \in Plug,
                         First(p, S), First(q, S)
                  PROVE  p = q
  BY PlugFacts DEF First

LEMMA CoverRule ==
  ASSUME TypeOK, ReportInv, CoverInv, NEW c \in Ctx, NEW x \in Plug, PlugRule(c, x)
  PROVE  CoverInv'
<1>0. Frame(c) /\ cfg \in Config /\ cfg.on \in [Plug -> Byte] /\ 0 \in Plug
  BY FramePlug, SetField, PlugFacts DEF TypeOK
<1>1. /\ UNCHANGED <<flash, hit, due>>
      /\ pc[c] = "rule" /\ First(x, todo[c])
  BY Zenon DEF PlugRule, At, device, ghosts
<1>2. c = "isr" => x # 0
  BY <1>1 DEF CoverInv, WalkOK, First, Branch
<1>3. CASE Opens(x)
  <2>1. /\ cfg' = [cfg EXCEPT !.on[0] = 1] /\ todo' = todo
        /\ pc' = [pc EXCEPT ![c] = "store"]
    BY <1>3, Zenon DEF PlugRule, Goto
  <2>2. /\ cfg'.on = [cfg.on EXCEPT ![0] = 1] /\ cfg'.task = cfg.task
        /\ pc'[c] = "store"
    BY <1>0, <2>1, OnField, TaskField DEF TypeOK
  <2>3. cfg'.on[0] = 1 /\ \A p : ~ Uncovered(p)'
    BY <1>0, <2>2 DEF Uncovered
  <2>4. WalkOK(c)'
    BY <1>1, <2>1, <2>2 DEF CoverInv, WalkOK
  <2>5. ASSUME Trusted, Covers PROVE Covers'
    <3>1. SafeTasks(cfg') /\ OnOrOff(cfg'.on)
      BY <1>0, <2>2, <2>5 DEF Covers, SafeTasks, OnOrOff
    <3>2. ReadsCover'
      BY <1>0, <2>2, <2>3, <2>5, ReadsKept DEF Covers
    <3>3. OnCovers' /\ TaskIsNoted'
      BY <1>1, <2>3, <2>5 DEF Covers, OnCovers, TaskIsNoted
    <3> QED BY <1>0, <1>1, <2>5, <3>1, <3>2, <3>3, NotedKept DEF Covers
  <2> QED BY <1>0, <2>4, <2>5, CoverMoved
<1>4. CASE ~ Opens(x)
  <2>1. /\ cfg' = cfg
        /\ IF Closes(x) THEN pc' = [pc EXCEPT ![c] = "clear"] /\ todo' = [todo EXCEPT ![c] = Branch]
                        ELSE pc' = [pc EXCEPT ![c] = "store"] /\ todo' = todo
    BY <1>4, Zenon DEF PlugRule, Goto
  <2>2. IF Closes(x) THEN pc'[c] = "clear" /\ todo'[c] = Branch
                     ELSE pc'[c] = "store" /\ todo'[c] = todo[c]
    BY <2>1 DEF TypeOK
  <2>3. Closes(x) => c = "main"
    BY <1>2 DEF Closes, Ctx
  <2>4. WalkOK(c)'
    BY <1>1, <2>2, <2>3 DEF CoverInv, WalkOK
  <2>5. ASSUME Trusted, Covers PROVE Covers'
    <3>1. SafeTasks(cfg') /\ OnOrOff(cfg'.on)
      BY <2>1, <2>5 DEF Covers
    <3>2. ReadsCover'
      BY <1>0, <2>1, <2>2, <2>5, ReadsKept DEF Covers
    <3>3. \A p : Uncovered(p)' <=> Uncovered(p)
      BY <2>1 DEF Uncovered
    <3>4. ASSUME NEW p \in Branch, Uncovered(p), ~ Closes(x) PROVE x # 0 /\ x # p
      <4>1. x = 0 => FALSE
        BY <3>4 DEF Closes, Uncovered
      <4>2. x = p => FALSE
        <5>1. x = p => cfg.on[x] = 1
          BY <2>5, <3>4 DEF Covers, OnOrOff, Uncovered
        <5>2. p > 0
          BY PlugFacts, PlugNumAssumption DEF Branch, Plug
        <5> QED BY <1>4, <5>1, <5>2 DEF Opens
      <4> QED BY <4>1, <4>2
    <3>5. OnCovers'
      <4>1. ASSUME NEW p \in Branch, Uncovered(p)' PROVE Mending(p)'
        <5>1. Mending(p) /\ p \in Plug
          BY <2>5, <3>3, <4>1 DEF Covers, OnCovers, Branch
        <5>2. CASE Closes(x)
          BY <2>2, <2>3, <5>2 DEF Mending
        <5>3. CASE ~ Closes(x)
          <6>1. x # 0 /\ x # p
            BY <3>3, <3>4, <4>1, <5>3
          <6>2. ~ First(p, todo[c]) /\ ~ First(0, todo[c])
            BY <1>0, <1>1, <5>1, <6>1, FirstOne DEF TypeOK
          <6>3. CASE c = "main"
            <7>1. pc["isr"] = "idle"
              BY <1>0, <6>3 DEF Frame
            <7> QED BY <1>1, <5>1, <6>2, <6>3, <7>1 DEF Mending, Ctx
          <6>4. CASE c = "isr"
            <7>1. pc'["main"] = pc["main"] /\ todo'["main"] = todo["main"]
              BY <1>0, <6>4 DEF Frame, Ctx
            <7>2. \A s \in Slot : Turn(p, s)' <=> Turn(p, s)
              BY <1>1 DEF Turn
            <7> QED BY <1>1, <5>1, <6>2, <6>4, <7>1, <7>2 DEF Mending, First, Ctx
          <6> QED BY <6>3, <6>4 DEF Ctx
        <5> QED BY <5>2, <5>3
      <4> QED BY <4>1 DEF OnCovers
    <3>6. TaskIsNoted'
      <4>1. ASSUME NEW p \in Branch, NEW s \in Slot,
                   pc'["main"] = "master", Turn(p, s)', Uncovered(p)'
            PROVE  save'["main"]
        <5>1. c = "isr" /\ ~ Closes(x)
          BY <2>2, <2>3, <4>1 DEF Ctx
        <5>2. pc["main"] = "master" /\ save'["main"] = save["main"]
          BY <1>0, <4>1, <5>1 DEF Frame, Ctx
        <5>3. Turn(p, s) /\ p \in Plug
          BY <1>1, <4>1 DEF Turn, Branch
        <5>4. ~ First(p, todo["isr"])
          BY <1>0, <1>1, <3>3, <3>4, <4>1, <5>1, <5>3, FirstOne DEF TypeOK
        <5> QED BY <2>5, <3>3, <4>1, <5>2, <5>3, <5>4 DEF Covers, TaskIsNoted
      <4>2. "task" \notin hit'
        BY <1>1, <2>5 DEF Covers, TaskIsNoted
      <4> QED BY <4>1, <4>2 DEF TaskIsNoted
    <3> QED BY <1>0, <1>1, <2>5, <3>1, <3>2, <3>5, <3>6, NotedKept DEF Covers
  <2> QED BY <1>0, <2>4, <2>5, CoverMoved
<1> QED BY <1>3, <1>4

LEMMA CoverClear ==
  ASSUME TypeOK, ReportInv, CoverInv, NEW c \in Ctx, NEW b \in Plug, PlugClear(c, b)
  PROVE  CoverInv'
<1>0. Frame(c) /\ cfg \in Config /\ cfg.on \in [Plug -> Byte] /\ 0 \in Plug
  BY FramePlug, SetField, PlugFacts DEF TypeOK
<1>1. /\ UNCHANGED <<flash, hit, due>>
      /\ pc[c] = "clear" /\ b \in todo[c]
      /\ cfg' = [cfg EXCEPT !.on[b] = 0]
      /\ IF todo[c] = {b}
         THEN pc' = [pc EXCEPT ![c] = "store"] /\ todo' = [todo EXCEPT ![c] = Touched(req[c])]
         ELSE todo' = [todo EXCEPT ![c] = @ \ {b}] /\ pc' = pc
  BY Zenon DEF PlugClear, At, Goto, First, device, ghosts
<1>2. c = "main" /\ todo[c] \subseteq Branch
  BY <1>1 DEF CoverInv, WalkOK, Ctx
<1>3. /\ cfg'.on = [cfg.on EXCEPT ![b] = 0] /\ cfg'.task = cfg.task
      /\ IF todo[c] = {b} THEN pc'[c] = "store"
                          ELSE pc'[c] = "clear" /\ todo'[c] = todo[c] \ {b}
  BY <1>0, <1>1, OnField, TaskField DEF TypeOK
<1>4. b \in Branch /\ cfg'.on[0] = cfg.on[0]
  BY <1>0, <1>1, <1>2, <1>3 DEF Branch
<1>5. WalkOK(c)'
  BY <1>2, <1>3 DEF WalkOK
<1>6. ASSUME Trusted, Covers PROVE Covers'
  <2>1. SafeTasks(cfg') /\ OnOrOff(cfg'.on)
    BY <1>0, <1>3, <1>6 DEF Covers, SafeTasks, OnOrOff
  <2>2. ReadsCover'
    BY <1>0, <1>2, <1>3, <1>6, ReadsKept DEF Covers
  <2>3. pc["isr"] = "idle"
    BY <1>0, <1>2 DEF Frame
  <2>4. OnCovers'
    <3>1. ASSUME NEW p \in Branch, Uncovered(p)' PROVE Mending(p)'
      <4>1. p # b /\ Uncovered(p)
        BY <1>0, <1>3, <1>4, <3>1 DEF Uncovered, Branch
      <4>2. Mending(p)
        BY <1>6, <4>1 DEF Covers, OnCovers
      <4>3. p \in todo["main"]
        BY <1>1, <1>2, <2>3, <4>2 DEF Mending, Ctx
      <4> QED BY <1>2, <1>3, <4>1, <4>3 DEF Mending
    <3> QED BY <3>1 DEF OnCovers
  <2>5. TaskIsNoted'
    BY <1>1, <1>2, <1>3, <1>6 DEF Covers, TaskIsNoted
  <2> QED BY <1>0, <1>1, <1>6, <2>1, <2>2, <2>4, <2>5, NotedKept DEF Covers
<1> QED BY <1>0, <1>5, <1>6, CoverMoved

\* The tasks of a message are as safe as those it replaces.
LEMMA CoverStore ==
  ASSUME TypeOK, ReportInv, CoverInv, NEW c \in Ctx, NEW x \in Plug, PlugStore(c, x)
  PROVE  CoverInv'
<1> DEFINE sets(s) == { t \in req[c].task : t[1] = x /\ t[2] = s }
           set == { s \in Slot : sets(s) # {} }
           tasks == [s \in Slot |-> IF s \in set THEN (CHOOSE t \in sets(s) : TRUE)[3]
                                                 ELSE cfg.task[x][s]]
<1>0. Frame(c) /\ cfg \in Config
  BY FramePlug DEF TypeOK
<1>1. /\ cfg' = [cfg EXCEPT !.task[x] = tasks]
      /\ todo' = [todo EXCEPT ![c] = IF @ = {x} THEN Plug ELSE @ \ {x}]
      /\ pc' = [pc EXCEPT ![c] = IF todo[c] = {x} THEN "body" ELSE "plug"]
      /\ UNCHANGED <<flash, hit>>
      /\ pc[c] = "store"
  BY Zenon DEF PlugStore, At, Goto, device
<1>2. cfg'.on = cfg.on
  <2> HIDE DEF tasks
  <2> QED BY <1>0, <1>1, OnField
<1>3. ASSUME SafeTasks(cfg) PROVE SafeTasks(cfg')
  <2>1. cfg'.task = [cfg.task EXCEPT ![x] = tasks]
    <3>1. \A d : [cfg EXCEPT !.task[x] = d].task = [cfg.task EXCEPT ![x] = d]
      BY <1>0 DEF Config
    <3> HIDE DEF tasks
    <3> QED BY <1>1, <3>1
  <2>2. ASSUME NEW s \in Slot PROVE SafeAction(x, tasks[s].action)
    <3>1. CASE s \in set
      <4>1. (CHOOSE t \in sets(s) : TRUE) \in sets(s)
        BY <3>1
      <4>2. PICK t \in req[c].task : t[1] = x /\ tasks[s] = t[3]
        BY <3>1, <4>1
      <4>3. SafeAction(x, t[3].action)
        BY <4>2 DEF CoverInv, RequestOK
      <4> HIDE DEF tasks
      <4> QED BY <4>2, <4>3
    <3>2. CASE s \notin set
      <4>1. tasks[s] = cfg.task[x][s]
        <5> HIDE DEF set
        <5> QED BY <3>2
      <4> HIDE DEF tasks
      <4> QED BY <1>3, <4>1 DEF SafeTasks
    <3> QED BY <3>1, <3>2
  <2>3. cfg.task \in [Plug -> [Slot -> Task]]
    BY <1>0, SetField
  <2> HIDE DEF tasks
  <2> QED BY <1>3, <2>1, <2>2, <2>3 DEF SafeTasks
<1> HIDE DEF tasks
<1>4. pc'[c] = "body" \/ (pc'[c] = "plug" /\ todo'[c] = todo[c] \ {x})
  BY <1>1 DEF TypeOK
<1>5. WalkOK(c)'
  BY <1>1, <1>4 DEF CoverInv, WalkOK
<1>6. Trusted /\ Covers => FlashCovers'
  BY <1>1 DEF Covers, FlashCovers, Calm
<1>7. Leaves(c)
  BY <1>1, <1>2, <1>3, <1>4, <1>5, <1>6 DEF Leaves
<1> QED BY <1>0, <1>7, CoverKept

-----------------------------------------------------------------------------
(* user_io_set_plug_all: what is read obeys the rule, and what is written     *)
(* back opens the master before a branch.                                   *)

LEMMA CoverRead ==
  ASSUME TypeOK, ReportInv, CoverInv, NEW c \in Ctx, NEW S \in SUBSET Plug, ReadArgs(c, S)
  PROVE  CoverInv'
<1>1. /\ UNCHANGED <<cfg, flash, hit, due, req>>
      /\ pc[c] = "args" /\ S \subseteq todo[c]
      /\ arg' = [arg EXCEPT ![c] = [p \in Plug |-> IF p \in S THEN cfg.on[p] ELSE @[p]]]
      /\ IF S = todo[c]
         THEN pc' = [pc EXCEPT ![c] = "back"] /\ todo' = [todo EXCEPT ![c] = Plug]
         ELSE todo' = [todo EXCEPT ![c] = @ \ S] /\ pc' = pc
  BY Zenon DEF ReadArgs, At, Goto, device, ghosts
<1>2. Frame(c)
  <2>1. \E X : todo' = [todo EXCEPT ![c] = X]
    BY <1>1, Zenon
  <2> QED BY <1>1, <2>1, AgreeArgs, FrameStep
<1>3. /\ \A p \in Plug : arg'[c][p] = IF p \in S THEN cfg.on[p] ELSE arg[c][p]
      /\ IF S = todo[c] THEN pc'[c] = "back" /\ todo'[c] = Plug
                        ELSE pc'[c] = "args" /\ todo'[c] = todo[c] \ S
  BY <1>1 DEF TypeOK
<1>4. WalkOK(c)'
  BY <1>3 DEF WalkOK
<1>5. ASSUME Trusted, Covers PROVE Covers'
  <2>1. SafeTasks(cfg') /\ OnOrOff(cfg'.on) /\ \A p : Uncovered(p)' <=> Uncovered(p)
    BY <1>1, <1>5 DEF Covers, Uncovered
  <2>2. \A p \in Plug : pc'[c] = "back" \/ p \notin todo'[c] => arg'[c][p] = cfg.on[p]
    BY <1>1, <1>3, <1>5 DEF Covers, ReadsCover
  <2>3. ReadsCover'
    <3>1. CASE c = "main"
      <4>1. pc["isr"] = "idle" /\ pc'["isr"] = "idle"
        BY <1>2, <3>1 DEF Frame, Ctx
      <4>2. MasterCovers(cfg.on)
        <5>1. \A p \in Branch : ~ Mending(p)
          BY <1>1, <3>1, <4>1 DEF Mending, Ctx
        <5> QED BY <1>5, <5>1 DEF Covers, OnCovers, Uncovered, MasterCovers
      <4>3. pc'["main"] = "back" => /\ MasterCovers(arg'["main"]) /\ OnOrOff(arg'["main"])
                                    /\ todo'["main"] = Plug
        BY <1>3, <1>5, <2>2, <3>1, <4>2, PlugFacts DEF Covers, OnOrOff, MasterCovers
      <4>4. pc'["main"] # "idle" /\ 0 \in Plug /\ cfg' = cfg
        BY <1>1, <1>3, <3>1, PlugFacts
      <4> QED BY <2>2, <3>1, <4>1, <4>3, <4>4 DEF ReadsCover, Ctx
    <3>2. CASE c = "isr"
      <4>1. /\ pc'["main"] = pc["main"] /\ todo'["main"] = todo["main"]
            /\ arg'["main"] = arg["main"] /\ pc["isr"] # "idle"
        BY <1>2, <3>2 DEF Frame, Ctx
      <4>2. /\ pc'["isr"] = "args" => \A p \in Plug : p \notin todo'["isr"] => arg'["isr"][p] = cfg'.on[p]
            /\ pc'["isr"] = "back" => \A p \in Plug : arg'["isr"][p] = cfg'.on[p]
        BY <1>1, <2>2, <3>2
      <4>3. ReadsCover /\ cfg' = cfg
        BY <1>1, <1>5 DEF Covers
      <4> QED BY <4>1, <4>2, <4>3 DEF ReadsCover, Ctx
    <3> QED BY <3>1, <3>2 DEF Ctx
  <2>4. OnCovers'
    BY <1>1, <1>2, <1>5, <2>1, MendingKept DEF Covers, OnCovers
  <2>5. TaskIsNoted'
    <3>1. ASSUME NEW p \in Branch, NEW s \in Slot,
                 pc'["main"] = "master", Turn(p, s)', Uncovered(p)'
          PROVE  save'["main"]
      <4>1. c = "isr" /\ pc["main"] = "master" /\ save'["main"] = save["main"]
        BY <1>2, <1>3, <3>1 DEF Frame, Ctx
      <4> QED BY <1>1, <1>5, <2>1, <3>1, <4>1 DEF Covers, TaskIsNoted, Turn
    <3> QED BY <1>1, <1>5, <3>1 DEF Covers, TaskIsNoted
  <2> QED BY <1>1, <1>2, <1>5, <2>1, <2>3, <2>4, <2>5, NotedKept DEF Covers
<1> QED BY <1>2, <1>4, <1>5, CoverMoved

LEMMA CoverWriteBack ==
  ASSUME TypeOK, ReportInv, ArgsInv, CoverInv, NEW c \in Ctx, NEW p \in Plug, WriteBack(c, p)
  PROVE  CoverInv'
<1>0. cfg \in Config /\ cfg.on \in [Plug -> Byte] /\ 0 \in Plug
  BY SetField, PlugFacts DEF TypeOK
<1>1. /\ UNCHANGED <<flash, hit, due, req, arg>>
      /\ pc[c] = "back" /\ First(p, todo[c])
      /\ cfg' = [cfg EXCEPT !.on[p] = Stored(c, p)]
      /\ IF todo[c] = {p}
         THEN pc' = [pc EXCEPT ![c] = "val"] /\ todo' = [todo EXCEPT ![c] = Plug]
         ELSE todo' = [todo EXCEPT ![c] = @ \ {p}] /\ pc' = pc
  BY Zenon DEF WriteBack, At, Goto, device, ghosts
<1>2. Frame(c)
  <2>1. \E X : todo' = [todo EXCEPT ![c] = X]
    BY <1>1, Zenon
  <2> QED BY <1>1, <2>1, AgreeStore, FrameStep
<1>3. /\ cfg'.on = [cfg.on EXCEPT ![p] = Stored(c, p)] /\ cfg'.task = cfg.task
      /\ IF todo[c] = {p} THEN pc'[c] = "val"
                          ELSE pc'[c] = "back" /\ todo'[c] = todo[c] \ {p}
  BY <1>0, <1>1, OnField, TaskField DEF TypeOK
<1>4. WalkOK(c)'
  BY <1>3 DEF WalkOK
<1>5. ASSUME Trusted, Covers PROVE Covers'
  <2>1. CASE c = "isr"
    <3>1. Stored(c, p) = cfg.on[p]
      BY <1>1, <1>5, <2>1 DEF Covers, ReadsCover, Stored
    <3>2. cfg'.on = cfg.on
      BY <1>0, <1>3, <3>1
    <3>3. \A q : Uncovered(q)' <=> Uncovered(q)
      BY <3>2 DEF Uncovered
    <3>4. /\ pc'["main"] = pc["main"] /\ todo'["main"] = todo["main"]
          /\ save'["main"] = save["main"] /\ pc["isr"] # "idle"
      BY <1>2, <2>1 DEF Frame, Ctx
    <3>5. ReadsCover'
      <4>1. pc'["isr"] # "args" /\ arg' = arg /\ ReadsCover
        BY <1>1, <1>3, <1>5, <2>1 DEF Covers
      <4> QED BY <1>1, <2>1, <3>2, <3>4, <4>1 DEF ReadsCover, Ctx
    <3>6. OnCovers'
      <4>1. ASSUME NEW q \in Branch, Uncovered(q)' PROVE Mending(q)'
        <5>1. Mending(q)
          BY <1>5, <3>3, <4>1 DEF Covers, OnCovers
        <5>2. \A s \in Slot : Turn(q, s)' <=> Turn(q, s)
          BY <1>1 DEF Turn
        <5> QED BY <1>1, <2>1, <3>4, <5>1, <5>2 DEF Mending, First, Ctx
      <4> QED BY <4>1 DEF OnCovers
    <3>7. TaskIsNoted'
      <4>1. \A q, s : Turn(q, s)' <=> Turn(q, s)
        BY <1>1 DEF Turn
      <4> QED BY <1>1, <1>5, <2>1, <3>3, <3>4, <4>1 DEF Covers, TaskIsNoted
    <3>8. SafeTasks(cfg') /\ OnOrOff(cfg'.on)
      BY <1>3, <1>5, <3>2 DEF Covers, SafeTasks
    <3> QED BY <1>1, <1>2, <1>5, <3>5, <3>6, <3>7, <3>8, NotedKept DEF Covers
  <2>2. CASE c = "main"
    <3> DEFINE a == arg["main"]
    <3>1. pc["isr"] = "idle" /\ pc'["isr"] = "idle"
      BY <1>2, <2>2 DEF Frame, Ctx
    <3>2. /\ MasterCovers(a) /\ OnOrOff(a)
          /\ 0 \in todo["main"] => todo["main"] = Plug
          /\ 0 \notin todo["main"] /\ a[0] # 0 => cfg.on[0] # 0
      BY <1>1, <1>5, <2>2 DEF Covers, ReadsCover
    <3>3. cfg'.on = [cfg.on EXCEPT ![p] = a[p]]
      BY <1>3, <2>2, <3>2 DEF Stored, OnOrOff
    <3>4. 0 \in todo["main"] <=> p = 0
      <4>1. \A q \in Plug : q >= 0
        BY DEF Plug
      <4> QED BY <1>0, <1>1, <2>2, <4>1, PlugFacts DEF First
    <3>5. todo["main"] # {0}
      <4>1. 1 \in Plug
        BY PlugNumAssumption DEF Plug
      <4> QED BY <3>2, <4>1
    <3>6. SafeTasks(cfg') /\ OnOrOff(cfg'.on)
      BY <1>0, <1>3, <1>5, <3>2, <3>3 DEF Covers, SafeTasks, OnOrOff
    <3>7. cfg'.on[0] = IF p = 0 THEN a[0] ELSE cfg.on[0]
      BY <1>0, <3>3
    <3>8. OnCovers'
      <4>1. ASSUME NEW q \in Branch, Uncovered(q)' PROVE Mending(q)'
        <5>1. q # 0 /\ q \in Plug
          BY <4>1 DEF Branch
        <5>2. CASE p = 0
          BY <1>3, <2>2, <3>2, <3>4, <3>5, <5>1, <5>2 DEF Mending
        <5>3. CASE p # 0
          <6>1. cfg.on[0] = 0 /\ a[0] = 0
            BY <3>2, <3>4, <3>7, <4>1, <5>3 DEF Uncovered
          <6>2. a[q] = 0
            BY <3>2, <6>1, <4>1 DEF MasterCovers
          <6>3. q # p /\ Uncovered(q)
            BY <1>0, <3>3, <4>1, <5>1, <5>3, <6>1, <6>2 DEF Uncovered
          <6>4. q \in todo["main"]
            BY <1>1, <1>5, <2>2, <3>1, <6>3 DEF Covers, OnCovers, Mending, Ctx
          <6> QED BY <1>3, <2>2, <3>4, <5>3, <6>3, <6>4 DEF Mending
        <5> QED BY <5>2, <5>3
      <4> QED BY <4>1 DEF OnCovers
    <3>9. ReadsCover'
      <4>1. arg' = arg
        BY <1>1
      <4>2. pc'["main"] = "back" => /\ 0 \notin todo'["main"]
                                    /\ a[0] # 0 => cfg'.on[0] # 0
        BY <1>3, <2>2, <3>2, <3>4, <3>7
      <4>3. pc'["main"] # "args"
        BY <1>3, <2>2
      <4> QED BY <3>1, <3>2, <4>1, <4>2, <4>3 DEF ReadsCover, Ctx
    <3>10. TaskIsNoted'
      BY <1>1, <1>3, <1>5, <2>2 DEF Covers, TaskIsNoted
    <3> QED BY <1>1, <1>2, <1>5, <3>6, <3>8, <3>9, <3>10, NotedKept DEF Covers
  <2> QED BY <2>1, <2>2 DEF Ctx
<1> QED BY <1>2, <1>4, <1>5, CoverMoved

-----------------------------------------------------------------------------
(* The timer.                                                              *)

LEMMA TurnOne == ASSUME TypeOK, NEW p \in Plug, NEW s \in Slot, NEW q \in Plug, NEW r \in Slot,
                        Turn(p, s), Turn(q, r)
                 PROVE  p = q
  BY PlugFacts DEF Turn

LEMMA CoverFire ==
  ASSUME TypeOK, ReportInv, CoverInv, NEW p \in Plug, NEW s \in Slot, Fire(p, s)
  PROVE  CoverInv'
<1> DEFINE action == cfg.task[p][s].action
<1>0. /\ cfg \in Config /\ cfg.on \in [Plug -> Byte] /\ 0 \in Plug
      /\ cfg.task \in [Plug -> [Slot -> Task]] /\ "main" \in Ctx
  BY SetField, PlugFacts DEF TypeOK, Ctx
<1>1. /\ UNCHANGED <<flash, hit, due, req, todo>>
      /\ pc["main"] = "fire" /\ pc["isr"] = "idle" /\ Turn(p, s)
      /\ pc' = [pc EXCEPT !["main"] = "master"]
      /\ save' = [save EXCEPT !["main"] = Dirty(p, s)]
      /\ \E b : cfg' = [cfg EXCEPT !.on[p] = action, !.task[p][s].on = b]
  BY Zenon DEF Fire, At, Goto, device
<1>2. Frame("main")
  BY <1>0, <1>1, AgreeFire, FrameStep
<1>3. /\ cfg'.on = [cfg.on EXCEPT ![p] = action]
      /\ \E b : cfg'.task = [cfg.task EXCEPT ![p][s].on = b]
  <2>1. \A a, b : /\ [cfg EXCEPT !.on[p] = a, !.task[p][s].on = b].on = [cfg.on EXCEPT ![p] = a]
                  /\ [cfg EXCEPT !.on[p] = a, !.task[p][s].on = b].task
                       = [cfg.task EXCEPT ![p][s].on = b]
    BY <1>0 DEF Config
  <2> HIDE DEF action
  <2>2. PICK b : cfg' = [cfg EXCEPT !.on[p] = action, !.task[p][s].on = b]
    BY <1>1
  <2>3. cfg'.on = [cfg.on EXCEPT ![p] = action]
    BY <2>1, <2>2
  <2>4. cfg'.task = [cfg.task EXCEPT ![p][s].on = b]
    BY <2>1, <2>2
  <2> QED BY <2>3, <2>4
<1>4. \A q \in Plug, r \in Slot : cfg'.task[q][r].action = cfg.task[q][r].action
  BY <1>0, <1>3 DEF Task
<1>5. /\ pc'["main"] = "master" /\ save'["main"] = Dirty(p, s) /\ pc'["isr"] = "idle"
  BY <1>0, <1>1 DEF TypeOK, Ctx
<1>6. WalkOK("main")'
  BY <1>5 DEF WalkOK
<1>7. ASSUME Trusted, Covers PROVE Covers'
  <2>1. SafeTasks(cfg') /\ SafeAction(p, action)
    BY <1>4, <1>7 DEF Covers, SafeTasks
  <2>2. OnOrOff(cfg'.on)
    BY <1>0, <1>3, <1>7, <2>1 DEF Covers, OnOrOff, SafeAction
  <2>3. ReadsCover'
    BY <1>0, <1>2, <1>5, <1>7, ReadsKept DEF Covers
  <2>4. \A q \in Branch : ~ Uncovered(q)
    BY <1>1, <1>7 DEF Covers, OnCovers, Mending, Ctx
  <2>5. ASSUME NEW q \in Branch, Uncovered(q)' PROVE q = p /\ p # 0 /\ action = 1
    <3>1. q \in Plug /\ q # 0
      BY <2>5 DEF Branch
    <3>2. p # 0
      BY <1>0, <1>3, <2>1, <2>5 DEF Uncovered, SafeAction
    <3>3. q = p
      BY <1>0, <1>3, <2>4, <2>5, <3>1, <3>2 DEF Uncovered
    <3> QED BY <1>0, <1>3, <2>1, <2>5, <3>2, <3>3 DEF Uncovered, SafeAction
  <2>6. OnCovers'
    <3>1. Turn(p, s)'
      BY <1>1 DEF Turn
    <3> QED BY <1>5, <2>5, <3>1 DEF OnCovers, Mending
  <2>7. TaskIsNoted'
    <3>1. ASSUME NEW q \in Branch, Uncovered(q)' PROVE save'["main"]
      <4>1. q = p /\ p # 0 /\ action = 1
        BY <2>5, <3>1
      <4>2. cfg.on[p] # 1
        <5>1. cfg'.on[0] = cfg.on[0]
          BY <1>0, <1>3, <4>1
        <5> QED BY <2>4, <3>1, <4>1, <5>1 DEF Uncovered
      <4> QED BY <1>5, <4>1, <4>2 DEF Dirty, Differs
    <3> QED BY <1>1, <1>7, <3>1 DEF Covers, TaskIsNoted
  <2> QED BY <1>0, <1>1, <1>2, <1>7, <2>1, <2>2, <2>3, <2>6, <2>7, NotedKept DEF Covers
<1> QED BY <1>0, <1>2, <1>6, <1>7, CoverMoved

LEMMA CoverMaster ==
  ASSUME TypeOK, ReportInv, CoverInv, NEW p \in Plug, NEW s \in Slot, FireMaster(p, s)
  PROVE  CoverInv'
<1> DEFINE opens == p > 0 /\ cfg.on[p] = 1
           left  == due \ {<<p, s>>}
<1>0. cfg \in Config /\ cfg.on \in [Plug -> Byte] /\ 0 \in Plug /\ "main" \in Ctx
  BY SetField, PlugFacts DEF TypeOK, Ctx
<1>1. /\ UNCHANGED flash
      /\ pc["main"] = "master" /\ pc["isr"] = "idle" /\ Turn(p, s)
      /\ cfg' = IF opens THEN [cfg EXCEPT !.on[0] = 1] ELSE cfg
      /\ hit' = IF opens /\ cfg.on[0] # 1 /\ ~ save["main"] THEN hit \cup {"task"} ELSE hit
      /\ \/ Goto("main", "idle") /\ Return("main")
         \/ /\ Goto("main", IF left = {} THEN "val" ELSE "fire")
            /\ \E T : todo' = [todo EXCEPT !["main"] = T]
            /\ UNCHANGED <<job, req, arg, snap, buf, save, retained>>
  BY Zenon DEF FireMaster, At, device
<1>2. /\ pc'["main"] \in {"idle", "val", "fire"}
      /\ pc'["isr"] = "idle"
      /\ \A d \in Ctx \ {"main"} : /\ pc'[d] = pc[d] /\ todo'[d] = todo[d] /\ arg'[d] = arg[d]
                                   /\ req'[d] = req[d] /\ save'[d] = save[d]
      /\ req'["main"] \in {req["main"], NoRequest}
  BY <1>0, <1>1 DEF Goto, Return, TypeOK, Ctx
<1>3. RequestOK("main")' /\ WalkOK("main")'
  BY <1>0, <1>2, SafeRequests DEF CoverInv, RequestOK, WalkOK
<1>4. opens /\ Trusted /\ Covers => ~ (cfg.on[0] # 1 /\ ~ save["main"])
  <2>1. SUFFICES ASSUME opens, Trusted, Covers, cfg.on[0] # 1 PROVE save["main"]
    OBVIOUS
  <2>2. p \in Branch /\ Uncovered(p)
    BY <1>0, <2>1 DEF Branch, Uncovered, Covers, OnOrOff
  <2> QED BY <1>1, <2>1, <2>2 DEF Covers, TaskIsNoted
<1>5. /\ hit' = hit \/ hit' = hit \cup {"task"}
      /\ Trusted /\ Covers => hit' = hit
  BY <1>1, <1>4
<1>6. Trusted' => Trusted
  BY <1>5 DEF Trusted
<1>7. \A d \in Ctx : WalkOK(d)' /\ RequestOK(d)'
  BY <1>2, <1>3 DEF CoverInv, WalkOK, RequestOK
<1>8. ASSUME Trusted, Covers PROVE Covers'
  <2>1. Frame("main")
    BY <1>1, <1>2, <1>3, <1>5, <1>8 DEF Frame
  <2>2. /\ cfg'.on = IF opens THEN [cfg.on EXCEPT ![0] = 1] ELSE cfg.on
        /\ cfg'.task = cfg.task
    BY <1>0, <1>1, OnField, TaskField
  <2>3. SafeTasks(cfg') /\ OnOrOff(cfg'.on)
    BY <1>0, <1>8, <2>2 DEF Covers, SafeTasks, OnOrOff
  <2>4. ReadsCover'
    BY <1>0, <1>2, <1>8, <2>1, ReadsKept DEF Covers
  <2>5. ASSUME NEW q \in Branch, Uncovered(q)' PROVE FALSE
    <3>1. ~ opens /\ Uncovered(q)
      BY <1>0, <2>2, <2>5 DEF Uncovered
    <3>2. Mending(q)
      BY <1>8, <3>1 DEF Covers, OnCovers
    <3>3. PICK r \in Slot : Turn(q, r)
      BY <1>1, <3>2 DEF Mending, Ctx
    <3>4. q = p /\ q > 0
      BY <1>1, <3>3, TurnOne, PlugFacts, PlugNumAssumption DEF Branch, Plug
    <3> QED BY <1>8, <3>1, <3>4, <2>5 DEF Covers, OnOrOff, Uncovered, Branch
  <2>6. OnCovers' /\ TaskIsNoted'
    BY <1>5, <1>8, <2>5 DEF OnCovers, TaskIsNoted, Covers
  <2> QED BY <1>0, <1>1, <1>5, <1>8, <2>1, <2>3, <2>4, <2>6, NotedKept DEF Covers
<1> QED BY <1>6, <1>7, <1>8 DEF CoverInv

-----------------------------------------------------------------------------
(* The flash.                                                              *)

\* An image that is not loaded gives the defaults.
LEMMA LoadSafe == ASSUME NEW d \in Config, SafeImage(d), d.version = USER_CONFIG_VERSION
                  PROVE  SafeImage(Load(d))
<1>1. CASE d.named
  BY <1>1, LoadVersion
<1>2. CASE ~ d.named
  <2>1. Migrate(d) = d
    BY DEF Migrate, USER_CONFIG_VERSION
  <2>2. Load(d) = DefaultConfig
    BY <1>2, <2>1 DEF Load, NeedsDefaults
  <2> QED BY <2>2, SafeDefaults
<1> QED BY <1>1, <1>2

LEMMA CoverWrite ==
  ASSUME TypeOK, ReportInv, SavedInv, CoverInv, NEW c \in Ctx, WriteSector(c)
  PROVE  CoverInv'
<1>1. /\ cfg' = cfg
      /\ flash' = Program(flash, buf[c])
      /\ pc[c] = "write"
      /\ hit' = IF c = "main" THEN hit \ {"rule"} ELSE hit
  BY Zenon DEF WriteSector, At
<1>2. PICK l \in {"body", "val", "idle"} : Continue(c, l)
  <2>1. (CASE job[c] = "timer" -> "body"
           [] job[c] = "boot"  -> "val"
           [] OTHER            -> "idle") \in {"body", "val", "idle"}
    OBVIOUS
  <2> QED BY <2>1, Zenon DEF WriteSector
<1>3. pc'[c] \in {"body", "val", "idle"}
  BY <1>2, ContinueKeeps
<1>4. Frame(c)
  BY <1>1, <1>2, AgreeSave, FrameStep
<1>5. WalkOK(c)'
  BY <1>3 DEF WalkOK
<1>6. ASSUME Trusted, Covers, Calm' PROVE SafeImage(Load(flash'))
  <2>1. ~ Unsaved /\ "back" \notin hit
    BY <1>1, <1>6 DEF Covers, TaskIsNoted, Unsaved, Calm
  <2>2. flash = Erased /\ SameHead(buf[c]) /\ \A p \in Plug : SamePlug(buf[c], p)
    BY <1>1, <2>1 DEF SavedInv, Copying
  <2>3. buf[c] = cfg /\ cfg \in Config
    BY <2>2, SameImage DEF TypeOK
  <2>4. flash' = cfg
    BY <1>1, <2>2, <2>3, ProgramErased
  <2>5. MasterCovers(cfg.on)
    <3>1. ASSUME NEW p \in Branch PROVE ~ Mending(p)
      <4>1. CASE c = "main"
        <5>1. pc["isr"] = "idle"
          BY <1>4, <4>1 DEF Frame
        <5> QED BY <1>1, <4>1, <5>1 DEF Mending, Ctx
      <4>2. CASE c = "isr"
        <5>1. pc["main"] \notin {"rule", "clear", "master", "back"}
          BY <1>1, <1>6, <4>2 DEF Covers, PressIsNoted, Calm
        <5> QED BY <1>1, <4>2, <5>1 DEF Mending, Ctx
      <4> QED BY <4>1, <4>2 DEF Ctx
    <3> QED BY <1>6, <3>1 DEF Covers, OnCovers, Uncovered, MasterCovers
  <2>6. SafeImage(cfg) /\ cfg.version = USER_CONFIG_VERSION
    BY <1>6, <2>5 DEF Covers, SafeImage, SavedInv
  <2> QED BY <2>3, <2>4, <2>6, LoadSafe
<1>7. Leaves(c)
  BY <1>1, <1>3, <1>5, <1>6 DEF Leaves, FlashCovers
<1> QED BY <1>4, <1>7, CoverKept

-----------------------------------------------------------------------------
(* What starts a handler, the interrupt and a boot.                          *)

LEMMA CoverStart ==
  ASSUME NoTaskClosesMaster, TypeOK, CoverInv,
         \/ \E r \in Requests : Message(r)
         \/ KeyShort
         \/ KeyReset
         \/ \E D \in SUBSET (Plug \X Slot) : Tick(D)
  PROVE  CoverInv'
<1>0. "main" \in Ctx /\ cfg \in Config
  BY DEF TypeOK, Ctx
<1>1. /\ UNCHANGED <<flash, hit, arg, save>>
      /\ pc["isr"] = "idle" /\ pc["main"] = "idle"
  BY Zenon DEF Message, KeyShort, KeyReset, Tick, Idle, StartJson, device, ghosts
<1>2. /\ \E l \in {"setting", "copy", "fire"} : pc' = [pc EXCEPT !["main"] = l]
      /\ todo' = todo \/ \E S : todo' = [todo EXCEPT !["main"] = S]
  BY Zenon DEF Message, KeyShort, KeyReset, Tick, StartJson, Goto
<1>3. \/ req' = req
      \/ \E r : req' = [req EXCEPT !["main"] = r] /\ \A t \in r.task : SafeAction(t[1], t[3].action)
  <2>1. ASSUME NEW r \in Requests, Message(r)
        PROVE  req' = [req EXCEPT !["main"] = r] /\ \A t \in r.task : SafeAction(t[1], t[3].action)
    BY <2>1 DEF Message, StartJson, NoTaskClosesMaster
  <2>2. CASE KeyShort
    <3>1. \E v : req' = [req EXCEPT !["main"] = SwitchRequest(Plug, v)]
      BY <2>2, Zenon DEF KeyShort, StartJson
    <3> QED BY <3>1, SafeRequests
  <2>3. CASE KeyReset \/ \E D \in SUBSET (Plug \X Slot) : Tick(D)
    BY <2>3, Zenon DEF KeyReset, Tick
  <2> QED BY <2>1, <2>2, <2>3
<1>4. /\ cfg'.on = cfg.on /\ cfg'.task = cfg.task
  <2>1. cfg' = cfg \/ cfg' = [cfg EXCEPT !.named = FALSE]
    BY Zenon DEF Message, KeyShort, KeyReset, Tick
  <2> QED BY <1>0, <2>1 DEF Config
<1>5. pc'["main"] \in {"setting", "copy", "fire"}
  BY <1>0, <1>2 DEF TypeOK
<1>6. Frame("main")
  <2>1. RequestOK("main")'
    BY <1>0, <1>3 DEF CoverInv, RequestOK, TypeOK
  <2>2. \A d \in Ctx \ {"main"} : /\ pc'[d] = pc[d] /\ todo'[d] = todo[d] /\ arg'[d] = arg[d]
                                  /\ req'[d] = req[d] /\ save'[d] = save[d]
    BY <1>1, <1>2, <1>3 DEF TypeOK
  <2> QED BY <1>1, <2>1, <2>2 DEF Frame
<1>7. WalkOK("main")'
  BY <1>5 DEF WalkOK
<1>8. Trusted /\ Covers => FlashCovers'
  BY <1>1 DEF Covers, FlashCovers, Calm
<1>9. Leaves("main")
  BY <1>1, <1>4, <1>5, <1>7, <1>8 DEF Leaves, SafeTasks
<1> QED BY <1>0, <1>6, <1>9, CoverKept

\* A press that falls where the rule is broken is noted, and the interrupt
\* handles the one branch.
LEMMA CoverIrq == ASSUME TypeOK, CoverInv, NEW p \in Branch, ButtonIrq(p)
                  PROVE  CoverInv'
<1>0. "main" \in Ctx /\ "isr" \in Ctx
  BY DEF Ctx
<1>1. PICK v : LET r == SwitchRequest({p}, v) IN
        /\ UNCHANGED <<cfg, flash, arg, save, due>>
        /\ pc["isr"] = "idle" /\ hit' = hit \cup Window
        /\ pc' = [pc EXCEPT !["isr"] = "setting"]
        /\ req' = [req EXCEPT !["isr"] = r]
        /\ todo' = [todo EXCEPT !["isr"] = Touched(r)]
  BY Zenon DEF ButtonIrq, StartJson, Goto, device
<1> DEFINE r == SwitchRequest({p}, v)
<1>2. r.set = [q \in Plug |-> IF q \in {p} THEN v ELSE NoSet] /\ r.rename = {} /\ r.task = {}
  BY DEF SwitchRequest, NoRequest
<1>3. Touched(r) \subseteq Branch
  <2> HIDE DEF r
  <2> QED BY <1>2 DEF Touched
<1>4. /\ pc'["main"] = pc["main"] /\ todo'["main"] = todo["main"] /\ req'["main"] = req["main"]
      /\ pc'["isr"] = "setting" /\ todo'["isr"] = Touched(r) /\ req'["isr"] = r
  BY <1>0, <1>1 DEF TypeOK
<1>5. \A d \in Ctx : WalkOK(d)' /\ RequestOK(d)'
  <2>1. WalkOK("isr")'
    BY <1>3, <1>4 DEF WalkOK
  <2>2. RequestOK("isr")'
    BY <1>4, SafeRequests DEF RequestOK
  <2>3. WalkOK("main")' /\ RequestOK("main")'
    BY <1>0, <1>4 DEF CoverInv, WalkOK, RequestOK
  <2> QED BY <2>1, <2>2, <2>3 DEF Ctx
<1>6. Trusted' => Trusted
  BY <1>1 DEF Trusted
<1>7. ASSUME Trusted', Covers PROVE Covers'
  <2>1. SafeTasks(cfg') /\ OnOrOff(cfg'.on) /\ \A q : Uncovered(q)' <=> Uncovered(q)
    BY <1>1, <1>7 DEF Covers, Uncovered
  <2>2. /\ pc["main"] = "args" => todo["main"] = Plug
        /\ pc["main"] \in {"rule", "clear", "master"} => "rule" \in hit'
        /\ pc["main"] = "back" => "back" \in hit'
        /\ "task" \notin hit'
    BY <1>1, <1>7 DEF Trusted, Window, Windows, Covers, TaskIsNoted
  <2>3. ReadsCover'
    <3>1. ReadsCover /\ cfg' = cfg /\ arg' = arg
      BY <1>1, <1>7 DEF Covers
    <3> QED BY <1>0, <1>4, <2>2, <3>1 DEF ReadsCover, Ctx
  <2>4. PressIsNoted'
    BY <1>4, <2>2 DEF PressIsNoted
  <2>5. \A q, s : Turn(q, s)' <=> Turn(q, s)
    BY <1>1 DEF Turn
  <2>6. OnCovers'
    <3>1. ASSUME NEW q \in Branch, Uncovered(q)' PROVE Mending(q)'
      <4>1. Mending(q)
        BY <1>7, <2>1, <3>1 DEF Covers, OnCovers
      <4> QED BY <1>1, <1>4, <2>5, <4>1 DEF Mending, First, Ctx
    <3> QED BY <3>1 DEF OnCovers
  <2>7. TaskIsNoted'
    BY <1>1, <1>4, <1>7, <2>1, <2>2, <2>5 DEF Covers, TaskIsNoted
  <2>8. FlashCovers'
    BY <1>1, <1>7 DEF Covers, FlashCovers, Calm
  <2> QED BY <2>1, <2>3, <2>4, <2>6, <2>7, <2>8 DEF Covers
<1> QED BY <1>5, <1>6, <1>7 DEF CoverInv

\* A boot with nobody in a handler, from an image that obeys the rule: a write
\* cut off in a sector that was erased leaves no version, and the defaults.
LEMMA CoverBoot == ASSUME TypeOK, SavedInv, CoverInv, Restart \/ PowerLoss PROVE CoverInv'
<1>0. PICK image \in {flash} \cup CutOff : image \in Config /\ Boot(image)
  BY BootImage
<1> DEFINE fresh == NeedsDefaults(Migrate(image))
<1>1. /\ cfg' = Load(image) /\ flash' = image
      /\ pc'["isr"] = "idle" /\ pc'["main"] \in {"copy", "val"}
      /\ \A d \in Ctx : pc'[d] \in {"idle", "copy", "val"} /\ req'[d] = NoRequest
      /\ hit' = IF fresh \/ Calm THEN {} ELSE {"boot"}
  BY <1>0 DEF Boot, Ctx, Calm
<1>2. \A d \in Ctx : WalkOK(d)' /\ RequestOK(d)'
  BY <1>1, SafeRequests DEF WalkOK, RequestOK
<1>3. ASSUME Trusted' PROVE Covers'
  <2>1. hit' = {} /\ (fresh \/ Calm)
    BY <1>1, <1>3 DEF Trusted
  <2>2. SafeImage(Load(image))
    <3>1. CASE fresh
      <4>1. Load(image) = DefaultConfig
        BY <3>1 DEF Load
      <4> QED BY <4>1, SafeDefaults
    <3>2. CASE ~ fresh
      <4>1. Covers
        BY <2>1, <3>2 DEF CoverInv, Calm, Trusted
      <4>2. ~ Unsaved
        BY <2>1, <3>2, <4>1 DEF Unsaved, Calm, Covers, TaskIsNoted
      <4>3. image = flash
        <5> SUFFICES ASSUME image \in CutOff PROVE FALSE
          BY <1>0
        <5>1. PICK c \in Ctx, k \in Places :
                At(c, "write") /\ image = ProgramUpTo(flash, buf[c], k)
          BY DEF CutOff
        <5>2. flash = Erased
          BY <4>2, <5>1 DEF SavedInv, At
        <5>3. image.version = flash.version
          BY <5>1 DEF ProgramUpTo, Program
        <5>4. image.version = 255
          BY <5>2, <5>3 DEF Erased
        <5> QED BY <3>2, <5>4 DEF Migrate, NeedsDefaults, USER_CONFIG_VERSION
      <4> QED BY <2>1, <3>2, <4>1, <4>3 DEF Covers, FlashCovers
    <3> QED BY <3>1, <3>2
  <2>3. SafeTasks(cfg') /\ OnOrOff(cfg'.on) /\ OnCovers' /\ FlashCovers'
    BY <1>1, <2>2 DEF SafeImage, OnCovers, Uncovered, MasterCovers, FlashCovers
  <2>4. ReadsCover' /\ PressIsNoted' /\ TaskIsNoted'
    BY <1>1, <2>1 DEF ReadsCover, PressIsNoted, TaskIsNoted, Ctx
  <2> QED BY <2>3, <2>4 DEF Covers
<1> QED BY <1>2, <1>3 DEF CoverInv

LEMMA CoverInit == NoTaskClosesMaster /\ Init => CoverInv
<1> SUFFICES ASSUME NoTaskClosesMaster, Init PROVE CoverInv
  OBVIOUS
<1>1. /\ cfg = Load(flash) /\ SafeImage(Load(flash)) /\ hit = {}
      /\ pc["isr"] = "idle" /\ pc["main"] \in {"copy", "val"}
      /\ \A d \in Ctx : pc[d] \in {"idle", "copy", "val"} /\ req[d] = NoRequest
  BY DEF Init, Ctx, NoTaskClosesMaster
<1>2. \A d \in Ctx : WalkOK(d) /\ RequestOK(d)
  BY <1>1, SafeRequests DEF WalkOK, RequestOK
<1>3. SafeTasks(cfg) /\ OnOrOff(cfg.on) /\ OnCovers /\ FlashCovers
  BY <1>1 DEF SafeImage, OnCovers, Uncovered, MasterCovers, FlashCovers
<1>4. ReadsCover /\ PressIsNoted /\ TaskIsNoted
  BY <1>1 DEF ReadsCover, PressIsNoted, TaskIsNoted, Ctx
<1> QED BY <1>2, <1>3, <1>4 DEF CoverInv, Covers

LEMMA CoverStep ==
  NoTaskClosesMaster /\ TypeOK /\ ArgsInv /\ ReportInv /\ SavedInv /\ CoverInv /\ [Next]_vars
    => CoverInv'
<1> SUFFICES ASSUME NoTaskClosesMaster, TypeOK, ArgsInv, ReportInv, SavedInv, CoverInv,
                    [Next]_vars
             PROVE  CoverInv'
  OBVIOUS
<1>1. ASSUME NEW c \in Ctx, Step(c) PROVE CoverInv'
  <2>1. ASSUME NEW x \in Plug, PlugOn(c, x) \/ PlugRule(c, x) \/ PlugClear(c, x) \/ PlugStore(c, x)
        PROVE  CoverInv'
    BY <2>1, CoverSwitch, CoverRule, CoverClear, CoverStore
  <2>2. ASSUME NEW S \in SUBSET Plug, ReadArgs(c, S) PROVE CoverInv'
    BY <2>2, CoverRead
  <2>3. ASSUME NEW x \in Plug, WriteBack(c, x) PROVE CoverInv'
    BY <2>3, CoverWriteBack
  <2>4. CASE WriteSector(c)
    BY <2>4, CoverWrite
  <2> QED BY <1>1, <2>1, <2>2, <2>3, <2>4, CoverQuiet, Zenon DEF Step
<1>2. ASSUME NEW p \in Plug, NEW s \in Slot, Fire(p, s) \/ FireMaster(p, s) PROVE CoverInv'
  BY <1>2, CoverFire, CoverMaster
<1>3. ASSUME \/ \E r \in Requests : Message(r)
             \/ KeyShort
             \/ KeyReset
             \/ \E D \in SUBSET (Plug \X Slot) : Tick(D)
      PROVE  CoverInv'
  BY <1>3, CoverStart
<1>4. ASSUME NEW p \in Branch, ButtonIrq(p) PROVE CoverInv'
  BY <1>4, CoverIrq
<1>5. CASE RequestRestart \/ vars' = vars
  <2>1. UNCHANGED <<cfg, flash, pc, req, todo, due, arg, save, hit>>
    BY <1>5, Zenon DEF RequestRestart, vars, locals, ghosts
  <2>2. /\ \A q : Uncovered(q)' <=> Uncovered(q)
        /\ \A q, s : Turn(q, s)' <=> Turn(q, s)
        /\ \A q, S : First(q, S)' <=> First(q, S)
    BY <2>1 DEF Uncovered, Turn, First
  <2>3. \A q : Mending(q)' <=> Mending(q)
    BY <2>1, <2>2 DEF Mending, First
  <2>4. (Trusted' <=> Trusted) /\ (Calm' <=> Calm)
    BY <2>1 DEF Trusted, Calm
  <2>5. ASSUME Covers PROVE Covers'
    <3>1. ReadsCover' /\ PressIsNoted'
      BY <2>1, <2>5 DEF Covers, ReadsCover, PressIsNoted
    <3>2. OnCovers'
      BY <2>2, <2>3, <2>5 DEF Covers, OnCovers
    <3>3. TaskIsNoted'
      BY <2>1, <2>2, <2>5 DEF Covers, TaskIsNoted
    <3>4. FlashCovers'
      BY <2>1, <2>4, <2>5 DEF Covers, FlashCovers
    <3> QED BY <2>1, <2>5, <3>1, <3>2, <3>3, <3>4 DEF Covers
  <2> QED BY <2>1, <2>4, <2>5 DEF CoverInv, WalkOK, RequestOK, Trusted
<1>6. CASE Restart \/ PowerLoss
  BY <1>6, CoverBoot
<1> QED BY <1>1, <1>2, <1>3, <1>4, <1>5, <1>6, Zenon DEF Next

\* With both contexts idle nobody is mending anything.
LEMMA CoverGivesRule == CoverInv => MasterRule
<1> SUFFICES ASSUME CoverInv, Idle, Trusted PROVE MasterCovers(cfg.on)
  BY DEF MasterRule, Trusted
<1>1. \A p \in Branch : ~ Mending(p)
  BY DEF Idle, Mending, Ctx
<1> QED BY <1>1 DEF CoverInv, Covers, OnCovers, Uncovered, MasterCovers

\* A strip whose tasks do not close the master, first powered with an image that
\* obeys the rule, never rests with a branch on under a closed master, unless a
\* press fell between two reads of the arguments of user_io_set_plug_all, or the
\* image last booted from was saved half-way through a handler
\* (json_plug_analysis).
THEOREM MasterRuleHolds == ASSUME NoTaskClosesMaster PROVE Spec => []MasterRule
<1>1. Init => TypeOK /\ ArgsInv /\ ReportInv /\ RelayInv /\ SavedInv /\ CoverInv
  BY TypeInit, ArgsInit, AgreeInit, SavedInit, CoverInit
<1>2. TypeOK /\ ArgsInv /\ ReportInv /\ RelayInv /\ SavedInv /\ CoverInv /\ [Next]_vars
        => TypeOK' /\ ArgsInv' /\ ReportInv' /\ RelayInv' /\ SavedInv' /\ CoverInv'
  BY TypeStep, ArgsStep, AgreeStep, SavedStep, CoverStep
<1>3. CoverInv => MasterRule
  BY CoverGivesRule
<1> QED BY <1>1, <1>2, <1>3, PTL DEF Spec
=============================================================================
