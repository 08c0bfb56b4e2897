--------------------------- MODULE Devices_proofs ---------------------------
(***************************************************************************)
(* The button, the keys of driver/key.c, the clock with the tasks it fires,    *)
(* the overlapped SPI and the power meter: what keeps each right, for every      *)
(* divider and threshold, any number of keys, every period and history of        *)
(* corrections, every sequence of selections, and every frame the meter sends.    *)
(***************************************************************************)
EXTENDS KeyScan, KeyDriver, Schedule, SpiOverlap, PowerMeter, Induction,
        SequenceTheorems

-----------------------------------------------------------------------------
(* The button: key_time counts the hold, and a release is read off it. *)

IInv == /\ TypeOK
        /\ Counting
        /\ OneRestorePerHold
        /\ ShortPressIsShort
        /\ RestartAfterRestore

\* The only nonlinear arithmetic needed.
LEMMA UnitStep == ASSUME NEW k \in Int
                  PROVE  Div * (k + 1) = Div * k + Div
  BY KeyAssumption

LEMMA UnitMonotone == ASSUME NEW k \in Nat, NEW m \in Nat, k <= m
                      PROVE  Div * k \in Nat /\ Div * k <= Div * m
<1>1. PICK d \in Nat : m = k + d
  <2>1. m - k \in Nat /\ m = k + (m - k)  OBVIOUS
  <2> QED BY <2>1
<1>2. Div * m = Div * k + Div * d  BY <1>1, KeyAssumption
<1>3. Div * d \in Nat /\ Div * k \in Nat  BY KeyAssumption
<1> QED BY <1>2, <1>3, KeyAssumption

LEMMA HeldMaxNat == /\ HeldMax \in Nat /\ HeldMax > 0
                    /\ Div * Reset \in Nat
                    /\ HeldMax = Div * Reset + Div
                    /\ HeldMax' = HeldMax
<1>1. Div * Reset \in Nat  BY KeyAssumption
<1>2. Div * (Reset + 1) = Div * Reset + Div  BY KeyAssumption, UnitStep
<1> QED BY <1>1, <1>2, KeyAssumption DEF HeldMax

\* The state after power-on and after a restart.
LEMMA InitIInv == Init => IInv
<1> SUFFICES ASSUME Init PROVE IInv
  OBVIOUS
<1> USE HeldMaxNat, KeyAssumption DEF Init
<1>1. ~ keyContinue  BY Zenon
<1>2. TypeOK
  <2>1. /\ keyContinue \in BOOLEAN /\ smartconfig \in BOOLEAN
        /\ restarting \in BOOLEAN
    BY Zenon
  <2>2. /\ keyTime \in 0 .. Reset + 2 /\ timerNum \in 0 .. Div - 1
        /\ held \in 0 .. HeldMax /\ base \in 0 .. Div - 1
        /\ resets \in Nat /\ did \in Deed
    BY DEF Deed
  <2> QED BY <2>1, <2>2 DEF TypeOK
<1> QED BY <1>1, <1>2 DEF IInv, Counting, OneRestorePerHold, ShortPressIsShort,
                          RestartAfterRestore

\* The tick that finds the button down.  The next values are named first, so
\* that the arithmetic is about them and not about primed variables.
LEMMA DownIInv == IInv /\ Down => IInv'
<1> SUFFICES ASSUME IInv, Down PROVE IInv'
  OBVIOUS
<1> DEFINE t == IF keyContinue THEN keyTime ELSE 0
           unit == timerNum + 1 > Div - 1
           k == IF unit THEN IF t + 1 = Reset + 3 THEN Reset + 1 ELSE t + 1
                        ELSE t
           n == IF unit THEN 0 ELSE timerNum + 1
           h == IF ~ keyContinue THEN 1
                ELSE IF held < HeldMax THEN held + 1 ELSE held
           b == IF keyContinue THEN base ELSE timerNum
           r == (IF keyContinue THEN resets ELSE 0)
                + (IF unit /\ t + 1 = Reset THEN 1 ELSE 0)
<1> USE KeyAssumption, HeldMaxNat DEF IInv
<1>1. /\ keyTime' = k /\ timerNum' = n /\ held' = h /\ base' = b /\ resets' = r
      /\ keyContinue' = TRUE
      /\ did' \in {"none", "smart", "reset", "blink"}
      /\ smartconfig' \in BOOLEAN /\ restarting' = restarting
  <2>1. /\ held' = h /\ base' = b /\ keyContinue' = TRUE /\ restarting' = restarting
    BY DEF Down, UnitOver
  <2>2. CASE unit
    BY <2>1, <2>2 DEF Down, UnitOver, LongPress, TypeOK
  <2>3. CASE ~ unit
    BY <2>1, <2>3 DEF Down, UnitOver, TypeOK
  <2> QED BY <2>2, <2>3
<1>2. keyContinue'
  BY Zenon, <1>1
<1>3. /\ t \in 0 .. Reset + 2 /\ t \in Nat
      /\ keyContinue => t = keyTime
      /\ ~ keyContinue => t = 0
  BY DEF TypeOK
<1>4. /\ Div * (t + 1) = Div * t + Div
      /\ Div * t \in Nat
      /\ t = 0 => Div * t = 0
      /\ t <= Reset => Div * t <= Div * Reset
  BY <1>3, UnitStep, UnitMonotone
<1>5. /\ h \in 1 .. HeldMax /\ b \in 0 .. Div - 1
      /\ n \in 0 .. Div - 1
      /\ r \in Nat
      /\ k \in 0 .. Reset + 2
  BY <1>3 DEF TypeOK
<1>6. /\ k <= Reset => Div * k + n = b + h /\ h < HeldMax
      /\ k > Reset => h + b >= HeldMax
  <2>1. t <= Reset => /\ Div * t + timerNum = b + h - 1
                      /\ keyContinue => held < HeldMax
    <3>1. CASE keyContinue
      BY <3>1, <1>3, <1>4 DEF Counting, TypeOK
    <3>2. CASE ~ keyContinue
      BY <3>2, <1>3, <1>4 DEF TypeOK
    <3> QED BY <3>1, <3>2
  <2>2. t > Reset => h + b >= HeldMax
    BY <1>3 DEF Counting, TypeOK
  <2> HIDE DEF t, h, b
  <2>3. CASE unit
    <3>1. timerNum = Div - 1 /\ n = 0  BY <2>3 DEF TypeOK
    <3>2. CASE t + 1 <= Reset
      <4>1. k = t + 1  BY <2>3, <3>2, <1>3
      <4>2. Div * (t + 1) <= Div * Reset  BY <1>3, <3>2, UnitMonotone
      <4>3. Div * (t + 1) = b + h /\ h < HeldMax
        BY <2>1, <3>1, <3>2, <4>2, <1>3, <1>4, <1>5
      <4> HIDE DEF k, n
      <4>4. Div * k = Div * (t + 1)  BY <4>1
      <4> QED BY <4>1, <4>3, <4>4, <3>1, <3>2, <1>3, <1>5
    <3>3. CASE t = Reset
      <4>1. Div * t = Div * Reset  BY <3>3
      <4>2. h + b >= HeldMax
        BY <2>1, <3>1, <3>3, <4>1, <1>5
      <4> QED BY <4>2, <2>3, <3>3
    <3>4. CASE t > Reset
      BY <2>2, <2>3, <3>4, <1>3
    <3> QED BY <3>2, <3>3, <3>4, <1>3
  <2>4. CASE ~ unit
    <3>1. n = timerNum + 1 /\ k = t /\ timerNum < Div - 1  BY <2>4 DEF TypeOK
    <3>2. t <= Reset => h < HeldMax
      BY <2>1, <3>1, <1>3, <1>4, <1>5 DEF TypeOK
    <3> QED BY <2>1, <2>2, <3>1, <3>2, <1>3, <1>4, <1>5 DEF TypeOK
  <2> QED BY <2>3, <2>4
<1>7. r = IF k >= Reset THEN 1 ELSE 0
  BY <1>3 DEF OneRestorePerHold, TypeOK
<1> HIDE DEF t, unit, k, n, h, b, r
<1>8. TypeOK'
  BY <1>1, <1>5 DEF TypeOK, Deed
<1>9. Counting'
  BY <1>1, <1>2, <1>5, <1>6 DEF Counting
<1>10. OneRestorePerHold'
  BY <1>1, <1>7 DEF OneRestorePerHold
<1> QED BY <1>1, <1>8, <1>9, <1>10 DEF ShortPressIsShort, RestartAfterRestore

\* The tick that finds it up: Counting turns key_time into a length.
LEMMA UpIInv == IInv /\ Up => IInv'
<1> SUFFICES ASSUME IInv, Up PROVE IInv'
  OBVIOUS
<1> USE KeyAssumption, HeldMaxNat DEF IInv
<1>1. keyTime' = 0 /\ keyContinue' = FALSE /\ held' = held /\ base' = base
      /\ timerNum' = timerNum /\ resets' = resets
  BY DEF Up, ShortHold, RestartHold
<1>2. did' \in {"none", "short", "stop", "released", "restart"}
  BY DEF Up, ShortHold, RestartHold
<1>3. TypeOK'
  <2>1. smartconfig' \in BOOLEAN /\ restarting' \in BOOLEAN
    BY Zenon DEF Up, ShortHold, RestartHold
  <2>2. keyContinue' \in BOOLEAN
    BY Zenon, <1>1
  <2>3. /\ keyTime' \in 0 .. Reset + 2 /\ timerNum' \in 0 .. Div - 1
        /\ held' \in 0 .. HeldMax /\ base' \in 0 .. Div - 1
        /\ resets' \in Nat /\ did' \in Deed
    BY <1>1, <1>2 DEF TypeOK, Deed
  <2> QED BY <2>1, <2>2, <2>3, HeldMaxNat DEF TypeOK
<1>4. keyTime > 0 => keyContinue
  BY DEF Counting, TypeOK
<1>5. ASSUME did' \in {"short", "stop"} PROVE held' < Div * Short
  <2>1. keyTime > 0 /\ keyTime < Short
    BY <1>5 DEF Up, ShortHold, RestartHold
  <2>2. Div * keyTime + timerNum = base + held
    BY <2>1, <1>4 DEF Counting, TypeOK
  <2>3. Div * (keyTime + 1) <= Div * Short /\ Div * (keyTime + 1) = Div * keyTime + Div
    BY <2>1, UnitMonotone, UnitStep DEF TypeOK
  <2> QED BY <2>2, <2>3, <1>1, UnitMonotone DEF TypeOK
<1>6. ASSUME did' = "released" PROVE held' < Div \/ held' > Div * (Short - 1)
  <2>1. CASE keyTime = 0
    <3>1. keyContinue  BY <1>6, <2>1 DEF Up, ShortHold, RestartHold
    <3>2. Div * keyTime = 0  BY <2>1
    <3> QED BY <2>1, <3>1, <3>2, <1>1 DEF Counting, TypeOK
  <2>2. CASE keyTime >= Short
    <3>1. Div * Short = Div * (Short - 1) + Div /\ Div * (Short - 1) \in Nat
      <4>1. Short - 1 \in Nat /\ (Short - 1) + 1 = Short  OBVIOUS
      <4> QED BY <4>1, UnitStep, UnitMonotone
    <3>2. CASE keyTime <= Reset
      <4>1. Div * keyTime + timerNum = base + held
        BY <3>2, <2>2, <1>4 DEF Counting, TypeOK
      <4>2. Div * Short <= Div * keyTime  BY <2>2, UnitMonotone DEF TypeOK
      <4>3. Div * keyTime \in Nat  BY UnitMonotone DEF TypeOK
      <4> QED BY <3>1, <4>1, <4>2, <4>3, <1>1 DEF TypeOK
    <3>3. CASE keyTime > Reset
      BY <3>3, <1>6 DEF Up, ShortHold, RestartHold, TypeOK
    <3> QED BY <3>2, <3>3 DEF TypeOK
  <2> QED BY <2>1, <2>2, <1>6 DEF Up, ShortHold, RestartHold, TypeOK
<1>7. ShortPressIsShort'
  BY <1>5, <1>6 DEF ShortPressIsShort
<1>8. RestartAfterRestore'
  <2>1. ASSUME did' = "restart" PROVE resets' = 1
    BY <2>1, <1>1, <1>4 DEF Up, ShortHold, RestartHold, OneRestorePerHold, TypeOK
  <2>2. ASSUME did' = "released", resets' = 1
        PROVE  base' + held' < Div * (Reset + 1)
    <3>1. keyContinue
      BY <2>2, <1>4 DEF Up, ShortHold, RestartHold, TypeOK
    <3>2. keyTime = Reset
      BY <2>2, <3>1, <1>1 DEF Up, ShortHold, RestartHold, OneRestorePerHold, TypeOK
    <3> QED BY <3>1, <3>2, <1>1 DEF Counting, HeldMax, TypeOK
  <2> QED BY <2>1, <2>2 DEF RestartAfterRestore
<1> QED BY <1>1, <1>3, <1>7, <1>8 DEF Counting, OneRestorePerHold

LEMMA StepIInv == IInv /\ [Next]_vars => IInv'
<1> SUFFICES ASSUME IInv, [Next]_vars PROVE IInv'
  OBVIOUS
<1>1. CASE Down  BY <1>1, DownIInv
<1>2. CASE Up  BY <1>2, UpIInv
<1>3. CASE Elsewhere
  <2> USE <1>3 DEF Elsewhere, IInv
  <2>1. TypeOK'
    <3>1. /\ keyContinue' \in BOOLEAN /\ smartconfig' \in BOOLEAN
          /\ restarting' \in BOOLEAN
      BY Zenon DEF TypeOK
    <3> QED BY <3>1 DEF TypeOK
  <2> QED BY <2>1 DEF Counting, OneRestorePerHold, ShortPressIsShort,
                      RestartAfterRestore
<1>4. CASE Reboot
  <2> USE HeldMaxNat, KeyAssumption, <1>4 DEF Reboot
  <2>1. ~ keyContinue'  BY Zenon
  <2>2. TypeOK'
    <3>1. /\ keyContinue' \in BOOLEAN /\ smartconfig' \in BOOLEAN
          /\ restarting' \in BOOLEAN
      BY Zenon
    <3>2. /\ keyTime' \in 0 .. Reset + 2 /\ timerNum' \in 0 .. Div - 1
          /\ held' \in 0 .. HeldMax /\ base' \in 0 .. Div - 1
          /\ resets' \in Nat /\ did' \in Deed
      BY DEF Deed
    <3> QED BY <3>1, <3>2 DEF TypeOK
  <2> QED BY <2>1, <2>2 DEF IInv, Counting, OneRestorePerHold,
                            ShortPressIsShort, RestartAfterRestore
<1>5. CASE UNCHANGED vars
  BY <1>5 DEF vars, IInv, TypeOK, Counting, OneRestorePerHold,
              ShortPressIsShort, RestartAfterRestore
<1> QED BY <1>1, <1>2, <1>3, <1>4, <1>5 DEF Next

\* key_time stays within its uint8_t and its cycle, whatever is pressed.
THEOREM KeyTypeOK == Spec => []TypeOK
<1>1. IInv => TypeOK  BY DEF IInv
<1> QED BY <1>1, InitIInv, StepIInv, PTL DEF Spec

\* However long a hold, the factory settings are restored at most once in it.
THEOREM OneRestore == Spec => []OneRestorePerHold
<1>1. IInv => OneRestorePerHold  BY DEF IInv
<1> QED BY <1>1, InitIInv, StepIInv, PTL DEF Spec

\* A press acts as a short one only if it was shorter than KEY_LONG_PRESS_TIME.
THEOREM ShortIsShort == Spec => []ShortPressIsShort
<1>1. IInv => ShortPressIsShort  BY DEF IInv
<1> QED BY <1>1, InitIInv, StepIInv, PTL DEF Spec

\* The device restarts only after a restore, and misses that restart only when
\* the button is let go within a unit of the restore.
THEOREM RestartFollowsRestore == Spec => []RestartAfterRestore
<1>1. IInv => RestartAfterRestore  BY DEF IInv
<1> QED BY <1>1, InitIInv, StepIInv, PTL DEF Spec

-----------------------------------------------------------------------------
(* The keys.  KeysAreHeard is inductive but for one thing: that a long press is
   of one press rests on the 5 s timer being armed after the key was last read up. *)

KeysTypeOK ==
  /\ pin \in [Keys -> {0, 1}]
  /\ intrType \in [Keys -> {"NEGEDGE", "POSEDGE", "DISABLE"}]
  /\ status \subseteq Keys
  /\ key \in [Keys -> [key_level : {0, 1}, key_5s : BOOLEAN, key_50ms : BOOLEAN]]
  /\ heard \in [Keys -> [call : {"none", "short_press", "long_press"}, up : BOOLEAN]]

\* What holds of each key, with the timer of 5 s.
KeyInv(k) ==
  /\ intrType[k] = "DISABLE" <=> key[k].key_50ms
  /\ intrType[k] = "NEGEDGE" <=> key[k].key_level = 1
  /\ key[k].key_5s => key[k].key_level = 0 /\ ~ heard[k].up
  /\ k \in status => intrType[k] # "DISABLE"
  /\ heard[k].call = "long_press" => ~ heard[k].up

HeardInv == KeysTypeOK /\ \A k \in Keys : KeyInv(k)

LEMMA HeardInit == key_init => HeardInv
  BY DEF key_init, HeardInv, KeysTypeOK, KeyInv

HeardType == [call : {"none", "short_press", "long_press"}, up : BOOLEAN]

\* Silence is well typed, and so is a call to one key.
LEMMA SilentType ==
  ASSUME KeysTypeOK
  PROVE  /\ Silent \in [Keys -> HeardType]
         /\ \A k \in Keys, h \in HeardType : [Silent EXCEPT ![k] = h] \in [Keys -> HeardType]
<1>1. Silent \in [Keys -> HeardType]
  BY DEF KeysTypeOK, Silent, HeardType
<1> QED BY <1>1

\* A step that leaves a key alone but for the call it was told of.
LEMMA SilentKeeps ==
  ASSUME KeysTypeOK, NEW k \in Keys, KeyInv(k),
         intrType'[k] = intrType[k], key'[k] = key[k], heard'[k] = Silent[k],
         k \in status' => intrType[k] # "DISABLE"
  PROVE  KeyInv(k)'
  BY DEF KeysTypeOK, KeyInv, Silent

LEMMA HandlerKeeps == ASSUME HeardInv, key_intr_handler PROVE HeardInv'
<1>1. KeysTypeOK'
  BY ZenonT(40) DEF HeardInv, KeysTypeOK, key_intr_handler, Meanwhile, Silent
<1>2. ASSUME NEW k \in Keys PROVE KeyInv(k)'
  <2>1. KeysTypeOK /\ KeyInv(k)
    BY DEF HeardInv
  <2>2. CASE k \notin status
    BY <2>1, <2>2, SilentKeeps DEF key_intr_handler
  <2>3. CASE k \in status /\ key[k].key_level = 1
    <3>1. key[k]' = [key[k] EXCEPT !.key_5s = TRUE, !.key_level = 0]
      BY <2>3 DEF key_intr_handler
    <3>2. intrType[k]' = "POSEDGE" /\ heard[k]' = [call |-> "none", up |-> FALSE]
      BY <2>3 DEF key_intr_handler
    <3>3. ~ key[k].key_50ms /\ status' = {}
      BY <2>1, <2>3 DEF KeyInv, key_intr_handler
    <3>4. key[k].key_50ms' = key[k].key_50ms /\ key[k].key_level' = 0
      BY <2>1, <3>1 DEF KeysTypeOK
    <3> QED BY <3>2, <3>3, <3>4 DEF KeyInv
  <2>4. CASE k \in status /\ key[k].key_level # 1
    <3>1. key[k]' = [key[k] EXCEPT !.key_50ms = TRUE]
      BY <2>4 DEF key_intr_handler
    <3>2. intrType[k]' = "DISABLE" /\ heard[k]' = Silent[k]
      BY <2>4 DEF key_intr_handler
    <3>3. heard[k].call' = "none" /\ heard[k].up' = heard[k].up /\ status' = {}
      BY <2>1, <3>2 DEF key_intr_handler, Silent, KeysTypeOK
    <3>4. /\ key[k].key_level' = key[k].key_level /\ key[k].key_50ms'
          /\ key[k].key_5s' = key[k].key_5s
      BY <2>1, <3>1 DEF KeysTypeOK
    <3> QED BY <2>1, <2>4, <3>2, <3>3, <3>4 DEF KeyInv
  <2> QED BY <2>2, <2>3, <2>4
<1> QED BY <1>1, <1>2 DEF HeardInv

LEMMA EdgeKeeps == ASSUME HeardInv, NEW k \in Keys, Edge(k) PROVE HeardInv'
<1>1. KeysTypeOK'
  BY DEF HeardInv, KeysTypeOK, Edge, Silent
<1>2. ASSUME NEW j \in Keys PROVE KeyInv(j)'
  <2>1. KeysTypeOK /\ KeyInv(j)
    BY DEF HeardInv
  <2>2. j \in status' => intrType[j] # "DISABLE"
    BY <2>1 DEF Edge, KeyInv
  <2> QED BY <2>1, <2>2, SilentKeeps DEF Edge
<1> QED BY <1>1, <1>2 DEF HeardInv

LEMMA LongTimerKeeps == ASSUME HeardInv, NEW k \in Keys, key_5s_cb(k) PROVE HeardInv'
<1>1. KeysTypeOK'
  <2>1. KeysTypeOK
    BY DEF HeardInv
  <2>2. key' \in [Keys -> [key_level : {0, 1}, key_5s : BOOLEAN, key_50ms : BOOLEAN]]
    BY <2>1 DEF KeysTypeOK, key_5s_cb
  <2>3. heard' \in [Keys -> HeardType]
    <3>1. CASE pin[k] # 0
      BY <2>1, <3>1, SilentType DEF key_5s_cb
    <3>2. CASE pin[k] = 0
      <4> DEFINE h == [Silent[k] EXCEPT !.call = "long_press"]
      <4>1. h \in HeardType
        BY <2>1, SilentType DEF HeardType
      <4>2. heard' = [Silent EXCEPT ![k] = h]
        BY <3>2 DEF key_5s_cb
      <4> HIDE DEF h
      <4> QED BY <2>1, <4>1, <4>2, SilentType
    <3> QED BY <3>1, <3>2
  <2> QED BY <2>1, <2>2, <2>3 DEF KeysTypeOK, key_5s_cb, HeardType
<1>2. ASSUME NEW j \in Keys PROVE KeyInv(j)'
  <2>1. KeysTypeOK /\ KeyInv(j)
    BY DEF HeardInv
  <2>2. CASE j = k
    <3>1. key[j]' = [key[j] EXCEPT !.key_5s = FALSE] /\ key[j].key_5s
      BY <2>1, <2>2 DEF KeysTypeOK, key_5s_cb
    <3>2. /\ key[j].key_level' = key[j].key_level /\ ~ key[j].key_5s'
          /\ key[j].key_50ms' = key[j].key_50ms
      BY <2>1, <3>1 DEF KeysTypeOK
    <3>3. heard[j].up' = heard[j].up
      BY <2>1, <2>2 DEF KeysTypeOK, key_5s_cb, Silent
    <3> QED BY <2>1, <3>1, <3>2, <3>3 DEF KeyInv, key_5s_cb
  <2>3. CASE j # k
    <3>1. key'[j] = key[j] /\ heard'[j] = Silent[j]
      BY <2>1, <2>3 DEF KeysTypeOK, key_5s_cb, Silent
    <3> QED BY <2>1, <3>1, SilentKeeps DEF key_5s_cb, KeyInv
  <2> QED BY <2>2, <2>3
<1> QED BY <1>1, <1>2 DEF HeardInv

LEMMA ShortTimerKeeps == ASSUME HeardInv, NEW k \in Keys, key_50ms_cb(k) PROVE HeardInv'
<1>1. KeysTypeOK'
  <2>1. KeysTypeOK
    BY DEF HeardInv
  <2>2. key' \in [Keys -> [key_level : {0, 1}, key_5s : BOOLEAN, key_50ms : BOOLEAN]]
    BY <2>1, ZenonT(40) DEF KeysTypeOK, key_50ms_cb, ReadUp, ReadDown
  <2>3. heard' \in [Keys -> HeardType]
    <3>1. [call |-> "short_press", up |-> TRUE] \in HeardType
      BY DEF HeardType
    <3> QED BY <2>1, <3>1, SilentType DEF key_50ms_cb
  <2>4. pin' \in [Keys -> {0, 1}] /\ status' = status
    BY DEF key_50ms_cb, Meanwhile
  <2>5. intrType' \in [Keys -> {"NEGEDGE", "POSEDGE", "DISABLE"}]
    BY <2>1 DEF KeysTypeOK, key_50ms_cb
  <2> QED BY <2>1, <2>2, <2>3, <2>4, <2>5 DEF KeysTypeOK, HeardType
<1>2. ASSUME NEW j \in Keys PROVE KeyInv(j)'
  <2>1. KeysTypeOK /\ KeyInv(j)
    BY DEF HeardInv
  <2>2. CASE j = k /\ pin[k] = 1
    <3>1. key[j]' = ReadUp(key[j]) /\ intrType[j]' = "NEGEDGE"
      BY <2>1, <2>2 DEF KeysTypeOK, key_50ms_cb
    <3>2. key[j].key_level' = 1 /\ ~ key[j].key_5s' /\ ~ key[j].key_50ms'
      BY <2>1, <3>1 DEF KeysTypeOK, ReadUp
    <3>3. heard[j]' = [call |-> "short_press", up |-> TRUE]
      BY <2>1, <2>2 DEF KeysTypeOK, key_50ms_cb, Silent
    <3> QED BY <3>1, <3>2, <3>3 DEF KeyInv
  <2>4. CASE j = k /\ pin[k] # 1
    <3>1. key[j]' = ReadDown(key[j]) /\ intrType[j]' = "POSEDGE" /\ heard[j]' = Silent[j]
      BY <2>1, <2>4 DEF KeysTypeOK, key_50ms_cb
    <3>2. /\ key[j].key_level' = key[j].key_level /\ ~ key[j].key_50ms'
          /\ key[j].key_5s' = key[j].key_5s
      BY <2>1, <3>1 DEF KeysTypeOK, ReadDown
    <3>3. heard[j].call' = "none" /\ heard[j].up' = heard[j].up
      BY <2>1, <3>1 DEF KeysTypeOK, Silent
    <3>4. key[j].key_50ms
      BY <2>4 DEF key_50ms_cb
    <3> QED BY <2>1, <3>1, <3>2, <3>3, <3>4 DEF KeyInv
  <2>3. CASE j # k
    <3>1. intrType'[j] = intrType[j] /\ key'[j] = key[j] /\ heard'[j] = Silent[j]
      BY <2>1, <2>3 DEF KeysTypeOK, key_50ms_cb, Silent
    <3> QED BY <2>1, <3>1, SilentKeeps DEF key_50ms_cb, KeyInv
  <2> QED BY <2>2, <2>3, <2>4
<1> QED BY <1>1, <1>2 DEF HeardInv

LEMMA HeardStep == HeardInv /\ [KeysNext]_keyVars => HeardInv'
<1> SUFFICES ASSUME HeardInv, [KeysNext]_keyVars PROVE HeardInv'
  OBVIOUS
<1>1. CASE UNCHANGED keyVars
  BY <1>1 DEF keyVars, HeardInv, KeysTypeOK, KeyInv
<1> QED
  BY <1>1, HandlerKeeps, EdgeKeeps, LongTimerKeeps, ShortTimerKeeps DEF KeysNext

\* Whatever edges key_intr_handler and key_50ms_cb (driver/key.c) miss, each of
\* any number of keys waits for an edge or for its timer, and long_press is of one
\* press.
THEOREM KeysHeard == KeysSpec => []KeysAreHeard
<1>1. HeardInv => KeysAreHeard
  BY DEF HeardInv, KeyInv, KeysAreHeard
<1> QED BY <1>1, HeardInit, HeardStep, PTL DEF KeysSpec

-----------------------------------------------------------------------------
(* The calendar *)

\* Quotient and remainder, by their definition.
LEMMA Division ==
  ASSUME NEW n \in Nat, NEW k \in Nat \ {0}
  PROVE  n \div k \in Nat /\ n % k \in 0 .. k - 1 /\ n = k * (n \div k) + (n % k)
OBVIOUS

LEMMA DivisionIsUnique ==
  ASSUME NEW n \in Nat, NEW k \in Nat \ {0}, NEW q \in Nat, NEW r \in 0 .. k - 1,
         n = k * q + r
  PROVE  n \div k = q /\ n % k = r
<1>1. n \div k \in Nat /\ n % k \in 0 .. k - 1 /\ n = k * (n \div k) + (n % k)
  BY Division
<1> DEFINE a == n \div k
           b == n % k
<1> HIDE DEF a, b
<1>2. a \in Nat /\ b \in 0 .. k - 1 /\ k * q + r = k * a + b
  BY <1>1 DEF a, b
<1>3. ~ (a > q)
  <2> SUFFICES ASSUME a >= q + 1 PROVE FALSE
    BY <1>2
  <2>1. k * a >= k * (q + 1)
    BY <1>2
  <2>2. k * (q + 1) = k * q + k
    OBVIOUS
  <2>3. k * a \in Nat /\ k * q \in Nat
    BY <1>2
  <2> QED BY <1>2, <2>1, <2>2, <2>3
<1>4. ~ (q > a)
  <2> SUFFICES ASSUME q >= a + 1 PROVE FALSE
    BY <1>2
  <2>1. k * q >= k * (a + 1)
    BY <1>2
  <2>2. k * (a + 1) = k * a + k
    BY <1>2
  <2>3. k * a \in Nat /\ k * q \in Nat
    BY <1>2
  <2> QED BY <1>2, <2>1, <2>2, <2>3
<1>5. a = q
  BY <1>2, <1>3, <1>4
<1>6. k * q \in Nat
  OBVIOUS
<1>7. b = r
  BY <1>2, <1>5, <1>6
<1> QED BY <1>5, <1>7 DEF a, b

LEMMA Lengths ==
  /\ S \in Nat \ {0} /\ M \in Nat \ {0} /\ H \in Nat \ {0} /\ W \in Nat \ {0}
  /\ Drift \in Nat \ {0} /\ Drift < S
  /\ Hour \in Nat \ {0} /\ Week \in Nat \ {0} /\ S <= Hour
<1>1. /\ S \in Nat \ {0} /\ M \in Nat \ {0} /\ H \in Nat \ {0} /\ W \in Nat \ {0}
      /\ Drift \in Nat \ {0} /\ Drift < S
  BY ScheduleAssumption
<1>2. \A a, b \in Nat \ {0} : a * b \in Nat \ {0} /\ a <= a * b
  OBVIOUS
<1> QED BY <1>1, <1>2 DEF Hour, Day, Week

\* hh:59:59 is the last second of an hour, and after it come second and minute 0.
LEMMA HourEnd ==
  ASSUME NEW t \in Nat
  PROVE  /\ t % Hour = Hour - 1 => HourEnds(t)
         /\ HourEnds(t) => second(t + 1) = 0 /\ minute(t + 1) = 0
<1>1. S \in Nat \ {0} /\ M \in Nat \ {0} /\ Hour \in Nat \ {0} /\ Hour = S * M
  BY Lengths DEF Hour
<1>2. ASSUME t % Hour = Hour - 1 PROVE HourEnds(t)
  <2> DEFINE q == t \div Hour
  <2>1. q \in Nat /\ t = Hour * q + (Hour - 1)
    <3>1. q \in Nat /\ t = Hour * q + (t % Hour)
      BY <1>1, Division
    <3> QED BY <1>2, <3>1
  <2> HIDE DEF q
  <2> DEFINE a == M * q + (M - 1)
  <2>2. a \in Nat /\ S - 1 \in 0 .. S - 1 /\ M - 1 \in 0 .. M - 1
    BY <1>1, <2>1
  <2>3. t = S * a + (S - 1)
    <3>1. S * a = (S * M) * q + S * M - S
      BY <1>1, <2>1
    <3> QED BY <1>1, <2>1, <3>1
  <2>4. t \div S = a /\ t % S = S - 1
    <3> HIDE DEF a
    <3> QED BY <1>1, <2>2, <2>3, DivisionIsUnique
  <2>5. a % M = M - 1
    BY <1>1, <2>1, <2>2, DivisionIsUnique
  <2> QED BY <2>4, <2>5 DEF HourEnds, second, minute
<1>3. ASSUME HourEnds(t) PROVE second(t + 1) = 0 /\ minute(t + 1) = 0
  <2> DEFINE a == t \div S
             q == a \div M
  <2>1. a \in Nat /\ t = S * a + (S - 1)
    BY <1>1, <1>3, Division DEF HourEnds, second
  <2> HIDE DEF a
  <2>2. q \in Nat /\ a = M * q + (M - 1)
    <3>1. a % M = M - 1
      BY <1>3 DEF HourEnds, minute, a
    <3> QED BY <1>1, <2>1, <3>1, Division, ZenonT(40)
  <2> HIDE DEF q
  <2> DEFINE b == M * (q + 1)
  <2>3. b \in Nat /\ a + 1 = b /\ 0 \in 0 .. S - 1 /\ 0 \in 0 .. M - 1 /\ q + 1 \in Nat
    BY <1>1, <2>2
  <2>4. t + 1 = S * b + 0
    <3>1. S * (a + 1) = S * a + S
      BY <1>1, <2>1
    <3>2. S * a \in Nat
      BY <1>1, <2>1
    <3> QED BY <1>1, <2>1, <2>3, <3>1, <3>2
  <2>5. (t + 1) \div S = b /\ (t + 1) % S = 0
    <3> HIDE DEF b
    <3> QED BY <1>1, <2>3, <2>4, DivisionIsUnique
  <2>6. b % M = 0
    <3>1. b = M * (q + 1) + 0
      BY <2>3
    <3> HIDE DEF b
    <3> QED BY <1>1, <2>3, <3>1, DivisionIsUnique
  <2> QED BY <2>5, <2>6 DEF second, minute
<1> QED BY <1>2, <1>3

\* The multiples of S nearest to one another are S apart.
LEMMA Multiples ==
  ASSUME NEW x \in Nat, NEW y \in Nat, x % S = 0, y % S = 0
  PROVE  /\ x < y => x + S <= y
         /\ x >= Week => (x - Week) % S = 0
<1>0. S \in Nat \ {0} /\ 0 \in 0 .. S - 1
  BY Lengths
<1> DEFINE a == x \div S
           b == y \div S
<1>1. a \in Nat /\ b \in Nat /\ x = S * a /\ y = S * b
  BY <1>0, Division
<1> HIDE DEF a, b
<1>2. x < y => x + S <= y
  <2> SUFFICES ASSUME x < y PROVE x + S <= y
    OBVIOUS
  <2>1. a < b
    <3>1. SUFFICES ASSUME b <= a PROVE FALSE
      BY <1>1
    <3>2. S * b <= S * a
      BY <1>0, <1>1, <3>1
    <3> QED BY <1>1, <3>2
  <2>2. S * (a + 1) <= S * b
    BY <1>0, <1>1, <2>1
  <2>3. S * (a + 1) = S * a + S
    BY <1>0, <1>1
  <2> QED BY <1>1, <2>2, <2>3
<1>3. x >= Week => (x - Week) % S = 0
  <2> SUFFICES ASSUME x >= Week PROVE (x - Week) % S = 0
    OBVIOUS
  <2> DEFINE w == M * H * W
  <2>1. w \in Nat /\ Week = S * w
    BY Lengths DEF Week, Day, Hour
  <2> HIDE DEF w
  <2>2. w <= a
    <3>1. SUFFICES ASSUME a + 1 <= w PROVE FALSE
      BY <1>1, <2>1
    <3>2. S * (a + 1) <= S * w
      BY <1>0, <1>1, <2>1, <3>1
    <3>3. S * (a + 1) = S * a + S
      BY <1>0, <1>1
    <3>4. S * a \in Nat /\ S * w \in Nat
      BY <1>0, <1>1, <2>1
    <3> QED BY <1>0, <1>1, <2>1, <3>2, <3>3, <3>4
  <2> DEFINE c == a - w
             z == x - Week
  <2>3. c \in Nat /\ z \in Nat
    BY <1>1, <2>1, <2>2
  <2>4. z = S * c + 0
    <3>1. S * (a - w) = S * a - S * w
      BY <1>0, <1>1, <2>1
    <3> QED BY <1>0, <1>1, <2>1, <3>1
  <2> HIDE DEF c, z
  <2>5. z % S = 0
    BY <1>0, <2>3, <2>4, DivisionIsUnique
  <2> QED BY <2>5 DEF z
<1> QED BY <1>2, <1>3

-----------------------------------------------------------------------------
(* The tasks keep time *)

\* While no hour has ended without a resynchronisation, utc_time is one ahead of
\* the SNTP clock, but for the timer periods of this hour that were no second.  No
\* task has fired at a second that is still to come.
TimeInv ==
  /\ utc \in Nat /\ real \in Nat \ {0} /\ slips \in 0 .. Drift
  /\ synced \in BOOLEAN /\ gotIp \in BOOLEAN /\ offline \in BOOLEAN
  /\ enabled \subseteq Tasks
  /\ shown = utc
  /\ utc > 0 => synced
  /\ utc > 0 /\ ~ offline => utc - 1 - real \in -slips .. slips
  /\ last \in [Tasks -> Nat]
  /\ \A j \in Tasks : last[j] <= utc /\ last[j] % S = 0
  /\ TasksKeepTime

\* What a tick makes of the clock, before a week is taken off, and whether it
\* replaces it.
After(d) == IF Asks /\ gotIp THEN Timestamp(real + d) ELSE utc
Asked(d) == After(d) # utc \/ (Asks /\ gotIp /\ synced)

LEMMA TickTime ==
  ASSUME TimeInv, NEW d \in 0 .. 2, Tick(d)
  PROVE  /\ After(d) \in Nat /\ real + d \in Nat \ {0}
         /\ utc > 0 => After(d) > 0
         /\ After(d) > 0 => synced
         /\ ~ Asked(d) => After(d) = utc
         /\ Asked(d) /\ After(d) > 0 => After(d) = real + d
         /\ Asked(d) /\ utc > 0 => HourEnds(utc)
         /\ utc > 0 /\ ~ offline => utc - (real + d) \in -Drift .. Drift
         /\ After(d) > 0 /\ ~ offline' => After(d) - (real + d) \in -slips' .. slips'
         /\ slips' \in 0 .. Drift /\ offline' \in BOOLEAN
<1> DEFINE r == real + d
           over == utc > 0 /\ shown % Hour = Hour - 1
           slip == IF utc = 0 \/ d = 1 THEN slips ELSE slips + 1
<1>1. /\ slip <= Drift
      /\ slips' = IF Asked(d) \/ over THEN 0 ELSE slip
      /\ offline' = ((offline /\ ~ Asked(d)) \/ (over /\ ~ (gotIp /\ synced)))
  BY Zenon DEF Tick, After, Asked
<1> USE DEF TimeInv
<1>0. Drift \in Nat
  BY Lengths
<1>2. r \in Nat \ {0} /\ After(d) \in Nat /\ (After(d) > 0 => synced)
      /\ (utc > 0 => After(d) > 0)
  BY DEF After, Timestamp
<1>3. Asked(d) /\ After(d) > 0 => After(d) = r
  BY DEF After, Timestamp, Asked
<1>4. Asked(d) => utc = 0 \/ HourEnds(utc)
  BY DEF After, Asks, Asked
<1>5. over => Asks
  BY HourEnd DEF Asks
<1>6. slip \in 0 .. Drift
  BY <1>0, <1>1
<1>7. utc > 0 /\ ~ offline => utc - r \in -slip .. slip
  OBVIOUS
<1> HIDE DEF slip, r, over
<1>8. slips' \in 0 .. Drift
  BY <1>0, <1>1, <1>6
<1>9. After(d) > 0 /\ ~ offline' => After(d) - r \in -slips' .. slips'
  <2> SUFFICES ASSUME After(d) > 0, ~ offline' PROVE After(d) - r \in -slips' .. slips'
    OBVIOUS
  <2>1. CASE Asked(d)
    <3>1. After(d) - r = 0
      BY <1>2, <1>3, <2>1
    <3> QED BY <1>0, <1>8, <3>1
  <2>2. CASE ~ Asked(d)
    <3>1. ~ offline /\ ~ over /\ After(d) = utc
      BY <1>1, <1>5, <2>2 DEF After, Asked
    <3>2. slips' = slip
      BY <1>1, <2>2, <3>1
    <3> QED BY <1>7, <3>1, <3>2
  <2> QED BY <2>1, <2>2
<1>10. utc > 0 /\ ~ offline => utc - r \in -Drift .. Drift
  BY <1>0, <1>2, <1>6, <1>7
<1>11. offline' \in BOOLEAN
  BY <1>1, Zenon
<1>12. ~ Asked(d) => After(d) = utc
  BY DEF Asked
<1>13. Asked(d) /\ utc > 0 => HourEnds(utc)
  BY <1>4
<1> QED BY <1>2, <1>3, <1>8, <1>9, <1>10, <1>11, <1>12, <1>13 DEF r

\* The second a tick is for is later than any at which a task fired, as long as the
\* clock was not set back after hours offline: at hh:59:59 it is set back by less
\* than a minute.
LEMMA LaterThanLast ==
  ASSUME TimeInv, NEW d \in 0 .. 2, Tick(d), After(d) > 0, ~ (Asked(d) /\ offline),
         NEW j \in Tasks
  PROVE  last[j] < After(d) + 1
<1> USE DEF TimeInv
<1>1. last[j] \in Nat /\ last[j] <= utc /\ last[j] % S = 0
  OBVIOUS
<1>2. CASE ~ Asked(d)
  <2>1. After(d) = utc
    BY <1>2, TickTime
  <2> QED BY <1>1, <2>1
<1>3. CASE utc = 0
  <2>1. After(d) \in Nat
    BY TickTime
  <2> QED BY <1>1, <1>3, <2>1
<1>4. CASE Asked(d) /\ utc > 0
  <2>1. /\ After(d) = real + d /\ After(d) \in Nat /\ HourEnds(utc)
        /\ utc - After(d) \in -Drift .. Drift
    BY <1>4, TickTime
  <2>2. (utc + 1) % S = 0
    BY <2>1, HourEnd DEF second
  <2>3. last[j] + S <= utc + 1
    BY <1>1, <2>2, Multiples
  <2> QED BY <1>1, <2>1, <2>3, Lengths
<1> QED BY <1>2, <1>3, <1>4

\* Only the start of an hour is leapt over.
LEMMA LeaptOver ==
  ASSUME TimeInv, NEW d \in 0 .. 2, Tick(d), utc > 0, ~ offline,
         NEW x \in (utc + 1) .. After(d), NEW j \in Due(x)
  PROVE  j.minute = 0 /\ After(d) - utc <= Drift
<1> USE DEF TimeInv
<1>1. After(d) \in Nat /\ real + d \in Nat /\ After(d) > 0 /\ After(d) # utc
  BY TickTime
<1>2. Asked(d)
  BY <1>1, TickTime
<1>3. /\ After(d) = real + d /\ HourEnds(utc)
      /\ utc - After(d) \in -Drift .. Drift
  BY <1>1, <1>2, TickTime
<1>4. After(d) - utc <= Drift
  BY <1>1, <1>3, Lengths
<1>5. (utc + 1) % S = 0 /\ minute(utc + 1) = 0
  BY <1>3, HourEnd DEF second
<1>6. x % S = 0 /\ minute(x) = j.minute
  BY DEF Due, time_strtohex, second
<1>7. x = utc + 1
  <2>1. ~ (utc + 1 < x)
    <3>1. SUFFICES ASSUME utc + 1 < x PROVE FALSE
      OBVIOUS
    <3>2. (utc + 1) + S <= x
      BY <1>5, <1>6, <3>1, Multiples
    <3> QED BY <1>1, <1>4, <3>2, Lengths
  <2> QED BY <2>1
<1> QED BY <1>4, <1>5, <1>6, <1>7

LEMMA ShiftKeeps ==
  ASSUME NEW by \in {0, Week}, NEW n \in Nat, NEW t \in Nat, n <= t
  PROVE  /\ Shift(n, by) \in Nat /\ Shift(n, by) <= Shift(t, by)
         /\ n % S = 0 => Shift(n, by) % S = 0
<1>1. Week \in Nat \ {0} /\ by \in Nat
  BY Lengths
<1>2. Shift(n, by) \in Nat /\ Shift(n, by) <= Shift(t, by)
  BY <1>1 DEF Shift
<1>3. ASSUME n % S = 0 PROVE Shift(n, by) % S = 0
  <2>1. 0 % S = 0
    <3>1. 0 = S * 0 + 0 /\ 0 \in 0 .. S - 1 /\ S \in Nat \ {0}
      BY Lengths
    <3> QED BY <3>1, DivisionIsUnique
  <2>2. CASE n > by
    <3>1. CASE by = 0
      BY <1>3, <3>1 DEF Shift
    <3>2. CASE by = Week
      BY <1>1, <1>3, <2>2, <3>2, Multiples DEF Shift
    <3> QED BY <3>1, <3>2
  <2> QED BY <1>1, <2>1, <2>2 DEF Shift
<1> QED BY <1>2, <1>3

LEMMA TickKeeps == ASSUME TimeInv, NEW d \in 0 .. 2, Tick(d) PROVE TimeInv'
<1> DEFINE r == real + d
           u == After(d)
           t == IF u > 0 THEN u + 1 ELSE 0
           due == IF u > 0 THEN Due(t) ELSE {}
           by == IF r > Week + Hour /\ (u = 0 \/ t > Week + Hour) THEN Week ELSE 0
           leapt == IF utc > 0 THEN {x \in (utc + 1) .. u : Due(x) # {}} ELSE {}
           n(j) == IF j \in due THEN t ELSE IF Asked(d) /\ offline THEN 0 ELSE last[j]
<1>1. /\ utc' = Shift(t, by) /\ shown' = Shift(IF u > 0 THEN t ELSE shown, by)
      /\ real' = r - by
      /\ fired' = due /\ enabled' = enabled \ {j \in due : j.repeat = {}}
      /\ last' = [j \in Tasks |-> Shift(n(j), by)]
      /\ lost' = UNION {{<<j, u - utc, offline>> : j \in Due(x)} : x \in leapt}
      /\ twice' = \E j \in due : last[j] = t /\ ~ offline
      /\ synced' = synced /\ gotIp' = gotIp
  BY Zenon DEF Tick, After, Asked
<1>2. /\ u \in Nat /\ r \in Nat \ {0} /\ (utc > 0 => u > 0) /\ (u > 0 => synced)
      /\ (u > 0 /\ ~ offline' => u - r \in -slips' .. slips')
      /\ slips' \in 0 .. Drift /\ offline' \in BOOLEAN
  BY TickTime
<1>3. /\ utc \in Nat /\ shown = utc /\ real \in Nat \ {0} /\ synced \in BOOLEAN
      /\ gotIp \in BOOLEAN /\ enabled \subseteq Tasks /\ offline \in BOOLEAN
      /\ last \in [Tasks -> Nat]
      /\ \A j \in Tasks : last[j] <= utc /\ last[j] % S = 0
  BY DEF TimeInv
<1>4. by \in {0, Week} /\ by \in Nat /\ t \in Nat /\ Hour \in Nat \ {0} /\ Week \in Nat \ {0}
  BY <1>2, Lengths
<1>5. r - by \in Nat \ {0} /\ (u > 0 => Shift(t, by) = t - by /\ t - by > 0)
      /\ (u = 0 => Shift(t, by) = 0)
  BY <1>2, <1>4 DEF Shift
<1>6. shown' = utc'
  BY <1>1, <1>2, <1>3, <1>5
<1>7. due \subseteq Tasks /\ \A j \in due : t % S = 0
  BY <1>3 DEF Due, time_strtohex, second
<1>8. ASSUME NEW j \in Tasks
      PROVE  n(j) \in Nat /\ n(j) <= t /\ n(j) % S = 0
  <2>0. 0 % S = 0
    <3>1. 0 = S * 0 + 0 /\ 0 \in 0 .. S - 1 /\ S \in Nat \ {0}
      BY Lengths
    <3> QED BY <3>1, DivisionIsUnique
  <2>1. CASE j \in due
    BY <1>4, <1>7, <2>1
  <2>2. CASE j \notin due /\ Asked(d) /\ offline
    BY <1>4, <2>0, <2>2
  <2>3. CASE j \notin due /\ ~ (Asked(d) /\ offline)
    <3>1. n(j) = last[j] /\ last[j] \in Nat /\ last[j] <= utc /\ last[j] % S = 0
      BY <1>3, <2>3
    <3>2. u > 0 => last[j] < u + 1
      BY <2>3, LaterThanLast
    <3> QED BY <1>2, <1>3, <3>1, <3>2
  <2> QED BY <2>1, <2>2, <2>3
<1>9. ~ twice'
  <2>1. ASSUME NEW j \in due, ~ offline PROVE last[j] # t
    <3>1. u > 0 /\ j \in Tasks /\ t = u + 1 /\ last[j] \in Nat
      BY <1>2, <1>3, <1>7
    <3>2. last[j] < u + 1
      BY <2>1, <3>1, LaterThanLast
    <3> QED BY <1>2, <3>1, <3>2
  <2> HIDE DEF due, t
  <2> QED BY <1>1, <2>1, Zenon
<1>10. ASSUME NEW l \in lost', ~ l[3] PROVE l[1].minute = 0 /\ l[2] <= Drift
  <2>0. PICK x \in leapt : l \in {<<j, u - utc, offline>> : j \in Due(x)}
    BY <1>1, <1>10
  <2>1. PICK j \in Due(x) : l = <<j, u - utc, offline>>
    BY <2>0
  <2>2. utc > 0 /\ ~ offline /\ x \in (utc + 1) .. u
    BY <1>10, <2>1
  <2>3. j.minute = 0 /\ u - utc <= Drift
    BY <2>2, LeaptOver
  <2> QED BY <2>1, <2>3
<1>11. u > 0 /\ ~ offline' => utc' - 1 - real' \in -slips' .. slips'
  BY <1>1, <1>2, <1>4, <1>5
<1>12. utc' > 0 => u > 0
  BY <1>1, <1>2, <1>5
<1>13. fired' # {} => u > 0
  BY <1>1, <1>2
<1>14. enabled' \subseteq Tasks
  BY <1>1, <1>3
<1>15. last' \in [Tasks -> Nat] /\ \A j \in Tasks : last'[j] <= utc' /\ last'[j] % S = 0
  <2> HIDE DEF n, t, by
  <2>1. \A j \in Tasks : /\ Shift(n(j), by) \in Nat /\ Shift(n(j), by) <= Shift(t, by)
                        /\ Shift(n(j), by) % S = 0
    BY <1>4, <1>8, ShiftKeeps
  <2> QED BY <1>1, <2>1
<1>16. utc' \in Nat /\ real' \in Nat \ {0}
  BY <1>1, <1>2, <1>4, <1>5
<1>17. \A k \in -slips' .. slips' : k \in -Drift .. Drift
  <2>1. \A a \in Nat : \A b \in 0 .. a : \A k \in -b .. b : k \in -a .. a
    OBVIOUS
  <2> QED BY <1>2, <2>1, Lengths, Zenon
<1>18. fired' # {} /\ ~ offline' => utc' - 1 - real' \in -Drift .. Drift
  BY <1>11, <1>13, <1>16, <1>17
<1>19. TasksKeepTime'
  BY <1>9, <1>10, <1>18 DEF TasksKeepTime
<1> HIDE DEF r, u, t, due, by, leapt, n
<1> QED BY <1>1, <1>2, <1>3, <1>6, <1>11, <1>12, <1>14, <1>15, <1>16, <1>19 DEF TimeInv

LEMMA TimeInit == ScheduleInit => TimeInv
<1> SUFFICES ASSUME ScheduleInit PROVE TimeInv
  OBVIOUS
<1>1. 0 % S = 0
  <2>1. 0 = S * 0 + 0 /\ 0 \in 0 .. S - 1 /\ S \in Nat \ {0}
    BY Lengths
  <2> QED BY <2>1, DivisionIsUnique
<1>2. /\ utc = 0 /\ shown = 0 /\ real \in Nat \ {0} /\ synced = FALSE /\ gotIp = FALSE
      /\ enabled = Tasks /\ fired = {} /\ last = [j \in Tasks |-> 0] /\ slips = 0
      /\ offline = FALSE /\ lost = {} /\ twice = FALSE
  BY Lengths DEF ScheduleInit
<1>3. 0 \in 0 .. Drift /\ ~ (0 > 0) /\ 0 \in Nat /\ 0 <= 0
  BY Lengths
<1>4. last \in [Tasks -> Nat] /\ \A j \in Tasks : last[j] <= utc /\ last[j] % S = 0
  BY <1>1, <1>2
<1>5. TasksKeepTime
  BY <1>2, Zenon DEF TasksKeepTime
<1> QED BY <1>2, <1>3, <1>4, <1>5, Zenon DEF TimeInv

LEMMA TimeStep == TimeInv /\ [ScheduleNext]_scheduleVars => TimeInv'
<1> SUFFICES ASSUME TimeInv, [ScheduleNext]_scheduleVars PROVE TimeInv'
  OBVIOUS
<1>1. CASE \E d \in 0 .. 2 : Tick(d)
  BY <1>1, TickKeeps
<1> USE DEF TimeInv, TasksKeepTime, timeVars
<1>2. CASE Wifi
  BY <1>2 DEF Wifi
<1>3. CASE SntpAnswers
  BY <1>3 DEF SntpAnswers
<1>4. CASE SetTask
  BY <1>4 DEF SetTask
<1>5. CASE SetInterval
  BY <1>5 DEF SetInterval
<1>6. CASE UNCHANGED scheduleVars
  BY <1>6 DEF scheduleVars
<1> QED BY <1>1, <1>2, <1>3, <1>4, <1>5, <1>6 DEF ScheduleNext

\* For any lengths of the minute, the hour, the day and the week, any tasks and any
\* drift of less than a minute in an hour: as long as no hour ends without a
\* resynchronisation, user_os_timer_func fires a task within the drift of its time,
\* never twice for one second, and leaps over none but those of minute 0.
THEOREM TimeKept == ScheduleSpec => []TasksKeepTime
<1>1. TimeInv => TasksKeepTime
  BY DEF TimeInv
<1> QED BY <1>1, TimeInit, TimeStep, PTL DEF ScheduleSpec

-----------------------------------------------------------------------------
(* The requests of a read *)

LEMMA TotalSteps ==
  ASSUME NEW f \in Seq(Nat)
  PROVE  \E sum \in [0 .. Len(f) -> Nat] :
           /\ sum[0] = 0 /\ TotalOf(f) = sum[Len(f)]
           /\ \A n \in 1 .. Len(f) : sum[n] = sum[n - 1] + f[n]
<1> DEFINE L == Len(f)
           step == [n \in 1 .. L |-> [v \in Nat |-> v + f[n]]]
           F(g) == g = [n \in 0 .. L |-> IF n = 0 THEN 0 ELSE g[n - 1] + f[n]]
           sum == CHOOSE g : F(g)
<1>1. TotalOf(f) = sum[L]
  BY DEF TotalOf
<1>2. L \in Nat /\ \A n \in 1 .. L : f[n] \in Nat
  OBVIOUS
<1>3. /\ step \in [1 .. L -> [Nat -> Nat]]
      /\ \A n \in 1 .. L, v \in Nat : step[n][v] = v + f[n]
  BY <1>2
<1> HIDE DEF step, L
<1>4. PICK g : Recurs(g, L, Nat, 0, step)
  BY <1>2, <1>3, RecursionExists
<1>5. F(g)
  <2>1. ASSUME NEW n \in 0 .. L PROVE g[n] = IF n = 0 THEN 0 ELSE g[n - 1] + f[n]
    <3>1. CASE n = 0
      BY <1>4, <3>1 DEF Recurs
    <3>2. CASE n # 0
      <4>1. n \in 1 .. L /\ n - 1 \in 0 .. L
        BY <1>2, <3>2
      <4>2. g[n] = step[n][g[n - 1]] /\ g[n - 1] \in Nat
        BY <1>4, <4>1 DEF Recurs
      <4> QED BY <1>3, <3>2, <4>1, <4>2
    <3> QED BY <3>1, <3>2
  <2>2. g = [n \in 0 .. L |-> g[n]]
    BY <1>4 DEF Recurs
  <2> QED BY <2>1, <2>2
<1>6. F(sum)
  BY <1>5
<1> HIDE DEF sum
<1>7. sum[0] = 0
  BY <1>2, <1>6
<1>8. ASSUME NEW n \in 1 .. L PROVE sum[n] = sum[n - 1] + f[n]
  <2>1. n \in 0 .. L /\ n # 0
    BY <1>2
  <2> QED BY <1>6, <2>1, Zenon
<1>9. \A n \in 0 .. L : sum[n] \in Nat
  <2> DEFINE T == {n \in 0 .. L : sum[n] \in Nat}
  <2>1. 0 \in T
    BY <1>2, <1>7
  <2>2. ASSUME NEW n \in 0 .. L - 1, n \in T PROVE n + 1 \in T
    <3>1. n + 1 \in 1 .. L /\ (n + 1) - 1 = n /\ n + 1 \in 0 .. L /\ sum[n] \in Nat
      BY <1>2, <2>2
    <3>2. sum[n + 1] = sum[n] + f[n + 1] /\ f[n + 1] \in Nat
      BY <1>2, <1>8, <3>1
    <3> QED BY <3>1, <3>2
  <2> HIDE DEF T
  <2>3. \A n \in 0 .. L : n \in T
    BY <1>2, <2>1, <2>2, IntervalInduction
  <2> QED BY <2>3 DEF T
<1>10. sum \in [0 .. L -> Nat]
  <2>1. sum = [n \in 0 .. L |-> sum[n]]
    BY <1>6
  <2> QED BY <1>9, <2>1
<1> QED BY <1>1, <1>7, <1>8, <1>10 DEF L

\* Every byte is asked for once, and words enough are copied.
ReadIsWhole(len, r) ==
  /\ \A n \in DOMAIN r : r[n].bytes \in 1 .. SPI_BUFF_BYTE_NUM
  /\ TotalOf([n \in DOMAIN r |-> r[n].bytes]) = len
  /\ TotalOf([n \in DOMAIN r |-> 4 * Words(r[n])]) \in len .. len + 3

LEMMA RequestsCover ==
  ASSUME NEW addr \in Nat, NEW len \in Nat
  PROVE  ReadIsWhole(len, Requests(addr, len))
<1> DEFINE r == Requests(addr, len)
           count == (len + 31) \div 32
           left(n) == len - (n - 1) * 32
           bytes(n) == IF left(n) >= 32 THEN 32 ELSE left(n)
           words(n) == IF bytes(n) % 4 = 0 THEN bytes(n) ELSE 4 * (bytes(n) \div 4) + 4
           f == [n \in DOMAIN r |-> r[n].bytes]
           g == [n \in DOMAIN r |-> 4 * Words(r[n])]
<1>1. count \in Nat /\ 32 * count >= len /\ 32 * count <= len + 31
  OBVIOUS
<1> HIDE DEF count
<1>2. r = [n \in 1 .. count |-> [addr |-> addr + (n - 1) * 32, bytes |-> bytes(n)]]
  BY DEF Requests, SPI_BUFF_BYTE_NUM, count
<1> HIDE DEF r
<1>3. DOMAIN r = 1 .. count /\ \A n \in 1 .. count : r[n].bytes = bytes(n)
  BY <1>2
<1>4. ASSUME NEW n \in 1 .. count
      PROVE  /\ bytes(n) \in 1 .. 32 /\ words(n) \in bytes(n) .. bytes(n) + 3
             /\ 4 * Words(r[n]) = words(n)
             /\ 32 * n <= len => bytes(n) = 32 /\ words(n) = 32
             /\ ~ (32 * n <= len) => n = count /\ bytes(n) = len - 32 * (n - 1)
  <2>1. left(n) \in 1 .. len /\ left(n) = len - 32 * n + 32
    BY <1>1
  <2>2. bytes(n) \in 1 .. 32
    BY <2>1
  <2>3. words(n) \in bytes(n) .. bytes(n) + 3
    <3> HIDE DEF bytes
    <3> QED BY <2>2
  <2>4. 4 * Words(r[n]) = words(n)
    <3>1. r[n].bytes = bytes(n)
      BY <1>3
    <3> HIDE DEF bytes
    <3> QED BY <2>2, <3>1 DEF Words
  <2>5. 32 * n <= len => bytes(n) = 32 /\ words(n) = 32
    BY <2>1
  <2>6. ~ (32 * n <= len) => n = count /\ bytes(n) = len - 32 * (n - 1)
    BY <1>1, <2>1
  <2> QED BY <2>2, <2>3, <2>4, <2>5, <2>6
<1>5. f \in Seq(Nat) /\ Len(f) = count /\ \A n \in 1 .. count : f[n] = bytes(n)
  BY <1>1, <1>3, <1>4
<1>6. g \in Seq(Nat) /\ Len(g) = count /\ \A n \in 1 .. count : g[n] = words(n)
  BY <1>1, <1>3, <1>4
<1> HIDE DEF f, g
<1>7. TotalOf(f) = len
  <2>1. PICK sum \in [0 .. count -> Nat] :
          /\ sum[0] = 0 /\ TotalOf(f) = sum[count]
          /\ \A n \in 1 .. count : sum[n] = sum[n - 1] + f[n]
    BY <1>5, TotalSteps
  <2> DEFINE T == {n \in 0 .. count : sum[n] = IF 32 * n <= len THEN 32 * n ELSE len}
  <2>2. 0 \in T
    BY <1>1, <2>1
  <2>3. ASSUME NEW n \in 0 .. count - 1, n \in T PROVE n + 1 \in T
    <3>1. n + 1 \in 1 .. count /\ n + 1 \in 0 .. count /\ (n + 1) - 1 = n
      BY <1>1
    <3>2. sum[n + 1] = sum[n] + bytes(n + 1)
      BY <1>5, <2>1, <3>1
    <3>3. 32 * n <= len /\ sum[n] = 32 * n
      BY <1>1, <2>3
    <3>4. /\ 32 * (n + 1) <= len => bytes(n + 1) = 32
          /\ ~ (32 * (n + 1) <= len) => bytes(n + 1) = len - 32 * n
      BY <1>4, <3>1
    <3> HIDE DEF bytes
    <3>5. sum[n + 1] = IF 32 * (n + 1) <= len THEN 32 * (n + 1) ELSE len
      BY <3>2, <3>3, <3>4
    <3> QED BY <3>1, <3>5
  <2>4. count \in T
    <3>1. count \in 0 .. count
      BY <1>1
    <3> HIDE DEF T
    <3> QED BY <1>1, <2>2, <2>3, <3>1, IntervalInduction
  <2> QED BY <1>1, <2>1, <2>4
<1>8. TotalOf(g) \in len .. len + 3
  <2>1. PICK sum \in [0 .. count -> Nat] :
          /\ sum[0] = 0 /\ TotalOf(g) = sum[count]
          /\ \A n \in 1 .. count : sum[n] = sum[n - 1] + g[n]
    BY <1>6, TotalSteps
  <2> DEFINE T == {n \in 0 .. count : IF 32 * n <= len THEN sum[n] = 32 * n
                                      ELSE sum[n] \in len .. len + 3}
  <2>2. 0 \in T
    BY <1>1, <2>1
  <2>3. ASSUME NEW n \in 0 .. count - 1, n \in T PROVE n + 1 \in T
    <3>1. n + 1 \in 1 .. count /\ n + 1 \in 0 .. count /\ (n + 1) - 1 = n
      BY <1>1
    <3>2. sum[n + 1] = sum[n] + words(n + 1)
      BY <1>6, <2>1, <3>1
    <3>3. 32 * n <= len /\ sum[n] = 32 * n
      BY <1>1, <2>3
    <3>4. /\ 32 * (n + 1) <= len => words(n + 1) = 32
          /\ ~ (32 * (n + 1) <= len) => words(n + 1) \in len - 32 * n .. len - 32 * n + 3
      BY <1>4, <3>1
    <3> HIDE DEF words
    <3>5. IF 32 * (n + 1) <= len THEN sum[n + 1] = 32 * (n + 1)
          ELSE sum[n + 1] \in len .. len + 3
      BY <3>2, <3>3, <3>4
    <3> QED BY <3>1, <3>5
  <2>4. count \in T
    <3>1. count \in 0 .. count
      BY <1>1
    <3> HIDE DEF T
    <3> QED BY <1>1, <2>2, <2>3, <3>1, IntervalInduction
  <2> QED BY <1>1, <2>1, <2>4
<1>9. ASSUME NEW n \in DOMAIN r PROVE r[n].bytes \in 1 .. 32
  <2>1. n \in 1 .. count
    BY <1>3
  <2>2. r[n].bytes = bytes(n) /\ bytes(n) \in 1 .. 32
    BY <1>3, <1>4, <2>1
  <2> HIDE DEF bytes
  <2> QED BY <2>2
<1> QED BY <1>7, <1>8, <1>9 DEF ReadIsWhole, SPI_BUFF_BYTE_NUM, f, g, r

-----------------------------------------------------------------------------
(* The bus after a selection *)

Conf == [clk_polar : 0 .. 1, clk_div : Int]
Regs == [flashMode : BOOLEAN, phases : SUBSET {"command", "mosi", "miso"},
         setup : BOOLEAN, edge : 0 .. 1, sysclk : BOOLEAN, div : Int, cs : 0 .. 2]
Buses == [reg : Regs, overlap : BOOLEAN, pins : SUBSET (0 .. 2)]

LEMMA EditsAreBuses ==
  ASSUME NEW b \in Buses
  PROVE  /\ SysClock(b) \in Buses
         /\ \A div \in Int : ClkDiv(b, div) \in Buses
         /\ \A polar \in 0 .. 1 : SampleEdge(b, polar) \in Buses
         /\ \A cs \in 0 .. 2 : ActiveCs(b, cs) \in Buses
         /\ EnableDevCs(b) \in Buses /\ DisableDevCs(b) \in Buses
         /\ hspi_overlap_init(b) \in Buses /\ hspi_overlap_deinit(b) \in Buses
         /\ \A backup \in Regs : spi_reg_recover(b, backup) \in Buses
         /\ spi_master_init(b) \in Buses
         /\ \A phases \in SUBSET {"command", "mosi", "miso"} :
              [b EXCEPT !.reg.phases = phases] \in Buses
         /\ \A d \in 0 .. 2 : [b EXCEPT !.pins = @ \cup {d}] \in Buses
<1>1. SysClock(b) \in Buses
  BY DEF SysClock, Buses, Regs
<1>2. \A div \in Int : ClkDiv(b, div) \in Buses
  BY DEF ClkDiv, Buses, Regs
<1>3. \A polar \in 0 .. 1 : SampleEdge(b, polar) \in Buses
  BY DEF SampleEdge, Buses, Regs
<1>4. \A cs \in 0 .. 2 : ActiveCs(b, cs) \in Buses
  BY DEF ActiveCs, Buses, Regs
<1>5. EnableDevCs(b) \in Buses
  <2>1. b.pins \cup {0} \in SUBSET (0 .. 2)
    BY DEF Buses
  <2> QED BY <2>1 DEF EnableDevCs, HSPI_CS_DEV, Buses
<1>6. DisableDevCs(b) \in Buses
  <2>1. b.pins \ {0} \in SUBSET (0 .. 2)
    BY DEF Buses
  <2> QED BY <2>1 DEF DisableDevCs, HSPI_CS_DEV, Buses
<1>7. hspi_overlap_init(b) \in Buses
  BY DEF hspi_overlap_init, Buses, Regs
<1>8. hspi_overlap_deinit(b) \in Buses
  BY DEF hspi_overlap_deinit, Buses, Regs
<1>9. \A backup \in Regs : spi_reg_recover(b, backup) \in Buses
  BY DEF spi_reg_recover, Buses
<1>10. spi_master_init(b) \in Buses
  <2>1. b.reg.phases \cup {"command"} \in SUBSET {"command", "mosi", "miso"}
    BY DEF Buses, Regs
  <2> DEFINE m1 == [b EXCEPT !.reg.flashMode = FALSE]
             m2 == [m1 EXCEPT !.reg.setup = TRUE]
             m3 == [m2 EXCEPT !.reg.sysclk = FALSE]
             m4 == [m3 EXCEPT !.reg.phases = @ \cup {"command"}]
             m5 == [m4 EXCEPT !.reg.div = 1]
  <2>2. m1 \in Buses /\ m1.reg.phases = b.reg.phases
    BY DEF Buses, Regs
  <2>3. m2 \in Buses /\ m2.reg.phases = b.reg.phases
    <3> HIDE DEF m1
    <3> QED BY <2>2 DEF Buses, Regs
  <2>4. m3 \in Buses /\ m3.reg.phases = b.reg.phases
    <3> HIDE DEF m2
    <3> QED BY <2>3 DEF Buses, Regs
  <2>5. m4 \in Buses
    <3> HIDE DEF m3
    <3> QED BY <2>1, <2>4 DEF Buses, Regs
  <2>6. m5 \in Buses
    <3> HIDE DEF m4
    <3> QED BY <2>5 DEF Buses, Regs
  <2>7. spi_master_init(b) = m5
    BY ZenonT(40) DEF spi_master_init
  <2> QED BY <2>6, <2>7
<1>11. \A phases \in SUBSET {"command", "mosi", "miso"} :
         [b EXCEPT !.reg.phases = phases] \in Buses
  BY DEF Buses, Regs
<1>12. ASSUME NEW d \in 0 .. 2 PROVE [b EXCEPT !.pins = @ \cup {d}] \in Buses
  <2>1. b.pins \cup {d} \in SUBSET (0 .. 2)
    BY DEF Buses
  <2> QED BY <2>1 DEF Buses
<1> QED BY <1>1, <1>2, <1>3, <1>4, <1>5, <1>6, <1>7, <1>8, <1>9, <1>10, <1>11, <1>12

\* Bus b is set for a device on its own pins with configuration c, for device d on
\* the pins of the flash, whose clock may run at 80 MHz, for the flash.
Clocked(b, div) == b.reg.sysclk = FALSE /\ b.reg.div = div

OnOwnPins(b, c) ==
  /\ b.overlap = FALSE /\ b.reg.flashMode = FALSE /\ "command" \in b.reg.phases
  /\ Clocked(b, c.clk_div) /\ b.reg.edge = c.clk_polar /\ b.reg.cs = 0

OnSharedPins(b, d, c, is80m) ==
  /\ b.overlap = TRUE /\ b.reg.flashMode = FALSE /\ "command" \in b.reg.phases
  /\ is80m => b.reg.sysclk = TRUE
  /\ ~ is80m => Clocked(b, c.clk_div)
  /\ b.reg.edge = c.clk_polar /\ b.reg.cs = d

OnFlash(b, is80m) ==
  /\ b.overlap = TRUE /\ b.reg.flashMode = TRUE
  /\ is80m => b.reg.sysclk = TRUE
  /\ ~ is80m => Clocked(b, RomDiv)
  /\ b.reg.edge = 0 /\ b.reg.cs = 0

Serves(b, d, c, is80m) ==
  /\ d = 0 => OnOwnPins(b, c)
  /\ d \in {1, 2} => OnSharedPins(b, d, c, is80m)
  /\ d = 3 => OnFlash(b, is80m)

\* What the first device to be set up leaves in the backups.
Backups(r) ==
  /\ r.flash_backup.flashMode = TRUE
  /\ r.spi_io_80m => r.flash_backup.sysclk = TRUE
  /\ ~ r.spi_io_80m => r.flash_backup.sysclk = FALSE
  /\ r.flash_backup.div = RomDiv
  /\ r.dev_backup.flashMode = FALSE /\ "command" \in r.dev_backup.phases

Registers ==
  [flash_backup : Regs, dev_backup : Regs, conf : [0 .. 3 -> Conf],
   active : [0 .. 3 -> BOOLEAN], selected_dev_num : 0 .. 4,
   spi_io_80m : BOOLEAN, backedUp : BOOLEAN]

\* The bus hspi_dev_sel writes.
Chosen(d) ==
  LET c == hspi_dev_reg.conf[d] IN
  CASE Selected = HSPI_CS_DEV -> FromDev(bus, c, d)
    [] Selected \in {SPI_CS1_DEV, SPI_CS2_DEV} -> FromShared(bus, c, d)
    [] Selected = SPI_CS0_FLASH -> FromFlash(bus, c, d)
    [] OTHER -> FromIdle(bus, c, d)

LEMMA ClockEdits ==
  ASSUME NEW b \in Buses, NEW c \in Conf, Is80m \in BOOLEAN
  PROVE  /\ SharedClock(b, c) \in Buses /\ OwnClock(b, c) \in Buses /\ FlashClock(b) \in Buses
         /\ \A d \in 0 .. 2 : Shared(b, c, d) \in Buses
         /\ Own(b, c) \in Buses /\ Flash(b) \in Buses
<1>1. c.clk_polar \in 0 .. 1 /\ c.clk_div \in Int
  BY DEF Conf
<1>2. OwnClock(b, c) \in Buses
  BY <1>1, EditsAreBuses DEF OwnClock
<1>3. SharedClock(b, c) \in Buses /\ FlashClock(b) \in Buses
  BY <1>1, EditsAreBuses DEF SharedClock, FlashClock
<1>4. ASSUME NEW d \in 0 .. 2 PROVE Shared(b, c, d) \in Buses
  <2>1. SampleEdge(b, c.clk_polar) \in Buses
    BY <1>1, EditsAreBuses
  <2> QED BY <2>1, EditsAreBuses DEF Shared
<1>5. Own(b, c) \in Buses
  <2>1. SampleEdge(OwnClock(b, c), c.clk_polar) \in Buses
    BY <1>1, <1>2, EditsAreBuses
  <2>2. 0 \in 0 .. 2
    OBVIOUS
  <2> QED BY <2>1, <2>2, EditsAreBuses DEF Own
<1>6. Flash(b) \in Buses
  <2>1. 0 \in 0 .. 1 /\ 0 \in 0 .. 2
    OBVIOUS
  <2>2. SampleEdge(b, 0) \in Buses
    BY <2>1, EditsAreBuses
  <2> QED BY <2>1, <2>2, EditsAreBuses DEF Flash
<1> QED BY <1>2, <1>3, <1>4, <1>5, <1>6

LEMMA ChosenIsABus ==
  ASSUME bus \in Buses, hspi_dev_reg \in Registers, NEW d \in 0 .. 3
  PROVE  Chosen(d) \in Buses
<1> DEFINE c == hspi_dev_reg.conf[d]
           lent == hspi_overlap_init(DisableDevCs(bus))
           own == hspi_overlap_deinit(EnableDevCs(bus))
<1>1. c \in Conf /\ Is80m \in BOOLEAN /\ FlashBackup \in Regs /\ DevBackup \in Regs
  BY DEF Registers, Is80m, FlashBackup, DevBackup
<1> HIDE DEF c
<1>2. lent \in Buses /\ own \in Buses
  BY EditsAreBuses
<1> HIDE DEF lent, own
<1>3. \A b \in Buses : /\ spi_reg_recover(b, FlashBackup) \in Buses
                       /\ spi_reg_recover(b, DevBackup) \in Buses
  BY <1>1, EditsAreBuses
<1>4. \A b \in Buses : /\ SharedClock(b, c) \in Buses /\ OwnClock(b, c) \in Buses
                       /\ FlashClock(b) \in Buses /\ Own(b, c) \in Buses
                       /\ Flash(b) \in Buses
                       /\ \A e \in 0 .. 2 : Shared(b, c, e) \in Buses
  BY <1>1, ClockEdits
<1>5. FromDev(bus, c, d) \in Buses
  BY <1>2, <1>3, <1>4 DEF FromDev, SPI_CS1_DEV, SPI_CS2_DEV, SPI_CS0_FLASH, lent
<1>6. FromShared(bus, c, d) \in Buses
  BY <1>2, <1>3, <1>4 DEF FromShared, SPI_CS1_DEV, SPI_CS2_DEV, SPI_CS0_FLASH,
     HSPI_CS_DEV, own
<1>7. FromFlash(bus, c, d) \in Buses
  BY <1>2, <1>3, <1>4 DEF FromFlash, SPI_CS1_DEV, SPI_CS2_DEV, HSPI_CS_DEV, own
<1>8. FromIdle(bus, c, d) \in Buses
  BY <1>2, <1>3, <1>4 DEF FromIdle, SPI_CS1_DEV, SPI_CS2_DEV, SPI_CS0_FLASH,
     HSPI_CS_DEV, lent, own
<1> QED BY <1>5, <1>6, <1>7, <1>8 DEF Chosen, c

\* What selecting a device does to the registers, and what it leaves.
Keeps(x, b) ==
  /\ x.overlap = b.overlap /\ x.pins = b.pins
  /\ x.reg.flashMode = b.reg.flashMode /\ x.reg.phases = b.reg.phases

LEMMA OwnEdits ==
  ASSUME NEW b \in Buses, NEW c \in Conf
  PROVE  /\ Keeps(Own(b, c), b) /\ Clocked(Own(b, c), c.clk_div)
         /\ Own(b, c).reg.edge = c.clk_polar /\ Own(b, c).reg.cs = 0
BY DEF Own, OwnClock, ClkDiv, Keeps, Clocked, ActiveCs, SampleEdge, Buses, Regs, Conf

LEMMA SharedEdits ==
  ASSUME NEW b \in Buses, NEW c \in Conf, NEW d \in 1 .. 2
  PROVE  LET x == Shared(b, c, d) IN
           /\ Keeps(x, b) /\ x.reg.edge = c.clk_polar /\ x.reg.cs = d
           /\ x.reg.sysclk = b.reg.sysclk /\ x.reg.div = b.reg.div
BY DEF Shared, Keeps, ActiveCs, SampleEdge, Buses, Regs, Conf

LEMMA SharedClockEdits ==
  ASSUME NEW b \in Buses, NEW c \in Conf, Is80m \in BOOLEAN
  PROVE  LET x == SharedClock(b, c) IN
           /\ x \in Buses /\ Keeps(x, b)
           /\ Is80m => x.reg.sysclk = TRUE
           /\ ~ Is80m => Clocked(x, c.clk_div)
<1>1. CASE Is80m
  <2>1. SharedClock(b, c) = SysClock(b)
    BY <1>1 DEF SharedClock
  <2>2. SysClock(b) \in Buses
    BY EditsAreBuses
  <2> QED BY <1>1, <2>1, <2>2 DEF SysClock, Keeps, Buses, Regs
<1>2. CASE ~ Is80m
  <2>1. SharedClock(b, c) = ClkDiv(b, c.clk_div)
    BY <1>2 DEF SharedClock
  <2>2. ClkDiv(b, c.clk_div) \in Buses
    BY EditsAreBuses DEF Conf
  <2> QED BY <1>2, <2>1, <2>2, ZenonT(40) DEF ClkDiv, Keeps, Clocked, Buses, Regs
<1> QED BY <1>1, <1>2

LEMMA FlashEdits ==
  ASSUME NEW b \in Buses
  PROVE  LET x == Flash(b) IN
           /\ Keeps(x, b) /\ x.reg.edge = 0 /\ x.reg.cs = 0
           /\ x.reg.sysclk = b.reg.sysclk /\ x.reg.div = b.reg.div
BY DEF Flash, Keeps, ActiveCs, SampleEdge, Buses, Regs

LEMMA FlashClockEdits ==
  ASSUME NEW b \in Buses, Is80m \in BOOLEAN
  PROVE  LET x == FlashClock(b) IN
           /\ x \in Buses /\ Keeps(x, b)
           /\ Is80m => x.reg.sysclk = TRUE
           /\ ~ Is80m => x.reg.sysclk = b.reg.sysclk /\ x.reg.div = b.reg.div
BY EditsAreBuses, ZenonT(40) DEF FlashClock, SysClock, Keeps, Buses, Regs

\* A bus that is right but for clock, edge and chip select becomes right.
Prepared(b, overlap) ==
  b.overlap = overlap /\ b.reg.flashMode = FALSE /\ "command" \in b.reg.phases

LEMMA OwnServes ==
  ASSUME NEW b \in Buses, NEW c \in Conf, Prepared(b, FALSE)
  PROVE  OnOwnPins(Own(b, c), c) /\ Own(b, c).pins = b.pins
BY OwnEdits DEF OnOwnPins, Keeps, Prepared

LEMMA SharedServes ==
  ASSUME NEW b \in Buses, NEW c \in Conf, NEW d \in 1 .. 2, Is80m \in BOOLEAN,
         Prepared(b, TRUE)
  PROVE  LET x == Shared(SharedClock(b, c), c, d) IN
           OnSharedPins(x, d, c, Is80m) /\ x.pins = b.pins
<1> DEFINE y == SharedClock(b, c)
           x == Shared(y, c, d)
<1>1. /\ y \in Buses /\ Keeps(y, b)
      /\ Is80m => y.reg.sysclk = TRUE
      /\ ~ Is80m => Clocked(y, c.clk_div)
  BY SharedClockEdits
<1> HIDE DEF y
<1>2. /\ Keeps(x, y) /\ x.reg.edge = c.clk_polar /\ x.reg.cs = d
      /\ x.reg.sysclk = y.reg.sysclk /\ x.reg.div = y.reg.div
  BY <1>1, SharedEdits
<1> HIDE DEF x
<1>3. OnSharedPins(x, d, c, Is80m) /\ x.pins = b.pins
  BY <1>1, <1>2 DEF OnSharedPins, Keeps, Clocked, Prepared
<1> QED BY <1>3 DEF x, y

LEMMA FlashServes ==
  ASSUME NEW b \in Buses, Is80m \in BOOLEAN, b.overlap = TRUE, b.reg.flashMode = TRUE,
         b.reg.div = RomDiv,
         Is80m => b.reg.sysclk = TRUE, ~ Is80m => b.reg.sysclk = FALSE
  PROVE  /\ OnFlash(Flash(b), Is80m) /\ Flash(b).pins = b.pins
         /\ LET x == Flash(FlashClock(b)) IN OnFlash(x, Is80m) /\ x.pins = b.pins
<1>1. OnFlash(Flash(b), Is80m) /\ Flash(b).pins = b.pins
  BY FlashEdits DEF OnFlash, Keeps, Clocked
<1> DEFINE y == FlashClock(b)
           x == Flash(y)
<1>2. /\ y \in Buses /\ Keeps(y, b)
      /\ Is80m => y.reg.sysclk = TRUE
      /\ ~ Is80m => y.reg.sysclk = b.reg.sysclk /\ y.reg.div = b.reg.div
  BY FlashClockEdits
<1> HIDE DEF y
<1>3. /\ Keeps(x, y) /\ x.reg.edge = 0 /\ x.reg.cs = 0
      /\ x.reg.sysclk = y.reg.sysclk /\ x.reg.div = y.reg.div
  BY <1>2, FlashEdits
<1> HIDE DEF x
<1>4. OnFlash(x, Is80m) /\ x.pins = b.pins
  BY <1>2, <1>3 DEF OnFlash, Keeps, Clocked
<1> QED BY <1>1, <1>4 DEF x, y

LEMMA RecoverEdits ==
  ASSUME NEW b \in Buses, NEW backup \in Regs
  PROVE  LET x == spi_reg_recover(b, backup) IN
           x \in Buses /\ x.overlap = b.overlap /\ x.pins = b.pins /\ x.reg = backup
BY DEF spi_reg_recover, Buses

\* The pins a selection leaves: only HSPI_CS_DEV's chip select comes and goes.
PinsAfter(d) ==
  IF d = Selected THEN bus.pins
  ELSE IF d = 0 THEN bus.pins \cup {0}
  ELSE IF Selected \in {0, 4} THEN bus.pins \ {0}
  ELSE bus.pins

\* Whatever was selected before, the bus serves the device selected.
LEMMA ChosenServes ==
  ASSUME bus \in Buses, hspi_dev_reg \in Registers, Backups(hspi_dev_reg),
         NEW t, Selected \in 0 .. 3 => Serves(bus, Selected, t, Is80m),
         NEW d \in 0 .. 3
  PROVE  /\ d = Selected => Chosen(d) = bus
         /\ d # Selected => Serves(Chosen(d), d, hspi_dev_reg.conf[d], Is80m)
         /\ Chosen(d).pins = PinsAfter(d)
<1> DEFINE c == hspi_dev_reg.conf[d]
<1>1. /\ c \in Conf /\ Is80m \in BOOLEAN /\ FlashBackup \in Regs /\ DevBackup \in Regs
      /\ Selected \in 0 .. 4
  BY DEF Registers, Is80m, FlashBackup, DevBackup, Selected
<1>2. /\ FlashBackup.flashMode = TRUE /\ FlashBackup.div = RomDiv
      /\ Is80m => FlashBackup.sysclk = TRUE
      /\ ~ Is80m => FlashBackup.sysclk = FALSE
      /\ DevBackup.flashMode = FALSE /\ "command" \in DevBackup.phases
  BY DEF Backups, FlashBackup, DevBackup, Is80m
<1> DEFINE Right(b) == Serves(b, d, c, Is80m)
<1> HIDE DEF c
<1> USE DEF SPI_CS1_DEV, SPI_CS2_DEV, SPI_CS0_FLASH, HSPI_CS_DEV
<1> DEFINE lent == hspi_overlap_init(DisableDevCs(bus))
           own == hspi_overlap_deinit(EnableDevCs(bus))
<1>3. /\ lent \in Buses /\ own \in Buses
      /\ lent.overlap = TRUE /\ lent.pins = bus.pins \ {0}
      /\ lent.reg.flashMode = bus.reg.flashMode /\ lent.reg.phases = bus.reg.phases
      /\ own.overlap = FALSE /\ own.pins = bus.pins \cup {0}
      /\ own.reg.flashMode = bus.reg.flashMode /\ own.reg.phases = bus.reg.phases
  <2>1. lent \in Buses /\ own \in Buses
    BY EditsAreBuses
  <2> QED BY <2>1 DEF hspi_overlap_init, hspi_overlap_deinit, DisableDevCs, EnableDevCs, Buses, Regs
<1> HIDE DEF lent, own
<1>4. CASE Selected = 0
  <2>0. Chosen(d) = FromDev(bus, c, d)
    BY <1>4 DEF Chosen, c
  <2>1. CASE d = 0
    <3>1. Chosen(d) = bus
      BY <1>4, <2>0, <2>1 DEF FromDev
    <3> QED BY <1>4, <2>1, <3>1 DEF PinsAfter
  <2>2. CASE d \in 1 .. 2
    <3>1. Chosen(d) = Shared(SharedClock(lent, c), c, d)
      BY <1>4, <2>0, <2>2 DEF FromDev, lent, own
    <3>2. bus.reg.flashMode = FALSE /\ "command" \in bus.reg.phases
      BY <1>4 DEF Serves, OnOwnPins, OnSharedPins, OnFlash
    <3>3. Prepared(lent, TRUE)
      BY <1>1, <1>2, <1>3, <2>2, <3>1, <3>2 DEF Prepared
    <3>4. OnSharedPins(Shared(SharedClock(lent, c), c, d), d, c, Is80m)
          /\ Shared(SharedClock(lent, c), c, d).pins = lent.pins
      BY <1>1, <1>3, <2>2, <3>2, <3>3, SharedServes
    <3>5. OnSharedPins(Chosen(d), d, c, Is80m) /\ Chosen(d).pins = bus.pins \ {0}
      BY <1>3, <3>1, <3>4
    <3>6. Right(Chosen(d)) /\ Chosen(d).pins = bus.pins \ {0}
      BY <2>2, <3>5 DEF Serves
    <3> QED BY <1>4, <2>2, <3>6 DEF PinsAfter, c
  <2>3. CASE d = 3
    <3> DEFINE b == spi_reg_recover(lent, FlashBackup)
    <3>1. Chosen(d) = Flash(FlashClock(b))
      BY <1>4, <2>0, <2>3 DEF FromDev, lent, own
    <3>2. b \in Buses /\ b.overlap = lent.overlap /\ b.pins = lent.pins /\ b.reg = FlashBackup
      BY <1>1, <1>3, RecoverEdits
    <3> HIDE DEF b
    <3>3. /\ b.overlap = TRUE /\ b.reg.flashMode = TRUE /\ b.reg.div = RomDiv
          /\ Is80m => b.reg.sysclk = TRUE
          /\ ~ Is80m => b.reg.sysclk = FALSE
      BY <1>1, <1>2, <1>3, <2>3, <3>1, <3>2
    <3>4. OnFlash(Chosen(d), Is80m) /\ Chosen(d).pins = bus.pins \ {0}
      BY <1>1, <1>2, <1>3, <2>3, <3>1, <3>2, <3>3, FlashServes
    <3>5. Right(Chosen(d)) /\ Chosen(d).pins = bus.pins \ {0}
      BY <2>3, <3>4 DEF Serves
    <3> QED BY <1>4, <2>3, <3>5 DEF PinsAfter, c
  <2> QED BY <2>1, <2>2, <2>3
<1>5. CASE Selected \in 1 .. 2
  <2>0. Chosen(d) = FromShared(bus, c, d)
    BY <1>5 DEF Chosen, c
  <2>1. CASE d = Selected
    <3>1. Chosen(d) = bus
      BY <1>5, <2>0, <2>1 DEF FromShared
    <3> QED BY <1>5, <2>1, <3>1 DEF PinsAfter
  <2>2. CASE d \in 1 .. 2 /\ d # Selected
    <3>1. Chosen(d) = Shared(IF Is80m THEN bus ELSE OwnClock(bus, c), c, d)
      BY <1>5, <2>0, <2>2 DEF FromShared
    <3>2. /\ bus.overlap = TRUE /\ bus.reg.flashMode = FALSE /\ "command" \in bus.reg.phases
          /\ Is80m => bus.reg.sysclk = TRUE
      BY <1>5 DEF Serves, OnSharedPins
    <3>3. Chosen(d) = IF Is80m THEN Shared(bus, c, d) ELSE Shared(SharedClock(bus, c), c, d)
      BY <3>1 DEF OwnClock, SharedClock
    <3>4. Prepared(bus, TRUE)
      BY <1>1, <2>2, <3>2, <3>3 DEF Prepared
    <3>5. OnSharedPins(Chosen(d), d, c, Is80m) /\ Chosen(d).pins = bus.pins
      <4>1. CASE Is80m
        <5>1. LET x == Shared(bus, c, d) IN
                /\ Keeps(x, bus) /\ x.reg.edge = c.clk_polar /\ x.reg.cs = d
                /\ x.reg.sysclk = bus.reg.sysclk
          BY <1>1, <2>2, SharedEdits
        <5>2. Chosen(d) = Shared(bus, c, d)
          BY <3>3, <4>1
        <5> QED BY <3>2, <4>1, <5>1, <5>2 DEF OnSharedPins, Keeps
      <4>2. CASE ~ Is80m
        <5>1. /\ OnSharedPins(Shared(SharedClock(bus, c), c, d), d, c, Is80m)
              /\ Shared(SharedClock(bus, c), c, d).pins = bus.pins
          BY <1>1, <2>2, <3>4, SharedServes
        <5> QED BY <3>3, <4>2, <5>1
      <4> QED BY <4>1, <4>2
    <3>6. Right(Chosen(d)) /\ Chosen(d).pins = bus.pins
      BY <2>2, <3>5 DEF Serves
    <3> QED BY <1>5, <2>2, <3>6 DEF PinsAfter, c
  <2>3. CASE d = 3
    <3> DEFINE b == spi_reg_recover(bus, FlashBackup)
    <3>1. Chosen(d) = Flash(b)
      BY <1>5, <2>0, <2>3 DEF FromShared, lent, own
    <3>2. bus.overlap = TRUE
      BY <1>5 DEF Serves, OnOwnPins, OnSharedPins, OnFlash
    <3>3. b \in Buses /\ b.overlap = bus.overlap /\ b.pins = bus.pins /\ b.reg = FlashBackup
      BY <1>1, <1>3, RecoverEdits
    <3> HIDE DEF b
    <3>4. /\ b.overlap = TRUE /\ b.reg.flashMode = TRUE /\ b.reg.div = RomDiv
          /\ Is80m => b.reg.sysclk = TRUE
          /\ ~ Is80m => b.reg.sysclk = FALSE
      BY <1>1, <1>2, <1>3, <2>3, <3>1, <3>2, <3>3
    <3>5. OnFlash(Chosen(d), Is80m) /\ Chosen(d).pins = bus.pins
      BY <1>1, <1>2, <1>3, <2>3, <3>1, <3>2, <3>3, <3>4, FlashServes
    <3>6. Right(Chosen(d)) /\ Chosen(d).pins = bus.pins
      BY <2>3, <3>5 DEF Serves
    <3> QED BY <1>5, <2>3, <3>6 DEF PinsAfter, c
  <2>4. CASE d = 0
    <3>1. Chosen(d) = Own(own, c)
      BY <1>5, <2>0, <2>4 DEF FromShared, lent, own
    <3>2. bus.reg.flashMode = FALSE /\ "command" \in bus.reg.phases
      BY <1>5 DEF Serves, OnOwnPins, OnSharedPins, OnFlash
    <3>3. Prepared(own, FALSE)
      BY <1>1, <1>2, <1>3, <2>4, <3>1, <3>2 DEF Prepared
    <3>4. OnOwnPins(Chosen(d), c) /\ Chosen(d).pins = bus.pins \cup {0}
      BY <1>1, <1>2, <1>3, <2>4, <3>1, <3>2, <3>3, OwnServes
    <3>5. Right(Chosen(d)) /\ Chosen(d).pins = bus.pins \cup {0}
      BY <2>4, <3>4 DEF Serves
    <3>6. d # Selected
      BY <1>5, <2>4
    <3> QED BY <2>4, <3>5, <3>6 DEF PinsAfter, c
  <2> QED BY <2>1, <2>2, <2>3, <2>4, <1>5
<1>6. CASE Selected = 3
  <2>0. Chosen(d) = FromFlash(bus, c, d)
    BY <1>6 DEF Chosen, c
  <2>1. CASE d = 3
    <3>1. Chosen(d) = bus
      BY <1>6, <2>0, <2>1 DEF FromFlash
    <3> QED BY <1>6, <2>1, <3>1 DEF PinsAfter
  <2>2. CASE d \in 1 .. 2
    <3> DEFINE b == spi_reg_recover(bus, DevBackup)
    <3>1. Chosen(d) = Shared(SharedClock(b, c), c, d)
      BY <1>6, <2>0, <2>2 DEF FromFlash, lent, own
    <3>2. bus.overlap = TRUE
      BY <1>6 DEF Serves, OnOwnPins, OnSharedPins, OnFlash
    <3>3. b \in Buses /\ b.overlap = bus.overlap /\ b.pins = bus.pins /\ b.reg = DevBackup
      BY <1>1, <1>3, RecoverEdits
    <3> HIDE DEF b
    <3>4. Prepared(b, TRUE)
      BY <1>1, <1>2, <1>3, <2>2, <3>1, <3>2, <3>3 DEF Prepared
    <3>5. OnSharedPins(Shared(SharedClock(b, c), c, d), d, c, Is80m)
          /\ Shared(SharedClock(b, c), c, d).pins = b.pins
      BY <1>1, <1>3, <2>2, <3>2, <3>3, <3>4, SharedServes
    <3>6. OnSharedPins(Chosen(d), d, c, Is80m) /\ Chosen(d).pins = bus.pins
      BY <1>3, <3>1, <3>5, <3>3
    <3>7. Right(Chosen(d)) /\ Chosen(d).pins = bus.pins
      BY <2>2, <3>6 DEF Serves
    <3> QED BY <1>6, <2>2, <3>7 DEF PinsAfter, c
  <2>3. CASE d = 0
    <3> DEFINE b == spi_reg_recover(own, DevBackup)
    <3>1. Chosen(d) = Own(b, c)
      BY <1>6, <2>0, <2>3 DEF FromFlash, lent, own
    <3>2. b \in Buses /\ b.overlap = own.overlap /\ b.pins = own.pins /\ b.reg = DevBackup
      BY <1>1, <1>3, RecoverEdits
    <3> HIDE DEF b
    <3>3. Prepared(b, FALSE)
      BY <1>1, <1>2, <1>3, <2>3, <3>1, <3>2 DEF Prepared
    <3>4. OnOwnPins(Chosen(d), c) /\ Chosen(d).pins = bus.pins \cup {0}
      BY <1>1, <1>2, <1>3, <2>3, <3>1, <3>2, <3>3, OwnServes
    <3>5. Right(Chosen(d)) /\ Chosen(d).pins = bus.pins \cup {0}
      BY <2>3, <3>4 DEF Serves
    <3> QED BY <1>6, <2>3, <3>5 DEF PinsAfter, c
  <2> QED BY <2>1, <2>2, <2>3
<1>7. CASE Selected = 4
  <2>0. Chosen(d) = FromIdle(bus, c, d)
    BY <1>7 DEF Chosen, c
  <2>1. CASE d \in 1 .. 2
    <3> DEFINE b == spi_reg_recover(lent, DevBackup)
    <3>1. Chosen(d) = Shared(SharedClock(b, c), c, d)
      BY <1>7, <2>0, <2>1 DEF FromIdle, lent, own
    <3>2. b \in Buses /\ b.overlap = lent.overlap /\ b.pins = lent.pins /\ b.reg = DevBackup
      BY <1>1, <1>3, RecoverEdits
    <3> HIDE DEF b
    <3>3. Prepared(b, TRUE)
      BY <1>1, <1>2, <1>3, <2>1, <3>1, <3>2 DEF Prepared
    <3>4. OnSharedPins(Shared(SharedClock(b, c), c, d), d, c, Is80m)
          /\ Shared(SharedClock(b, c), c, d).pins = b.pins
      BY <1>1, <1>3, <2>1, <3>2, <3>3, SharedServes
    <3>5. OnSharedPins(Chosen(d), d, c, Is80m) /\ Chosen(d).pins = bus.pins \ {0}
      BY <1>3, <3>1, <3>4, <3>2
    <3>6. Right(Chosen(d)) /\ Chosen(d).pins = bus.pins \ {0}
      BY <2>1, <3>5 DEF Serves
    <3> QED BY <1>7, <2>1, <3>6 DEF PinsAfter, c
  <2>2. CASE d = 3
    <3> DEFINE b == spi_reg_recover(lent, FlashBackup)
    <3>1. Chosen(d) = Flash(FlashClock(b))
      BY <1>7, <2>0, <2>2 DEF FromIdle, lent, own
    <3>2. b \in Buses /\ b.overlap = lent.overlap /\ b.pins = lent.pins /\ b.reg = FlashBackup
      BY <1>1, <1>3, RecoverEdits
    <3> HIDE DEF b
    <3>3. /\ b.overlap = TRUE /\ b.reg.flashMode = TRUE /\ b.reg.div = RomDiv
          /\ Is80m => b.reg.sysclk = TRUE
          /\ ~ Is80m => b.reg.sysclk = FALSE
      BY <1>1, <1>2, <1>3, <2>2, <3>1, <3>2
    <3>4. OnFlash(Chosen(d), Is80m) /\ Chosen(d).pins = bus.pins \ {0}
      BY <1>1, <1>2, <1>3, <2>2, <3>1, <3>2, <3>3, FlashServes
    <3>5. Right(Chosen(d)) /\ Chosen(d).pins = bus.pins \ {0}
      BY <2>2, <3>4 DEF Serves
    <3> QED BY <1>7, <2>2, <3>5 DEF PinsAfter, c
  <2>3. CASE d = 0
    <3> DEFINE b == spi_reg_recover(own, DevBackup)
    <3>1. Chosen(d) = Own(b, c)
      BY <1>7, <2>0, <2>3 DEF FromIdle, lent, own
    <3>2. b \in Buses /\ b.overlap = own.overlap /\ b.pins = own.pins /\ b.reg = DevBackup
      BY <1>1, <1>3, RecoverEdits
    <3> HIDE DEF b
    <3>3. Prepared(b, FALSE)
      BY <1>1, <1>2, <1>3, <2>3, <3>1, <3>2 DEF Prepared
    <3>4. OnOwnPins(Chosen(d), c) /\ Chosen(d).pins = bus.pins \cup {0}
      BY <1>1, <1>2, <1>3, <2>3, <3>1, <3>2, <3>3, OwnServes
    <3>5. Right(Chosen(d)) /\ Chosen(d).pins = bus.pins \cup {0}
      BY <2>3, <3>4 DEF Serves
    <3> QED BY <1>7, <2>3, <3>5 DEF PinsAfter, c
  <2> QED BY <2>1, <2>2, <2>3
<1> QED BY <1>1, <1>4, <1>5, <1>6, <1>7

-----------------------------------------------------------------------------
(* The invariant *)

Untouched == [reg |-> RomRegisters, overlap |-> FALSE, pins |-> {}]

\* The pins are those of the device selected, t the configuration it was selected
\* with.
Connected(b, r, late) ==
  /\ \A d \in 1 .. 2 : r.active[d] => d \in b.pins
  /\ r.selected_dev_num \in 0 .. 2 => r.selected_dev_num \in b.pins
  /\ r.selected_dev_num \in 0 .. 3 /\ 0 \in b.pins => r.selected_dev_num = 0 \/ late

Core(b, r, t, late) ==
  /\ b \in Buses /\ r \in Registers /\ t \in Conf
  /\ ~ r.backedUp => b = Untouched /\ \A d \in 0 .. 3 : ~ r.active[d]
  /\ r.backedUp =>
       /\ Backups(r) /\ Connected(b, r, late)
       /\ r.selected_dev_num \in 0 .. 3 => Serves(b, r.selected_dev_num, t, r.spi_io_80m)

Phased(t) ==
  LET Needs(call) == CASE call = "byte" -> {"command"}
                       [] call = "write" -> {"command", "mosi"}
                       [] call = "read" -> {"command", "miso"}
  IN t.call \notin {"none", "lcd"} => t.phases = Needs(t.call)

SpiInv ==
  /\ Core(bus, hspi_dev_reg, taken, lateInit) /\ io80 \in BOOLEAN
  /\ Phased(transfer)
  /\ read.ok => ReadIsWhole(read.len, read.requests)

\* A selection leaves the bus set for the device selected.
LEMMA SelectionStep ==
  ASSUME Core(bus, hspi_dev_reg, taken, lateInit), NEW d \in 0 .. 3, hspi_dev_sel(d)
  PROVE  Core(bus', hspi_dev_reg', taken', lateInit')
<1> DEFINE r == hspi_dev_reg
           s == [r EXCEPT !.selected_dev_num = d]
           c == r.conf[d]
           b == Chosen(d)
           t == IF d = Selected THEN taken ELSE c
           late == lateInit /\ d # HSPI_CS_DEV
<1>1. CASE d \notin Active
  BY <1>1 DEF hspi_dev_sel
<1>2. CASE d \in Active
  <2>1. bus' = b /\ hspi_dev_reg' = s /\ taken' = t /\ lateInit' = late
    BY <1>2 DEF hspi_dev_sel, Chosen
  <2>2. r \in Registers /\ r.active[d] /\ r.backedUp
    BY <1>2 DEF Core, Active
  <2>3. /\ bus \in Buses /\ taken \in Conf /\ Backups(r) /\ Connected(bus, r, lateInit)
        /\ Selected \in 0 .. 3 => Serves(bus, Selected, taken, Is80m)
    BY <2>2 DEF Core, Selected, Is80m
  <2>4. /\ d = Selected => b = bus
        /\ d # Selected => Serves(b, d, c, Is80m)
        /\ b.pins = PinsAfter(d)
    BY <2>2, <2>3, ChosenServes
  <2>5. b \in Buses
    BY <2>2, <2>3, ChosenIsABus
  <2> HIDE DEF b
  <2>6. /\ s \in Registers /\ s.active = r.active /\ s.backedUp = r.backedUp
        /\ s.selected_dev_num = d /\ s.spi_io_80m = Is80m
        /\ s.flash_backup = r.flash_backup /\ s.dev_backup = r.dev_backup
        /\ c \in Conf
    <3>1. d \in 0 .. 4
      OBVIOUS
    <3> QED BY <2>2, <3>1 DEF Registers, Is80m
  <2> HIDE DEF s, c
  <2>7. t \in Conf /\ Backups(s)
    BY <2>3, <2>6 DEF Backups, Is80m
  <2>8. Serves(b, d, t, Is80m)
    BY <2>3, <2>4
  <2>9. Connected(b, s, late)
    <3>1. \A e \in 1 .. 2 : r.active[e] => e \in b.pins
      BY <2>3, <2>4 DEF Connected, PinsAfter
    <3>2. d \in 0 .. 2 => d \in b.pins
      <4>1. CASE d \in 1 .. 2
        BY <2>2, <3>1, <4>1
      <4>2. CASE d = 0
        BY <2>3, <2>4, <4>2 DEF Connected, PinsAfter, Selected
      <4> QED BY <4>1, <4>2
    <3>3. 0 \in b.pins => d = 0 \/ late
      <4> SUFFICES ASSUME 0 \in b.pins, d # 0 PROVE late
        OBVIOUS
      <4>1. Selected \in 0 .. 4
        BY <2>2 DEF Registers, Selected
      <4>2. Selected \in 1 .. 3 /\ 0 \in bus.pins
        BY <2>4, <4>1 DEF PinsAfter
      <4>3. lateInit
        BY <2>3, <4>2 DEF Connected, Selected
      <4> QED BY <4>3 DEF HSPI_CS_DEV
    <3> QED BY <2>6, <3>1, <3>2, <3>3 DEF Connected
  <2>10. Core(b, s, t, late)
    BY <2>2, <2>5, <2>6, <2>7, <2>8, <2>9 DEF Core
  <2> QED BY <2>1, <2>10
<1> QED BY <1>1, <1>2

\* Setting a device up: the first fills the backups, and none is selected.
LEMMA SetUpStep ==
  ASSUME Core(bus, hspi_dev_reg, taken, lateInit), io80 \in BOOLEAN,
         NEW d \in 0 .. 3, NEW c \in Conf, hspi_master_dev_init(d, c)
  PROVE  Core(bus', hspi_dev_reg', taken', lateInit')
<1> USE DEF SPI_CS0_FLASH, HSPI_CS_DEV, HSPI_IDLE
<1> DEFINE r == hspi_dev_reg
           s == IF r.backedUp THEN [bus |-> bus, dev_reg |-> r] ELSE FirstInit(r)
           b0 == s.bus
           r0 == s.dev_reg
           b == IF d = 3 THEN b0 ELSE [b0 EXCEPT !.pins = @ \cup {d}]
           q == [r0 EXCEPT !.active[d] = TRUE, !.conf[d] = c]
           late == lateInit \/ (d = 0 /\ r0.selected_dev_num \notin {0, 4})
<1>1. /\ bus' = b /\ hspi_dev_reg' = q /\ taken' = taken /\ lateInit' = late
  BY DEF hspi_master_dev_init
<1>2. bus \in Buses /\ r \in Registers /\ taken \in Conf
  BY DEF Core
<1>3. /\ b0 \in Buses /\ r0 \in Registers /\ r0.backedUp /\ Backups(r0)
      /\ Connected(b0, r0, lateInit)
      /\ r0.selected_dev_num \in 0 .. 3 =>
           Serves(b0, r0.selected_dev_num, taken, r0.spi_io_80m)
  <2>1. CASE r.backedUp
    <3>1. b0 = bus /\ r0 = r
      BY <2>1
    <3> QED BY <2>1, <3>1 DEF Core
  <2>2. CASE ~ r.backedUp
    <3> DEFINE flash == [bus EXCEPT !.reg.sysclk = io80]
               dev == spi_master_init(flash)
               w == [r EXCEPT !.spi_io_80m = io80, !.backedUp = TRUE, !.flash_backup = flash.reg,
                              !.dev_backup = dev.reg, !.selected_dev_num = 4]
    <3>1. b0 = dev /\ r0 = w
      BY <2>2 DEF FirstInit, spi_reg_backup
    <3>2. bus = Untouched /\ \A e \in 0 .. 3 : ~ r.active[e]
      BY <2>2 DEF Core
    <3>3. /\ flash \in Buses /\ flash.reg.sysclk = io80
          /\ flash.reg.flashMode = TRUE /\ flash.reg.div = RomDiv
      BY <1>2, <3>2 DEF Buses, Regs, Untouched, RomRegisters
    <3> HIDE DEF flash
    <3>4. dev \in Buses
      BY <3>3, EditsAreBuses
    <3>5. dev.reg.flashMode = FALSE /\ "command" \in dev.reg.phases
      BY <3>3 DEF spi_master_init, Buses, Regs
    <3> HIDE DEF dev
    <3>6. flash.reg \in Regs /\ dev.reg \in Regs
      BY <3>3, <3>4 DEF Buses
    <3>7. /\ w \in Registers /\ w.backedUp = TRUE /\ w.selected_dev_num = 4
          /\ w.active = r.active /\ w.spi_io_80m = io80
          /\ w.flash_backup = flash.reg /\ w.dev_backup = dev.reg
      <4> DEFINE w1 == [r EXCEPT !.spi_io_80m = io80]
                 w2 == [w1 EXCEPT !.backedUp = TRUE]
                 w3 == [w2 EXCEPT !.flash_backup = flash.reg]
                 w4 == [w3 EXCEPT !.dev_backup = dev.reg]
                 w5 == [w4 EXCEPT !.selected_dev_num = 4]
      <4>1. w = w5
        OBVIOUS
      <4>2. w1 \in Registers /\ w1.active = r.active /\ w1.spi_io_80m = io80
        BY <1>2 DEF Registers
      <4> HIDE DEF w1
      <4>3. /\ w2 \in Registers /\ w2.active = r.active /\ w2.spi_io_80m = io80
            /\ w2.backedUp = TRUE
        BY <4>2 DEF Registers
      <4> HIDE DEF w2
      <4>4. /\ w3 \in Registers /\ w3.active = r.active /\ w3.spi_io_80m = io80
            /\ w3.backedUp = TRUE /\ w3.flash_backup = flash.reg
        BY <3>6, <4>3 DEF Registers
      <4> HIDE DEF w3
      <4>5. /\ w4 \in Registers /\ w4.active = r.active /\ w4.spi_io_80m = io80
            /\ w4.backedUp = TRUE /\ w4.flash_backup = flash.reg /\ w4.dev_backup = dev.reg
        BY <3>6, <4>4 DEF Registers
      <4> HIDE DEF w4, w
      <4> QED BY <4>1, <4>5 DEF Registers
    <3> HIDE DEF w
    <3>8. Backups(w)
      BY <3>3, <3>5, <3>7 DEF Backups
    <3>9. Connected(dev, w, lateInit)
      BY <3>2, <3>7 DEF Connected
    <3> QED BY <3>1, <3>4, <3>7, <3>8, <3>9
  <2> QED BY <2>1, <2>2
<1> HIDE DEF b0, r0
<1>4. /\ b \in Buses /\ b.reg = b0.reg /\ b.overlap = b0.overlap
      /\ b.pins = IF d = 3 THEN b0.pins ELSE b0.pins \cup {d}
  <2>1. CASE d = 3
    BY <1>3, <2>1
  <2>2. CASE d \in 0 .. 2
    <3>1. [b0 EXCEPT !.pins = @ \cup {d}] \in Buses
      BY <1>3, <2>2, EditsAreBuses
    <3> QED BY <1>3, <2>2, <3>1 DEF Buses
  <2> QED BY <2>1, <2>2
<1> HIDE DEF b
<1>5. /\ q \in Registers /\ q.backedUp = r0.backedUp
      /\ q.selected_dev_num = r0.selected_dev_num /\ q.spi_io_80m = r0.spi_io_80m
      /\ q.flash_backup = r0.flash_backup /\ q.dev_backup = r0.dev_backup
      /\ \A e \in 0 .. 3 : q.active[e] => e = d \/ r0.active[e]
  BY <1>3 DEF Registers
<1> HIDE DEF q
<1>6. Backups(q)
  BY <1>3, <1>5 DEF Backups
<1>7. Connected(b, q, late)
  <2>1. \A e \in 1 .. 2 : q.active[e] => e \in b.pins
    BY <1>3, <1>4, <1>5 DEF Connected
  <2>2. q.selected_dev_num \in 0 .. 2 => q.selected_dev_num \in b.pins
    BY <1>3, <1>4, <1>5 DEF Connected
  <2>3. q.selected_dev_num \in 0 .. 3 /\ 0 \in b.pins => q.selected_dev_num = 0 \/ late
    <3>1. CASE d = 0
      BY <1>5, <3>1
    <3>2. CASE d # 0
      BY <1>3, <1>4, <1>5, <3>2 DEF Connected
    <3> QED BY <3>1, <3>2
  <2> QED BY <2>1, <2>2, <2>3 DEF Connected
<1>8. q.selected_dev_num \in 0 .. 3 => Serves(b, q.selected_dev_num, taken, q.spi_io_80m)
  BY <1>3, <1>4, <1>5 DEF Serves, OnOwnPins, OnSharedPins, OnFlash, Clocked
<1>9. Core(b, q, taken, late)
  BY <1>2, <1>3, <1>4, <1>5, <1>6, <1>7, <1>8 DEF Core
<1> QED BY <1>1, <1>9

\* A transfer leaves the phases of its call, of which "command" is one.
LEMMA TransferStep ==
  ASSUME Core(bus, hspi_dev_reg, taken, lateInit),
         NEW call, NEW phases \in SUBSET {"command", "mosi", "miso"}, "command" \in phases,
         Transfers(call, phases)
  PROVE  Core(bus', hspi_dev_reg', taken', lateInit')
<1> DEFINE b == [bus EXCEPT !.reg.phases = phases]
           r == hspi_dev_reg
<1>1. bus' = b /\ hspi_dev_reg' = r /\ taken' = taken /\ lateInit' = lateInit /\ r.backedUp
  BY DEF Transfers
<1>2. bus \in Buses /\ r \in Registers /\ taken \in Conf /\ Backups(r)
  BY <1>1 DEF Core
<1>3. b \in Buses
  BY <1>2, EditsAreBuses
<1>4. /\ b.overlap = bus.overlap /\ b.pins = bus.pins /\ b.reg.phases = phases
      /\ b.reg.flashMode = bus.reg.flashMode /\ b.reg.sysclk = bus.reg.sysclk
      /\ b.reg.div = bus.reg.div /\ b.reg.edge = bus.reg.edge /\ b.reg.cs = bus.reg.cs
  BY <1>2 DEF Buses, Regs
<1> HIDE DEF b
<1>5. Connected(b, r, lateInit)
  BY <1>1, <1>4 DEF Core, Connected
<1>6. r.selected_dev_num \in 0 .. 3 => Serves(b, r.selected_dev_num, taken, r.spi_io_80m)
  BY <1>1, <1>4 DEF Core, Serves, OnOwnPins, OnSharedPins, OnFlash, Clocked
<1>7. Core(b, r, taken, lateInit)
  BY <1>1, <1>2, <1>3, <1>5, <1>6 DEF Core
<1> QED BY <1>1, <1>7

LEMMA ReadStep ==
  ASSUME SpiInv, hspi_overlap_read_flash_data
  PROVE  read'.ok => ReadIsWhole(read'.len, read'.requests)
<1>1. PICK addr \in ReadAddrs, len \in ReadLengths :
        read' = IF addr + len > ChipSize
                THEN [addr |-> addr, len |-> len, ok |-> FALSE, requests |-> <<>>]
                ELSE [addr |-> addr, len |-> len, ok |-> TRUE, requests |-> Requests(addr, len)]
  BY DEF hspi_overlap_read_flash_data
<1>2. addr \in Nat /\ len \in Nat
  BY SpiAssumption
<1>3. ReadIsWhole(len, Requests(addr, len))
  BY <1>2, RequestsCover
<1> QED BY <1>1, <1>3

LEMMA NoReadIsWhole == ReadIsWhole(0, <<>>)
<1>1. ReadIsWhole(0, Requests(0, 0))
  BY RequestsCover
<1>2. Requests(0, 0) = <<>>
  BY DEF Requests, SPI_BUFF_BYTE_NUM
<1> QED BY <1>1, <1>2

LEMMA SpiInitially == SpiInit => SpiInv
<1> SUFFICES ASSUME SpiInit PROVE SpiInv
  OBVIOUS
<1> DEFINE r == hspi_dev_reg
<1>1. RomRegisters \in Regs
  BY DEF RomRegisters, Regs, RomDiv
<1>2. /\ bus = Untouched /\ bus \in Buses
  BY <1>1 DEF SpiInit, Untouched, Buses
<1>3. Inactive \in Conf
  BY DEF Inactive, Conf
<1>4. r \in Registers /\ ~ r.backedUp /\ \A d \in 0 .. 3 : ~ r.active[d]
  BY <1>1, <1>3 DEF SpiInit, Registers
<1>5. Core(bus, r, taken, lateInit)
  BY <1>2, <1>3, <1>4 DEF Core, SpiInit
<1>6. Phased(transfer)
  BY DEF SpiInit, Phased, NoTransfer
<1>7. read.ok => ReadIsWhole(read.len, read.requests)
  BY NoReadIsWhole DEF SpiInit, NoRead
<1> QED BY <1>5, <1>6, <1>7 DEF SpiInv, SpiInit

LEMMA SpiStep == SpiInv /\ [SpiNext]_spiVars => SpiInv'
<1> SUFFICES ASSUME SpiInv, [SpiNext]_spiVars PROVE SpiInv'
  OBVIOUS
<1>1. Core(bus, hspi_dev_reg, taken, lateInit)
  BY DEF SpiInv
<1>2. read' = NoRead => (read'.ok => ReadIsWhole(read'.len, read'.requests))
  BY NoReadIsWhole DEF NoRead
<1>3. transfer' = NoTransfer => Phased(transfer)'
  BY DEF Phased, NoTransfer
<1>4. ASSUME NEW d \in 0 .. 3, NEW c \in Conf, hspi_master_dev_init(d, c) PROVE SpiInv'
  <2>1. Core(bus', hspi_dev_reg', taken', lateInit')
    BY <1>1, <1>4, SetUpStep DEF SpiInv
  <2> QED BY <1>2, <1>3, <1>4, <2>1 DEF SpiInv, hspi_master_dev_init
<1>5. ASSUME NEW d \in 0 .. 2, NEW c \in Confs, hspi_master_dev_init(d, c) PROVE SpiInv'
  <2>1. c \in Conf /\ d \in 0 .. 3
    BY SpiAssumption DEF Conf
  <2> QED BY <1>4, <1>5, <2>1
<1>6. CASE hspi_overlap_flash_init
  <2>1. Inactive \in Conf /\ SPI_CS0_FLASH \in 0 .. 3
    BY DEF Inactive, Conf, SPI_CS0_FLASH
  <2> QED BY <1>4, <1>6, <2>1 DEF hspi_overlap_flash_init
<1>7. CASE Select
  <2>1. PICK d \in 0 .. 3 : hspi_dev_sel(d)
    BY <1>7 DEF Select
  <2>2. Core(bus', hspi_dev_reg', taken', lateInit')
    BY <1>1, <2>1, SelectionStep
  <2> QED BY <1>2, <1>3, <1>7, <2>2 DEF SpiInv, Select
<1>8. ASSUME NEW call, NEW phases \in SUBSET {"command", "mosi", "miso"}, "command" \in phases,
             Transfers(call, phases), Phased([call |-> call, phases |-> phases])
      PROVE  SpiInv'
  <2>1. Core(bus', hspi_dev_reg', taken', lateInit')
    BY <1>1, <1>8, TransferStep
  <2>2. Phased(transfer)'
    BY <1>8 DEF Transfers, Phased
  <2> QED BY <1>2, <1>8, <2>1, <2>2 DEF SpiInv, Transfers
<1>9. ASSUME NEW call, NEW phases, Transfers(call, phases)
      PROVE  bus.reg.phases \in SUBSET {"command", "mosi", "miso"} /\ "command" \in bus.reg.phases
  <2>1. bus \in Buses /\ Selected \in 0 .. 2
    BY <1>1, <1>9 DEF Core, Transfers, HSPI_CS_DEV, SPI_CS1_DEV, SPI_CS2_DEV
  <2>2. Serves(bus, Selected, taken, Is80m)
    BY <1>1, <1>9, <2>1 DEF Core, Transfers, Selected, Is80m
  <2> QED BY <2>1, <2>2 DEF Serves, OnOwnPins, OnSharedPins, Buses, Regs
<1>10. CASE spi_lcd_9bit_write
  <2>1. Phased([call |-> "lcd", phases |-> bus.reg.phases])
    BY DEF Phased
  <2> QED BY <1>8, <1>9, <1>10, <2>1 DEF spi_lcd_9bit_write
<1> DEFINE p == bus.reg.phases
<1>11. CASE spi_mast_byte_write
  <2>1. p \ {"mosi", "miso"} = {"command"}
    BY <1>9, <1>11 DEF spi_mast_byte_write
  <2>2. Phased([call |-> "byte", phases |-> p \ {"mosi", "miso"}])
    BY <2>1 DEF Phased
  <2>3. /\ p \ {"mosi", "miso"} \in SUBSET {"command", "mosi", "miso"}
        /\ "command" \in p \ {"mosi", "miso"}
    BY <2>1
  <2> QED BY <1>8, <1>11, <2>2, <2>3 DEF spi_mast_byte_write
<1>12. CASE spi_byte_write_espslave
  <2>1. (p \cup {"mosi"}) \ {"miso"} = {"command", "mosi"}
    BY <1>9, <1>12 DEF spi_byte_write_espslave
  <2>2. Phased([call |-> "write", phases |-> (p \cup {"mosi"}) \ {"miso"}])
    BY <2>1 DEF Phased
  <2>3. /\ (p \cup {"mosi"}) \ {"miso"} \in SUBSET {"command", "mosi", "miso"}
        /\ "command" \in (p \cup {"mosi"}) \ {"miso"}
    BY <2>1
  <2> QED BY <1>8, <1>12, <2>2, <2>3 DEF spi_byte_write_espslave
<1>13. CASE spi_byte_read_espslave
  <2>1. (p \cup {"miso"}) \ {"mosi"} = {"command", "miso"}
    BY <1>9, <1>13 DEF spi_byte_read_espslave
  <2>2. Phased([call |-> "read", phases |-> (p \cup {"miso"}) \ {"mosi"}])
    BY <2>1 DEF Phased
  <2>3. /\ (p \cup {"miso"}) \ {"mosi"} \in SUBSET {"command", "mosi", "miso"}
        /\ "command" \in (p \cup {"miso"}) \ {"mosi"}
    BY <2>1
  <2> QED BY <1>8, <1>13, <2>2, <2>3 DEF spi_byte_read_espslave
<1>14. CASE hspi_overlap_read_flash_data
  <2>1. hspi_dev_sel(SPI_CS0_FLASH) /\ transfer' = NoTransfer /\ io80' = io80
    BY <1>14 DEF hspi_overlap_read_flash_data
  <2>2. Core(bus', hspi_dev_reg', taken', lateInit')
    BY <1>1, <2>1, SelectionStep DEF SPI_CS0_FLASH
  <2>3. read'.ok => ReadIsWhole(read'.len, read'.requests)
    BY <1>14, ReadStep
  <2> QED BY <1>3, <2>1, <2>2, <2>3 DEF SpiInv
<1>15. CASE UNCHANGED spiVars
  BY <1>15 DEF SpiInv, spiVars
<1> QED BY <1>5, <1>6, <1>7, <1>10, <1>11, <1>12, <1>13, <1>14, <1>15 DEF SpiNext

LEMMA ServedIsWanted == SpiInv => BusIsSelected
<1> SUFFICES ASSUME SpiInv PROVE BusIsSelected
  OBVIOUS
<1>1. ASSUME hspi_dev_reg.backedUp, Selected # HSPI_IDLE
      PROVE  /\ Effective = Wanted(Selected, taken)
             /\ Selected \in bus.pins \cup {SPI_CS0_FLASH}
             /\ HSPI_CS_DEV \in bus.pins => Selected = HSPI_CS_DEV \/ lateInit
  <2> USE DEF SPI_CS1_DEV, SPI_CS2_DEV, SPI_CS0_FLASH, HSPI_CS_DEV, HSPI_IDLE
  <2>1. /\ Selected \in 0 .. 3 /\ Is80m \in BOOLEAN /\ Connected(bus, hspi_dev_reg, lateInit)
        /\ Serves(bus, Selected, taken, Is80m)
    BY <1>1 DEF SpiInv, Core, Selected, Is80m, Registers
  <2>2. Effective = Wanted(Selected, taken)
    <3>1. CASE Selected = 0
      <4>1. /\ (Selected # HSPI_CS_DEV) = FALSE /\ (Selected = SPI_CS0_FLASH) = FALSE
            /\ (IF Selected = SPI_CS0_FLASH THEN 0 ELSE taken.clk_polar) = taken.clk_polar
            /\ (IF Selected \in {SPI_CS1_DEV, SPI_CS2_DEV} THEN Selected ELSE 0) = 0
        BY <3>1
      <4>2. Wanted(Selected, taken).clock = taken.clk_div
        BY <2>1, <3>1 DEF Wanted
      <4>3. (IF bus.reg.sysclk THEN SysClk ELSE bus.reg.div) = taken.clk_div
        BY <2>1, <3>1 DEF Serves, OnOwnPins, Clocked
      <4>4. /\ bus.overlap = FALSE /\ bus.reg.flashMode = FALSE
            /\ bus.reg.edge = taken.clk_polar /\ bus.reg.cs = 0
        BY <2>1, <3>1 DEF Serves, OnOwnPins
      <4> QED BY <4>1, <4>2, <4>3, <4>4 DEF Effective, Wanted
    <3>2. CASE Selected \in 1 .. 2
      <4>1. /\ (Selected # HSPI_CS_DEV) = TRUE /\ (Selected = SPI_CS0_FLASH) = FALSE
            /\ (IF Selected = SPI_CS0_FLASH THEN 0 ELSE taken.clk_polar) = taken.clk_polar
            /\ (IF Selected \in {SPI_CS1_DEV, SPI_CS2_DEV} THEN Selected ELSE 0) = Selected
        BY <3>2
      <4>2. Wanted(Selected, taken).clock = (IF Is80m THEN SysClk ELSE taken.clk_div)
        BY <2>1, <3>2 DEF Wanted
      <4>3. (IF bus.reg.sysclk THEN SysClk ELSE bus.reg.div) = (IF Is80m THEN SysClk ELSE taken.clk_div)
        BY <2>1, <3>2 DEF Serves, OnSharedPins, Clocked
      <4>4. /\ bus.overlap = TRUE /\ bus.reg.flashMode = FALSE
            /\ bus.reg.edge = taken.clk_polar /\ bus.reg.cs = Selected
        BY <2>1, <3>2 DEF Serves, OnSharedPins
      <4> QED BY <4>1, <4>2, <4>3, <4>4 DEF Effective, Wanted
    <3>3. CASE Selected = 3
      <4>1. /\ (Selected # HSPI_CS_DEV) = TRUE /\ (Selected = SPI_CS0_FLASH) = TRUE
            /\ (IF Selected = SPI_CS0_FLASH THEN 0 ELSE taken.clk_polar) = 0
            /\ (IF Selected \in {SPI_CS1_DEV, SPI_CS2_DEV} THEN Selected ELSE 0) = 0
        BY <3>3
      <4>2. Wanted(Selected, taken).clock = (IF Is80m THEN SysClk ELSE RomDiv)
        BY <2>1, <3>3 DEF Wanted
      <4>3. (IF bus.reg.sysclk THEN SysClk ELSE bus.reg.div) = (IF Is80m THEN SysClk ELSE RomDiv)
        BY <2>1, <3>3 DEF Serves, OnFlash, Clocked
      <4>4. /\ bus.overlap = TRUE /\ bus.reg.flashMode = TRUE
            /\ bus.reg.edge = 0 /\ bus.reg.cs = 0
        BY <2>1, <3>3 DEF Serves, OnFlash
      <4> QED BY <4>1, <4>2, <4>3, <4>4 DEF Effective, Wanted
    <3> QED BY <2>1, <3>1, <3>2, <3>3
  <2>3. /\ Selected \in bus.pins \cup {3}
        /\ 0 \in bus.pins => Selected = 0 \/ lateInit
    BY <2>1 DEF Connected, Selected
  <2> QED BY <2>2, <2>3
<1> QED BY <1>1 DEF SpiInv, BusIsSelected, Phased, ReadIsWhole

\* Whatever was set up, selected, transferred and read, in whatever order, the bus
\* is set for the device selected, a transfer has the phases of its call, and the
\* requests of a read of the flash cover it.
THEOREM BusServesSelected == SpiSpec => []BusIsSelected
<1>1. SpiSpec => []SpiInv
  BY SpiInitially, SpiStep, PTL DEF SpiSpec
<1> QED BY <1>1, ServedIsWanted, PTL

(* The power meter: what Shifted, Sums and Eaten compute *)

LEMMA ShiftedSteps ==
  ASSUME NEW v \in Nat
  PROVE  /\ Shifted(v) \in [0 .. Width -> Nat] /\ Shifted(v)[0] = v
         /\ \A n \in 1 .. Width : Shifted(v)[n] = Shifted(v)[n - 1] \div 256
<1> DEFINE step == [n \in 1 .. Width |-> [x \in Nat |-> x \div 256]]
           F(g) == g = [n \in 0 .. Width |-> IF n = 0 THEN v ELSE g[n - 1] \div 256]
           sh == CHOOSE g : F(g)
<1>1. Shifted(v) = sh
  BY DEF Shifted
<1>2. Width \in Nat /\ \A x \in Nat : x \div 256 \in Nat
  BY MeterAssumption
<1>3. /\ step \in [1 .. Width -> [Nat -> Nat]]
      /\ \A n \in 1 .. Width, x \in Nat : step[n][x] = x \div 256
  BY <1>2
<1> HIDE DEF step
<1>4. PICK g : Recurs(g, Width, Nat, v, step)
  BY <1>2, <1>3, RecursionExists
<1>5. F(g)
  <2>1. ASSUME NEW n \in 0 .. Width PROVE g[n] = IF n = 0 THEN v ELSE g[n - 1] \div 256
    <3>1. CASE n = 0
      BY <1>4, <3>1 DEF Recurs
    <3>2. CASE n # 0
      <4>1. n \in 1 .. Width /\ n - 1 \in 0 .. Width
        BY <1>2, <3>2
      <4>2. g[n] = step[n][g[n - 1]] /\ g[n - 1] \in Nat
        BY <1>4, <4>1 DEF Recurs
      <4> QED BY <1>3, <3>2, <4>1, <4>2
    <3> QED BY <3>1, <3>2
  <2>2. g = [n \in 0 .. Width |-> g[n]]
    BY <1>4 DEF Recurs
  <2> QED BY <2>1, <2>2
<1>6. F(sh)
  BY <1>5, ZenonT(40)
<1> HIDE DEF sh
<1>7. sh[0] = v
  BY <1>2, <1>6
<1>8. ASSUME NEW n \in 1 .. Width PROVE sh[n] = sh[n - 1] \div 256
  <2>1. n \in 0 .. Width /\ n # 0
    BY <1>2
  <2> QED BY <1>6, <2>1, Zenon
<1>9. \A n \in 0 .. Width : sh[n] \in Nat
  <2> DEFINE T == {n \in 0 .. Width : sh[n] \in Nat}
  <2>1. 0 \in T
    BY <1>2, <1>7
  <2>2. ASSUME NEW n \in 0 .. Width - 1, n \in T PROVE n + 1 \in T
    <3>1. n + 1 \in 1 .. Width /\ (n + 1) - 1 = n /\ n + 1 \in 0 .. Width /\ sh[n] \in Nat
      BY <1>2, <2>2
    <3>2. sh[n + 1] = sh[n] \div 256
      BY <1>8, <3>1
    <3> QED BY <1>2, <3>1, <3>2
  <2> HIDE DEF T
  <2>3. \A n \in 0 .. Width : n \in T
    BY <1>2, <2>1, <2>2, IntervalInduction
  <2> QED BY <2>3 DEF T
<1>10. sh \in [0 .. Width -> Nat]
  <2>1. sh = [n \in 0 .. Width |-> sh[n]]
    BY <1>6
  <2> QED BY <1>9, <2>1
<1> QED BY <1>1, <1>7, <1>8, <1>10

LEMMA SumsSteps ==
  ASSUME NEW d \in Seq(Nat)
  PROVE  /\ Sums(d) \in [0 .. Len(d) -> Nat] /\ Sums(d)[0] = 0
         /\ \A n \in 1 .. Len(d) : Sums(d)[n] = Sums(d)[n - 1] + d[n]
<1> DEFINE X == Len(d)
           step == [n \in 1 .. X |-> [v \in Nat |-> v + d[n]]]
           F(g) == g = [n \in 0 .. X |-> IF n = 0 THEN 0 ELSE g[n - 1] + d[n]]
           sum == CHOOSE g : F(g)
<1>1. Sums(d) = sum
  BY DEF Sums
<1>2. X \in Nat /\ \A n \in 1 .. X : d[n] \in Nat
  OBVIOUS
<1>3. /\ step \in [1 .. X -> [Nat -> Nat]]
      /\ \A n \in 1 .. X, v \in Nat : step[n][v] = v + d[n]
  BY <1>2
<1> HIDE DEF step, X
<1>4. PICK g : Recurs(g, X, Nat, 0, step)
  BY <1>2, <1>3, RecursionExists
<1>5. F(g)
  <2>1. ASSUME NEW n \in 0 .. X PROVE g[n] = IF n = 0 THEN 0 ELSE g[n - 1] + d[n]
    <3>1. CASE n = 0
      BY <1>4, <3>1 DEF Recurs
    <3>2. CASE n # 0
      <4>1. n \in 1 .. X /\ n - 1 \in 0 .. X
        BY <1>2, <3>2
      <4>2. g[n] = step[n][g[n - 1]] /\ g[n - 1] \in Nat
        BY <1>4, <4>1 DEF Recurs
      <4> QED BY <1>3, <3>2, <4>1, <4>2
    <3> QED BY <3>1, <3>2
  <2>2. g = [n \in 0 .. X |-> g[n]]
    BY <1>4 DEF Recurs
  <2> QED BY <2>1, <2>2
<1>6. F(sum)
  BY <1>5
<1> HIDE DEF sum
<1>7. sum[0] = 0
  BY <1>2, <1>6
<1>8. ASSUME NEW n \in 1 .. X PROVE sum[n] = sum[n - 1] + d[n]
  <2>1. n \in 0 .. X /\ n # 0
    BY <1>2
  <2> QED BY <1>6, <2>1, Zenon
<1>9. \A n \in 0 .. X : sum[n] \in Nat
  <2> DEFINE T == {n \in 0 .. X : sum[n] \in Nat}
  <2>1. 0 \in T
    BY <1>2, <1>7
  <2>2. ASSUME NEW n \in 0 .. X - 1, n \in T PROVE n + 1 \in T
    <3>1. n + 1 \in 1 .. X /\ (n + 1) - 1 = n /\ n + 1 \in 0 .. X /\ sum[n] \in Nat
      BY <1>2, <2>2
    <3>2. sum[n + 1] = sum[n] + d[n + 1] /\ d[n + 1] \in Nat
      BY <1>2, <1>8, <3>1
    <3> QED BY <3>1, <3>2
  <2> HIDE DEF T
  <2>3. \A n \in 0 .. X : n \in T
    BY <1>2, <2>1, <2>2, IntervalInduction
  <2> QED BY <2>3 DEF T
<1>10. sum \in [0 .. X -> Nat]
  <2>1. sum = [n \in 0 .. X |-> sum[n]]
    BY <1>6
  <2> QED BY <1>9, <2>1
<1> QED BY <1>1, <1>7, <1>8, <1>10 DEF X

\* e goes from s through the bytes d, one Eat after another.
EatsAll(e, s, d) ==
  e = [n \in 0 .. Len(d) |-> IF n = 0 THEN s ELSE Eat(e[n - 1], d[n])]

LEMMA EatsOn ==
  ASSUME NEW e, NEW s, NEW d \in Seq(Byte), EatsAll(e, s, d)
  PROVE  e[0] = s /\ \A n \in 1 .. Len(d) : e[n] = Eat(e[n - 1], d[n])
<1>1. Len(d) \in Nat
  OBVIOUS
<1>2. e[0] = s
  BY <1>1 DEF EatsAll
<1>3. ASSUME NEW n \in 1 .. Len(d) PROVE e[n] = Eat(e[n - 1], d[n])
  <2>1. n \in 0 .. Len(d) /\ n # 0
    BY <1>1
  <2> QED BY <2>1, Zenon DEF EatsAll
<1> QED BY <1>2, <1>3

LEMMA EatenSteps ==
  ASSUME NEW s, NEW d \in Seq(Byte)
  PROVE  \E e : EatsAll(e, s, d) /\ Eaten(s, d) = e[Len(d)]
<1> DEFINE X == Len(d)
           Good(e, k) == e = [n \in 0 .. k |-> IF n = 0 THEN s ELSE Eat(e[n - 1], d[n])]
           T == {k \in 0 .. X : \E e : Good(e, k)}
           all == CHOOSE e : EatsAll(e, s, d)
<1>1. Eaten(s, d) = all[X]
  BY DEF Eaten, EatsAll
<1>2. X \in Nat
  OBVIOUS
<1> HIDE DEF X
<1>3. 0 \in T
  <2> DEFINE z == [n \in 0 .. 0 |-> s]
  <2>1. z = [n \in 0 .. 0 |-> IF n = 0 THEN s ELSE Eat(z[n - 1], d[n])]
    OBVIOUS
  <2> HIDE DEF z
  <2>2. Good(z, 0)
    BY <2>1, Zenon
  <2> QED BY <1>2, <2>2
<1>4. ASSUME NEW k \in 0 .. X - 1, k \in T PROVE k + 1 \in T
  <2>1. PICK e : Good(e, k)
    BY <1>4
  <2> DEFINE g == [n \in 0 .. k + 1 |-> IF n <= k THEN e[n] ELSE Eat(e[k], d[n])]
  <2>2. k \in Nat /\ k + 1 \in 0 .. X
    BY <1>2
  <2>3. g = [n \in 0 .. k + 1 |-> g[n]] /\ (\A n \in 0 .. k : g[n] = e[n])
        /\ g[k + 1] = Eat(e[k], d[k + 1])
    BY <2>2
  <2> HIDE DEF g
  <2>4. ASSUME NEW n \in 0 .. k + 1 PROVE g[n] = IF n = 0 THEN s ELSE Eat(g[n - 1], d[n])
    <3>1. CASE n = 0
      <4>1. n \in 0 .. k
        BY <2>2, <3>1
      <4>2. e[n] = IF n = 0 THEN s ELSE Eat(e[n - 1], d[n])
        BY <2>1, <4>1, Zenon
      <4> QED BY <2>3, <3>1, <4>1, <4>2
    <3>2. CASE n \in 1 .. k
      <4>1. n \in 0 .. k /\ n - 1 \in 0 .. k /\ n # 0
        BY <2>2, <3>2
      <4>2. e[n] = IF n = 0 THEN s ELSE Eat(e[n - 1], d[n])
        BY <2>1, <4>1, Zenon
      <4>3. g[n] = e[n] /\ g[n - 1] = e[n - 1]
        BY <2>3, <4>1
      <4> QED BY <4>1, <4>2, <4>3
    <3>3. CASE n = k + 1
      <4>1. n # 0 /\ n - 1 = k /\ k \in 0 .. k
        BY <2>2, <3>3
      <4>2. g[n - 1] = e[k]
        BY <2>3, <4>1
      <4> QED BY <2>3, <3>3, <4>1, <4>2
    <3> QED BY <2>2, <3>1, <3>2, <3>3
  <2>5. Good(g, k + 1)
    BY <2>3, <2>4
  <2> QED BY <2>2, <2>5
<1>5. X \in T
  <2>1. X \in 0 .. X
    BY <1>2
  <2> HIDE DEF T
  <2> QED BY <1>2, <1>3, <1>4, <2>1, IntervalInduction
<1>6. EatsAll(all, s, d)
  <2>1. PICK e : Good(e, X)
    BY <1>5
  <2>2. EatsAll(e, s, d)
    BY <2>1 DEF EatsAll, X
  <2> QED BY <2>2
<1> QED BY <1>1, <1>6 DEF X

\* What goes through the bytes ends where Eaten does.
LEMMA EatenIs ==
  ASSUME NEW s, NEW d \in Seq(Byte), NEW g,
         g[0] = s, \A n \in 1 .. Len(d) : g[n] = Eat(g[n - 1], d[n])
  PROVE  Eaten(s, d) = g[Len(d)]
<1>1. PICK e : EatsAll(e, s, d) /\ Eaten(s, d) = e[Len(d)]
  BY EatenSteps
<1> DEFINE X == Len(d)
           T == {n \in 0 .. X : e[n] = g[n]}
<1>2. X \in Nat
  OBVIOUS
<1>3. e[0] = s /\ \A n \in 1 .. X : e[n] = Eat(e[n - 1], d[n])
  BY <1>1, EatsOn
<1> HIDE DEF X
<1>4. 0 \in T
  BY <1>2, <1>3
<1>5. ASSUME NEW n \in 0 .. X - 1, n \in T PROVE n + 1 \in T
  <2>1. n + 1 \in 1 .. X /\ n + 1 \in 0 .. X /\ (n + 1) - 1 = n /\ e[n] = g[n]
    BY <1>2, <1>5
  <2>2. e[n + 1] = Eat(e[n], d[n + 1]) /\ g[n + 1] = Eat(g[n], d[n + 1])
    <3>1. e[n + 1] = Eat(e[(n + 1) - 1], d[n + 1])
      BY <1>3, <2>1
    <3>2. g[n + 1] = Eat(g[(n + 1) - 1], d[n + 1])
      BY <2>1 DEF X
    <3> QED BY <2>1, <3>1, <3>2
  <2> QED BY <2>1, <2>2
<1> HIDE DEF T
<1>6. \A n \in 0 .. X : n \in T
  BY <1>2, <1>4, <1>5, IntervalInduction
<1>7. X \in 0 .. X
  BY <1>2
<1> QED BY <1>1, <1>6, <1>7 DEF T, X

\* Bytes may be eaten in two goes.
LEMMA EatenTwice ==
  ASSUME NEW s, NEW a \in Seq(Byte), NEW b \in Seq(Byte)
  PROVE  Eaten(s, a \o b) = Eaten(Eaten(s, a), b)
<1>1. PICK e : EatsAll(e, s, a) /\ Eaten(s, a) = e[Len(a)]
  BY EatenSteps
<1>2. PICK h : EatsAll(h, e[Len(a)], b) /\ Eaten(e[Len(a)], b) = h[Len(b)]
  BY EatenSteps
<1> DEFINE X == Len(a)
           Y == Len(b)
           g == [n \in 0 .. X + Y |-> IF n <= X THEN e[n] ELSE h[n - X]]
<1>3. X \in Nat /\ Y \in Nat /\ a \o b \in Seq(Byte) /\ Len(a \o b) = X + Y
  OBVIOUS
<1>4. /\ \A n \in 1 .. X : (a \o b)[n] = a[n]
      /\ \A n \in X + 1 .. X + Y : (a \o b)[n] = b[n - X]
  OBVIOUS
<1>5. /\ e[0] = s /\ \A n \in 1 .. X : e[n] = Eat(e[n - 1], a[n])
      /\ h[0] = e[X] /\ \A n \in 1 .. Y : h[n] = Eat(h[n - 1], b[n])
  BY <1>1, <1>2, EatsOn
<1> DEFINE c == a \o b
<1> HIDE DEF X, Y, c
<1>6. /\ \A n \in 0 .. X : g[n] = e[n]
      /\ \A n \in X .. X + Y : g[n] = h[n - X]
  <2>1. X - X = 0
    BY <1>3
  <2> QED BY <1>3, <1>5, <2>1
<1> HIDE DEF g
<1>7. ASSUME NEW n \in 1 .. X + Y PROVE g[n] = Eat(g[n - 1], c[n])
  <2>1. CASE n \in 1 .. X
    <3>1. n \in 0 .. X /\ n - 1 \in 0 .. X
      BY <1>3, <2>1
    <3> QED BY <1>4, <1>5, <1>6, <2>1, <3>1 DEF c
  <2>2. CASE n \in X + 1 .. X + Y
    <3>1. n \in X .. X + Y /\ n - 1 \in X .. X + Y /\ n - X \in 1 .. Y /\ (n - 1) - X = (n - X) - 1
      BY <1>3, <2>2
    <3>2. g[n] = h[n - X] /\ g[n - 1] = h[(n - X) - 1] /\ c[n] = b[n - X]
      BY <1>4, <1>6, <2>2, <3>1 DEF c
    <3> QED BY <1>5, <3>1, <3>2
  <2> QED BY <1>3, <2>1, <2>2
<1>8. g[0] = s /\ g[X + Y] = h[Y] /\ e[X] = h[0]
  <2>1. 0 \in 0 .. X /\ X + Y \in X .. X + Y /\ (X + Y) - X = Y
    BY <1>3
  <2> QED BY <1>5, <1>6, <2>1
<1>9. Eaten(s, c) = g[X + Y]
  <2>1. c \in Seq(Byte) /\ Len(c) = X + Y
    BY <1>3 DEF c
  <2> QED BY <1>7, <1>8, <2>1, EatenIs, SMTT(30)
<1> QED BY <1>1, <1>2, <1>8, <1>9 DEF X, Y, c

-----------------------------------------------------------------------------
(* The power meter: frames *)

\* The place of the first byte of quantity k.
Begins(k) == 2 + (k - 1) * Width

LEMMA Places ==
  /\ Width \in Nat \ {0} /\ CheckAt = 5 + 6 * Width
  /\ \A k \in 1 .. 6 : Begins(k) \in Nat /\ Begins(k) >= 2 /\ Begins(k) + Width <= 2 + 6 * Width
  /\ \A k \in 1 .. 6, l \in 1 .. 6 : k < l => Begins(k) + Width <= Begins(l)
  /\ \A n \in 2 .. 1 + 6 * Width : \E k \in 1 .. 6 : n \in Begins(k) .. Begins(k) + Width - 1
<1>1. Width \in Nat \ {0}
  BY MeterAssumption
<1>2. /\ Begins(1) = 2 /\ Begins(2) = 2 + Width /\ Begins(3) = 2 + 2 * Width
      /\ Begins(4) = 2 + 3 * Width /\ Begins(5) = 2 + 4 * Width /\ Begins(6) = 2 + 5 * Width
  BY <1>1 DEF Begins
<1>3. \A k \in 1 .. 6 : k = 1 \/ k = 2 \/ k = 3 \/ k = 4 \/ k = 5 \/ k = 6
  OBVIOUS
<1>4. ASSUME NEW k \in 1 .. 6
      PROVE  Begins(k) \in Nat /\ Begins(k) >= 2 /\ Begins(k) + Width <= 2 + 6 * Width
  BY <1>1, <1>2, <1>3
<1>5. ASSUME NEW k \in 1 .. 6, NEW l \in 1 .. 6, k < l PROVE Begins(k) + Width <= Begins(l)
  BY <1>1, <1>2, <1>3, <1>5
<1>6. ASSUME NEW n \in 2 .. 1 + 6 * Width
      PROVE  \E k \in 1 .. 6 : n \in Begins(k) .. Begins(k) + Width - 1
  <2>1. n < 2 + Width => n \in Begins(1) .. Begins(1) + Width - 1
    BY <1>1, <1>2
  <2>2. n >= 2 + Width /\ n < 2 + 2 * Width => n \in Begins(2) .. Begins(2) + Width - 1
    BY <1>1, <1>2
  <2>3. n >= 2 + 2 * Width /\ n < 2 + 3 * Width => n \in Begins(3) .. Begins(3) + Width - 1
    BY <1>1, <1>2
  <2>4. n >= 2 + 3 * Width /\ n < 2 + 4 * Width => n \in Begins(4) .. Begins(4) + Width - 1
    BY <1>1, <1>2
  <2>5. n >= 2 + 4 * Width /\ n < 2 + 5 * Width => n \in Begins(5) .. Begins(5) + Width - 1
    BY <1>1, <1>2
  <2>6. n >= 2 + 5 * Width => n \in Begins(6) .. Begins(6) + Width - 1
    BY <1>1, <1>2
  <2>7. 1 \in 1 .. 6 /\ 2 \in 1 .. 6 /\ 3 \in 1 .. 6 /\ 4 \in 1 .. 6 /\ 5 \in 1 .. 6 /\ 6 \in 1 .. 6
    OBVIOUS
  <2> HIDE DEF Begins
  <2>8. \/ n < 2 + Width
        \/ n >= 2 + Width /\ n < 2 + 2 * Width
        \/ n >= 2 + 2 * Width /\ n < 2 + 3 * Width
        \/ n >= 2 + 3 * Width /\ n < 2 + 4 * Width
        \/ n >= 2 + 4 * Width /\ n < 2 + 5 * Width
        \/ n >= 2 + 5 * Width
    BY <1>1
  <2> QED BY <2>1, <2>2, <2>3, <2>4, <2>5, <2>6, <2>7, <2>8
<1>7. CheckAt = 5 + 6 * Width
  BY DEF CheckAt
<1> QED BY <1>1, <1>4, <1>5, <1>6, <1>7

\* The place n of a byte of quantity k, in the parser and in the frame.
LEMMA PlaceIs ==
  ASSUME NEW k \in 1 .. 6, NEW n \in Begins(k) .. Begins(k) + Width - 1
  PROVE  /\ (n - 2) \div Width + 1 = k /\ (n - 2) % Width = n - Begins(k)
         /\ QuantityAt(n) = Quantities[k]
<1>1. /\ Width \in Nat \ {0} /\ Begins(k) \in Nat /\ Begins(k) >= 2
      /\ Begins(k) + Width <= 2 + 6 * Width
  BY Places
<1>2. n - 2 \in Nat /\ k - 1 \in Nat /\ n - Begins(k) \in 0 .. Width - 1 /\ n < 2 + 6 * Width
  BY <1>1
<1>3. n - 2 = Width * (k - 1) + (n - Begins(k))
  BY <1>1, <1>2 DEF Begins
<1>4. (n - 2) \div Width = k - 1 /\ (n - 2) % Width = n - Begins(k)
  <2> DEFINE x == n - 2
             q == k - 1
             r == n - Begins(k)
  <2> HIDE DEF x, q, r
  <2>1. x \in Nat /\ q \in Nat /\ r \in 0 .. Width - 1 /\ x = Width * q + r
    BY <1>2, <1>3 DEF x, q, r
  <2>2. x \div Width = q /\ x % Width = r
    BY <1>1, <2>1, DivisionIsUnique
  <2> QED BY <2>2 DEF x, q, r
<1>5. (n - 2) \div Width + 1 = k
  BY <1>4
<1> QED BY <1>2, <1>4, <1>5 DEF QuantityAt

LEMMA FrameBytes ==
  ASSUME NEW f \in Frames
  PROVE  /\ Bytes(f) \in Seq(Byte) /\ Len(Bytes(f)) = CheckAt + 1
         /\ Bytes(f)[1] = f.head /\ Bytes(f)[2] = 90
         /\ \A n \in 2 .. 4 + 6 * Width : Bytes(f)[n + 1] = Data(f)[n - 1]
         /\ Bytes(f)[CheckAt + 1] = Sums(Data(f))[3 + 6 * Width] % 256
         /\ Data(f) \in Seq(Byte) /\ Len(Data(f)) = 3 + 6 * Width /\ Data(f) \in Seq(Nat)
<1>1. IsFrame(f)
  BY MeterAssumption
<1>2. Width \in Nat \ {0} /\ CheckAt = 5 + 6 * Width
  BY Places
<1>3. ASSUME NEW i \in 1 .. 6 * Width + 3 PROVE Data(f)[i] \in Byte
  <2>1. CASE i > 6 * Width
    BY <1>1, <1>2, <2>1 DEF IsFrame, Data, Byte
  <2>2. CASE i <= 6 * Width
    <3>1. i + 1 \in 2 .. 1 + 6 * Width
      BY <1>2, <2>2
    <3>2. PICK k \in 1 .. 6 : i + 1 \in Begins(k) .. Begins(k) + Width - 1
      BY <3>1, Places
    <3> DEFINE n == i + 1
               v == f[Quantities[k]]
    <3>3. (n - 2) \div Width + 1 = k /\ (n - 2) % Width = n - Begins(k) /\ n - 2 = i - 1
      BY <3>2, PlaceIs, <1>2
    <3>4. v \in Nat
      BY <1>1 DEF IsFrame
    <3>5. Data(f)[i] = Shifted(v)[Width - 1 - (n - Begins(k))] % 256
      BY <1>2, <2>2, <3>3 DEF Data
    <3>6. Width - 1 - (n - Begins(k)) \in 0 .. Width
      BY <1>2, <3>2, Places
    <3>7. Shifted(v) \in [0 .. Width -> Nat]
      BY <3>4, ShiftedSteps
    <3> DEFINE g == Shifted(v)
               j == Width - 1 - (n - Begins(k))
    <3> HIDE DEF g, j
    <3>8. g[j] \in Nat
      BY <3>6, <3>7 DEF g, j
    <3>9. Data(f)[i] = g[j] % 256
      BY <3>5 DEF g, j
    <3> HIDE DEF n, v
    <3> QED BY <3>8, <3>9 DEF Byte
  <2> QED BY <1>2, <2>1, <2>2
<1>4. Data(f) \in Seq(Byte) /\ Len(Data(f)) = 3 + 6 * Width
  <2>1. Data(f) = [i \in 1 .. 6 * Width + 3 |-> Data(f)[i]] /\ 6 * Width + 3 \in Nat
    BY <1>2 DEF Data
  <2> HIDE DEF Data
  <2>2. Data(f) \in [1 .. 6 * Width + 3 -> Byte]
    BY <1>3, <2>1
  <2> QED BY <1>2, <2>1, <2>2
<1>15. Data(f) \in Seq(Nat)
  <2> DEFINE y == Data(f)
  <2> HIDE DEF y
  <2>1. y \in Seq(Byte) /\ Byte \subseteq Nat
    BY <1>4 DEF y, Byte
  <2>2. Len(y) \in Nat /\ y = [i \in 1 .. Len(y) |-> y[i]] /\ \A i \in 1 .. Len(y) : y[i] \in Nat
    BY <2>1
  <2>3. y \in Seq(Nat)
    BY <2>2
  <2> QED BY <2>3 DEF y
<1>5. Sums(Data(f))[3 + 6 * Width] \in Nat
  <2>1. 3 + 6 * Width \in 0 .. Len(Data(f))
    BY <1>2, <1>4
  <2> QED BY <1>15, <2>1, SumsSteps
<1> DEFINE c == Sums(Data(f))[6 * Width + 3] % 256
           x == Data(f)
<1>6. c \in Byte /\ f.head \in Byte /\ 90 \in Byte
  BY <1>1, <1>2, <1>5 DEF IsFrame, Byte
<1>7. Bytes(f) = <<f.head, 90>> \o x \o <<c>>
  BY DEF Bytes
<1>8. c = Sums(Data(f))[3 + 6 * Width] % 256
  BY <1>2
<1> HIDE DEF c, x
<1>9. x \in Seq(Byte) /\ Len(x) = 3 + 6 * Width
  BY <1>4 DEF x
<1>10. <<f.head, 90>> \in Seq(Byte) /\ <<c>> \in Seq(Byte)
  BY <1>6
<1>11. Bytes(f) \in Seq(Byte) /\ Len(Bytes(f)) = CheckAt + 1
  <2>1. <<f.head, 90>> \o x \in Seq(Byte) /\ Len(<<f.head, 90>> \o x) = 5 + 6 * Width
    BY <1>2, <1>9, <1>10
  <2> DEFINE y == <<f.head, 90>> \o x
             z == <<c>>
  <2>2. z \in Seq(Byte) /\ Len(z) = 1 /\ Bytes(f) = y \o z
    BY <1>7, <1>10
  <2>3. y \in Seq(Byte) /\ Len(y) = 5 + 6 * Width
    BY <2>1
  <2> HIDE DEF y, z
  <2>4. y \o z \in Seq(Byte)
    BY <2>2, <2>3
  <2>5. Len(y \o z) = Len(y) + Len(z)
    <3>1. y \in Seq(Byte) /\ z \in Seq(Byte)
      BY <2>2, <2>3
    <3> QED BY <3>1
  <2> QED BY <1>2, <2>2, <2>3, <2>4, <2>5
<1>12. Bytes(f)[1] = f.head /\ Bytes(f)[2] = 90
  BY <1>2, <1>7, <1>9, <1>10
<1>13. ASSUME NEW n \in 2 .. 4 + 6 * Width PROVE Bytes(f)[n + 1] = x[n - 1]
  BY <1>2, <1>7, <1>9, <1>10
<1>14. Bytes(f)[CheckAt + 1] = c
  BY <1>2, <1>7, <1>9, <1>10
<1> QED BY <1>4, <1>8, <1>11, <1>12, <1>13, <1>14, <1>15 DEF x

\* The names of the quantities, and Adj.
Names == {"Uk", "Ut", "Ik", "It", "Pk", "Pt", "Adj"}

LEMMA NamesAre ==
  /\ NoQuantities = [q \in Names |-> 0]
  /\ Names = {Quantities[k] : k \in 1 .. 6} \cup {"Adj"}
  /\ \A k \in 1 .. 6 : Quantities[k] \in Names \ {"Adj"}
  /\ \A k \in 1 .. 6, l \in 1 .. 6 : k # l => Quantities[k] # Quantities[l]
<1>1. DOMAIN Quantities = 1 .. 6
  BY DEF Quantities
<1>2. Range(Quantities) \cup {"Adj"} = Names
  BY <1>1 DEF Range, Names, Quantities
<1>3. Names = {Quantities[k] : k \in 1 .. 6} \cup {"Adj"}
  BY DEF Names, Quantities
<1>4. \A k \in 1 .. 6 : Quantities[k] \in Names \ {"Adj"}
  BY DEF Names, Quantities
<1>5. \A k \in 1 .. 6, l \in 1 .. 6 : k # l => Quantities[k] # Quantities[l]
  BY DEF Quantities
<1> QED BY <1>2, <1>3, <1>4, <1>5 DEF NoQuantities

ParserOK(p) ==
  p \in [redat_num : 0 .. CheckAt, head : Byte, sum : Byte, val : [Names -> Nat]]

\* Two fields of the parser stored at once.
LEMMA ParserUpdates ==
  ASSUME NEW a, NEW h, NEW c, NEW v, NEW x, NEW y, NEW p,
         p = [redat_num |-> a, head |-> h, sum |-> c, val |-> v]
  PROVE  [p EXCEPT !.redat_num = x, !.sum = y] =
           [redat_num |-> x, head |-> h, sum |-> y, val |-> v]
<1> DEFINE w == [p EXCEPT !.redat_num = x]
<1>1. w = [redat_num |-> x, head |-> h, sum |-> c, val |-> v]
  OBVIOUS
<1>2. [p EXCEPT !.redat_num = x, !.sum = y] = [w EXCEPT !.sum = y]
  OBVIOUS
<1> HIDE DEF w
<1> QED BY <1>1, <1>2

LEMMA ParserFields ==
  ASSUME NEW p, ParserOK(p)
  PROVE  \E h \in Byte, c \in Byte, v \in [Names -> Nat] :
           /\ p = [redat_num |-> p.redat_num, head |-> h, sum |-> c, val |-> v]
           /\ p.redat_num \in 0 .. CheckAt /\ h = p.head /\ c = p.sum /\ v = p.val
<1>1. /\ p = [redat_num |-> p.redat_num, head |-> p.head, sum |-> p.sum, val |-> p.val]
      /\ p.redat_num \in 0 .. CheckAt /\ p.head \in Byte /\ p.sum \in Byte
      /\ p.val \in [Names -> Nat]
  BY DEF ParserOK
<1> QED BY <1>1

\* A byte of the head: found or not, and how far the parser is then.
LEMMA TakeHead ==
  ASSUME NEW p, ParserOK(p), NEW d \in Byte, p.redat_num < 2
  PROVE  /\ ParserOK(Take(p, d))
         /\ p.redat_num = 0 /\ HeadLike(d) =>
              Take(p, d).redat_num = 1 /\ Take(p, d).head = d
         /\ p.redat_num = 0 /\ ~ HeadLike(d) => Take(p, d).redat_num = 0
         /\ p.redat_num = 1 => Take(p, d).redat_num \in {0, 2}
         /\ p.redat_num = 1 /\ d = 90 =>
              /\ Take(p, d).redat_num = 2 /\ Take(p, d).head = p.head
              /\ Take(p, d).sum = 0 /\ Take(p, d).val = [q \in Names |-> 0]
<1>1. CheckAt \in Nat /\ CheckAt > 2
  BY Places
<1>2. NoQuantities = [q \in Names |-> 0]
  BY NamesAre
<1> PICK h \in Byte, c \in Byte, v \in [Names -> Nat] :
           /\ p = [redat_num |-> p.redat_num, head |-> h, sum |-> c, val |-> v]
           /\ p.redat_num \in 0 .. CheckAt /\ h = p.head /\ c = p.sum /\ v = p.val
  BY ParserFields
<1> DEFINE a == p.redat_num
<1>3. p = [redat_num |-> a, head |-> h, sum |-> c, val |-> v] /\ a \in 0 .. CheckAt
  OBVIOUS
<1>8. a = p.redat_num /\ h = p.head
  OBVIOUS
<1> HIDE DEF a
<1>4. p.redat_num = 0 \/ p.redat_num = 1
  BY <1>1, <1>3
<1>5. CASE p.redat_num = 0 /\ HeadLike(d)
  <2>1. Take(p, d) = [p EXCEPT !.redat_num = 1, !.head = d]
    BY <1>5 DEF Take
  <2>2. Take(p, d) = [redat_num |-> 1, head |-> d, sum |-> c, val |-> v]
    BY <1>3, <2>1
  <2> QED BY <1>1, <1>5, <2>2 DEF ParserOK
<1>6. CASE p.redat_num = 0 /\ ~ HeadLike(d)
  <2>1. Take(p, d) = p
    BY <1>6 DEF Take
  <2> QED BY <1>6, <2>1
<1>7. CASE p.redat_num = 1
  <2> DEFINE zeros == [q \in Names |-> 0]
             n == IF d = 90 THEN 2 ELSE 0
  <2>1. Take(p, d) = [redat_num |-> n, head |-> h, sum |-> 0, val |-> zeros]
    <3>1. Take(p, d) = LET q == [p EXCEPT !.sum = 0, !.val = zeros]
                       IN IF d = 90 THEN [q EXCEPT !.redat_num = 2]
                          ELSE [q EXCEPT !.redat_num = 0]
      BY <1>2, <1>7 DEF Take, Resync, SumAtStart
    <3> DEFINE q == [p EXCEPT !.sum = 0, !.val = zeros]
    <3>3. Take(p, d) = IF d = 90 THEN [q EXCEPT !.redat_num = 2] ELSE [q EXCEPT !.redat_num = 0]
      BY <3>1
    <3>2. q = [redat_num |-> a, head |-> h, sum |-> 0, val |-> zeros]
      <4> DEFINE z == 0
      <4>1. q = [p EXCEPT !.sum = z, !.val = zeros]
        OBVIOUS
      <4> HIDE DEF zeros, q, z
      <4> DEFINE w == [p EXCEPT !.sum = z]
      <4>3. w = [redat_num |-> a, head |-> h, sum |-> z, val |-> v]
        BY <1>3
      <4>4. q = [w EXCEPT !.val = zeros]
        BY <4>1
      <4> HIDE DEF w
      <4>2. q = [redat_num |-> a, head |-> h, sum |-> z, val |-> zeros]
        BY <4>3, <4>4
      <4> QED BY <4>2 DEF z
    <3> HIDE DEF q
    <3> QED BY <3>2, <3>3
  <2>2. zeros \in [Names -> Nat] /\ 0 \in Byte /\ n \in 0 .. CheckAt /\ n \in {0, 2}
    BY <1>1 DEF Byte
  <2>3. d = 90 => n = 2
    OBVIOUS
  <2> DEFINE t == Take(p, d)
  <2>4. t.redat_num = n /\ t.head = p.head /\ t.sum = 0 /\ t.val = zeros
    BY <1>8, <2>1
  <2>5. ParserOK(t)
    BY <2>1, <2>2 DEF ParserOK
  <2> HIDE DEF n, zeros
  <2> QED BY <1>7, <2>2, <2>3, <2>4, <2>5 DEF zeros
<1> QED BY <1>4, <1>5, <1>6, <1>7

\* A byte behind it, of quantity k, of Adj or of CF: t is the parser after it.
TakesData(p, d, t) ==
  /\ ParserOK(t)
  /\ t.redat_num = p.redat_num + 1 /\ t.head = p.head /\ t.sum = (p.sum + d) % 256
  /\ \A k \in 1 .. 6 : p.redat_num \in Begins(k) .. Begins(k) + Width - 1 =>
       t.val = [p.val EXCEPT ![Quantities[k]] = @ * 256 + d]
  /\ p.redat_num = 2 + 6 * Width => t.val = [p.val EXCEPT !["Adj"] = d]
  /\ p.redat_num > 2 + 6 * Width => t.val = p.val

LEMMA TakeData ==
  ASSUME NEW p, ParserOK(p), NEW d \in Byte, p.redat_num \in 2 .. CheckAt - 1
  PROVE  TakesData(p, d, Take(p, d))
<1> DEFINE n == p.redat_num
           q == [p EXCEPT !.redat_num = @ + 1, !.sum = (@ + d) % 256]
<1> PICK h \in Byte, c \in Byte, v \in [Names -> Nat] :
           /\ p = [redat_num |-> p.redat_num, head |-> h, sum |-> c, val |-> v]
           /\ p.redat_num \in 0 .. CheckAt /\ h = p.head /\ c = p.sum /\ v = p.val
  BY ParserFields
<1>0. /\ p = [redat_num |-> n, head |-> h, sum |-> c, val |-> v] /\ p.redat_num = n
      /\ n \in 2 .. CheckAt - 1 /\ h = p.head /\ c = p.sum /\ v = p.val
      /\ p.sum \in Byte /\ p.val \in [Names -> Nat]
  OBVIOUS
<1> HIDE DEF n
<1>1. /\ CheckAt = 5 + 6 * Width /\ Width \in Nat \ {0} /\ n \in 2 .. CheckAt - 1
      /\ p.sum \in Byte /\ d \in Nat
  BY <1>0, Places DEF Byte
<1> DEFINE y == (p.sum + d) % 256
<1>2. y \in Byte
  <2> DEFINE z == p.sum + d
  <2>1. z \in Nat
    BY <1>1 DEF Byte
  <2> HIDE DEF z
  <2>2. z % 256 \in 0 .. 255
    BY <2>1
  <2> QED BY <2>2 DEF z, Byte
<1>3. /\ q.redat_num = n + 1 /\ q.head = p.head /\ q.sum = (p.sum + d) % 256 /\ q.val = p.val
      /\ ParserOK(q)
  <2> DEFINE m == n + 1
  <2>0. p.redat_num = n /\ q = [p EXCEPT !.redat_num = m, !.sum = y]
    BY <1>0
  <2> HIDE DEF m, y, q
  <2>1. q = [redat_num |-> n + 1, head |-> h, sum |-> y, val |-> v]
    BY <1>0, <2>0, ParserUpdates DEF m
  <2>2. n + 1 \in 0 .. CheckAt
    BY <1>1
  <2>3. ParserOK(q)
    BY <1>2, <2>1, <2>2 DEF ParserOK
  <2> QED BY <1>0, <2>1, <2>3 DEF y
<1> HIDE DEF y
<1>4. Take(p, d) = IF n > 2 + 6 * Width THEN q
                   ELSE [q EXCEPT !.val[QuantityAt(n)] =
                           IF QuantityAt(n) = "Adj" THEN d ELSE @ * 256 + d]
  BY <1>0, <1>1 DEF Take
<1> HIDE DEF q
<1>5. CASE n > 2 + 6 * Width
  <2>1. \A k \in 1 .. 6 : ~ (n \in Begins(k) .. Begins(k) + Width - 1)
    BY <1>1, <1>5, Places
  <2> QED BY <1>0, <1>1, <1>3, <1>4, <1>5, <2>1 DEF TakesData
<1>6. CASE n = 2 + 6 * Width
  <2>1. \A k \in 1 .. 6 : ~ (n \in Begins(k) .. Begins(k) + Width - 1)
    BY <1>1, <1>6, Places
  <2>2. QuantityAt(n) = "Adj"
    BY <1>1, <1>6 DEF QuantityAt
  <2>3. Take(p, d) = [q EXCEPT !.val["Adj"] = d]
    BY <1>1, <1>4, <1>6, <2>2
  <2>4. "Adj" \in Names
    BY DEF Names
  <2>5. [q.val EXCEPT !["Adj"] = d] \in [Names -> Nat]
    BY <1>1, <1>3, <2>4 DEF ParserOK
  <2>6. Take(p, d) = [q EXCEPT !.val = [q.val EXCEPT !["Adj"] = d]]
    BY <2>3
  <2> QED BY <1>0, <1>1, <1>3, <1>6, <2>1, <2>5, <2>6 DEF ParserOK, TakesData
<1>7. CASE n < 2 + 6 * Width
  <2>1. PICK k \in 1 .. 6 : n \in Begins(k) .. Begins(k) + Width - 1
    BY <1>1, <1>7, Places
  <2>2. QuantityAt(n) = Quantities[k] /\ Quantities[k] # "Adj" /\ Quantities[k] \in Names
    BY <2>1, PlaceIs, NamesAre
  <2>3. \A l \in 1 .. 6 : n \in Begins(l) .. Begins(l) + Width - 1 => l = k
    BY <1>1, <2>1, Places
  <2> DEFINE w == [p.val EXCEPT ![Quantities[k]] = @ * 256 + d]
  <2>4. Take(p, d) = [q EXCEPT !.val = w]
    BY <1>1, <1>3, <1>4, <1>7, <2>2
  <2>5. w \in [Names -> Nat]
    BY <1>1, <2>2 DEF ParserOK
  <2> HIDE DEF w
  <2>6. Take(p, d).val = w /\ Take(p, d).redat_num = n + 1 /\ Take(p, d).head = p.head
        /\ Take(p, d).sum = (p.sum + d) % 256 /\ ParserOK(Take(p, d))
    BY <1>3, <2>4, <2>5 DEF ParserOK
  <2> QED BY <1>0, <1>1, <1>7, <2>3, <2>6 DEF w, TakesData
<1> QED BY <1>1, <1>5, <1>6, <1>7

\* The fields of the meter.
Meter(v, w, c, n) == [voltages |-> v, powers |-> w, currents |-> c, power_num |-> n]

MeterOK(m) == \E v, w, c, n : m = Meter(v, w, c, n)

NewSamples(m, x, y, z) == [m EXCEPT !.voltages = x, !.powers = y, !.currents = z]
NewCount(m, x) == [m EXCEPT !.power_num = x]

LEMMA MeterUpdates ==
  \A v, w, c, n, x, y, z :
    /\ NewSamples(Meter(v, w, c, n), x, y, z) = Meter(x, y, z, n)
    /\ NewCount(Meter(v, w, c, n), x) = Meter(v, w, c, x)
<1> TAKE v, w, c, n, x, y, z
<1> DEFINE m == Meter(v, w, c, n)
<1> USE DEF Meter
<1>1. NewSamples(m, x, y, z) = Meter(x, y, z, n)
  <2> DEFINE m1 == [m EXCEPT !.voltages = x]
             m2 == [m1 EXCEPT !.powers = y]
  <2>1. m1 = Meter(x, w, c, n)
    OBVIOUS
  <2>2. NewSamples(m, x, y, z) = [m2 EXCEPT !.currents = z]
    BY DEF NewSamples
  <2> HIDE DEF m1
  <2>3. m2 = Meter(x, y, c, n)
    BY <2>1
  <2> HIDE DEF m2
  <2> QED BY <2>2, <2>3
<1>2. NewCount(m, x) = Meter(v, w, c, x)
  BY DEF NewCount
<1> QED BY <1>1, <1>2

\* m has the samples of a frame with this head and these quantities.
HasSample(m, head, f) ==
  /\ m.powers[1] = IF HasBit(2, head) THEN 0 ELSE PowerOf(f)
  /\ HasBit(64, f.Adj) => m.voltages[1] = U16(f.Uk \div f.Ut)

LEMMA PushFirst == ASSUME NEW t, NEW x PROVE Push(t, x)[1] = x
BY MeterAssumption DEF Push

LEMMA SampledOK ==
  ASSUME NEW m, MeterOK(m), NEW head, NEW f
  PROVE  MeterOK(Sampled(m, head, f)) /\ HasSample(Sampled(m, head, f), head, f)
<1> PICK v, w, c, n : m = Meter(v, w, c, n)
  BY DEF MeterOK
<1> DEFINE watts == IF HasBit(2, head) THEN 0 ELSE PowerOf(f)
           x == IF HasBit(64, f.Adj) THEN Push(v, U16(f.Uk \div f.Ut)) ELSE v
           y == Push(w, watts)
           z == IF ~ HasBit(32, f.Adj) THEN c
                ELSE Push(c, IF watts > 0 THEN U16((f.Ik * 100) \div f.It) ELSE 0)
           t == SamplesOf(m, head, f)
<1>1. m.voltages = v /\ m.powers = w /\ m.currents = c
  BY DEF Meter
<1>2. t = NewSamples(m, x, y, z)
  BY <1>1 DEF SamplesOf, NewSamples
<1>3. y[1] = watts /\ (HasBit(64, f.Adj) => x[1] = U16(f.Uk \div f.Ut))
  BY PushFirst
<1> HIDE DEF x, y, z, t
<1>4. t = Meter(x, y, z, n)
  BY <1>2, MeterUpdates
<1>5. t.power_num = n
  BY <1>4 DEF Meter
<1> DEFINE k == IF n > TEMP_COUNT THEN n ELSE n + 1
<1>6. Sampled(m, head, f) = NewCount(t, k)
  BY <1>5 DEF Sampled, t, NewCount
<1> HIDE DEF k
<1>10. Sampled(m, head, f) = Meter(x, y, z, k)
  BY <1>4, <1>6, MeterUpdates
<1>11. MeterOK(Sampled(m, head, f))
  BY <1>10 DEF MeterOK
<1> DEFINE r == Sampled(m, head, f)
<1>12. r.powers = y /\ r.voltages = x
  BY <1>10 DEF Meter
<1> HIDE DEF r
<1>13. HasSample(r, head, f)
  BY <1>3, <1>12 DEF HasSample
<1> QED BY <1>11, <1>13 DEF r

\* Parser and meter together.
ReceiverOK(s) == s = [p |-> s.p, m |-> s.m] /\ ParserOK(s.p) /\ MeterOK(s.m)

LEMMA EatKeeps ==
  ASSUME NEW s, ReceiverOK(s), NEW d \in Byte
  PROVE  /\ ReceiverOK(Eat(s, d))
         /\ s.p.redat_num < CheckAt => Eat(s, d).p = Take(s.p, d) /\ Eat(s, d).m = s.m
         /\ s.p.redat_num = CheckAt =>
              /\ Eat(s, d).p.redat_num = 0
              /\ IsSample(s.p, d) => Eat(s, d).m = Sampled(s.m, s.p.head, s.p.val)
<1>1. s.p.redat_num \in 0 .. CheckAt /\ CheckAt \in Nat /\ CheckAt > 2
  BY Places DEF ReceiverOK, ParserOK
<1> DEFINE t == Eat(s, d)
<1>4. t = [p |-> t.p, m |-> t.m]
  <2>1. \E x, y : t = [p |-> x, m |-> y]
    BY DEF Eat
  <2> HIDE DEF t
  <2> QED BY <2>1
<1>2. CASE s.p.redat_num < CheckAt
  <2>1. Eat(s, d).p = Take(s.p, d) /\ Eat(s, d).m = s.m
    BY <1>2 DEF Eat
  <2>2. ParserOK(Take(s.p, d))
    <3> DEFINE q == s.p
    <3>1. ParserOK(q) /\ (q.redat_num < 2 \/ q.redat_num \in 2 .. CheckAt - 1)
      BY <1>1, <1>2 DEF ReceiverOK
    <3> HIDE DEF q
    <3>2. ParserOK(Take(q, d))
      BY <3>1, TakeHead, TakeData DEF TakesData
    <3> QED BY <3>2 DEF q
  <2>3. MeterOK(s.m)
    BY DEF ReceiverOK
  <2> HIDE DEF t
  <2>4. ReceiverOK(t)
    BY <1>4, <2>1, <2>2, <2>3 DEF ReceiverOK, t
  <2> QED BY <1>1, <1>2, <2>1, <2>4 DEF t
<1>3. CASE s.p.redat_num = CheckAt
  <2>1. /\ Eat(s, d).p = Resync(s.p)
        /\ Eat(s, d).m = IF IsSample(s.p, d) THEN Sampled(s.m, s.p.head, s.p.val) ELSE s.m
    BY <1>1, <1>3 DEF Eat
  <2>2. Resync(s.p).redat_num = 0 /\ ParserOK(Resync(s.p))
    BY <1>1 DEF ReceiverOK, ParserOK, Resync
  <2>3. MeterOK(Eat(s, d).m)
    BY <2>1, SampledOK DEF ReceiverOK
  <2> HIDE DEF t
  <2>4. ReceiverOK(t)
    BY <1>4, <2>1, <2>2, <2>3 DEF ReceiverOK, t
  <2> QED BY <1>1, <1>3, <2>1, <2>2, <2>4 DEF t
<1> QED BY <1>1, <1>2, <1>3

LEMMA EatenKeeps ==
  ASSUME NEW s, ReceiverOK(s), NEW d \in Seq(Byte), NEW e, EatsAll(e, s, d)
  PROVE  \A n \in 0 .. Len(d) : ReceiverOK(e[n])
<1> DEFINE X == Len(d)
           T == {n \in 0 .. X : ReceiverOK(e[n])}
<1>1. X \in Nat /\ \A n \in 1 .. X : d[n] \in Byte
  OBVIOUS
<1>2. e[0] = s /\ \A n \in 1 .. X : e[n] = Eat(e[n - 1], d[n])
  BY EatsOn
<1> HIDE DEF X
<1>3. 0 \in T
  BY <1>1, <1>2
<1>4. ASSUME NEW n \in 0 .. X - 1, n \in T PROVE n + 1 \in T
  <2>1. n + 1 \in 1 .. X /\ n + 1 \in 0 .. X /\ (n + 1) - 1 = n /\ ReceiverOK(e[n])
    BY <1>1, <1>4
  <2>2. e[n + 1] = Eat(e[n], d[n + 1]) /\ d[n + 1] \in Byte
    BY <1>1, <1>2, <2>1
  <2>3. ReceiverOK(Eat(e[n], d[n + 1]))
    BY <2>1, <2>2, EatKeeps
  <2> QED BY <2>1, <2>2, <2>3
<1> HIDE DEF T
<1>5. \A n \in 0 .. X : n \in T
  BY <1>1, <1>3, <1>4, IntervalInduction
<1> QED BY <1>5 DEF T, X

\* The bytes of f but the head look like no head.
Quiet(f) == \A n \in DOMAIN Tail(Bytes(f)) : ~ HeadLike(Tail(Bytes(f))[n])

\* Wherever the parser was, a quiet frame leaves it between frames.
LEMMA QuietSettles ==
  ASSUME NEW s, ReceiverOK(s), NEW f \in Frames, Quiet(f)
  PROVE  Eaten(s, Bytes(f)).p.redat_num = 0
<1> DEFINE d == Bytes(f)
           X == CheckAt + 1
<1>1. d \in Seq(Byte) /\ Len(d) = X /\ X \in Nat /\ X > 3 /\ CheckAt \in Nat
  BY FrameBytes, Places
<1>2. \A n \in 2 .. X : ~ HeadLike(d[n])
  <2>1. ASSUME NEW n \in 2 .. X PROVE ~ HeadLike(d[n])
    <3>1. n - 1 \in DOMAIN Tail(d) /\ Tail(d)[n - 1] = d[n]
      BY <1>1
    <3> QED BY <3>1 DEF Quiet
  <2> QED BY <2>1
<1> HIDE DEF d
<1>3. PICK e : EatsAll(e, s, d) /\ Eaten(s, d) = e[Len(d)]
  BY <1>1, EatenSteps
<1>4. e[0] = s /\ \A n \in 1 .. X : e[n] = Eat(e[n - 1], d[n])
  BY <1>1, <1>3, EatsOn
<1>5. \A n \in 0 .. X : ReceiverOK(e[n])
  BY <1>1, <1>3, EatenKeeps
<1> DEFINE R(n) == e[n].p.redat_num
           T == {n \in 0 .. CheckAt : R(n + 1) = 0 \/ R(n + 1) >= n + 1}
<1>6. ASSUME NEW n \in 0 .. CheckAt
      PROVE  /\ R(n) \in 0 .. CheckAt /\ R(n + 1) \in 0 .. CheckAt
             /\ R(n) = 0 /\ HeadLike(d[n + 1]) => R(n + 1) = 1
             /\ R(n) = 0 /\ ~ HeadLike(d[n + 1]) => R(n + 1) = 0
             /\ R(n) # 0 => R(n + 1) = 0 \/ R(n + 1) = R(n) + 1
  <2>1. n \in 0 .. X /\ n + 1 \in 0 .. X /\ n + 1 \in 1 .. X /\ (n + 1) - 1 = n
    BY <1>1
  <2>2. e[n + 1] = Eat(e[n], d[n + 1]) /\ d[n + 1] \in Byte
    BY <1>1, <1>4, <2>1
  <2> DEFINE a == e[n]
             c == d[n + 1]
             b == Eat(a, c)
  <2>3. ReceiverOK(a) /\ c \in Byte
    BY <1>5, <2>1, <2>2
  <2>4. ReceiverOK(b) /\ b = e[n + 1]
    BY <1>5, <2>1, <2>2
  <2>5. /\ a.p.redat_num < CheckAt => b.p = Take(a.p, c)
        /\ a.p.redat_num = CheckAt => b.p.redat_num = 0
    BY <2>3, EatKeeps
  <2> DEFINE p == a.p
             q == Take(p, c)
  <2>6. ParserOK(p) /\ p.redat_num \in 0 .. CheckAt /\ b.p.redat_num \in 0 .. CheckAt
    BY <2>3, <2>4 DEF ReceiverOK, ParserOK
  <2> HIDE DEF b
  <2>7. /\ p.redat_num = 0 /\ HeadLike(c) => q.redat_num = 1
        /\ p.redat_num = 0 /\ ~ HeadLike(c) => q.redat_num = 0
        /\ p.redat_num = 1 => q.redat_num \in {0, 2}
        /\ p.redat_num \in 2 .. CheckAt - 1 => q.redat_num = p.redat_num + 1
    <3> HIDE DEF p
    <3>1. p.redat_num = 0 \/ p.redat_num = 1 => p.redat_num < 2
      OBVIOUS
    <3>2. p.redat_num < 2 =>
            /\ p.redat_num = 0 /\ HeadLike(c) => q.redat_num = 1
            /\ p.redat_num = 0 /\ ~ HeadLike(c) => q.redat_num = 0
            /\ p.redat_num = 1 => q.redat_num \in {0, 2}
      BY <2>3, <2>6, TakeHead
    <3>3. p.redat_num \in 2 .. CheckAt - 1 => q.redat_num = p.redat_num + 1
      BY <2>3, <2>6, TakeData DEF TakesData
    <3> QED BY <3>1, <3>2, <3>3
  <2> DEFINE x == p.redat_num
             y == b.p.redat_num
  <2>8. /\ x \in 0 .. CheckAt /\ y \in 0 .. CheckAt
        /\ x < CheckAt => y = q.redat_num
        /\ x = CheckAt => y = 0
    BY <2>5, <2>6
  <2>9. R(n) = x /\ R(n + 1) = y
    BY <2>4
  <2> HIDE DEF x, y, q
  <2>10. /\ x = 0 /\ HeadLike(c) => q.redat_num = 1
         /\ x = 0 /\ ~ HeadLike(c) => q.redat_num = 0
         /\ x = 1 => q.redat_num \in {0, 2}
         /\ x \in 2 .. CheckAt - 1 => q.redat_num = x + 1
    BY <2>7 DEF x
  <2> HIDE DEF R
  <2> QED BY <1>1, <2>8, <2>9, <2>10
<1> HIDE DEF R
<1>7. 0 \in T
  <2>1. 0 \in 0 .. CheckAt /\ 0 + 1 = 1
    BY <1>1
  <2>2. R(1) \in 0 .. CheckAt
    BY <1>6, <2>1
  <2> QED BY <2>1, <2>2
<1>8. ASSUME NEW n \in 0 .. CheckAt - 1, n \in T PROVE n + 1 \in T
  <2>1. n + 1 \in 0 .. CheckAt /\ (n + 1) + 1 \in 2 .. X
    BY <1>1
  <2>2. R(n + 1) = 0 \/ R(n + 1) >= n + 1
    BY <1>8
  <2>3. ~ HeadLike(d[(n + 1) + 1])
    BY <1>2, <2>1
  <2> DEFINE m == n + 1
  <2>4. R(m + 1) = 0 \/ R(m + 1) >= m + 1
    <3>1. m \in 0 .. CheckAt /\ (R(m) = 0 \/ R(m) >= m) /\ ~ HeadLike(d[m + 1])
      BY <2>1, <2>2, <2>3
    <3> HIDE DEF m
    <3>2. /\ R(m) \in 0 .. CheckAt /\ R(m + 1) \in 0 .. CheckAt
          /\ R(m) = 0 => R(m + 1) = 0
          /\ R(m) # 0 => R(m + 1) = 0 \/ R(m + 1) = R(m) + 1
      BY <1>6, <3>1
    <3> QED BY <1>1, <3>1, <3>2
  <2> QED BY <2>1, <2>4
<1> HIDE DEF T
<1>9. CheckAt \in T
  <2>1. CheckAt \in 0 .. CheckAt
    BY <1>1
  <2> QED BY <1>1, <1>7, <1>8, <2>1, IntervalInduction
<1>10. R(X) = 0
  <2>1. CheckAt \in 0 .. CheckAt /\ CheckAt + 1 = X
    BY <1>1
  <2>2. R(X) \in 0 .. CheckAt
    BY <1>6, <2>1
  <2>3. R(X) = 0 \/ R(X) >= X
    BY <1>9, <2>1 DEF T
  <2> QED BY <1>1, <2>2, <2>3
<1> QED BY <1>1, <1>3, <1>10 DEF R, d

\* What the parser has of quantity k before byte n.
ValueAt(f, k, n) ==
  IF n <= Begins(k) THEN 0
  ELSE IF n >= Begins(k) + Width THEN f[Quantities[k]]
  ELSE Shifted(f[Quantities[k]])[Begins(k) + Width - n]

LEMMA ValueSteps ==
  ASSUME NEW f \in Frames, NEW k \in 1 .. 6
  PROVE  /\ ValueAt(f, k, 2) = 0 /\ ValueAt(f, k, CheckAt) = f[Quantities[k]]
         /\ \A n \in 2 .. CheckAt - 1 :
              /\ n \notin Begins(k) .. Begins(k) + Width - 1 => ValueAt(f, k, n + 1) = ValueAt(f, k, n)
              /\ n \in Begins(k) .. Begins(k) + Width - 1 =>
                   ValueAt(f, k, n + 1) = ValueAt(f, k, n) * 256 + Data(f)[n - 1]
<1> DEFINE v == f[Quantities[k]]
           g == Shifted(v)
           B == Begins(k)
<1>1. /\ Width \in Nat \ {0} /\ CheckAt = 5 + 6 * Width
      /\ B \in Nat /\ B >= 2 /\ B + Width <= 2 + 6 * Width
  BY Places
<1>2. v \in Nat /\ g[Width] = 0
  BY MeterAssumption DEF IsFrame
<1>3. /\ g \in [0 .. Width -> Nat] /\ g[0] = v
      /\ \A n \in 1 .. Width : g[n] = g[n - 1] \div 256
  BY <1>2, ShiftedSteps
<1>4. ASSUME NEW n \in B .. B + Width - 1
      PROVE  Data(f)[n - 1] = g[B + Width - 1 - n] % 256
  <2>1. (n - 2) \div Width + 1 = k /\ (n - 2) % Width = n - B
    BY PlaceIs
  <2>2. n - 1 \in 1 .. 6 * Width /\ (n - 1) - 1 = n - 2
    BY <1>1
  <2>3. Data(f)[n - 1] =
          Shifted(f[Quantities[((n - 1) - 1) \div Width + 1]])[Width - 1 - (((n - 1) - 1) % Width)] % 256
    BY <1>1, <2>2 DEF Data
  <2>4. Data(f)[n - 1] = g[Width - 1 - (n - B)] % 256
    BY <2>1, <2>2, <2>3
  <2>5. Width - 1 - (n - B) = B + Width - 1 - n
    BY <1>1
  <2> QED BY <2>4, <2>5
<1> DEFINE V(n) == ValueAt(f, k, n)
<1>5. /\ \A n \in Nat : n <= B => V(n) = 0
      /\ \A n \in Nat : n > B /\ n >= B + Width => V(n) = v
      /\ \A n \in Nat : n > B /\ n < B + Width => V(n) = g[B + Width - n]
  BY <1>1 DEF ValueAt
<1> HIDE DEF v, g, B, V
<1>6. V(2) = 0 /\ V(CheckAt) = v
  BY <1>1, <1>5
<1>7. ASSUME NEW n \in 2 .. CheckAt - 1, n \notin B .. B + Width - 1 PROVE V(n + 1) = V(n)
  <2>1. CASE n < B
    BY <1>1, <1>5, <2>1
  <2>2. CASE n >= B + Width
    BY <1>1, <1>5, <2>2
  <2> QED BY <1>1, <1>7, <2>1, <2>2
<1>8. ASSUME NEW n \in 2 .. CheckAt - 1, n \in B .. B + Width - 1
      PROVE  V(n + 1) = V(n) * 256 + Data(f)[n - 1]
  <2> DEFINE j == B + Width - n
  <2>1. j \in 1 .. Width /\ j - 1 \in 0 .. Width /\ j - 1 = B + Width - 1 - n /\ n \in Nat
    BY <1>1, <1>8
  <2>2. V(n) = g[j]
    <3>1. CASE n = B
      <4>1. j = Width
        BY <1>1, <3>1
      <4> QED BY <1>2, <1>5, <2>1, <3>1, <4>1
    <3>2. CASE n > B
      BY <1>1, <1>5, <1>8, <3>2
    <3> QED BY <1>1, <1>8, <3>1, <3>2
  <2>3. V(n + 1) = g[j - 1]
    <3>1. CASE j = 1
      <4>1. n + 1 = B + Width /\ n + 1 > B /\ n + 1 \in Nat
        BY <1>1, <2>1, <3>1
      <4>2. V(n + 1) = v
        BY <1>1, <1>5, <4>1
      <4> QED BY <1>3, <3>1, <4>2
    <3>2. CASE j > 1
      <4>1. n + 1 < B + Width /\ n + 1 > B /\ n + 1 \in Nat /\ B + Width - (n + 1) = j - 1
        BY <1>1, <1>8, <2>1, <3>2
      <4>2. V(n + 1) = g[B + Width - (n + 1)]
        BY <1>1, <1>5, <4>1
      <4> QED BY <4>1, <4>2
    <3> QED BY <2>1, <3>1, <3>2
  <2>4. Data(f)[n - 1] = g[j - 1] % 256
    BY <1>4, <1>8, <2>1
  <2>5. g[j] = g[j - 1] \div 256 /\ g[j - 1] \in Nat
    BY <1>3, <2>1
  <2>6. \A x \in Nat : x = (x \div 256) * 256 + (x % 256)
    OBVIOUS
  <2> QED BY <2>2, <2>3, <2>4, <2>5, <2>6
<1> QED BY <1>6, <1>7, <1>8 DEF V, B, v

\* The parser before byte n of frame f.
Half(f, p, n) ==
  /\ ParserOK(p) /\ p.redat_num = n /\ p.head = f.head
  /\ p.sum = Sums(Data(f))[n - 2] % 256
  /\ \A k \in 1 .. 6 : p.val[Quantities[k]] = ValueAt(f, k, n)
  /\ n > 2 + 6 * Width => p.val["Adj"] = f.Adj

LEMMA HalfBegins ==
  ASSUME NEW f \in Frames, NEW p, ParserOK(p), p.redat_num = 0
  PROVE  /\ Half(f, Take(Take(p, f.head), 90), 2)
         /\ Take(p, f.head).redat_num = 1
<1> DEFINE q == Take(p, f.head)
           r == Take(q, 90)
<1>1. /\ f.head \in Byte /\ HeadLike(f.head) /\ 90 \in Byte
  BY MeterAssumption DEF IsFrame, Byte, HeadLike
<1>2. /\ ParserOK(q) /\ q.redat_num = 1 /\ q.head = f.head
  BY <1>1, TakeHead
<1> HIDE DEF q
<1>3. /\ ParserOK(r) /\ r.redat_num = 2 /\ r.head = f.head /\ r.sum = 0
      /\ r.val = [x \in Names |-> 0]
  BY <1>1, <1>2, TakeHead
<1> HIDE DEF r
<1>4. \A k \in 1 .. 6 : r.val[Quantities[k]] = ValueAt(f, k, 2)
  BY <1>3, NamesAre, ValueSteps
<1>5. Sums(Data(f))[0] = 0 /\ ~ (2 > 2 + 6 * Width)
  BY FrameBytes, Places, SumsSteps
<1>6. Half(f, r, 2)
  BY <1>3, <1>4, <1>5 DEF Half
<1> QED BY <1>2, <1>6 DEF q, r

LEMMA HalfGoesOn ==
  ASSUME NEW f \in Frames, NEW n \in 2 .. CheckAt - 1, NEW p, Half(f, p, n)
  PROVE  Half(f, Take(p, Data(f)[n - 1]), n + 1)
<1> DEFINE d == Data(f)[n - 1]
           q == Take(p, d)
           g == Sums(Data(f))
<1>1. Width \in Nat \ {0} /\ CheckAt = 5 + 6 * Width
  BY Places
<1>2. /\ Data(f) \in Seq(Byte) /\ Len(Data(f)) = 3 + 6 * Width /\ n - 1 \in 1 .. 3 + 6 * Width
  BY <1>1, FrameBytes
<1>3. d \in Byte
  BY <1>2
<1>4. g[n - 1] = g[n - 2] + d /\ g[n - 2] \in Nat
  <2> DEFINE y == Data(f)
             m == n - 1
  <2>1. y[m] = d /\ m \in 1 .. Len(y) /\ m - 1 = n - 2 /\ m - 1 \in 0 .. Len(y)
    BY <1>1, <1>2
  <2>3. y \in Seq(Nat)
    BY FrameBytes
  <2> HIDE DEF y, d, m
  <2>4. /\ Sums(y) \in [0 .. Len(y) -> Nat]
        /\ Sums(y)[m] = Sums(y)[m - 1] + y[m]
    BY <2>1, <2>3, SumsSteps
  <2>5. Sums(y)[m - 1] \in Nat
    BY <2>1, <2>4
  <2> QED BY <2>1, <2>4, <2>5 DEF y, m
<1>5. /\ ParserOK(p) /\ p.redat_num = n /\ p.redat_num \in 2 .. CheckAt - 1 /\ p.head = f.head
      /\ p.sum = g[n - 2] % 256
      /\ \A k \in 1 .. 6 : p.val[Quantities[k]] = ValueAt(f, k, n)
      /\ n > 2 + 6 * Width => p.val["Adj"] = f.Adj
  BY DEF Half
<1> HIDE DEF d
<1>6. /\ ParserOK(q) /\ q.redat_num = n + 1 /\ q.head = f.head
      /\ q.sum = (p.sum + d) % 256
      /\ \A k \in 1 .. 6 : n \in Begins(k) .. Begins(k) + Width - 1 =>
           q.val = [p.val EXCEPT ![Quantities[k]] = @ * 256 + d]
      /\ n = 2 + 6 * Width => q.val = [p.val EXCEPT !["Adj"] = d]
      /\ n > 2 + 6 * Width => q.val = p.val
  <2>0. ParserOK(p) /\ d \in Byte /\ p.redat_num \in 2 .. CheckAt - 1
    BY <1>3, <1>5
  <2>1. TakesData(p, d, q)
    BY <2>0, TakeData
  <2> HIDE DEF q
  <2> QED BY <1>5, <2>1 DEF TakesData
<1> HIDE DEF q, g
<1>7. q.sum = g[(n + 1) - 2] % 256
  <2>1. \A x \in Nat, y \in Nat : ((x % 256) + y) % 256 = (x + y) % 256
    OBVIOUS
  <2>2. (n + 1) - 2 = n - 1 /\ d \in Nat
    BY <1>3 DEF Byte
  <2> QED BY <1>4, <1>5, <1>6, <2>1, <2>2
<1>8. p.val \in [Names -> Nat]
  BY <1>5 DEF ParserOK
<1>9. ASSUME NEW k \in 1 .. 6 PROVE q.val[Quantities[k]] = ValueAt(f, k, n + 1)
  <2>1. p.val[Quantities[k]] = ValueAt(f, k, n)
    BY <1>5
  <2>2. Quantities[k] \in Names /\ Quantities[k] # "Adj"
    BY NamesAre
  <2>3. /\ n \notin Begins(k) .. Begins(k) + Width - 1 => ValueAt(f, k, n + 1) = ValueAt(f, k, n)
        /\ n \in Begins(k) .. Begins(k) + Width - 1 =>
             ValueAt(f, k, n + 1) = ValueAt(f, k, n) * 256 + d
    BY ValueSteps DEF d
  <2>4. CASE n \in Begins(k) .. Begins(k) + Width - 1
    <3>1. q.val = [p.val EXCEPT ![Quantities[k]] = @ * 256 + d]
      BY <1>6, <2>4
    <3>2. q.val[Quantities[k]] = p.val[Quantities[k]] * 256 + d
      BY <1>8, <2>2, <3>1
    <3> QED BY <2>1, <2>3, <2>4, <3>2
  <2>5. CASE n \notin Begins(k) .. Begins(k) + Width - 1
    <3>1. q.val[Quantities[k]] = p.val[Quantities[k]]
      <4>1. CASE n >= 2 + 6 * Width
        BY <1>1, <1>6, <1>8, <2>2, <4>1
      <4>2. CASE n < 2 + 6 * Width
        <5>1. PICK l \in 1 .. 6 : n \in Begins(l) .. Begins(l) + Width - 1
          BY <1>1, <4>2, Places
        <5>2. Quantities[l] # Quantities[k]
          BY <2>5, <5>1, NamesAre
        <5>3. q.val = [p.val EXCEPT ![Quantities[l]] = @ * 256 + d]
          BY <1>6, <5>1
        <5> QED BY <1>8, <2>2, <5>2, <5>3
      <4> QED BY <1>1, <4>1, <4>2
    <3> QED BY <2>1, <2>3, <2>5, <3>1
  <2> QED BY <2>4, <2>5
<1>10. ASSUME n + 1 > 2 + 6 * Width PROVE q.val["Adj"] = f.Adj
  <2>1. CASE n = 2 + 6 * Width
    <3>1. d = f.Adj
      BY <1>1, <2>1 DEF d, Data
    <3>2. "Adj" \in Names
      BY DEF Names
    <3> QED BY <1>6, <1>8, <2>1, <3>1, <3>2
  <2>2. CASE n > 2 + 6 * Width
    BY <1>5, <1>6, <2>2
  <2> QED BY <1>1, <1>10, <2>1, <2>2
<1>11. Half(f, q, n + 1)
  BY <1>6, <1>7, <1>9, <1>10 DEF Half, g
<1> QED BY <1>11 DEF q, d

\* Between frames, a whole frame is read, and the parser is between frames again.
LEMMA FrameIsRead ==
  ASSUME NEW s, ReceiverOK(s), s.p.redat_num = 0, NEW f \in Frames
  PROVE  /\ Eaten(s, Bytes(f)).p.redat_num = 0
         /\ Counted(f.head) => HasSample(Eaten(s, Bytes(f)).m, f.head, f)
<1> DEFINE d == Bytes(f)
           X == CheckAt + 1
<1>1. /\ d \in Seq(Byte) /\ Len(d) = X /\ X \in Nat /\ X > 3 /\ CheckAt \in Nat
      /\ CheckAt = 5 + 6 * Width /\ Width \in Nat \ {0}
  BY FrameBytes, Places
<1>2. /\ d[1] = f.head /\ d[2] = 90 /\ d[X] = Sums(Data(f))[3 + 6 * Width] % 256
      /\ \A n \in 2 .. CheckAt - 1 : d[n + 1] = Data(f)[n - 1]
  <2>1. CheckAt - 1 = 4 + 6 * Width
    BY <1>1
  <2> QED BY <2>1, FrameBytes
<1> HIDE DEF d
<1>3. PICK e : EatsAll(e, s, d) /\ Eaten(s, d) = e[Len(d)]
  BY <1>1, EatenSteps
<1>4. e[0] = s /\ \A n \in 1 .. X : e[n] = Eat(e[n - 1], d[n])
  BY <1>1, <1>3, EatsOn
<1>5. \A n \in 0 .. X : ReceiverOK(e[n])
  BY <1>1, <1>3, EatenKeeps
<1>6. ASSUME NEW n \in 0 .. CheckAt - 1, e[n].p.redat_num < CheckAt
      PROVE  e[n + 1].p = Take(e[n].p, d[n + 1]) /\ e[n + 1].m = e[n].m
  <2>1. n \in 0 .. X /\ n + 1 \in 1 .. X /\ (n + 1) - 1 = n
    BY <1>1
  <2>2. e[n + 1] = Eat(e[n], d[n + 1]) /\ d[n + 1] \in Byte /\ ReceiverOK(e[n])
    <3>1. e[n + 1] = Eat(e[(n + 1) - 1], d[n + 1])
      BY <1>4, <2>1
    <3>2. d[n + 1] \in Byte
      BY <1>1, <2>1
    <3>3. ReceiverOK(e[n])
      BY <1>5, <2>1
    <3> QED BY <2>1, <3>1, <3>2, <3>3
  <2> QED BY <1>6, <2>2, EatKeeps
<1> DEFINE T == {n \in 0 .. CheckAt - 2 : Half(f, e[n + 2].p, n + 2)}
<1>7. 0 \in T
  <2>1. ParserOK(s.p)
    BY DEF ReceiverOK
  <2>2. Take(s.p, f.head).redat_num = 1 /\ Half(f, Take(Take(s.p, f.head), 90), 2)
    BY <2>1, HalfBegins
  <2>3. e[1].p = Take(s.p, f.head)
    <3>1. 0 \in 0 .. CheckAt - 1 /\ e[0].p.redat_num < CheckAt /\ 0 + 1 = 1
      BY <1>1, <1>4
    <3> QED BY <1>2, <1>4, <1>6, <3>1
  <2>4. e[2].p = Take(e[1].p, 90)
    <3>1. 1 \in 0 .. CheckAt - 1 /\ e[1].p.redat_num < CheckAt /\ 1 + 1 = 2
      BY <1>1, <2>2, <2>3
    <3> QED BY <1>2, <1>6, <3>1
  <2>5. Half(f, e[2].p, 2)
    BY <2>2, <2>3, <2>4
  <2> QED BY <1>1, <2>5
<1>8. ASSUME NEW n \in 0 .. (CheckAt - 2) - 1, n \in T PROVE n + 1 \in T
  <2> DEFINE m == n + 2
  <2>1. m \in 2 .. CheckAt - 1 /\ m \in 0 .. CheckAt - 1 /\ m + 1 = (n + 1) + 2
        /\ n + 1 \in 0 .. CheckAt - 2
    BY <1>1
  <2>2. Half(f, e[m].p, m)
    BY <1>8
  <2> HIDE DEF m
  <2>3. e[m].p.redat_num < CheckAt
    BY <1>1, <2>1, <2>2 DEF Half
  <2>4. e[m + 1].p = Take(e[m].p, Data(f)[m - 1])
    BY <1>2, <1>6, <2>1, <2>3
  <2>5. Half(f, e[m + 1].p, m + 1)
    BY <2>1, <2>2, <2>4, HalfGoesOn
  <2> QED BY <2>1, <2>5
<1> HIDE DEF T
<1>9. \A n \in 0 .. CheckAt - 2 : n \in T
  <2>1. CheckAt - 2 \in Nat
    BY <1>1
  <2> QED BY <1>7, <1>8, <2>1, IntervalInduction
<1>10. Half(f, e[CheckAt].p, CheckAt)
  <2>1. CheckAt - 2 \in 0 .. CheckAt - 2 /\ (CheckAt - 2) + 2 = CheckAt
    BY <1>1
  <2>2. CheckAt - 2 \in T
    BY <1>9, <2>1
  <2> QED BY <2>1, <2>2 DEF T
<1> DEFINE p == e[CheckAt].p
           c == d[X]
<1>11. e[X] = Eat(e[CheckAt], c) /\ ReceiverOK(e[CheckAt]) /\ c \in Byte
  <2>1. X \in 1 .. X /\ X - 1 = CheckAt /\ CheckAt \in 0 .. X
    BY <1>1
  <2> QED BY <1>1, <1>4, <1>5, <2>1
<1>12. /\ p.redat_num = CheckAt /\ p.head = f.head /\ p.sum = c
       /\ \A k \in 1 .. 6 : p.val[Quantities[k]] = f[Quantities[k]]
       /\ p.val["Adj"] = f.Adj
  <2>1. CheckAt - 2 = 3 + 6 * Width /\ CheckAt > 2 + 6 * Width
    BY <1>1
  <2>2. p.sum = c
    BY <1>2, <1>10, <2>1 DEF Half
  <2>3. \A k \in 1 .. 6 : p.val[Quantities[k]] = f[Quantities[k]]
    BY <1>10, ValueSteps DEF Half
  <2> QED BY <1>10, <2>1, <2>2, <2>3 DEF Half
<1> HIDE DEF c
<1>13. Counted(f.head) => IsSample(p, c)
  BY <1>12 DEF IsSample
<1>14. /\ e[X].p.redat_num = 0
       /\ Counted(f.head) => e[X].m = Sampled(e[CheckAt].m, f.head, p.val)
  BY <1>11, <1>12, <1>13, EatKeeps
<1>15. Counted(f.head) => HasSample(e[X].m, f.head, p.val)
  BY <1>11, <1>14, SampledOK DEF ReceiverOK
<1>16. /\ p.val.Pk = f.Pk /\ p.val.Pt = f.Pt /\ p.val.Uk = f.Uk /\ p.val.Ut = f.Ut
       /\ p.val.Adj = f.Adj
  <2>1. /\ Quantities[1] = "Uk" /\ Quantities[2] = "Ut" /\ Quantities[5] = "Pk"
        /\ Quantities[6] = "Pt"
    BY DEF Quantities
  <2>2. /\ p.val[Quantities[1]] = f[Quantities[1]] /\ p.val[Quantities[2]] = f[Quantities[2]]
        /\ p.val[Quantities[5]] = f[Quantities[5]] /\ p.val[Quantities[6]] = f[Quantities[6]]
    <3>1. 1 \in 1 .. 6 /\ 2 \in 1 .. 6 /\ 5 \in 1 .. 6 /\ 6 \in 1 .. 6
      OBVIOUS
    <3> QED BY <1>12, <3>1
  <2> QED BY <1>12, <2>1, <2>2
<1> HIDE DEF p
<1>17. Counted(f.head) => HasSample(e[X].m, f.head, f)
  BY <1>15, <1>16 DEF HasSample, PowerOf
<1> QED BY <1>1, <1>3, <1>14, <1>17 DEF d

-----------------------------------------------------------------------------
(* The power meter: the receiver *)

\* Where the bytes that wait will leave parser and meter, s: between frames after
\* a quiet frame, and with the sample of a frame behind a quiet one.
FramesFound(t, s) ==
  /\ \A i \in 1 .. 2 : t[i].whole => t[i].frame \in Frames
  /\ t[2].whole /\ Quiet(t[2].frame) => s.p.redat_num = 0
  /\ t[1].whole /\ t[2].whole /\ Quiet(t[1].frame) =>
       /\ s.p.redat_num = 0
       /\ Counted(t[2].frame.head) => HasSample(s.m, t[2].frame.head, t[2].frame)

MeterInv ==
  /\ rxFifo \in Seq(Byte) /\ ReceiverOK([p |-> parser, m |-> meter])
  /\ rxEvents \in 0 .. 1 /\ (rxEnabled <=> rxEvents = 0)
  /\ FramesFound(sent, Eaten([p |-> parser, m |-> meter], rxFifo))

LEMMA EatenOK ==
  ASSUME NEW s, ReceiverOK(s), NEW d \in Seq(Byte)
  PROVE  ReceiverOK(Eaten(s, d))
<1>1. PICK e : EatsAll(e, s, d) /\ Eaten(s, d) = e[Len(d)]
  BY EatenSteps
<1>2. Len(d) \in 0 .. Len(d)
  OBVIOUS
<1> QED BY <1>1, <1>2, EatenKeeps

LEMMA EatenNothing == ASSUME NEW s PROVE Eaten(s, <<>>) = s
<1>1. <<>> \in Seq(Byte) /\ Len(<<>>) = 0
  OBVIOUS
<1>2. PICK e : EatsAll(e, s, <<>>) /\ Eaten(s, <<>>) = e[0]
  BY <1>1, EatenSteps
<1> QED BY <1>1, <1>2, EatsOn

\* Whatever the line does to a frame, bytes arrive.
LEMMA BytesArrive ==
  ASSUME NEW f \in Frames, NEW damage \in Damages, rxFifo \in Seq(Byte), Arrives(f, damage)
  PROVE  \E c \in Seq(Byte), w \in BOOLEAN :
           /\ rxFifo' = rxFifo \o c /\ sent' = <<sent[2], [frame |-> f, whole |-> w]>>
           /\ w => c = Bytes(f)
<1> DEFINE all == Bytes(f)
           n == damage[2]
           come == CASE damage[1] = "none" -> all
                     [] damage[1] = "lost" -> RemoveAt(all, n)
                     [] damage[1] = "changed" -> [all EXCEPT ![n] = (@ + 1) % 256]
           room == FifoSize - Len(rxFifo)
           ovf == Len(come) > room
           c == IF ovf THEN SubSeq(come, 1, room) ELSE come
           w == damage[1] = "none" /\ ~ ovf
<1>1. rxFifo' = rxFifo \o c /\ sent' = <<sent[2], [frame |-> f, whole |-> w]>>
  BY DEF Arrives
<1>2. /\ all \in Seq(Byte) /\ Len(all) = 6 * Width + 6 /\ Width \in Nat
      /\ FifoSize \in Nat /\ Len(rxFifo) \in Nat
  BY FrameBytes, Places, MeterAssumption
<1> HIDE DEF all
<1>3. come \in Seq(Byte)
  <2>1. CASE damage[1] = "none"
    BY <1>2, <2>1
  <2>2. CASE damage[1] # "none"
    <3>1. /\ damage[1] \in {"lost", "changed"} /\ n \in 1 .. 6 * Width + 6
      BY <2>2, MeterAssumption
    <3>2. SubSeq(all, 1, n - 1) \in Seq(Byte) /\ SubSeq(all, n + 1, Len(all)) \in Seq(Byte)
      BY <1>2, <3>1, SMTT(30)
    <3>3. RemoveAt(all, n) \in Seq(Byte)
      BY <3>2 DEF RemoveAt
    <3>4. [all EXCEPT ![n] = (@ + 1) % 256] \in Seq(Byte)
      <4>1. n \in 1 .. Len(all)
        BY <1>2, <3>1
      <4> HIDE DEF n
      <4>2. all[n] \in Byte
        BY <1>2, <4>1
      <4>3. \A x \in Byte : (x + 1) % 256 \in Byte
        BY DEF Byte
      <4>4. (all[n] + 1) % 256 \in Byte
        BY <4>2, <4>3
      <4> DEFINE v == (all[n] + 1) % 256
      <4> HIDE DEF v
      <4>5. [all EXCEPT ![n] = v] \in Seq(Byte)
        BY <1>2, <4>1, <4>4 DEF v
      <4> QED BY <4>5 DEF v
    <3> QED BY <3>1, <3>3, <3>4
  <2> QED BY <2>1, <2>2
<1> HIDE DEF n
<1>4. w => c = all
  OBVIOUS
<1> HIDE DEF come
<1>5. c \in Seq(Byte)
  <2>1. room \in Int
    BY <1>2
  <2>2. CASE ovf
    <3>1. room < Len(come)
      BY <2>2
    <3> HIDE DEF room
    <3>2. SubSeq(come, 1, room) \in Seq(Byte)
      BY <1>3, <2>1, <3>1
    <3> QED BY <2>2, <3>2 DEF ovf
  <2> QED BY <1>3, <2>2
<1>6. w \in BOOLEAN
  OBVIOUS
<1> HIDE DEF c, w
<1> QED BY <1>1, <1>4, <1>5, <1>6 DEF all

\* A frame that arrives is found behind a quiet one.
LEMMA ChipKeeps == MeterInv /\ ChipSends => MeterInv'
<1> SUFFICES ASSUME MeterInv, ChipSends PROVE MeterInv'
  OBVIOUS
<1>1. PICK f \in Frames, damage \in Damages : Arrives(f, damage)
  BY DEF ChipSends
<1>2. UNCHANGED <<rxEnabled, rxEvents, parser, meter>>
  BY DEF ChipSends
<1>3. PICK c \in Seq(Byte), w \in BOOLEAN :
           /\ rxFifo' = rxFifo \o c /\ sent' = <<sent[2], [frame |-> f, whole |-> w]>>
           /\ w => c = Bytes(f)
  BY <1>1, BytesArrive DEF MeterInv
<1> DEFINE s == [p |-> parser, m |-> meter]
           a == Eaten(s, rxFifo)
           b == Eaten(a, c)
<1>4. /\ rxFifo \in Seq(Byte) /\ ReceiverOK(s) /\ FramesFound(sent, a)
      /\ rxEvents \in 0 .. 1 /\ (rxEnabled <=> rxEvents = 0)
  BY DEF MeterInv
<1>5. rxFifo' \in Seq(Byte) /\ ReceiverOK(s)'
  BY <1>2, <1>3, <1>4
<1>6. Eaten(s, rxFifo)' = b
  <2>1. Eaten(s, rxFifo)' = Eaten(s, rxFifo \o c)
    BY <1>2, <1>3
  <2> QED BY <1>4, <2>1, EatenTwice
<1>7. ReceiverOK(a)
  BY <1>4, EatenOK
<1> HIDE DEF s, a
<1>8. FramesFound(sent', b)
  <2> DEFINE t == sent'
  <2>1. t[1] = sent[2] /\ t[2] = [frame |-> f, whole |-> w]
    BY <1>3
  <2> HIDE DEF t
  <2>2. t[2].frame = f /\ t[2].whole = w
    BY <2>1
  <2>3. \A i \in 1 .. 2 : t[i].whole => t[i].frame \in Frames
    <3>1. t[1].whole => t[1].frame \in Frames
      BY <1>4, <2>1 DEF FramesFound
    <3> QED BY <2>2, <3>1
  <2>4. ASSUME w, Quiet(f) PROVE b.p.redat_num = 0
    BY <1>3, <1>7, <2>4, QuietSettles
  <2>5. ASSUME w, sent[2].whole, Quiet(sent[2].frame)
        PROVE  b.p.redat_num = 0 /\ (Counted(f.head) => HasSample(b.m, f.head, f))
    <3>1. a.p.redat_num = 0
      BY <1>4, <2>5 DEF FramesFound
    <3> QED BY <1>3, <1>7, <2>5, <3>1, FrameIsRead
  <2> HIDE DEF b
  <2>6. FramesFound(t, b)
    BY <2>1, <2>2, <2>3, <2>4, <2>5 DEF FramesFound
  <2> QED BY <2>6 DEF t
<1>9. FramesFound(sent, Eaten([p |-> parser, m |-> meter], rxFifo))'
  BY <1>6, <1>8 DEF s
<1> QED BY <1>2, <1>4, <1>5, <1>9 DEF MeterInv, s

\* The task eats the first bytes now and leaves the others for later.
LEMMA TaskKeeps == MeterInv /\ uart_recvTask => MeterInv'
<1> SUFFICES ASSUME MeterInv, uart_recvTask PROVE MeterInv'
  OBVIOUS
<1> DEFINE s == [p |-> parser, m |-> meter]
           N == Len(rxFifo)
           low == Max({0, N - MaxWaiting})
<1>1. /\ rxFifo \in Seq(Byte) /\ ReceiverOK(s) /\ FramesFound(sent, Eaten(s, rxFifo))
      /\ rxEvents = 1 /\ rxEvents' = 0 /\ rxEnabled' = TRUE /\ sent' = sent
  BY DEF MeterInv, uart_recvTask
<1>2. low \in Nat
  <2> DEFINE k == N - MaxWaiting
  <2>1. k \in Int
    BY <1>1, MeterAssumption
  <2> HIDE DEF k
  <2>2. \E x \in {0, k} : \A y \in {0, k} : x >= y
    <3>1. CASE k >= 0
      BY <2>1, <3>1
    <3>2. CASE k < 0
      BY <2>1, <3>2
    <3> QED BY <2>1, <3>1, <3>2
  <2>3. Max({0, k}) \in {0, k} /\ Max({0, k}) >= 0
    BY <2>2 DEF Max
  <2>4. Max({0, k}) \in Nat
    BY <2>1, <2>3
  <2> QED BY <2>4 DEF k
<1> HIDE DEF low
<1>3. PICK n \in low .. N :
        /\ parser' = Eaten(s, SubSeq(rxFifo, 1, n)).p
        /\ meter' = Eaten(s, SubSeq(rxFifo, 1, n)).m
        /\ rxFifo' = SubSeq(rxFifo, n + 1, N)
  BY DEF uart_recvTask, low
<1> DEFINE x == SubSeq(rxFifo, 1, n)
           y == SubSeq(rxFifo, n + 1, N)
           a == Eaten(s, x)
<1>4. x \in Seq(Byte) /\ y \in Seq(Byte) /\ rxFifo = x \o y
  <2>1. n \in 0 .. N /\ N \in Nat
    BY <1>1, <1>2
  <2>2. x \in Seq(Byte) /\ y \in Seq(Byte)
    BY <1>1, <2>1
  <2> HIDE DEF x, y
  <2>3. x \o y = SubSeq(rxFifo, 1, N)
    <3>1. 1 \in 1 .. N + 1 /\ n \in 1 - 1 .. N /\ N \in n .. N
      BY <2>1
    <3> QED BY <1>1, <3>1, ConcatAdjacentSubSeq DEF x, y
  <2>4. SubSeq(rxFifo, 1, N) = rxFifo
    BY <1>1, SubSeqFull
  <2> QED BY <2>2, <2>3, <2>4
<1> HIDE DEF x, y
<1>5. ReceiverOK(a) /\ Eaten(s, rxFifo) = Eaten(a, y)
  BY <1>1, <1>4, EatenOK, EatenTwice
<1> HIDE DEF N
<1>6. parser' = a.p /\ meter' = a.m /\ rxFifo' = y
  BY <1>3 DEF x, y
<1>7. [p |-> parser, m |-> meter]' = a
  BY <1>5, <1>6 DEF ReceiverOK
<1> HIDE DEF a
<1> QED BY <1>1, <1>4, <1>5, <1>6, <1>7 DEF MeterInv

LEMMA MeterStarts == MeterInit => MeterInv
<1> SUFFICES ASSUME MeterInit PROVE MeterInv
  OBVIOUS
<1>1. /\ rxFifo = <<>> /\ rxEnabled = TRUE /\ rxEvents = 0
      /\ \A i \in 1 .. 2 : sent[i].whole = FALSE
  BY DEF MeterInit
<1>2. ParserOK(parser)
  <2>1. CheckAt \in Nat /\ NoQuantities \in [Names -> Nat]
    BY Places, NamesAre
  <2> QED BY <2>1 DEF MeterInit, ParserOK, Byte
<1>3. MeterOK(meter)
  <2> DEFINE z == [n \in 1 .. TEMP_COUNT |-> 0]
  <2>1. meter = Meter(z, z, z, 0)
    BY DEF MeterInit, Meter
  <2> HIDE DEF z
  <2> QED BY <2>1 DEF MeterOK
<1> DEFINE s == [p |-> parser, m |-> meter]
<1>4. ReceiverOK(s)
  BY <1>2, <1>3 DEF ReceiverOK
<1>5. FramesFound(sent, Eaten(s, rxFifo))
  BY <1>1 DEF FramesFound
<1>6. rxFifo \in Seq(Byte) /\ rxEvents \in 0 .. 1
  BY <1>1
<1> QED BY <1>1, <1>4, <1>5, <1>6 DEF MeterInv

LEMMA MeterKeeps == MeterInv /\ [MeterNext]_powerVars => MeterInv'
<1> SUFFICES ASSUME MeterInv, [MeterNext]_powerVars PROVE MeterInv'
  OBVIOUS
<1>1. CASE ChipSends
  BY <1>1, ChipKeeps
<1>2. CASE FrameError
  BY <1>2 DEF MeterInv, FrameError
<1>3. CASE Received
  BY <1>3 DEF MeterInv, Received, Posts
<1>4. CASE Overflow
  BY <1>4 DEF MeterInv, Overflow
<1>5. CASE uart_recvTask
  BY <1>5, TaskKeeps
<1>6. CASE UNCHANGED powerVars
  BY <1>6 DEF MeterInv, powerVars
<1> QED BY <1>1, <1>2, <1>3, <1>4, <1>5, <1>6 DEF MeterNext

\* The receiver of the power meter recovers (uart.c, uart0_rx_intr_handler and
\* uart_recvTask): an event is on its way while its interrupts are disabled, and the
\* whole frame behind a whole quiet one is read, and a sample if its head is that of
\* one, whatever the line lost or changed before, however the FIFO is cut into calls
\* of the task, for every frame, number of bytes per quantity and size of the FIFO.
THEOREM MeterFindsFrames == MeterSpec => []MeterRecovers
<1>1. MeterInv => MeterRecovers
  <2> SUFFICES ASSUME MeterInv PROVE MeterRecovers
    OBVIOUS
  <2>1. rxEnabled <=> rxEvents = 0
    BY DEF MeterInv
  <2>2. ASSUME rxFifo = <<>>, sent[1].whole, sent[2].whole, Quiet(sent[1].frame)
        PROVE  /\ parser.redat_num = 0
               /\ Counted(sent[2].frame.head) =>
                    HasSample(meter, sent[2].frame.head, sent[2].frame)
    <3> DEFINE s == [p |-> parser, m |-> meter]
    <3>1. FramesFound(sent, s)
      BY <2>2, EatenNothing DEF MeterInv
    <3>2. s.p = parser /\ s.m = meter
      OBVIOUS
    <3> HIDE DEF s
    <3> QED BY <2>2, <3>1, <3>2 DEF FramesFound
  <2> QED BY <2>1, <2>2 DEF MeterRecovers, Quiet, HasSample
<1> QED BY <1>1, MeterStarts, MeterKeeps, PTL DEF MeterSpec
=============================================================================
