------------------------------ MODULE KeyScan ------------------------------
(***************************************************************************)
(* The button of the power strip: user_key_timer_func (user_key.c), run by  *)
(* a repeating 20 ms timer.  It samples the level, divides the ticks by      *)
(* Div into key_time units of 100 ms, and decides from key_time whether a    *)
(* hold is a short press, starts SmartConfig, or restores the factory        *)
(* settings; a release after the restore restarts the device.               *)
(*                                                                         *)
(* What those four do to the device is in PlugControl (KeyShort, KeyReset,   *)
(* RequestRestart); here they are the value of `did'.                        *)
(***************************************************************************)
EXTENDS Integers

CONSTANTS
  Div,     \* ticks per unit of key_time (5: key_timer_num > 4)
  Short,   \* KEY_LONG_PRESS_TIME (10): from here on a hold is long
  Smart,   \* key_time of the 5 s press (50)
  Reset    \* key_time of the 10 s press (100)

\* key_time is a uint8_t and reaches Reset + 3.
ASSUME KeyAssumption ==
  /\ Div \in Nat \ {0} /\ Short \in Nat \ {0}
  /\ Smart \in Nat /\ Reset \in Nat
  /\ Short < Smart /\ Smart < Reset /\ Reset + 3 < 256

VARIABLES
  keyTime,      \* key_time
  timerNum,     \* key_timer_num
  keyContinue,  \* key_continue: the level of the previous tick
  smartconfig,  \* user_smartconfig_is_starting()
  restarting,   \* system_restart() has been called
  did,          \* what the last tick did
  held,         \* history: ticks of the current hold, or of the one just ended
  base,         \* history: timerNum when that hold began
  resets        \* history: factory restores in that hold

vars == <<keyTime, timerNum, keyContinue, smartconfig, restarting, did, held,
          base, resets>>

Deed == {"none", "short", "stop", "smart", "reset", "blink", "released",
         "restart"}

\* Beyond the restore key_time cycles through Reset + 1 .. Reset + 2: the
\* history stops counting.
HeldMax == Div * (Reset + 1)

Init ==
  /\ keyTime = 0 /\ timerNum = 0 /\ keyContinue = FALSE
  /\ smartconfig = FALSE /\ restarting = FALSE
  /\ did = "none" /\ held = 0 /\ base = 0 /\ resets = 0

-----------------------------------------------------------------------------

\* Mutant: key_time wraps before the restore.
LongPressAgain(k) ==
  /\ keyTime' = IF k = Reset + 3 THEN Reset - 1 ELSE k
  /\ did' = CASE k = Smart -> "smart"
              [] k = Reset -> "reset"
              [] k \in {Reset + 2, Reset + 3} -> "blink"
              [] OTHER -> "none"
  /\ smartconfig' \in {smartconfig, smartconfig \/ k = Smart}
  /\ resets' = (IF keyContinue THEN resets ELSE 0) + (IF k = Reset THEN 1 ELSE 0)

\* The button is down and key_time becomes k.  user_smartconfig starts nothing
\* in the access-point mode.
LongPress(k) ==
  /\ keyTime' = IF k = Reset + 3 THEN Reset + 1 ELSE k
  /\ did' = CASE k = Smart -> "smart"
              [] k = Reset -> "reset"
              [] k \in {Reset + 2, Reset + 3} -> "blink"
              [] OTHER -> "none"
  /\ smartconfig' \in {smartconfig, smartconfig \/ k = Smart}
  /\ resets' = (IF keyContinue THEN resets ELSE 0) + (IF k = Reset THEN 1 ELSE 0)

\* key_timer_num > 4 once incremented: a unit is over.
UnitOver == timerNum + 1 > Div - 1

\* A tick that finds the button down.  A new press restarts key_time, but
\* not the divider.
Down ==
  LET t == IF keyContinue THEN keyTime ELSE 0 IN
  /\ keyContinue' = TRUE
  /\ IF UnitOver
     THEN timerNum' = 0 /\ LongPress(t + 1)
     ELSE /\ timerNum' = timerNum + 1
          /\ keyTime' = t
          /\ did' = "none"
          /\ resets' = IF keyContinue THEN resets ELSE 0
          /\ UNCHANGED smartconfig
  /\ held' = IF ~ keyContinue THEN 1
             ELSE IF held < HeldMax THEN held + 1 ELSE held
  /\ base' = IF keyContinue THEN base ELSE timerNum
  /\ UNCHANGED restarting

\* What a release after keyTime units means; a mutant takes KEY_LONG_PRESS_TIME
\* itself for short, another restarts from the SmartConfig press on.
ShortHoldIncl == keyTime > 0 /\ keyTime <= Short
ShortHold == keyTime > 0 /\ keyTime < Short

RestartHoldEarly == keyTime > Smart
RestartHold == keyTime > Reset

\* A tick that finds the button up.
Up ==
  /\ keyContinue' = FALSE
  /\ did' = CASE keyTime = 0 -> IF keyContinue THEN "released" ELSE "none"
              [] ShortHold ->
                   IF smartconfig THEN "stop" ELSE "short"
              [] RestartHold -> "restart"
              [] OTHER -> "released"
  /\ smartconfig' = (smartconfig /\ did' # "stop")
  /\ restarting' = (restarting \/ did' = "restart")
  /\ keyTime' = 0
  /\ UNCHANGED <<timerNum, held, base, resets>>

\* The callbacks of user_wifi.c start and end SmartConfig too, and others ask
\* for a restart.
Elsewhere ==
  /\ smartconfig' \in BOOLEAN
  /\ restarting' \in {restarting, TRUE}
  /\ UNCHANGED <<did, keyTime, timerNum, keyContinue, held, base, resets>>

\* The restart asked for takes effect: the statics are zero again.
Reboot ==
  /\ restarting
  /\ keyTime' = 0 /\ timerNum' = 0 /\ keyContinue' = FALSE
  /\ smartconfig' = FALSE /\ restarting' = FALSE
  /\ did' = "none" /\ held' = 0 /\ base' = 0 /\ resets' = 0

Next == Down \/ Up \/ Elsewhere \/ Reboot

Spec == Init /\ [][Next]_vars

-----------------------------------------------------------------------------

\* Every variable has its type; key_time never leaves the uint8_t range.
TypeOK ==
  /\ keyTime \in 0 .. Reset + 2
  /\ timerNum \in 0 .. Div - 1
  /\ keyContinue \in BOOLEAN
  /\ smartconfig \in BOOLEAN
  /\ restarting \in BOOLEAN
  /\ did \in Deed
  /\ held \in 0 .. HeldMax
  /\ base \in 0 .. Div - 1
  /\ resets \in Nat

\* While the button is down, key_time counts the ticks of this hold plus the
\* part of a unit that earlier, shorter presses had left in the divider.
Counting ==
  /\ keyContinue /\ keyTime <= Reset
       => /\ Div * keyTime + timerNum = base + held
          /\ held < HeldMax
  /\ keyContinue /\ keyTime > Reset => held + base >= HeldMax
  /\ keyContinue => held > 0
  /\ ~ keyContinue => keyTime = 0

\* However long the button is held, the factory settings are restored at most
\* once, and exactly once from Reset units on.
OneRestorePerHold == keyContinue =>
  resets = IF keyTime >= Reset THEN 1 ELSE 0

\* "longer than 1 s is a long press" (user_key.c): a press acts as a short one
\* only if it was shorter than Short units, and a press that lasted a full unit
\* but fell short of that by at least one never goes unnoticed.
ShortPressIsShort ==
  /\ did \in {"short", "stop"} => held < Div * Short
  /\ (did = "released" => held < Div \/ held > Div * (Short - 1))

\* Releasing the button restarts the device exactly if the settings were
\* restored in this hold, except within the unit that follows the restore.
RestartAfterRestore ==
  /\ did = "restart" => resets = 1
  /\ did = "released" /\ resets = 1 => base + held < Div * (Reset + 1)
=============================================================================
