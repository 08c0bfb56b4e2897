---------------------------- MODULE WifiStation ----------------------------
(***************************************************************************)
(* The Wi-Fi side of the strip: user_wifi.c with the LEDs of user_led.c, and *)
(* the button that starts and stops SmartConfig (KeyScan).                   *)
(*                                                                         *)
(* wifi_states is one variable for the station, the access point and         *)
(* SmartConfig, written by the events of all three.  External: the station    *)
(* (link), SmartConfig (it hunts for a phone, links, and runs until          *)
(* smartconfig_stop), the clients of the access point.                       *)
(***************************************************************************)
EXTENDS Integers

CONSTANTS
  Div, Short, Smart, Reset,  \* of KeyScan
  MaxClients,                \* bound: clients of the access point
  MaxSets                    \* bound: networks sent by the web page per boot

VARIABLES
  wifiStates,  \* wifi_states
  apMode,      \* wifi_get_opmode() == SOFTAP_MODE, else STATION_MODE
  link,        \* wifi_station_get_connect_status(): "down", "assoc" or "ip"
  stored,      \* the network in the SDK's flash, by who chose it
  timer,       \* mdns_restart_timer: "none", "set" (flag 2), "restart" (0)
  sets,        \* networks the web page has sent since the boot
  sc,          \* SmartConfig: "off", "hunt", "linked"
  clients,     \* wifi_softap_get_station_num()
  ledWifi,     \* "off", "on", "blink" (status_led_install) or "breathe" (pwm)
  ledLogo,     \* the logo LED is lit
  mqttReady,   \* user_mqtt_init() has run
  overtaken,   \* history: SC_STATUS_LINK_OVER came after the link was lost
  keyTime, timerNum, keyContinue, restarting, did, held, base, resets

wifiVars == <<wifiStates, apMode, link, stored, timer, sets, sc, clients,
              ledWifi, ledLogo, mqttReady, overtaken>>
buttonVars == <<keyTime, timerNum, keyContinue, did, held, base, resets>>
stationVars == <<wifiVars, buttonVars, restarting>>

user_smartconfig_is_starting == wifiStates = "SMARTCONFIG"

Key == INSTANCE KeyScan WITH smartconfig <- user_smartconfig_is_starting

wifi_state_t ==
  {"IDE", "DISCONNECTED", "CONNECTING", "CONNECTED", "GOT_IP", "SOFTAPMODE",
   "SOFTAPMODE_CONNECTED", "SMARTCONFIG"}

StationTypeOK ==
  /\ wifiStates \in wifi_state_t
  /\ {apMode, ledLogo, mqttReady, overtaken, restarting} \subseteq BOOLEAN
  /\ link \in {"down", "assoc", "ip"}
  /\ stored \in {"none", "home", "web", "phone"}
  /\ timer \in {"none", "set", "restart"}
  /\ sets \in 0 .. MaxSets /\ clients \in 0 .. MaxClients
  /\ sc \in {"off", "hunt", "linked"}
  /\ ledWifi \in {"off", "on", "blink", "breathe"}
  /\ keyTime < 256

-----------------------------------------------------------------------------

\* user_wifi_init: the station, or the access point if the button is held at
\* power-on or no network is known.  Wi-Fi events come later.
Boots(buttonUp, network) ==
  LET ap == ~ (buttonUp /\ network # "none") IN
  /\ apMode' = ap /\ mqttReady' = ~ ap
  /\ wifiStates' = IF ap THEN "SOFTAPMODE" ELSE "IDE"
  /\ ledWifi' = IF ap THEN "breathe" ELSE "blink"
  /\ ledLogo' = ap
  /\ stored' = network
  /\ link' = "down" /\ timer' = "none" /\ sets' = 0 /\ sc' = "off"
  /\ clients' = 0 /\ overtaken' = FALSE

StationInit ==
  /\ wifiStates = "SOFTAPMODE" /\ apMode = TRUE /\ mqttReady = FALSE
  /\ ledWifi = "breathe" /\ ledLogo = TRUE /\ stored = "none"
  /\ link = "down" /\ timer = "none" /\ sets = 0 /\ sc = "off"
  /\ clients = 0 /\ overtaken = FALSE
  /\ Key!Init

\* user_set_led_wifi: the pin is not seen while the SDK drives it.
SetLed(level) ==
  IF ledWifi \in {"blink", "breathe"} THEN ledWifi
  ELSE IF level THEN "on" ELSE "off"

\* wifi_status_led_uninstall, then user_set_led_wifi.
SteadyLed(level) ==
  IF ledWifi = "breathe" THEN ledWifi ELSE IF level THEN "on" ELSE "off"

-----------------------------------------------------------------------------
(* wifi_handle_event_cb *)

KeyIdle == UNCHANGED buttonVars /\ UNCHANGED restarting

StationUp == ~ apMode /\ stored # "none"

StamodeConnected ==
  /\ StationUp /\ link = "down" /\ sc # "hunt"
  /\ link' = "assoc" /\ wifiStates' = "CONNECTED" /\ overtaken' = FALSE
  /\ UNCHANGED <<apMode, stored, timer, sets, sc, clients, ledWifi, ledLogo,
                 mqttReady>>
  /\ KeyIdle

\* A link is lost, or could not be made.
StamodeDisconnected ==
  /\ StationUp /\ (link # "down" \/ sc # "hunt")
  /\ link' = "down" /\ wifiStates' = "DISCONNECTED" /\ overtaken' = FALSE
  /\ ledWifi' = "blink"
  /\ UNCHANGED <<apMode, stored, timer, sets, sc, clients, ledLogo, mqttReady>>
  /\ KeyIdle

\* user_mqtt_connect follows: GotIp of MqttSession.
StamodeGotIp ==
  /\ link = "assoc" /\ sc # "hunt"
  /\ link' = "ip" /\ wifiStates' = "GOT_IP" /\ overtaken' = FALSE
  /\ ledWifi' = SteadyLed(TRUE)
  /\ UNCHANGED <<apMode, stored, timer, sets, sc, clients, ledLogo, mqttReady>>
  /\ KeyIdle

SoftapStaConnected ==
  /\ apMode /\ clients < MaxClients
  /\ clients' = clients + 1 /\ wifiStates' = "SOFTAPMODE_CONNECTED"
  /\ UNCHANGED <<apMode, link, stored, timer, sets, sc, ledWifi, ledLogo,
                 mqttReady, overtaken>>
  /\ KeyIdle

SoftapStaDisconnected ==
  /\ apMode /\ clients > 0
  /\ clients' = clients - 1 /\ wifiStates' = "SOFTAPMODE"
  /\ UNCHANGED <<apMode, link, stored, timer, sets, sc, ledWifi, ledLogo,
                 mqttReady, overtaken>>
  /\ KeyIdle

-----------------------------------------------------------------------------
(* SmartConfig: smartconfig_done, user_smartconfig, user_smartconfig_stop *)

\* SC_STATUS_WAIT and SC_STATUS_FIND_CHANNEL.
ScHunts ==
  /\ sc = "hunt"
  /\ wifiStates' = "SMARTCONFIG" /\ overtaken' = FALSE
  /\ UNCHANGED <<apMode, link, stored, timer, sets, sc, clients, ledWifi,
                 ledLogo, mqttReady>>
  /\ KeyIdle

\* SC_STATUS_LINK: the phone's network is stored and joined.
ScLink ==
  /\ sc = "hunt"
  /\ stored' = "phone" /\ link' = "down" /\ sc' = "linked"
  /\ wifiStates' = "CONNECTING" /\ overtaken' = FALSE
  /\ UNCHANGED <<apMode, timer, sets, clients, ledWifi, ledLogo, mqttReady>>
  /\ KeyIdle

\* What user_smartconfig_stop leaves.
Stops ==
  /\ sc' = IF user_smartconfig_is_starting THEN "off" ELSE sc
  /\ wifiStates' = IF user_smartconfig_is_starting THEN "IDE" ELSE wifiStates
  /\ ledLogo' = IF user_smartconfig_is_starting THEN FALSE ELSE ledLogo

\* SC_STATUS_LINK_OVER.  By now wifi_states is no longer SMARTCONFIG, unless
\* the button has started SmartConfig again: user_smartconfig_stop stops
\* nothing.
ScLinkOver ==
  /\ sc = "linked"
  /\ Stops
  /\ ledWifi' = SteadyLed(TRUE)
  /\ overtaken' = (overtaken \/ wifiStates = "DISCONNECTED")
  /\ UNCHANGED <<apMode, link, stored, timer, sets, clients, mqttReady>>
  /\ KeyIdle

\* The mutant starts it in the access-point mode as well.
MayStartAlways == TRUE
MayStart == ~ apMode

\* user_smartconfig.  smartconfig_start fails while SmartConfig still runs,
\* or starts it anew.
user_smartconfig ==
  IF ~ MayStart
  THEN UNCHANGED wifiVars
  ELSE /\ sc' \in IF sc = "linked" /\ ~ user_smartconfig_is_starting
                  THEN {"linked", "hunt"} ELSE {"hunt"}
       /\ wifiStates' = "SMARTCONFIG" /\ overtaken' = FALSE
       /\ ledWifi' = "blink" /\ ledLogo' = TRUE
       /\ UNCHANGED <<apMode, link, stored, timer, sets, clients, mqttReady>>

-----------------------------------------------------------------------------
(* The network chosen on the web page: user_wifi_set and its timer *)

\* Somebody is connected to send it.
user_wifi_set ==
  /\ link = "ip" \/ clients > 0
  /\ sets < MaxSets
  /\ sets' = sets + 1 /\ timer' = "set"
  /\ UNCHANGED <<wifiStates, apMode, link, stored, sc, clients, ledWifi,
                 ledLogo, mqttReady, overtaken>>
  /\ KeyIdle

\* The mutant does not arm the timer again.
TimerSetOnce ==
  /\ timer = "set"
  /\ apMode' = FALSE /\ stored' = "web" /\ timer' = "none"
  /\ clients' = 0
  /\ UNCHANGED <<wifiStates, link, sets, sc, ledWifi, ledLogo, mqttReady,
                 overtaken>>
  /\ KeyIdle

\* user_wifi_mdns_restart_timer_fun with flag 2: leaves the access-point mode,
\* stores the network, and arms itself with flag 0.
TimerSet ==
  /\ timer = "set"
  /\ apMode' = FALSE /\ stored' = "web" /\ timer' = "restart"
  /\ clients' = 0
  /\ UNCHANGED <<wifiStates, link, sets, sc, ledWifi, ledLogo, mqttReady,
                 overtaken>>
  /\ KeyIdle

\* The same with flag 0.
TimerRestart ==
  /\ timer = "restart"
  /\ timer' = "none" /\ restarting' = TRUE
  /\ UNCHANGED <<wifiStates, apMode, link, stored, sets, sc, clients, ledWifi,
                 ledLogo, mqttReady, overtaken, buttonVars>>

-----------------------------------------------------------------------------
(* The button: what KeyScan decides, done to the Wi-Fi.  system_restore       *)
(* forgets the network.                                                      *)

Does(d) ==
  CASE d = "smart" -> user_smartconfig
    [] d = "stop" ->
         /\ Stops
         /\ ledWifi' = SteadyLed(FALSE)
         /\ UNCHANGED <<apMode, link, stored, timer, sets, clients, mqttReady,
                        overtaken>>
    [] d = "reset" ->
         /\ stored' = "none"
         /\ UNCHANGED <<wifiStates, apMode, link, timer, sets, sc, clients,
                        ledWifi, ledLogo, mqttReady, overtaken>>
    [] d = "blink" ->
         /\ LET lit == keyTime # Reset + 2 IN
            ledWifi' = SetLed(lit) /\ ledLogo' = lit
         /\ UNCHANGED <<wifiStates, apMode, link, stored, timer, sets, sc,
                        clients, mqttReady, overtaken>>
    [] OTHER -> UNCHANGED wifiVars

KeyTick == \E d \in Key!Deed :
  /\ did' = d
  /\ Does(d)
  /\ Key!Down \/ Key!Up

Reboot == \E buttonUp \in BOOLEAN : Boots(buttonUp, stored) /\ Key!Reboot

StationNext ==
  \/ StamodeConnected \/ StamodeDisconnected \/ StamodeGotIp
  \/ SoftapStaConnected \/ SoftapStaDisconnected
  \/ ScHunts \/ ScLink \/ ScLinkOver
  \/ user_wifi_set \/ TimerSet \/ TimerRestart
  \/ KeyTick \/ Reboot

StationSpec == StationInit /\ [][StationNext]_stationVars

-----------------------------------------------------------------------------

\* wifi_states says SMARTCONFIG only while SmartConfig runs, in the station mode,
\* and the LED blinks for it: the next short press does stop it (user_key.c,
\* user_key_short_press).  The LED is steady while there is an address and blinks
\* while there is no link - unless SC_STATUS_LINK_OVER comes after the loss:
\* smartconfig_done then makes it steady although nothing is connected
\* (user_wifi.c:127).
WifiStatesTell ==
  /\ user_smartconfig_is_starting => sc # "off" /\ ~ apMode /\ ledWifi = "blink"
  /\ wifiStates = "GOT_IP" => link = "ip" /\ ledWifi # "blink"
  /\ wifiStates = "DISCONNECTED" /\ ~ overtaken => link = "down" /\ ledWifi = "blink"

\* A network chosen on the web page is on its way to a restart, whatever the
\* button, SmartConfig and the page itself do in the two seconds before: the
\* timer is armed, or system_restart has been called.  And only on that way may
\* a strip that was started as an access point, and so never initialised the
\* mqttClient that user_mqtt_connect uses, get a link (user_wifi.c:229).
RestartIsPending ==
  sets > 0 \/ (link # "down" /\ ~ mqttReady) => timer # "none" \/ restarting
=============================================================================
