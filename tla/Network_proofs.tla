--------------------------- MODULE Network_proofs ---------------------------
(***************************************************************************)
(* Proofs about the strip on the network.  The Wi-Fi (WifiStation): what      *)
(* wifi_states tells, and that a network chosen on the web page leads to a    *)
(* restart.  The web page (WebServer): one answer for a request, and the      *)
(* network that was typed.  The update (OtaUpdate): one host is asked for the *)
(* path of the same URL.  The packets (MqttReceive): what the client encodes   *)
(* reads back as it was given, and what the broker sends is delivered.  For    *)
(* any thresholds of the button, any connections, names, URLs, topics,        *)
(* payloads, packets and bounds.                                              *)
(***************************************************************************)
EXTENDS WifiStation, OtaUpdate, WebServer, MqttReceive, Induction, SequenceTheorems

-----------------------------------------------------------------------------
(* The Wi-Fi: a restart is pending *)

Pending == timer # "none" \/ restarting

\* The access point has no link, and only the timer that restarts the strip
\* makes a station of one that was started as an access point.
PendingInv ==
  /\ apMode \in BOOLEAN /\ mqttReady \in BOOLEAN /\ restarting \in BOOLEAN
  /\ apMode => link = "down"
  /\ sets > 0 => Pending
  /\ ~ apMode /\ ~ mqttReady => Pending

LEMMA PendingInit == StationInit => PendingInv
<1>1. StationInit => apMode = TRUE /\ mqttReady = FALSE /\ link = "down"
  BY DEF StationInit
<1>2. StationInit => restarting = FALSE /\ ~ (sets > 0)
  BY DEF StationInit, Key!Init
<1> QED BY <1>1, <1>2 DEF PendingInv

\* What the button does never takes a restart back, nor the link, the mode, the
\* timer or the networks sent.
LEMMA KeyTickKeeps ==
  ASSUME KeyTick, restarting \in BOOLEAN
  PROVE  /\ restarting' \in BOOLEAN /\ (restarting => restarting')
         /\ UNCHANGED <<apMode, link, timer, sets, mqttReady>>
<1>1. PICK d \in Key!Deed : Does(d) /\ (Key!Down \/ Key!Up)
  BY DEF KeyTick
<1>2. UNCHANGED <<apMode, link, timer, sets, mqttReady>>
  BY <1>1 DEF Does, user_smartconfig, wifiVars
<1>3. Key!Down => restarting' = restarting
  BY DEF Key!Down
<1>4. Key!Up => restarting' = (restarting \/ did' = "restart")
  BY DEF Key!Up
<1> QED BY <1>1, <1>2, <1>3, <1>4

LEMMA RebootKeeps ==
  ASSUME Reboot
  PROVE  /\ restarting' = FALSE /\ ~ (sets' > 0) /\ link' = "down"
         /\ apMode' \in BOOLEAN /\ mqttReady' \in BOOLEAN /\ (apMode' \/ mqttReady')
<1>1. restarting' = FALSE
  BY DEF Reboot, Key!Reboot
<1>2. PICK buttonUp \in BOOLEAN : Boots(buttonUp, stored)
  BY DEF Reboot
<1>3. link' = "down" /\ ~ (sets' > 0)
  BY <1>2 DEF Boots
<1>4. apMode' \in BOOLEAN /\ mqttReady' \in BOOLEAN /\ (apMode' \/ mqttReady')
  BY <1>2 DEF Boots
<1> QED BY <1>1, <1>3, <1>4

LEMMA PendingStep == PendingInv /\ [StationNext]_stationVars => PendingInv'
<1> SUFFICES ASSUME PendingInv, [StationNext]_stationVars PROVE PendingInv'
  OBVIOUS
<1> USE DEF PendingInv, Pending, KeyIdle
<1>1. CASE StamodeConnected
  BY <1>1 DEF StamodeConnected, StationUp
<1>2. CASE StamodeDisconnected
  BY <1>2 DEF StamodeDisconnected
<1>3. CASE StamodeGotIp
  BY <1>3 DEF StamodeGotIp
<1>4. CASE SoftapStaConnected
  BY <1>4 DEF SoftapStaConnected
<1>5. CASE SoftapStaDisconnected
  BY <1>5 DEF SoftapStaDisconnected
<1>6. CASE ScHunts
  BY <1>6 DEF ScHunts
<1>7. CASE ScLink
  BY <1>7 DEF ScLink
<1>8. CASE ScLinkOver
  BY <1>8 DEF ScLinkOver
<1>9. CASE user_wifi_set
  BY <1>9 DEF user_wifi_set
<1>10. CASE TimerSet
  BY <1>10 DEF TimerSet
<1>11. CASE TimerRestart
  BY <1>11 DEF TimerRestart
<1>12. CASE KeyTick
  BY <1>12, KeyTickKeeps
<1>13. CASE Reboot
  BY <1>13, RebootKeeps
<1>14. CASE UNCHANGED stationVars
  BY <1>14 DEF stationVars, wifiVars
<1> QED
  BY <1>1, <1>2, <1>3, <1>4, <1>5, <1>6, <1>7, <1>8, <1>9, <1>10, <1>11, <1>12, <1>13, <1>14
     DEF StationNext

\* A network chosen on the web page (user_wifi_set) is on its way to a restart,
\* whatever happens before it; and a strip that was started as an access point,
\* with its mqttClient not initialised, has a link only on that way.
THEOREM RestartPending == StationSpec => []RestartIsPending
<1>1. PendingInv => RestartIsPending
  BY DEF PendingInv, Pending, RestartIsPending
<1> QED BY <1>1, PendingInit, PendingStep, PTL DEF StationSpec

-----------------------------------------------------------------------------
(* The Wi-Fi: what wifi_states tells *)

\* SmartConfig runs in the station mode, and blinks as long as it looks for the
\* phone.
TellInv ==
  /\ WifiStatesTell
  /\ sc # "off" => ~ apMode
  /\ sc = "hunt" => ledWifi = "blink"

LEMMA TellInit == StationInit => TellInv
BY DEF StationInit, TellInv, WifiStatesTell, user_smartconfig_is_starting

\* The button stops SmartConfig only if wifi_states says that it runs.
LEMMA StopIsWarranted ==
  ASSUME KeyTick, did' = "stop" PROVE user_smartconfig_is_starting
<1>1. Key!Down => did' # "stop"
  BY DEF Key!Down, Key!LongPress, Key!UnitOver
<1>2. Key!Up => user_smartconfig_is_starting
  BY DEF Key!Up
<1> QED BY <1>1, <1>2 DEF KeyTick

LEMMA TellKeyTick == ASSUME TellInv, KeyTick PROVE TellInv'
<1>1. Does(did')
  BY DEF KeyTick
<1> USE DEF TellInv, WifiStatesTell, user_smartconfig_is_starting
<1>2. CASE did' = "smart"
  BY <1>1, <1>2 DEF Does, user_smartconfig, MayStart, wifiVars
<1>3. CASE did' = "stop"
  BY <1>1, <1>3, StopIsWarranted DEF Does, Stops
<1>4. CASE did' = "reset"
  BY <1>1, <1>4 DEF Does
<1>5. CASE did' = "blink"
  BY <1>1, <1>5 DEF Does, SetLed
<1>6. CASE did' \notin {"smart", "stop", "reset", "blink"}
  BY <1>1, <1>6 DEF Does, wifiVars
<1> QED BY <1>2, <1>3, <1>4, <1>5, <1>6

LEMMA TellStep == TellInv /\ [StationNext]_stationVars => TellInv'
<1> SUFFICES ASSUME TellInv, [StationNext]_stationVars PROVE TellInv'
  OBVIOUS
<1> USE DEF TellInv, WifiStatesTell, user_smartconfig_is_starting
<1>1. CASE StamodeConnected
  BY <1>1 DEF StamodeConnected
<1>2. CASE StamodeDisconnected
  BY <1>2 DEF StamodeDisconnected
<1>3. CASE StamodeGotIp
  BY <1>3 DEF StamodeGotIp, SteadyLed
<1>4. CASE SoftapStaConnected
  BY <1>4 DEF SoftapStaConnected
<1>5. CASE SoftapStaDisconnected
  BY <1>5 DEF SoftapStaDisconnected
<1>6. CASE ScHunts
  BY <1>6 DEF ScHunts
<1>7. CASE ScLink
  BY <1>7 DEF ScLink
<1>8. CASE ScLinkOver
  BY <1>8 DEF ScLinkOver, Stops, SteadyLed
<1>9. CASE user_wifi_set
  BY <1>9 DEF user_wifi_set
<1>10. CASE TimerSet
  BY <1>10 DEF TimerSet
<1>11. CASE TimerRestart
  BY <1>11 DEF TimerRestart
<1>12. CASE KeyTick
  BY <1>12, TellKeyTick
<1>13. CASE Reboot
  BY <1>13 DEF Reboot, Boots
<1>14. CASE UNCHANGED stationVars
  BY <1>14 DEF stationVars, wifiVars
<1> QED
  BY <1>1, <1>2, <1>3, <1>4, <1>5, <1>6, <1>7, <1>8, <1>9, <1>10, <1>11, <1>12, <1>13, <1>14
     DEF StationNext

\* Whatever the order of the callbacks of user_wifi.c, the button and the web
\* page: wifi_states says SMARTCONFIG only while SmartConfig runs, and the LED is
\* the one of the state - but for an SC_STATUS_LINK_OVER that comes after the link
\* was lost.
THEOREM StatesTell == StationSpec => []WifiStatesTell
<1>1. TellInv => WifiStatesTell
  BY DEF TellInv
<1> QED BY <1>1, TellInit, TellStep, PTL DEF StationSpec

-----------------------------------------------------------------------------
(* The web page: the segments *)

\* What may come on a connection after the first segment of a POST.
Rests == {Nothing} \cup {p.second : p \in Split}

LEMMA GetSegments ==
  ASSUME NEW s \in Get
  PROVE  /\ s.head = TRUE /\ s.len = NoLength /\ s.body = 0 /\ s.method = "GET"
         /\ s.hostAt \in {60, 258, 265, NoHost}
         /\ s.uri \in {"/", "/setting.htm", "/result.htm", "other"}
<1>1. PICK h \in {60, 258, 265, NoHost}, q \in BOOLEAN,
          u \in {"/", "/setting.htm", "/result.htm", "other"} : s = GetOf(h, u, q)
  BY DEF Get
<1>2. s = [head |-> TRUE, len |-> NoLength, body |-> 0, hostAt |-> h,
           method |-> "GET", uri |-> u, query |-> q, form |-> <<>>, typed |-> <<>>]
  BY <1>1 DEF GetOf, Blank
<1> QED BY <1>2

LEMMA PostRecords ==
  ASSUME NEW s \in Post
  PROVE  \E name, pass \in Names :
           s = [head |-> TRUE, len |-> 2, body |-> 2, hostAt |-> 60,
                method |-> "POST", uri |-> "/result.htm", query |-> FALSE,
                form |-> <<Encode(name), Encode(pass)>>, typed |-> <<name, pass>>]
<1>1. PICK name \in Names, pass \in Names : s = PostOf(name, pass)
  BY DEF Post
<1>2. s = [head |-> TRUE, len |-> 2, body |-> 2, hostAt |-> 60,
           method |-> "POST", uri |-> "/result.htm", query |-> FALSE,
           form |-> <<Encode(name), Encode(pass)>>, typed |-> <<name, pass>>]
  BY <1>1 DEF PostOf, Blank
<1> QED BY <1>2

LEMMA PostSegments ==
  ASSUME NEW s \in Post
  PROVE  /\ s.head = TRUE /\ s.len = 2 /\ s.body = 2 /\ s.method = "POST"
         /\ s.hostAt = 60 /\ s.uri = "/result.htm" /\ s.query = FALSE
         /\ \E name, pass \in Names :
              s.typed = <<name, pass>> /\ s.form = <<Encode(name), Encode(pass)>>
BY PostRecords

LEMMA SplitSegments ==
  ASSUME NEW p \in Split
  PROVE  /\ p.first.head = TRUE /\ p.first.len = 2 /\ p.first.body \in 0 .. 1
         /\ p.second.head = FALSE /\ p.second.body \in 1 .. 2
         /\ p.second.hostAt = NoHost
<1>1. PICK s \in Post, b \in 0 .. 1 : p = Cut(s, b)
  BY DEF Split
<1>2. PICK name \in Names, pass \in Names :
        s = [head |-> TRUE, len |-> 2, body |-> 2, hostAt |-> 60,
             method |-> "POST", uri |-> "/result.htm", query |-> FALSE,
             form |-> <<Encode(name), Encode(pass)>>, typed |-> <<name, pass>>]
  BY PostRecords
<1>3. p.first.head = TRUE /\ p.first.len = 2 /\ p.first.body = b
  BY <1>1, <1>2 DEF Cut
<1>4. p.second.head = FALSE /\ p.second.body = 2 - b /\ p.second.hostAt = NoHost
  BY <1>1, <1>2 DEF Cut, Nothing, Blank
<1> QED BY <1>3, <1>4

LEMMA RestSegments ==
  ASSUME NEW s \in Rests
  PROVE  s.head = FALSE /\ s.body \in 0 .. 2 /\ s.hostAt = NoHost
<1>1. CASE s = Nothing
  BY <1>1 DEF Nothing, Blank
<1>2. CASE s \in {p.second : p \in Split}
  <2>1. PICK p \in Split : s = p.second
    BY <1>2
  <2>2. p.second.head = FALSE /\ p.second.body \in 1 .. 2 /\ p.second.hostAt = NoHost
    BY <2>1, SplitSegments
  <2> QED BY <2>1, <2>2
<1> QED BY <1>1, <1>2 DEF Rests

-----------------------------------------------------------------------------
(* The web page: one answer *)

\* Only the first segment of a POST leaves something behind: dat_sumlength, which
\* no totallength follows.
AnswerInv ==
  /\ totallength = 0 /\ dat_sumlength \in {0, 2}
  /\ cut = (dat_sumlength # 0)
  /\ rest \in [Conns -> Rests]
  /\ OneAnswer

LEMMA GetAnswered ==
  ASSUME AnswerInv, NEW s \in Get, Receive(s)
  PROVE  /\ totallength' = 0 /\ dat_sumlength' \in {0, 2}
         /\ cut' = (dat_sumlength' # 0)
         /\ OneAnswer'
<1>0. /\ s.head = TRUE /\ s.len = NoLength /\ s.body = 0 /\ s.method = "GET"
      /\ s.hostAt \in {60, 258, 265, NoHost}
      /\ s.uri \in {"/", "/setting.htm", "/result.htm", "other"}
  BY GetSegments
<1> USE <1>0 DEF AnswerInv, NoLength
<1>1. check_data(s) /\ SumLength(s) = dat_sumlength /\ Total(s) = 0 /\ ~ ResetAnyway(s)
  BY DEF check_data, SumLength, Total, ResetAnyway
<1>2. save_data(s) = ~ cut
  BY <1>1 DEF save_data
<1>3. totallength' = 0 /\ dat_sumlength' = dat_sumlength /\ cut' = cut
  BY <1>1, <1>2 DEF Receive
<1>4. served' = [seg |-> s, cut |-> cut, answers |-> Answers(s)]
  BY <1>1 DEF Receive
<1>5. ASSUME s.hostAt < 256, s.uri # "/result.htm"
      PROVE  Handled(s) = <<IF s.hostAt = NoHost THEN BadRequest ELSE PageOf(s)>>
  <2>1. CASE s.hostAt = NoHost
    BY <2>1 DEF Handled, Uri
  <2>2. CASE s.hostAt = 60
    <3>1. Copied(s) = 60
      BY <2>2 DEF Copied
    <3>2. Uri(s) = s.uri /\ Type(s) = "GET"
      BY <2>2, <3>1 DEF Uri, Type, HttpAt, QueryAt, NoHost
    <3> QED BY <1>5, <2>2, <3>2 DEF Handled, PageOf, NoHost
  <2> QED BY <1>5, <2>1, <2>2
<1>6. CASE s.hostAt < 256 /\ s.uri # "/result.htm"
  <2>1. Answers(s) = (IF cut THEN <<BadRequest>> ELSE <<>>)
                     \o <<IF s.hostAt = NoHost THEN BadRequest ELSE PageOf(s)>>
    BY <1>2, <1>5, <1>6 DEF Answers
  <2>2. served'.seg = s /\ served'.cut = cut /\ served'.answers = Answers(s)
    BY <1>4
  <2> DEFINE page == <<IF s.hostAt = NoHost THEN BadRequest ELSE PageOf(s)>>
  <2>3. Answers(s) = IF cut THEN <<BadRequest>> \o page ELSE page
    <3>1. \A x : <<>> \o <<x>> = <<x>>
      OBVIOUS
    <3> QED BY <2>1, <3>1, Zenon
  <2>4. OneAnswer'
    BY <2>2, <2>3 DEF OneAnswer
  <2> QED BY <1>3, <2>4
<1>7. CASE ~ (s.hostAt < 256 /\ s.uri # "/result.htm")
  BY <1>3, <1>4, <1>7 DEF OneAnswer
<1> QED BY <1>3, <1>6, <1>7

LEMMA PostAnswered ==
  ASSUME AnswerInv, NEW s \in Post, Receive(s)
  PROVE  /\ totallength' = 0 /\ dat_sumlength' = 0 /\ cut' = FALSE
         /\ OneAnswer'
<1>0. /\ s.head = TRUE /\ s.len = 2 /\ s.body = 2 /\ s.method = "POST"
      /\ s.hostAt = 60 /\ s.uri = "/result.htm" /\ s.query = FALSE
  BY PostSegments
<1> USE <1>0 DEF AnswerInv, NoLength
<1>1. check_data(s) /\ SumLength(s) = 2 /\ Total(s) = 2 /\ ~ ResetAnyway(s) /\ save_data(s)
  BY DEF check_data, SumLength, Total, ResetAnyway, save_data
<1>2. totallength' = 0 /\ dat_sumlength' = 0 /\ cut' = FALSE
  <2>1. totallength' = 0 /\ dat_sumlength' = 0
    BY <1>1 DEF Receive
  <2>2. cut' = ((cut \/ ~ check_data(s))
                /\ ~ (~ s.head \/ (s.len # NoLength /\ s.len = s.body)))
    BY DEF Receive
  <2>3. s.len # NoLength /\ s.len = s.body
    OBVIOUS
  <2> QED BY <2>1, <2>2, <2>3, Zenon
<1>3. served' = [seg |-> s, cut |-> cut, answers |-> Answers(s)]
  BY <1>1 DEF Receive
<1>4. Uri(s) = s.uri /\ Type(s) = "POST"
  BY DEF Uri, Type, Copied, HttpAt, QueryAt, NoHost
<1>5. Handled(s) = <<PageOf(s)>>
  BY <1>4 DEF Handled, PageOf
<1>6. Answers(s) = <<PageOf(s)>>
  BY <1>1, <1>5 DEF Answers
<1> QED BY <1>2, <1>3, <1>6 DEF OneAnswer, NoHost

LEMMA FirstRefused ==
  ASSUME AnswerInv, NEW p \in Split, Receive(p.first)
  PROVE  /\ totallength' = 0 /\ dat_sumlength' = 2 /\ cut' = TRUE
         /\ OneAnswer'
<1>0. p.first.head = TRUE /\ p.first.len = 2 /\ p.first.body \in 0 .. 1
  BY SplitSegments
<1> USE <1>0 DEF AnswerInv, NoLength
<1>1. ~ check_data(p.first) /\ SumLength(p.first) = 2
  BY DEF check_data, SumLength
<1>2. totallength' = 0 /\ dat_sumlength' = 2 /\ cut' = TRUE
  <2>1. totallength' = 0 /\ dat_sumlength' = 2
    BY <1>1 DEF Receive
  <2>2. cut' = ((cut \/ ~ check_data(p.first))
                /\ ~ (~ p.first.head
                      \/ (p.first.len # NoLength /\ p.first.len = p.first.body)))
    BY DEF Receive
  <2>3. p.first.len # p.first.body /\ p.first.head
    OBVIOUS
  <2> QED BY <1>1, <2>1, <2>2, <2>3, Zenon
<1>3. served' = [seg |-> p.first, cut |-> cut, answers |-> <<>>]
  BY <1>1 DEF Receive
<1> QED BY <1>2, <1>3 DEF OneAnswer

LEMMA RestResets ==
  ASSUME AnswerInv, NEW s \in Rests, Receive(s)
  PROVE  /\ totallength' = 0 /\ dat_sumlength' = 0 /\ cut' = FALSE
         /\ OneAnswer'
<1>0. s.head = FALSE /\ s.body \in 0 .. 2
  BY RestSegments
<1> USE <1>0 DEF AnswerInv, NoLength
<1>1. check_data(s) /\ ResetAnyway(s)
  BY DEF check_data, ResetAnyway
<1>2. totallength' = 0 /\ dat_sumlength' = 0 /\ cut' = FALSE
  BY <1>1 DEF Receive
<1>3. served' = [seg |-> s, cut |-> cut, answers |-> Answers(s)]
  BY <1>1 DEF Receive
<1> QED BY <1>2, <1>3 DEF OneAnswer

LEMMA AnswerInit == WebInit => AnswerInv
<1> SUFFICES ASSUME WebInit PROVE AnswerInv
  OBVIOUS
<1>1. served.seg.head = FALSE
  BY DEF WebInit, Nothing, Blank
<1> QED BY <1>1 DEF WebInit, AnswerInv, OneAnswer, Rests

LEMMA AnswerStep == AnswerInv /\ [WebNext]_webVars => AnswerInv'
<1> SUFFICES ASSUME AnswerInv, [WebNext]_webVars PROVE AnswerInv'
  OBVIOUS
<1>1. CASE WholeRequest
  BY <1>1, GetAnswered, PostAnswered DEF WholeRequest, AnswerInv
<1>2. CASE \E c \in Conns : FirstSegment(c)
  <2>1. PICK c \in Conns, p \in Split :
          Receive(p.first) /\ rest' = [rest EXCEPT ![c] = p.second]
    BY <1>2 DEF FirstSegment
  <2>2. rest' \in [Conns -> Rests]
    BY <2>1 DEF AnswerInv, Rests
  <2>3. totallength' = 0 /\ dat_sumlength' = 2 /\ cut' = TRUE /\ OneAnswer'
    BY <2>1, FirstRefused
  <2>4. dat_sumlength' # 0 /\ dat_sumlength' \in {0, 2}
    BY <2>3
  <2>5. cut' = (dat_sumlength' # 0)
    BY <2>3, <2>4, Zenon
  <2>6. totallength' = 0 /\ OneAnswer'
    BY <2>3
  <2> QED BY <2>2, <2>4, <2>5, <2>6 DEF AnswerInv
<1>3. CASE \E c \in Conns : SecondSegment(c)
  <2>1. PICK c \in Conns :
          Receive(rest[c]) /\ rest' = [rest EXCEPT ![c] = Nothing]
    BY <1>3 DEF SecondSegment
  <2>2. rest' \in [Conns -> Rests] /\ rest[c] \in Rests
    BY <2>1 DEF AnswerInv, Rests
  <2> QED BY <2>1, <2>2, RestResets DEF AnswerInv
<1>4. CASE \E c \in Conns : Closed(c)
  <2>1. rest' \in [Conns -> Rests]
    BY <1>4 DEF Closed, AnswerInv, Rests
  <2> QED BY <1>4, <2>1 DEF Closed, AnswerInv, OneAnswer
<1>5. CASE UNCHANGED webVars
  BY <1>5 DEF webVars, AnswerInv, OneAnswer
<1> QED BY <1>1, <1>2, <1>3, <1>4, <1>5 DEF WebNext

\* A request that arrives whole gets one page, its own, whatever the connections
\* of webserver_recv have sent in pieces before - with an answer 400 in front of it
\* exactly as long as the head of a POST in two segments has left its length in
\* dat_sumlength, and the page is asked for without a Content-Length.
THEOREM AnsweredOnce == WebSpec => []OneAnswer
<1>1. AnswerInv => OneAnswer
  BY DEF AnswerInv
<1> QED BY <1>1, AnswerInit, AnswerStep, PTL DEF WebSpec

-----------------------------------------------------------------------------
(* The web page: the network is the one that was typed *)

\* What may be typed, and what is decoded as it was typed: all but the space.
Typable == {"a", "@", " "}
Plain == {"a", "@"}
Sent == {"a", "+", "@", "%", "4", "0", "?"}

LEMMA CodeSent ==
  /\ \A c \in Typable : Code(c) \in Seq(Sent)
  /\ Code("a") = <<"a">> /\ Code("@") = <<"%", "4", "0">>
<1>1. Code("a") = <<"a">> /\ Code("@") = <<"%", "4", "0">>
  BY DEF Code
<1>2. <<"a">> \in Seq(Sent)
  BY DEF Sent
<1>3. <<"%", "4", "0">> \in Seq(Sent)
  BY DEF Sent
<1>4. Code(" ") = <<"+">> /\ <<"+">> \in Seq(Sent)
  BY DEF Code, Sent
<1> QED BY <1>1, <1>2, <1>3, <1>4 DEF Typable

\* Encode goes through the field character by character.
LEMMA EncodeSteps ==
  ASSUME NEW t \in Seq(Typable)
  PROVE  \E e \in [0 .. Len(t) -> Seq(Sent)] :
           /\ e[0] = <<>> /\ Encode(t) = e[Len(t)]
           /\ \A n \in 1 .. Len(t) : e[n] = e[n - 1] \o Code(t[n])
<1> DEFINE L == Len(t)
           B == Seq(Sent)
           step == [n \in 1 .. L |-> [v \in B |-> v \o Code(t[n])]]
           F(f) == f = [n \in 0 .. L |-> IF n = 0 THEN <<>> ELSE f[n - 1] \o Code(t[n])]
           e == CHOOSE f : F(f)
<1>1. Encode(t) = e[L]
  BY DEF Encode
<1>2. L \in Nat /\ \A n \in 1 .. L : t[n] \in Typable
  OBVIOUS
<1>3. <<>> \in B
  OBVIOUS
<1>4. \A n \in 1 .. L, v \in B : v \o Code(t[n]) \in B
  BY <1>2, CodeSent
<1>5. step \in [1 .. L -> [B -> B]] /\ \A n \in 1 .. L, v \in B : step[n][v] = v \o Code(t[n])
  BY <1>4
<1> HIDE DEF step, L, B
<1>6. PICK f : Recurs(f, L, B, <<>>, step)
  BY <1>2, <1>3, <1>5, RecursionExists
<1>7. F(f)
  <2>1. ASSUME NEW n \in 0 .. L PROVE f[n] = IF n = 0 THEN <<>> ELSE f[n - 1] \o Code(t[n])
    <3>1. CASE n = 0
      BY <1>6, <3>1 DEF Recurs
    <3>2. CASE n # 0
      <4>1. n \in 1 .. L /\ n - 1 \in 0 .. L
        BY <1>2, <3>2
      <4>2. f[n] = step[n][f[n - 1]] /\ f[n - 1] \in B
        BY <1>6, <4>1 DEF Recurs
      <4> QED BY <1>5, <3>2, <4>1, <4>2
    <3> QED BY <3>1, <3>2
  <2>2. f = [n \in 0 .. L |-> f[n]]
    BY <1>6 DEF Recurs
  <2> QED BY <2>1, <2>2
<1>8. F(e)
  BY <1>7
<1> HIDE DEF e
<1>9. e[0] = <<>>
  BY <1>2, <1>8
<1>10. ASSUME NEW n \in 1 .. L PROVE e[n] = e[n - 1] \o Code(t[n])
  <2>1. n \in 0 .. L /\ n # 0
    BY <1>2
  <2> QED BY <1>8, <2>1, Zenon
<1>11. \A n \in 0 .. L : e[n] \in B
  <2> DEFINE T == {n \in 0 .. L : e[n] \in B}
  <2>1. 0 \in T
    BY <1>2, <1>3, <1>9
  <2>2. ASSUME NEW n \in 0 .. L - 1, n \in T PROVE n + 1 \in T
    <3>1. n + 1 \in 1 .. L /\ (n + 1) - 1 = n
      BY <1>2
    <3>2. e[n + 1] = e[n] \o Code(t[n + 1])
      BY <1>10, <3>1
    <3>3. e[n] \in B
      BY <2>2
    <3>4. e[n] \o Code(t[n + 1]) \in B
      BY <1>4, <3>1, <3>3
    <3>5. n + 1 \in 0 .. L /\ e[n + 1] \in B
      BY <1>2, <3>2, <3>4
    <3> QED BY <3>5
  <2> HIDE DEF T
  <2>3. \A n \in 0 .. L : n \in T
    BY <1>2, <2>1, <2>2, IntervalInduction
  <2> QED BY <2>3 DEF T
<1>12. e \in [0 .. L -> B]
  <2>1. e = [n \in 0 .. L |-> e[n]]
    BY <1>8
  <2> QED BY <1>11, <2>1
<1> QED BY <1>1, <1>9, <1>10, <1>12 DEF L, B

\* Digit(old, n) is the hexadecimal digit at n, -1 if there is none.
Digit(old, n) == IF n <= Len(old) THEN char2hex(old[n]) ELSE -1

\* What html_decode makes of old from n on, given what it makes of the rest.
DecodedFrom(old, d, n) ==
  IF n > Len(old) THEN <<>>
  ELSE IF old[n] # "%" THEN <<old[n]>> \o d[n + 1]
  ELSE IF Digit(old, n + 1) = -1 \/ Digit(old, n + 2) = -1 THEN <<>>
  ELSE <<IF <<Digit(old, n + 1), Digit(old, n + 2)>> = <<4, 0>> THEN "@" ELSE "?">>
       \o d[n + 3]

LEMMA DecodedType ==
  ASSUME NEW old \in Seq(Sent), NEW n \in 1 .. Len(old) + 1, NEW d,
         \A m \in n + 1 .. Len(old) + 1 : d[m] \in Seq(Sent)
  PROVE  DecodedFrom(old, d, n) \in Seq(Sent)
<1>1. CASE n > Len(old)
  BY <1>1 DEF DecodedFrom
<1>2. CASE n <= Len(old) /\ old[n] # "%"
  <2>1. old[n] \in Sent /\ d[n + 1] \in Seq(Sent)
    BY <1>2
  <2> QED BY <1>2, <2>1 DEF DecodedFrom
<1>3. CASE n <= Len(old) /\ old[n] = "%" /\ Digit(old, n + 1) # -1 /\ Digit(old, n + 2) # -1
  <2>1. n + 3 \in n + 1 .. Len(old) + 1
    BY <1>3 DEF Digit
  <2>2. d[n + 3] \in Seq(Sent)
    BY <2>1
  <2>3. DecodedFrom(old, d, n) =
          <<IF <<Digit(old, n + 1), Digit(old, n + 2)>> = <<4, 0>> THEN "@" ELSE "?">>
          \o d[n + 3]
    BY <1>3 DEF DecodedFrom
  <2> QED BY <2>2, <2>3 DEF Sent
<1>4. CASE n <= Len(old) /\ old[n] = "%" /\ (Digit(old, n + 1) = -1 \/ Digit(old, n + 2) = -1)
  BY <1>4 DEF DecodedFrom
<1> QED BY <1>1, <1>2, <1>3, <1>4

\* DecodedFrom reads d beyond n only.
LEMMA DecodedLocal ==
  ASSUME NEW old \in Seq(Sent), NEW n \in 1 .. Len(old) + 1, NEW d, NEW g,
         \A m \in n + 1 .. Len(old) + 1 : d[m] = g[m]
  PROVE  DecodedFrom(old, d, n) = DecodedFrom(old, g, n)
<1>1. CASE n > Len(old)
  BY <1>1 DEF DecodedFrom
<1>2. CASE n <= Len(old) /\ old[n] # "%"
  <2>1. d[n + 1] = g[n + 1]
    BY <1>2
  <2> QED BY <1>2, <2>1 DEF DecodedFrom
<1>3. CASE n <= Len(old) /\ old[n] = "%" /\ Digit(old, n + 1) # -1 /\ Digit(old, n + 2) # -1
  <2>1. n + 3 \in n + 1 .. Len(old) + 1
    BY <1>3 DEF Digit
  <2>2. d[n + 3] = g[n + 3]
    BY <2>1
  <2> QED BY <1>3, <2>2 DEF DecodedFrom
<1>4. CASE n <= Len(old) /\ old[n] = "%" /\ (Digit(old, n + 1) = -1 \/ Digit(old, n + 2) = -1)
  BY <1>4 DEF DecodedFrom
<1> QED BY <1>1, <1>2, <1>3, <1>4

\* html_decode goes through what was sent from the end on.
LEMMA DecodeSteps ==
  ASSUME NEW old \in Seq(Sent)
  PROVE  \E d : /\ html_decode(old) = d[1]
                /\ \A n \in 1 .. Len(old) + 1 : d[n] = DecodedFrom(old, d, n)
<1> DEFINE X == Len(old)
           F(f) == f = [n \in 1 .. X + 1 |-> DecodedFrom(old, f, n)]
           d == CHOOSE f : F(f)
           Good(f, k) == /\ f \in [X + 1 - k .. X + 1 -> Seq(Sent)]
                         /\ \A n \in X + 1 - k .. X + 1 : f[n] = DecodedFrom(old, f, n)
           T == {k \in 0 .. X : \E f : Good(f, k)}
<1>1. html_decode(old) = d[1]
  BY Zenon DEF html_decode, DecodedFrom, Digit
<1>2. X \in Nat
  OBVIOUS
<1>3. 0 \in T
  <2> DEFINE z == [n \in X + 1 .. X + 1 |-> <<>>]
  <2>1. z \in [X + 1 - 0 .. X + 1 -> Seq(Sent)]
    BY <1>2
  <2>2. \A n \in X + 1 - 0 .. X + 1 : n > Len(old) /\ z[n] = <<>>
    BY <1>2
  <2> HIDE DEF z
  <2>3. \A n \in X + 1 - 0 .. X + 1 : z[n] = DecodedFrom(old, z, n)
    BY <2>2 DEF DecodedFrom
  <2> QED BY <1>2, <2>1, <2>3
<1>4. ASSUME NEW k \in 0 .. X - 1, k \in T PROVE k + 1 \in T
  <2>1. PICK f : Good(f, k)
    BY <1>4
  <2> DEFINE p == X - k
             g == [n \in p .. X + 1 |-> IF n = p THEN DecodedFrom(old, f, p) ELSE f[n]]
  <2>2. p \in 1 .. X /\ p = X + 1 - (k + 1) /\ p + 1 = X + 1 - k
    BY <1>2
  <2> HIDE DEF p
  <2>3. \A n \in p + 1 .. X + 1 : f[n] \in Seq(Sent) /\ f[n] = DecodedFrom(old, f, n)
    BY <2>1, <2>2
  <2>4. DecodedFrom(old, f, p) \in Seq(Sent)
    BY <1>2, <2>2, <2>3, DecodedType, SMTT(30)
  <2>5. g \in [p .. X + 1 -> Seq(Sent)]
    BY <1>2, <2>2, <2>3, <2>4
  <2>6. \A n \in p + 1 .. X + 1 : g[n] = f[n]
    BY <1>2, <2>2
  <2>7. g[p] = DecodedFrom(old, f, p)
    BY <1>2, <2>2
  <2> HIDE DEF g
  <2>8. ASSUME NEW n \in p .. X + 1 PROVE DecodedFrom(old, g, n) = DecodedFrom(old, f, n)
    <3>1. n \in 1 .. Len(old) + 1 /\ \A m \in n + 1 .. Len(old) + 1 : g[m] = f[m]
      BY <1>2, <2>2, <2>6
    <3> QED BY <3>1, DecodedLocal
  <2>9. ASSUME NEW n \in p .. X + 1 PROVE g[n] = DecodedFrom(old, g, n)
    <3>1. CASE n = p
      BY <2>7, <2>8, <3>1
    <3>2. CASE n # p
      <4>1. n \in p + 1 .. X + 1
        BY <1>2, <2>2, <3>2
      <4> QED BY <2>3, <2>6, <2>8, <4>1
    <3> QED BY <3>1, <3>2
  <2>10. Good(g, k + 1)
    BY <2>2, <2>5, <2>9
  <2> QED BY <1>2, <2>10
<1>5. X \in T
  <2>1. X \in 0 .. X
    BY <1>2
  <2> HIDE DEF T
  <2> QED BY <1>2, <1>3, <1>4, <2>1, IntervalInduction
<1>6. PICK f : Good(f, X)
  BY <1>5
<1>7. F(f)
  <2>1. X + 1 - X = 1
    BY <1>2
  <2>2. f = [n \in 1 .. X + 1 |-> f[n]] /\ \A n \in 1 .. X + 1 : f[n] = DecodedFrom(old, f, n)
    BY <1>6, <2>1
  <2> QED BY <2>2
<1>8. F(d)
  BY <1>7
<1> HIDE DEF d, X
<1>9. \A n \in 1 .. X + 1 : d[n] = DecodedFrom(old, d, n)
  BY <1>8
<1> QED BY <1>1, <1>9 DEF X

\* Encode puts the codes of the characters one behind the other: that of t[n] behind
\* the at[n - 1] bytes before it.
LEMMA EncodePlaced ==
  ASSUME NEW t \in Seq(Typable)
  PROVE  /\ Encode(t) \in Seq(Sent)
         /\ \E at \in [0 .. Len(t) -> 0 .. Len(Encode(t))] :
              /\ at[0] = 0 /\ at[Len(t)] = Len(Encode(t))
              /\ \A n \in 1 .. Len(t) :
                   /\ at[n] = at[n - 1] + Len(Code(t[n]))
                   /\ \A i \in 1 .. Len(Code(t[n])) : Encode(t)[at[n - 1] + i] = Code(t[n])[i]
<1> DEFINE L == Len(t)
           E == Encode(t)
<1>0. L \in Nat /\ \A n \in 1 .. L : t[n] \in Typable
  OBVIOUS
<1>1. PICK e \in [0 .. L -> Seq(Sent)] :
        /\ e[0] = <<>> /\ E = e[L]
        /\ \A n \in 1 .. L : e[n] = e[n - 1] \o Code(t[n])
  BY EncodeSteps
<1>2. E \in Seq(Sent)
  BY <1>0, <1>1
<1> DEFINE Prefix(n) == /\ Len(e[n]) <= Len(E)
                        /\ \A i \in 1 .. Len(e[n]) : E[i] = e[n][i]
           Placed(n) == /\ Len(e[n]) = Len(e[n - 1]) + Len(Code(t[n]))
                        /\ \A i \in 1 .. Len(Code(t[n])) :
                             E[Len(e[n - 1]) + i] = Code(t[n])[i]
           T == {k \in 0 .. L : Prefix(L - k)}
<1> HIDE DEF E, L
<1>3. 0 \in T
  <2>1. Len(E) \in Nat
    BY <1>2
  <2>2. Prefix(L)
    BY <1>1, <2>1
  <2> QED BY <1>0, <2>2
<1>4. ASSUME NEW n \in 1 .. L, Prefix(n) PROVE Prefix(n - 1) /\ Placed(n)
  <2>1. n \in 1 .. L /\ n - 1 \in 0 .. L
    BY <1>0
  <2>2. Prefix(n)
    BY <1>4
  <2>3. e[n - 1] \in Seq(Sent) /\ Code(t[n]) \in Seq(Sent) /\ t[n] \in Typable
    BY <1>0, <1>1, <2>1, CodeSent
  <2>4. e[n] = e[n - 1] \o Code(t[n])
    BY <1>1, <2>1
  <2>5. PICK x \in Nat, y \in Nat : x = Len(e[n - 1]) /\ y = Len(Code(t[n]))
    BY <2>3
  <2>a. /\ Len(e[n]) = x + y
        /\ \A i \in 1 .. x + y :
             e[n][i] = IF i <= x THEN e[n - 1][i] ELSE Code(t[n])[i - x]
    <3> DEFINE u == e[n - 1]
               v == Code(t[n])
    <3>1. u \in Seq(Sent) /\ v \in Seq(Sent) /\ e[n] = u \o v /\ x = Len(u) /\ y = Len(v)
      BY <2>3, <2>4, <2>5
    <3> HIDE DEF u, v
    <3>2. /\ Len(u \o v) = x + y
          /\ \A i \in 1 .. x + y : (u \o v)[i] = IF i <= x THEN u[i] ELSE v[i - x]
      BY <3>1, ConcatProperties
    <3> QED BY <3>1, <3>2 DEF u, v
  <2>b. Len(E) \in Nat /\ x + y <= Len(E) /\ \A i \in 1 .. x + y : E[i] = e[n][i]
    BY <1>2, <2>2, <2>a
  <2>6. Prefix(n - 1)
    <3>1. ASSUME NEW i \in 1 .. x PROVE E[i] = e[n - 1][i]
      <4>1. i \in 1 .. x + y /\ i <= x
        OBVIOUS
      <4> QED BY <2>a, <2>b, <4>1
    <3>2. x <= Len(E)
      BY <2>b
    <3> QED BY <2>5, <3>1, <3>2
  <2>7. \A i \in 1 .. y : E[x + i] = Code(t[n])[i]
    <3> SUFFICES ASSUME NEW i \in 1 .. y PROVE E[x + i] = Code(t[n])[i]
      OBVIOUS
    <3>1. x + i \in 1 .. x + y /\ ~ (x + i <= x) /\ (x + i) - x = i
      OBVIOUS
    <3> QED BY <2>a, <2>b, <3>1
  <2> QED BY <2>5, <2>6, <2>7, <2>a
<1>5. ASSUME NEW k \in 0 .. L - 1, k \in T PROVE k + 1 \in T
  <2>1. L - k \in 1 .. L /\ Prefix(L - k) /\ (L - k) - 1 = L - (k + 1) /\ k + 1 \in 0 .. L
    BY <1>0, <1>5
  <2>2. Prefix((L - k) - 1)
    BY <1>4, <2>1
  <2> QED BY <2>1, <2>2
<1>6. \A k \in 0 .. L : k \in T
  <2> HIDE DEF T
  <2> QED BY <1>0, <1>3, <1>5, IntervalInduction
<1>7. ASSUME NEW n \in 0 .. L PROVE Prefix(n)
  <2>1. L - n \in 0 .. L /\ L - (L - n) = n
    BY <1>0
  <2>2. L - n \in T
    BY <1>6, <2>1
  <2> QED BY <2>1, <2>2
<1>8. ASSUME NEW n \in 1 .. L PROVE Placed(n)
  <2>1. n \in 0 .. L
    BY <1>0
  <2>2. Prefix(n)
    BY <1>7, <2>1
  <2> QED BY <1>4, <2>2
<1> DEFINE at == [n \in 0 .. L |-> Len(e[n])]
<1>9. at \in [0 .. L -> 0 .. Len(E)] /\ at[0] = 0 /\ at[L] = Len(E)
  <2>1. ASSUME NEW n \in 0 .. L PROVE Len(e[n]) \in 0 .. Len(E)
    <3>1. Len(e[n]) \in Nat /\ Len(E) \in Nat /\ Len(e[n]) <= Len(E)
      BY <1>1, <1>2, <1>7
    <3> QED BY <3>1
  <2> QED BY <1>0, <1>1, <2>1
<1>10. ASSUME NEW n \in 1 .. L
       PROVE  /\ at[n] = at[n - 1] + Len(Code(t[n]))
              /\ \A i \in 1 .. Len(Code(t[n])) : E[at[n - 1] + i] = Code(t[n])[i]
  <2>1. at[n] = Len(e[n]) /\ at[n - 1] = Len(e[n - 1])
    BY <1>0
  <2>2. Placed(n)
    BY <1>8
  <2> QED BY <2>1, <2>2
<1> HIDE DEF at
<1> QED BY <1>2, <1>9, <1>10 DEF E, L

\* What begins with the first m bytes of an encoded text is decoded to the beginning
\* of the text: an escape that is cut ends it (html_decode).
LEMMA DecodeFront ==
  ASSUME NEW t \in Seq(Plain), NEW m \in 0 .. Len(Encode(t))
  PROVE  \E k \in 0 .. Len(t) :
           /\ html_decode(SubSeq(Encode(t), 1, m)) = SubSeq(t, 1, k)
           /\ m = Len(Encode(t)) => k = Len(t)
<1> DEFINE L == Len(t)
           W == Encode(t)
           E == SubSeq(W, 1, m)
<1>0. L \in Nat /\ \A n \in 1 .. L : t[n] \in Plain
  OBVIOUS
<1>a. t \in Seq(Typable)
  <2>1. \A n \in 1 .. L : t[n] \in Typable
    BY <1>0 DEF Plain, Typable
  <2>2. t \in [1 .. L -> Typable]
    BY <2>1, LenProperties
  <2> QED BY <1>0, <2>2, SeqDef
<1>1. W \in Seq(Sent) /\ Len(W) \in Nat
  BY <1>a, EncodePlaced
<1>2. PICK at \in [0 .. L -> 0 .. Len(W)] :
        /\ at[0] = 0 /\ at[L] = Len(W)
        /\ \A n \in 1 .. L :
             /\ at[n] = at[n - 1] + Len(Code(t[n]))
             /\ \A i \in 1 .. Len(Code(t[n])) : W[at[n - 1] + i] = Code(t[n])[i]
  BY <1>a, EncodePlaced
<1> HIDE DEF W, L
<1>3. E \in Seq(Sent) /\ Len(E) = m /\ \A i \in 1 .. m : E[i] = W[i]
  BY <1>1 DEF W
<1> HIDE DEF E
<1>4. PICK d : /\ html_decode(E) = d[1]
               /\ \A n \in 1 .. m + 1 : d[n] = DecodedFrom(E, d, n)
  BY <1>3, DecodeSteps
<1>5. m \in Nat /\ m <= Len(W)
  BY <1>1 DEF W
<1>b. \A n \in 0 .. L : at[n] \in Nat
  BY <1>1, <1>2
\* k characters are whole.
<1>6. PICK k \in 0 .. L : at[k] <= m /\ (k = L \/ at[k + 1] > m)
  <2> SUFFICES ASSUME \A n \in 0 .. L : at[n] <= m => n # L /\ ~ (at[n + 1] > m)
               PROVE  FALSE
    OBVIOUS
  <2> DEFINE T == {n \in 0 .. L : at[n] <= m}
  <2>1. 0 \in T
    BY <1>0, <1>2, <1>5
  <2>2. ASSUME NEW n \in 0 .. L - 1, n \in T PROVE n + 1 \in T
    <3>1. n \in 0 .. L /\ n + 1 \in 0 .. L /\ at[n + 1] \in Nat
      BY <1>0, <1>1, <1>2
    <3> QED BY <1>5, <2>2, <3>1
  <2> HIDE DEF T
  <2>3. L \in T
    <3>1. L \in 0 .. L
      BY <1>0
    <3> QED BY <1>0, <2>1, <2>2, <3>1, IntervalInduction
  <2> QED BY <2>3 DEF T
<1>7. m = Len(W) => k = L
  <2> SUFFICES ASSUME m = Len(W), k # L PROVE FALSE
    OBVIOUS
  <2>1. k + 1 \in 0 .. L
    BY <1>0
  <2>2. at[k + 1] \in 0 .. Len(W)
    BY <1>2, <2>1
  <2> QED BY <1>1, <1>6, <2>2
<1> DEFINE Back(n) == d[at[n] + 1] = SubSeq(t, n + 1, k)
           T == {j \in 0 .. k : Back(k - j)}
<1>8. 0 \in T
  <2> DEFINE p == at[k] + 1
  <2>1. at[k] \in Nat /\ p \in 1 .. m + 1 /\ d[p] = DecodedFrom(E, d, p)
    BY <1>1, <1>2, <1>4, <1>5, <1>6
  <2>2. d[p] = <<>>
    <3>1. CASE p > m
      BY <1>3, <2>1, <3>1 DEF DecodedFrom
    <3>2. CASE p <= m
      <4>1. k + 1 \in 1 .. L /\ (k + 1) - 1 = k /\ at[k + 1] > m
        <5>1. k # L
          <6>1. k = L => p = Len(W) + 1
            BY <1>2
          <6> QED BY <1>1, <1>5, <3>2, <6>1
        <5> QED BY <1>0, <1>6, <5>1
      <4>2. at[k + 1] = at[k] + Len(Code(t[k + 1])) /\ t[k + 1] \in Plain
        BY <1>0, <1>2, <4>1
      <4>3. t[k + 1] = "@"
        <5>1. t[k + 1] = "a" => Len(Code(t[k + 1])) = 1
          BY CodeSent
        <5>2. Len(Code(t[k + 1])) # 1
          <6>1. at[k] \in Nat /\ at[k] + 1 <= m /\ at[k + 1] > m /\ at[k + 1] \in Nat
            BY <1>b, <2>1, <3>2, <4>1
          <6>2. Len(Code(t[k + 1])) = 1 => at[k + 1] = at[k] + 1
            BY <4>2
          <6> HIDE DEF p
          <6> QED BY <1>5, <6>1, <6>2
        <5> QED BY <4>2, <5>1, <5>2 DEF Plain
      <4>4. Code(t[k + 1]) = <<"%", "4", "0">> /\ Len(Code(t[k + 1])) = 3
        BY <4>3, CodeSent
      <4>5. W[at[k] + 1] = "%"
        <5>1. \A i \in 1 .. 3 : W[at[k] + i] = Code(t[k + 1])[i]
          BY <1>2, <4>1, <4>4
        <5> QED BY <4>4, <5>1
      <4>6. E[p] = "%"
        BY <1>3, <2>1, <3>2, <4>5
      <4>7. Digit(E, p + 2) = -1
        BY <1>3, <1>5, <2>1, <4>1, <4>2, <4>4 DEF Digit
      <4> QED BY <1>3, <1>5, <2>1, <3>2, <4>6, <4>7 DEF DecodedFrom
    <3> QED BY <1>5, <2>1, <3>1, <3>2
  <2>3. SubSeq(t, k + 1, k) = <<>>
    BY <1>0, SubSeqEmpty
  <2>4. k - 0 = k /\ 0 \in 0 .. k
    BY <1>0
  <2> QED BY <2>2, <2>3, <2>4
<1>9. ASSUME NEW j \in 0 .. k - 1, j \in T PROVE j + 1 \in T
  <2> DEFINE n == k - j
  <2>1. n \in 1 .. k /\ n \in 1 .. L /\ n - 1 \in 0 .. L /\ k - (j + 1) = n - 1 /\ j + 1 \in 0 .. k
    BY <1>0
  <2>2. Back(n)
    BY <1>9
  <2> HIDE DEF n
  <2>3. t[n] \in Plain /\ Code(t[n]) \in Seq(Sent)
    BY <1>0, <2>1, CodeSent DEF Plain, Typable
  <2>4. PICK x \in Nat, y \in Nat : x = at[n - 1] /\ y = Len(Code(t[n])) /\ at[n] = x + y
    <3>1. at[n - 1] \in Nat
      BY <1>1, <1>2, <2>1
    <3> QED BY <1>2, <2>1, <2>3, <3>1
  <2>5. x + y <= m
    <3>1. ASSUME NEW i \in 1 .. L PROVE at[i - 1] <= at[i]
      <4>1. at[i] = at[i - 1] + Len(Code(t[i])) /\ Len(Code(t[i])) \in Nat /\ at[i - 1] \in Nat
        <5>1. i - 1 \in 0 .. L /\ t[i] \in Plain
          BY <1>0
        <5>2. at[i - 1] \in Nat
          BY <1>b, <5>1
        <5>3. Code(t[i]) \in Seq(Sent)
          BY <5>1, CodeSent DEF Plain, Typable
        <5>4. at[i] = at[i - 1] + Len(Code(t[i]))
          BY <1>2
        <5>5. Len(Code(t[i])) \in Nat
          BY <5>3
        <5> QED BY <5>2, <5>4, <5>5
      <4> QED BY <4>1
    <3> DEFINE Q == {i \in 0 .. k : at[k - i] <= m}
    <3>2. 0 \in Q
      BY <1>0, <1>6
    <3>3. ASSUME NEW i \in 0 .. k - 1, i \in Q PROVE i + 1 \in Q
      <4>1. k - i \in 1 .. L /\ (k - i) - 1 = k - (i + 1) /\ i + 1 \in 0 .. k
        BY <1>0
      <4>2. at[k - i] \in Nat /\ at[k - (i + 1)] \in Nat
        <5>1. k - i \in 0 .. L /\ k - (i + 1) \in 0 .. L
          BY <1>0
        <5> QED BY <1>b, <5>1
      <4>3. at[k - (i + 1)] <= at[k - i] /\ at[k - i] <= m
        BY <3>1, <3>3, <4>1
      <4> QED BY <1>5, <4>1, <4>2, <4>3
    <3> HIDE DEF Q
    <3>4. j \in Q
      <4>1. j \in 0 .. k /\ k \in Nat
        BY <1>0
      <4> QED BY <3>2, <3>3, <4>1, IntervalInduction
    <3> QED BY <2>4, <3>4 DEF Q, n
  <2> DEFINE p == x + 1
  <2>6. \A i \in 1 .. y : E[x + i] = Code(t[n])[i]
    <3> SUFFICES ASSUME NEW i \in 1 .. y PROVE E[x + i] = Code(t[n])[i]
      OBVIOUS
    <3>1. x + i \in 1 .. m
      BY <1>5, <2>5
    <3> QED BY <1>2, <1>3, <2>1, <2>4, <3>1
  <2>7. SubSeq(t, n, k) = <<t[n]>> \o SubSeq(t, n + 1, k)
    BY <1>0, <2>1, SubSeqRecursiveFirst DEF L
  <2>8. p \in 1 .. m + 1 /\ d[p] = DecodedFrom(E, d, p)
    BY <1>4, <1>5, <2>5
  <2>9. d[p] = SubSeq(t, n, k)
    <3>1. CASE t[n] = "a"
      <4>1. Code(t[n]) = <<"a">> /\ y = 1
        BY <2>4, <3>1, CodeSent
      <4>2. at[n] + 1 = p + 1 /\ p <= m
        BY <2>4, <2>5, <4>1
      <4>3. E[p] = "a"
        BY <2>6, <4>1
      <4>4. d[p] = <<"a">> \o d[p + 1]
        BY <1>3, <1>5, <2>8, <4>2, <4>3, SMTT(30) DEF DecodedFrom
      <4> QED BY <2>2, <2>7, <3>1, <4>2, <4>4
    <3>2. CASE t[n] = "@"
      <4>1. Code(t[n]) = <<"%", "4", "0">> /\ y = 3
        BY <2>4, <3>2, CodeSent
      <4>2. at[n] + 1 = p + 3 /\ p + 2 <= m
        BY <2>4, <2>5, <4>1
      <4>3. E[p] = "%" /\ E[p + 1] = "4" /\ E[p + 2] = "0"
        <5>1. E[x + 1] = "%" /\ E[x + 2] = "4" /\ E[x + 3] = "0"
          BY <2>6, <4>1
        <5>2. x + 2 = p + 1 /\ x + 3 = p + 2
          OBVIOUS
        <5> QED BY <5>1, <5>2
      <4>4. Digit(E, p + 1) = 4 /\ Digit(E, p + 2) = 0
        BY <1>3, <1>5, <4>2, <4>3 DEF Digit, char2hex
      <4>5. d[p] = <<"@">> \o d[p + 3]
        <5>1. ~ (p > Len(E))
          BY <1>3, <1>5, <4>2
        <5>2. <<Digit(E, p + 1), Digit(E, p + 2)>> = <<4, 0>>
          BY <4>4
        <5>3. Digit(E, p + 1) # -1 /\ Digit(E, p + 2) # -1
          BY <4>4
        <5> QED BY <2>8, <4>3, <5>1, <5>2, <5>3 DEF DecodedFrom
      <4> QED BY <2>2, <2>7, <3>2, <4>2, <4>5
    <3> QED BY <2>3, <3>1, <3>2 DEF Plain
  <2>10. Back(n - 1)
    <3>1. (n - 1) + 1 = n
      BY <2>1
    <3> QED BY <2>4, <2>9, <3>1
  <2> QED BY <2>1, <2>10
<1>10. k \in T
  <2>1. k \in 0 .. k /\ k \in Nat
    BY <1>0
  <2> HIDE DEF T
  <2> QED BY <1>8, <1>9, <2>1, IntervalInduction
<1>11. d[1] = SubSeq(t, 1, k)
  <2>1. k - k = 0 /\ at[0] + 1 = 1 /\ 0 + 1 = 1
    BY <1>0, <1>2
  <2>2. Back(k - k)
    BY <1>10
  <2> QED BY <2>1, <2>2
<1> QED BY <1>4, <1>7, <1>11 DEF E, W, L

Spaced(t) == \E i \in DOMAIN t : t[i] = " "

\* An encoded field is a sequence.
LEMMA EncodeType ==
  ASSUME NEW t \in Names
  PROVE  Encode(t) \in Seq(Sent) /\ (~ Spaced(t) => t \in Seq(Plain))
<1>1. t \in Seq(Typable)
  BY NamesAssumption DEF Typable
<1>2. DOMAIN t = 1 .. Len(t) /\ Len(t) \in Nat /\ \A i \in 1 .. Len(t) : t[i] \in Typable
  BY <1>1, LenProperties
<1>3. ASSUME ~ Spaced(t) PROVE t \in Seq(Plain)
  <2>1. \A i \in 1 .. Len(t) : t[i] \in Plain
    BY <1>2, <1>3, Zenon DEF Spaced, Plain, Typable
  <2>2. t \in [1 .. Len(t) -> Plain]
    BY <1>1, <1>2, <2>1, LenProperties
  <2> QED BY <1>2, <2>2, SeqDef
<1> QED BY <1>1, <1>3, EncodePlaced

\* The page of success is sent for a form that a POST of /result.htm carried, and
\* the network of that form is set.
LEMMA SuccessIsSet ==
  ASSUME NEW s, Receive(s), served'.answers # <<>>,
         served'.answers[Len(served'.answers)] = wifisuccess
  PROVE  /\ served'.seg = s /\ check_data(s)
         /\ Type(s) = "POST" /\ Uri(s) = "/result.htm"
         /\ network' = <<html_decode(Fields(s)[1]), html_decode(Fields(s)[2])>>
<1>1. served' = [seg |-> s, cut |-> cut,
                 answers |-> IF check_data(s) THEN Answers(s) ELSE <<>>]
  BY DEF Receive
<1>2. served'.seg = s /\ check_data(s) /\ served'.answers = Answers(s)
  BY <1>1
<1>3. Answers(s)[Len(Answers(s))] = wifisuccess
  BY <1>2
<1>4. \A x : /\ Len(<<x>>) = 1 /\ <<x>>[1] = x
             /\ <<>> \o <<x>> = <<x>>
             /\ \A y : Len(<<y>> \o <<x>>) = 2 /\ (<<y>> \o <<x>>)[2] = x
  OBVIOUS
<1>5. <<>> \o <<>> = <<>> /\ <<BadRequest>> \o <<>> = <<BadRequest>>
  OBVIOUS
<1>6. /\ BadRequest # wifisuccess /\ wifisetting # wifisuccess /\ wififail # wifisuccess
  BY DEF BadRequest, wifisuccess, wifisetting, wififail
<1>7. Answers(s) # <<>>
  BY <1>2
<1>8. ASSUME NEW x, Handled(s) = <<x>> PROVE x = wifisuccess
  <2>1. Answers(s) = <<x>> \/ Answers(s) = <<BadRequest>> \o <<x>>
    BY <1>4, <1>8 DEF Answers
  <2>2. CASE Answers(s) = <<x>>
    <3>1. Answers(s)[Len(Answers(s))] = x
      BY <1>4, <2>2
    <3> QED BY <1>3, <3>1
  <2>3. CASE Answers(s) = <<BadRequest>> \o <<x>>
    <3>1. Answers(s)[Len(Answers(s))] = x
      BY <1>4, <2>3
    <3> QED BY <1>3, <3>1
  <2> QED BY <2>1, <2>2, <2>3
<1>9. Handled(s) # <<>>
  <2>1. SUFFICES ASSUME Handled(s) = <<>> PROVE FALSE
    OBVIOUS
  <2>2. Answers(s) = <<>> \/ Answers(s) = <<BadRequest>>
    BY <1>5, <2>1 DEF Answers
  <2> QED BY <1>3, <1>4, <1>6, <1>7, <2>2
<1>10. Handled(s) = <<wifisuccess>> /\ Type(s) = "POST" /\ Uri(s) = "/result.htm"
  <2>1. CASE Uri(s) \in {"/", "/setting.htm"}
    BY <1>6, <1>8, <1>9, <2>1 DEF Handled
  <2>2. CASE Uri(s) = "/result.htm"
    <3>1. Handled(s) = IF Type(s) = "POST"
                       THEN IF Accepts(s) THEN <<wifisuccess>> ELSE <<wififail>>
                       ELSE <<>>
      BY <2>2 DEF Handled
    <3> QED BY <1>6, <1>8, <1>9, <2>2, <3>1
  <2>3. CASE Uri(s) \notin {"/", "/setting.htm", "/result.htm"}
    BY <1>6, <1>8, <2>3 DEF Handled
  <2> QED BY <2>1, <2>2, <2>3
<1> QED BY <1>2, <1>10 DEF Receive

TypedInv == rest \in [Conns -> Rests] /\ NetworkIsTyped

\* The beginning of a field that parse_url keeps.
LEMMA UpToFront ==
  ASSUME NEW f \in Seq(Sent), NEW n \in Int
  PROVE  \E m \in 0 .. Len(f) : UpTo(f, n) = SubSeq(f, 1, m) /\ (n >= Len(f) => m = Len(f))
<1>1. Len(f) \in Nat
  OBVIOUS
<1>2. CASE n < 0
  <2>1. UpTo(f, n) = SubSeq(f, 1, n) /\ SubSeq(f, 1, n) = <<>> /\ SubSeq(f, 1, 0) = <<>>
    BY <1>1, <1>2, SubSeqEmpty DEF UpTo
  <2> QED BY <1>1, <1>2, <2>1
<1>3. CASE n >= 0 /\ n < Len(f)
  BY <1>1, <1>3 DEF UpTo
<1>4. CASE n >= Len(f)
  BY <1>1, <1>4 DEF UpTo
<1> QED BY <1>1, <1>2, <1>3, <1>4

\* A form is decoded to what was typed, or, if a uint8 cannot count it, to how that
\* begins.
LEMMA FormIsSet ==
  ASSUME NEW s \in Post, NEW n \in 1 .. 2, ~ Spaced(s.typed[n])
  PROVE  \/ html_decode(Fields(s)[n]) = s.typed[n]
         \/ /\ FormLength(s) >= 256
            /\ \E k \in 0 .. Len(s.typed[n]) :
                 html_decode(Fields(s)[n]) = SubSeq(s.typed[n], 1, k)
<1>1. PICK name \in Names, pass \in Names :
        s.typed = <<name, pass>> /\ s.form = <<Encode(name), Encode(pass)>>
  BY PostSegments
<1> DEFINE t == s.typed[n]
           x == Len(Encode(name))
           y == Len(Encode(pass))
<1>2. t \in Seq(Plain) /\ Encode(t) \in Seq(Sent) /\ s.form[n] = Encode(t)
  BY <1>1, EncodeType
<1>3. x \in Nat /\ y \in Nat
  BY <1>1, EncodeType
<1>4. FormLength(s) = 17 + x + y /\ Kept(s) = (17 + x + y) % 256
  BY <1>1 DEF FormLength, Kept
<1>5. Kept(s) \in Int /\ (FormLength(s) < 256 => Kept(s) = 17 + x + y)
  BY <1>3, <1>4
<1> DEFINE at == IF n = 1 THEN Kept(s) - 5 ELSE Kept(s) - 11 - x
<1>6. at \in Int /\ Fields(s)[n] = UpTo(Encode(t), at)
  BY <1>1, <1>2, <1>3, <1>5 DEF Fields
<1>7. FormLength(s) < 256 => at >= Len(Encode(t))
  BY <1>1, <1>3, <1>5
<1> HIDE DEF at, t
<1>8. PICK m \in 0 .. Len(Encode(t)) :
        Fields(s)[n] = SubSeq(Encode(t), 1, m) /\ (at >= Len(Encode(t)) => m = Len(Encode(t)))
  BY <1>2, <1>6, UpToFront
<1>9. PICK k \in 0 .. Len(t) :
        /\ html_decode(SubSeq(Encode(t), 1, m)) = SubSeq(t, 1, k)
        /\ m = Len(Encode(t)) => k = Len(t)
  BY <1>2, <1>8, DecodeFront
<1>10. html_decode(Fields(s)[n]) = SubSeq(t, 1, k)
  BY <1>8, <1>9
<1>11. CASE FormLength(s) < 256
  <2>1. k = Len(t)
    BY <1>7, <1>8, <1>9, <1>11
  <2> QED BY <1>2, <1>10, <2>1, SubSeqFull DEF t
<1>12. CASE FormLength(s) >= 256
  BY <1>10, <1>12 DEF t
<1>13. FormLength(s) \in Int
  BY <1>3, <1>4
<1> QED BY <1>11, <1>12, <1>13

LEMMA ReceiveKeepsTyped ==
  ASSUME NEW s \in Get \cup Post \cup {p.first : p \in Split} \cup Rests, Receive(s)
  PROVE  NetworkIsTyped'
<1> SUFFICES ASSUME served'.answers # <<>>,
                    served'.answers[Len(served'.answers)] = wifisuccess,
                    NEW n \in 1 .. 2, ~ Spaced(s.typed[n])
             PROVE  \/ network'[n] = s.typed[n]
                    \/ /\ FormLength(s) >= 256
                       /\ \E k \in 0 .. Len(s.typed[n]) :
                            network'[n] = SubSeq(s.typed[n], 1, k)
  BY SuccessIsSet, Zenon DEF NetworkIsTyped, Spaced
<1>1. /\ check_data(s) /\ Type(s) = "POST" /\ Uri(s) = "/result.htm"
      /\ network' = <<html_decode(Fields(s)[1]), html_decode(Fields(s)[2])>>
  BY SuccessIsSet
<1>2. CASE s \in Get
  <2>1. s.method = "GET"
    BY <1>2, GetSegments
  <2> QED BY <1>1, <2>1 DEF Type
<1>3. CASE s \in Post
  <2>1. network'[n] = html_decode(Fields(s)[n])
    BY <1>1
  <2> QED BY <1>3, <2>1, FormIsSet
<1>4. CASE s \in {p.first : p \in Split}
  <2>1. PICK p \in Split : s = p.first
    BY <1>4
  <2>2. p.first.head = TRUE /\ p.first.len = 2 /\ p.first.body \in 0 .. 1
    BY SplitSegments
  <2> QED BY <1>1, <2>1, <2>2 DEF check_data, NoLength
<1>5. CASE s \in Rests
  <2>1. s.hostAt = NoHost
    BY <1>5, RestSegments
  <2> QED BY <1>1, <2>1 DEF Type
<1> QED BY <1>2, <1>3, <1>4, <1>5

LEMMA TypedInit == WebInit => TypedInv
<1> SUFFICES ASSUME WebInit PROVE TypedInv
  OBVIOUS
<1>1. served.answers = <<BadRequest>> /\ BadRequest # wifisuccess
  BY DEF WebInit, BadRequest, wifisuccess
<1>2. served.answers[Len(served.answers)] = BadRequest
  BY <1>1
<1> QED BY <1>1, <1>2 DEF WebInit, TypedInv, NetworkIsTyped, Rests

LEMMA TypedStep == TypedInv /\ [WebNext]_webVars => TypedInv'
<1> SUFFICES ASSUME TypedInv, [WebNext]_webVars PROVE TypedInv'
  OBVIOUS
<1>1. CASE WholeRequest
  BY <1>1, ReceiveKeepsTyped DEF WholeRequest, TypedInv
<1>2. CASE \E c \in Conns : FirstSegment(c)
  <2>1. PICK c \in Conns, p \in Split :
          Receive(p.first) /\ rest' = [rest EXCEPT ![c] = p.second]
    BY <1>2 DEF FirstSegment
  <2>2. rest' \in [Conns -> Rests]
    BY <2>1 DEF TypedInv, Rests
  <2>3. p.first \in {q.first : q \in Split}
    OBVIOUS
  <2>4. NetworkIsTyped'
    BY <2>1, <2>3, ReceiveKeepsTyped
  <2> QED BY <2>2, <2>4 DEF TypedInv
<1>3. CASE \E c \in Conns : SecondSegment(c)
  <2>1. PICK c \in Conns :
          Receive(rest[c]) /\ rest' = [rest EXCEPT ![c] = Nothing]
    BY <1>3 DEF SecondSegment
  <2>2. rest' \in [Conns -> Rests] /\ rest[c] \in Rests
    BY <2>1 DEF TypedInv, Rests
  <2> QED BY <2>1, <2>2, ReceiveKeepsTyped DEF TypedInv
<1>4. CASE \E c \in Conns : Closed(c)
  <2>1. rest' \in [Conns -> Rests]
    BY <1>4 DEF Closed, TypedInv, Rests
  <2> QED BY <1>4, <2>1 DEF Closed, TypedInv, NetworkIsTyped
<1>5. CASE UNCHANGED webVars
  BY <1>5 DEF webVars, TypedInv, NetworkIsTyped
<1> QED BY <1>1, <1>2, <1>3, <1>4, <1>5 DEF WebNext

\* user_wifi_set is called with the name and the password that one form carried, as
\* they were typed into it, html_decode (user_webserver.c) undoing what the browser
\* did to them - but for fields with a space.  A form of 256 bytes or more is cut by
\* parse_url, and sets, if it sets a network at all, how its fields begin.
THEOREM NetworkTyped == WebSpec => []NetworkIsTyped
<1>1. TypedInv => NetworkIsTyped
  BY DEF TypedInv
<1> QED BY <1>1, TypedInit, TypedStep, PTL DEF WebSpec

-----------------------------------------------------------------------------
(* The update *)

\* Some URL that user_ota_start accepts.
FromUrl(request) ==
  \E u \in Urls : WellFormed(u) /\ request.name = u.host /\ request.path = u.path

Lookup == [entry : DnsEntries, url : Urls, disturbed : BOOLEAN]

\* A lookup that no later message disturbed is for the URL that ota_path is of.
UrlInv ==
  /\ lookups \subseteq Lookup
  /\ \A l \in lookups : ~ l.disturbed => WellFormed(l.url) /\ ota_path = l.url.path
  /\ asked = NoRequest \/ asked.disturbed \/ FromUrl(asked)

\* A URL that is accepted replaces ota_path and disturbs the lookups under way.
LEMMA StartKeeps ==
  ASSUME UrlInv, NEW u \in Urls, user_ota_start(u)
  PROVE  UrlInv'
<1> DEFINE others == {[l EXCEPT !.disturbed = TRUE] : l \in lookups}
<1>1. asked' = asked
  BY DEF user_ota_start
<1>2. CASE ~ WellFormed(u)
  <2>1. lookups' = lookups /\ ota_path' = ota_path
    BY <1>2 DEF user_ota_start, PathStored
  <2> QED BY <1>1, <2>1 DEF UrlInv, FromUrl
<1>3. CASE WellFormed(u)
  <2>1. ota_path' = u.path
    BY <1>3 DEF user_ota_start, PathStored
  <2>2. ASSUME NEW l \in lookups'
        PROVE  l \in others \/ \E e \in DnsEntries : l = [entry |-> e, url |-> u, disturbed |-> FALSE]
    BY <1>3 DEF user_ota_start, LookUp
  <2>3. \A l \in Lookup :
          /\ [l EXCEPT !.disturbed = TRUE] \in Lookup
          /\ [l EXCEPT !.disturbed = TRUE].disturbed
    BY DEF Lookup
  <2>4. ASSUME NEW l \in lookups'
        PROVE  /\ l \in Lookup
               /\ ~ l.disturbed => l.url = u
    <3>1. CASE l \in others
      BY <3>1, <2>3 DEF UrlInv
    <3>2. CASE \E e \in DnsEntries : l = [entry |-> e, url |-> u, disturbed |-> FALSE]
      BY <3>2 DEF Lookup
    <3> QED BY <2>2, <3>1, <3>2
  <2> QED BY <1>1, <1>3, <2>1, <2>4 DEF UrlInv, FromUrl
<1> QED BY <1>2, <1>3

\* The request that goes out is for the host that was looked up.
LEMMA FoundKeeps ==
  ASSUME UrlInv, NEW l \in lookups, user_ota_dns_found(l)
  PROVE  UrlInv'
<1>1. lookups' \subseteq lookups /\ ota_path' = ota_path
  BY DEF user_ota_dns_found
<1>2. asked' = asked \/ asked' = Request(l)
  BY DEF user_ota_dns_found, UpgradeStarts, UpgradeRefused
<1>3. Request(l).disturbed \/ FromUrl(Request(l))
  <2>1. l.url \in Urls /\ l.disturbed \in BOOLEAN
    BY DEF UrlInv, Lookup
  <2>2. /\ Request(l).name = l.url.host /\ Request(l).path = ota_path
        /\ Request(l).disturbed = l.disturbed
    BY DEF Request
  <2>3. ~ l.disturbed => WellFormed(l.url) /\ ota_path = l.url.path
    BY DEF UrlInv
  <2> QED BY <2>1, <2>2, <2>3 DEF FromUrl
<1>4. asked' = NoRequest \/ asked'.disturbed \/ FromUrl(asked')
  BY <1>2, <1>3 DEF UrlInv
<1> QED BY <1>1, <1>4 DEF UrlInv, FromUrl

LEMMA UrlStep == UrlInv /\ [OtaNext]_otaVars => UrlInv'
<1> SUFFICES ASSUME UrlInv, [OtaNext]_otaVars PROVE UrlInv'
  OBVIOUS
<1>1. CASE \E u \in Urls : user_ota_start(u)
  BY <1>1, StartKeeps
<1>2. CASE \E l \in lookups : user_ota_dns_found(l)
  BY <1>2, FoundKeeps
<1>3. CASE \E l \in lookups : LookUpFails(l)
  BY <1>3 DEF LookUpFails, UrlInv, FromUrl
<1>4. CASE \E flag \in BOOLEAN : ota_finished_callback(flag)
  BY <1>4 DEF ota_finished_callback, UrlInv, FromUrl
<1>5. CASE Reboots
  BY <1>5 DEF Reboots, UrlInv, FromUrl
<1>6. CASE UNCHANGED otaVars
  BY <1>6 DEF otaVars, UrlInv, FromUrl
<1> QED BY <1>1, <1>2, <1>3, <1>4, <1>5, <1>6 DEF OtaNext

\* The path that ota_start_Upgrade (user_update.c) asks a host for is the path of
\* that host's URL, which user_ota_start accepted, unless a later URL was
\* accepted while the host's name was looked up.
THEOREM OneUrl == OtaSpec => []OneUrlPerRequest
<1>1. OtaInit => UrlInv
  BY DEF OtaInit, UrlInv
<1>2. UrlInv => OneUrlPerRequest
  BY DEF UrlInv, FromUrl, OneUrlPerRequest
<1> QED BY <1>1, <1>2, UrlStep, PTL DEF OtaSpec

LEMMA BlocksStep == OtaTypeOK /\ [OtaNext]_otaVars => OtaTypeOK'
<1> SUFFICES ASSUME OtaTypeOK, [OtaNext]_otaVars PROVE OtaTypeOK'
  OBVIOUS
<1> USE DEF OtaTypeOK
<1>1. CASE \E u \in Urls : user_ota_start(u)
  BY <1>1 DEF user_ota_start, PathStored
<1>2. ASSUME NEW l \in lookups, user_ota_dns_found(l) PROVE OtaTypeOK'
  <2>1. UNCHANGED <<domain, ota_path, otaReboot>> /\ otaLogo' \in 0 .. 1
    BY <1>2 DEF user_ota_dns_found
  <2>2. CASE UpgradeRefused
    BY <2>1, <2>2 DEF UpgradeRefused
  <2>3. CASE UpgradeStarts(l) /\ ota_path # NoPath
    <3>1. Request(l) # NoRequest
      BY <2>3 DEF Request, NoRequest
    <3> QED BY <2>1, <2>3, <3>1 DEF UpgradeStarts
  <2> QED BY <1>2, <2>2, <2>3 DEF user_ota_dns_found
<1>3. CASE \E l \in lookups : LookUpFails(l)
  BY <1>3 DEF LookUpFails
<1>4. CASE \E flag \in BOOLEAN : ota_finished_callback(flag)
  BY <1>4 DEF ota_finished_callback, Left
<1>5. CASE Reboots
  <2>1. /\ domain' = "NULL" /\ ota_path' = NoPath /\ update' = NoRequest
        /\ blocks' = 0 /\ otaLogo' = 1 /\ otaReboot' = FALSE
    BY <1>5 DEF Reboots
  <2>2. NoPath \in {NoPath} \cup {u.path : u \in Urls} /\ 1 \in 0 .. 1
    OBVIOUS
  <2> QED BY <2>1, <2>2, Zenon
<1>6. CASE UNCHANGED otaVars
  BY <1>6 DEF otaVars
<1> QED BY <1>1, <1>2, <1>3, <1>4, <1>5, <1>6 DEF OtaNext

\* The blocks of ota_start_Upgrade (user_update.c) are allocated exactly while a
\* download is under way: ota_finished_callback frees them once, whether it
\* succeeded or failed, and a start that is refused leaves none.
THEOREM UpdateFreesOnce == OtaSpec => []OtaTypeOK
<1>1. OtaInit => OtaTypeOK
  <2>1. NoPath \in {NoPath} \cup {u.path : u \in Urls} /\ 1 \in 0 .. 1
    OBVIOUS
  <2> QED BY <2>1, Zenon DEF OtaInit, OtaTypeOK
<1> QED BY <1>1, BlocksStep, PTL DEF OtaSpec

-----------------------------------------------------------------------------
(* The codec: headers *)

Octet == 0 .. 255

\* The length in a header of one or two bytes.
LEMMA TotalOfTwo ==
  ASSUME NEW b, NEW n, LengthEnd(b, n) = 2, b[2] \in Octet
  PROVE  mqtt_get_total_length(b, n) = 2 + (b[2] % 128)
<1> DEFINE F(g) == g = [i \in 2 .. 3 |-> IF i > 2 THEN 0 ELSE (b[i] % 128) + 128 * g[i + 1]]
           f == [i \in 2 .. 3 |-> IF i > 2 THEN 0 ELSE b[2] % 128]
           said == CHOOSE g : F(g)
<1>1. b[2] % 128 \in Nat
  BY DEF Octet
<1>2. f[3] = 0 /\ f[2] = b[2] % 128 /\ f = [i \in 2 .. 3 |-> f[i]]
  OBVIOUS
<1> HIDE DEF f
<1>3. F(f)
  <2>1. f[2] = (b[2] % 128) + 128 * f[2 + 1]
    BY <1>1, <1>2
  <2>2. ASSUME NEW i \in 2 .. 3
        PROVE f[i] = IF i > 2 THEN 0 ELSE (b[i] % 128) + 128 * f[i + 1]
    <3>1. i = 2 \/ i = 3
      OBVIOUS
    <3> QED BY <1>2, <2>1, <3>1
  <2> QED BY <1>2, <2>2
<1>4. F(said)
  BY <1>3
<1>5. mqtt_get_total_length(b, n) = 2 + said[2]
  BY DEF mqtt_get_total_length
<1> HIDE DEF said
<1>6. said[3] = 0 /\ said[2] = (b[2] % 128) + 128 * said[2 + 1]
  BY <1>4
<1> QED BY <1>1, <1>5, <1>6

LEMMA TotalOfThree ==
  ASSUME NEW b, NEW n, LengthEnd(b, n) = 3, b[2] \in Octet, b[3] \in Octet
  PROVE  mqtt_get_total_length(b, n) = 3 + (b[2] % 128) + 128 * (b[3] % 128)
<1> DEFINE F(g) == g = [i \in 2 .. 4 |-> IF i > 3 THEN 0 ELSE (b[i] % 128) + 128 * g[i + 1]]
           x == b[2] % 128
           y == b[3] % 128
           f == [i \in 2 .. 4 |-> IF i = 4 THEN 0 ELSE IF i = 3 THEN y ELSE x + 128 * y]
           said == CHOOSE g : F(g)
<1>1. x \in Nat /\ y \in Nat
  BY DEF Octet
<1>2. f[4] = 0 /\ f[3] = y /\ f[2] = x + 128 * y /\ f = [i \in 2 .. 4 |-> f[i]]
  OBVIOUS
<1> HIDE DEF f
<1>3. F(f)
  <2>1. f[2] = x + 128 * f[2 + 1] /\ f[3] = y + 128 * f[3 + 1]
    BY <1>1, <1>2
  <2>2. ASSUME NEW i \in 2 .. 4
        PROVE f[i] = IF i > 3 THEN 0 ELSE (b[i] % 128) + 128 * f[i + 1]
    <3>1. i = 2 \/ i = 3 \/ i = 4
      OBVIOUS
    <3> QED BY <1>2, <2>1, <3>1
  <2> QED BY <1>2, <2>2
<1>4. F(said)
  BY <1>3
<1>5. mqtt_get_total_length(b, n) = 3 + said[2]
  BY DEF mqtt_get_total_length
<1> HIDE DEF said
<1>6. said[4] = 0 /\ said[2] = x + 128 * said[2 + 1] /\ said[3] = y + 128 * said[3 + 1]
  BY <1>4
<1> QED BY <1>1, <1>5, <1>6

\* p is a packet with this header and body, and e bytes of header.
IsPacket(p, e, body, type, qos) ==
  /\ p \in Seq(Octet) /\ e \in 2 .. 3 /\ LengthEnd(p, Len(p)) = e
  /\ Len(p) = e + Len(body)
  /\ \A k \in 1 .. Len(body) : p[e + k] = body[k]
  /\ mqtt_get_total_length(p, Len(p)) = Len(p)
  /\ mqtt_get_type(p) = type /\ mqtt_get_qos(p) = qos

\* p is h and body, one behind the other.
Joined(p, h, body) ==
  /\ p \in Seq(Octet) /\ Len(p) = Len(h) + Len(body)
  /\ \A k \in 1 .. Len(h) : p[k] = h[k]
  /\ \A k \in 1 .. Len(body) : p[Len(h) + k] = body[k]

LEMMA Behind ==
  ASSUME NEW h \in Seq(Octet), NEW body \in Seq(Octet)
  PROVE  Joined(h \o body, h, body)
<1> DEFINE p == h \o body
<1>1. /\ Len(p) = Len(h) + Len(body) /\ Len(h) \in Nat /\ Len(body) \in Nat
      /\ \A i \in 1 .. Len(h) + Len(body) :
           p[i] = IF i <= Len(h) THEN h[i] ELSE body[i - Len(h)]
  BY ConcatProperties
<1>2. ASSUME NEW k \in 1 .. Len(body) PROVE p[Len(h) + k] = body[k]
  <2>1. Len(h) + k \in 1 .. Len(h) + Len(body) /\ ~ (Len(h) + k <= Len(h))
        /\ (Len(h) + k) - Len(h) = k
    BY <1>1
  <2> QED BY <1>1, <2>1
<1>3. ASSUME NEW k \in 1 .. Len(h) PROVE p[k] = h[k]
  BY <1>1
<1>4. p \in Seq(Octet)
  OBVIOUS
<1> HIDE DEF p
<1>5. Joined(p, h, body)
  BY <1>1, <1>2, <1>3, <1>4 DEF Joined
<1> QED BY <1>5 DEF p

LEMMA MinIs ==
  ASSUME NEW T, T \subseteq Int, NEW m \in T, \A i \in T : m <= i
  PROVE  Min(T) = m
<1>1. \A x \in T : (\A y \in T : x =< y) => x = m
  <2> SUFFICES ASSUME NEW x \in T, \A y \in T : x =< y PROVE x = m
    OBVIOUS
  <2>1. x =< m /\ m <= x /\ x \in Int /\ m \in Int
    OBVIOUS
  <2> QED BY <2>1
<1>2. Min(T) \in T /\ \A y \in T : Min(T) =< y
  BY DEF Min
<1> QED BY <1>1, <1>2

LEMMA FinishIs ==
  ASSUME NEW body \in Seq(Octet), Fits(body),
         NEW type \in 0 .. 15, NEW qos \in 0 .. 3, NEW retain \in 0 .. 1
  PROVE  /\ Finish(body, type, qos, retain) # Fail
         /\ \E e : IsPacket(Finish(body, type, qos, retain), e, body, type, qos)
<1> DEFINE n == Len(body)
           p == Finish(body, type, qos, retain)
           first == 16 * type + 2 * qos + retain
<1>1. n \in Nat /\ n < 128 * 128
  <2>1. n \in Nat
    OBVIOUS
  <2>2. 3 + n <= BufferLength
    BY DEF Fits
  <2> HIDE DEF n
  <2> QED BY <2>1, <2>2, CodecAssumption
<1>2. first \in Octet /\ first \div 16 = type /\ (first \div 2) % 4 = qos
  BY DEF Octet
<1>3. p = Header(first, n) \o body
  BY DEF Finish
<1> HIDE DEF n, p, first
<1>4. CASE n > 127
  <2> DEFINE h == <<first, 128 + (n % 128), n \div 128>>
  <2>1. /\ 128 + (n % 128) \in Octet /\ ~ (128 + (n % 128) < 128) /\ n \div 128 \in Octet
        /\ n \div 128 < 128 /\ (128 + (n % 128)) % 128 = n % 128
        /\ (n \div 128) % 128 = n \div 128 /\ (n % 128) + 128 * (n \div 128) = n
    BY <1>1, <1>4 DEF Octet
  <2>2. h \in Seq(Octet) /\ Len(h) = 3 /\ p = h \o body
    BY <1>2, <1>3, <1>4, <2>1 DEF Header
  <2>3. h[1] = first /\ h[2] = 128 + (n % 128) /\ h[3] = n \div 128
    OBVIOUS
  <2> HIDE DEF h
  <2>4. /\ p \in Seq(Octet) /\ Len(p) = 3 + n /\ \A k \in 1 .. n : p[3 + k] = body[k]
        /\ p[1] = first /\ p[2] = 128 + (n % 128) /\ p[3] = n \div 128
    <3>1. 1 \in 1 .. Len(h) /\ 2 \in 1 .. Len(h) /\ 3 \in 1 .. Len(h)
      BY <2>2
    <3>2. Joined(p, h, body)
      BY <2>2, Behind
    <3> QED BY <2>2, <2>3, <3>1, <3>2 DEF n, Joined
  <2>5. LengthEnd(p, Len(p)) = 3
    <3> DEFINE last == {i \in 1 .. Len(p) - 1 : p[i + 1] < 128}
    <3>1. 2 \in last
      <4>1. 2 \in 1 .. Len(p) - 1
        BY <1>1, <1>4, <2>4
      <4> QED BY <2>1, <2>4, <4>1
    <3>2. \A i \in last : 2 <= i
      <4>1. 1 \notin last
        BY <2>1, <2>4
      <4> QED BY <4>1
    <3>3. last \subseteq Int
      OBVIOUS
    <3>4. LengthEnd(p, Len(p)) = IF last = {} THEN Len(p) ELSE Min(last) + 1
      BY DEF LengthEnd
    <3> HIDE DEF last
    <3>5. Min(last) = 2
      BY <3>1, <3>2, <3>3, MinIs
    <3> QED BY <3>1, <3>4, <3>5
  <2>6. mqtt_get_total_length(p, Len(p)) = Len(p)
    <3>1. mqtt_get_total_length(p, Len(p)) = 3 + (p[2] % 128) + 128 * (p[3] % 128)
      <4>1. p[2] \in Octet /\ p[3] \in Octet
        BY <2>1, <2>4
      <4> QED BY <2>5, <4>1, TotalOfThree
    <3>2. p[2] % 128 = n % 128 /\ p[3] % 128 = n \div 128
      BY <2>1, <2>4
    <3>3. n % 128 \in Nat /\ n \div 128 \in Nat
      BY <1>1
    <3>4. mqtt_get_total_length(p, Len(p)) = 3 + ((n % 128) + 128 * (n \div 128))
      BY <3>1, <3>2, <3>3
    <3> QED BY <2>1, <2>4, <3>4
  <2>7. IsPacket(p, 3, body, type, qos)
    BY <1>2, <2>4, <2>5, <2>6 DEF IsPacket, mqtt_get_type, mqtt_get_qos, n
  <2> QED BY <1>1, <2>4, <2>7 DEF Fail, p
<1>5. CASE n <= 127
  <2> DEFINE h == <<first, n>>
  <2>1. n \in Octet /\ n < 128 /\ n % 128 = n
    BY <1>1, <1>5 DEF Octet
  <2>2. h \in Seq(Octet) /\ Len(h) = 2 /\ p = h \o body
    BY <1>2, <1>3, <1>1, <1>5, <2>1 DEF Header
  <2>3. h[1] = first /\ h[2] = n
    OBVIOUS
  <2> HIDE DEF h
  <2>4. /\ p \in Seq(Octet) /\ Len(p) = 2 + n /\ \A k \in 1 .. n : p[2 + k] = body[k]
        /\ p[1] = first /\ p[2] = n
    <3>1. 1 \in 1 .. Len(h) /\ 2 \in 1 .. Len(h)
      BY <2>2
    <3>2. Joined(p, h, body)
      BY <2>2, Behind
    <3> QED BY <2>2, <2>3, <3>1, <3>2 DEF n, Joined
  <2>5. LengthEnd(p, Len(p)) = 2
    <3> DEFINE last == {i \in 1 .. Len(p) - 1 : p[i + 1] < 128}
    <3>1. 1 \in last
      BY <1>1, <2>1, <2>4
    <3>2. \A i \in last : 1 <= i
      OBVIOUS
    <3>3. last \subseteq Int
      OBVIOUS
    <3>4. LengthEnd(p, Len(p)) = IF last = {} THEN Len(p) ELSE Min(last) + 1
      BY DEF LengthEnd
    <3> HIDE DEF last
    <3>5. Min(last) = 1
      BY <3>1, <3>2, <3>3, MinIs
    <3> QED BY <3>1, <3>4, <3>5
  <2>6. mqtt_get_total_length(p, Len(p)) = Len(p)
    BY <1>1, <2>1, <2>4, <2>5, TotalOfTwo
  <2>7. IsPacket(p, 2, body, type, qos)
    BY <1>2, <2>4, <2>5, <2>6 DEF IsPacket, mqtt_get_type, mqtt_get_qos, n
  <2> QED BY <1>1, <2>4, <2>7 DEF Fail, p
<1> QED BY <1>1, <1>4, <1>5

-----------------------------------------------------------------------------
(* The codec: strings *)

\* d is found in c behind the first o bytes.
Sits(c, o, d) == o + Len(d) <= Len(c) /\ \A k \in 1 .. Len(d) : c[o + k] = d[k]

LEMMA JoinedSits ==
  ASSUME NEW h \in Seq(Octet), NEW body \in Seq(Octet), NEW p, Joined(p, h, body)
  PROVE  Sits(p, 0, h) /\ Sits(p, Len(h), body)
<1>1. Len(h) \in Nat /\ Len(body) \in Nat /\ Len(p) = Len(h) + Len(body)
  BY DEF Joined
<1>2. \A k \in 1 .. Len(h) : p[0 + k] = h[k]
  <2> SUFFICES ASSUME NEW k \in 1 .. Len(h) PROVE p[0 + k] = h[k]
    OBVIOUS
  <2>1. 0 + k = k
    BY <1>1
  <2> QED BY <2>1 DEF Joined
<1> QED BY <1>1, <1>2 DEF Joined, Sits

\* Both are found again in what they are appended to form.
LEMMA AppendedSits ==
  ASSUME NEW h \in Seq(Octet), NEW body \in Seq(Octet)
  PROVE  /\ h \o body \in Seq(Octet) /\ Len(h \o body) = Len(h) + Len(body)
         /\ Sits(h \o body, 0, h) /\ Sits(h \o body, Len(h), body)
<1> DEFINE c == h \o body
<1>1. Joined(c, h, body)
  BY Behind
<1> HIDE DEF c
<1>2. Sits(c, 0, h) /\ Sits(c, Len(h), body)
  BY <1>1, JoinedSits
<1> QED BY <1>1, <1>2 DEF Joined, c

LEMMA AppendedToTwo ==
  ASSUME NEW h \in Seq(Octet), Len(h) = 2, NEW body \in Seq(Octet)
  PROVE  /\ h \o body \in Seq(Octet) /\ Len(h \o body) = 2 + Len(body)
         /\ Sits(h \o body, 0, h) /\ Sits(h \o body, 2, body)
BY AppendedSits

LEMMA SitsIn ==
  ASSUME NEW c \in Seq(Octet), NEW d \in Seq(Octet), NEW x \in Seq(Octet),
         NEW o \in Nat, NEW i \in Nat, Sits(c, o, d), Sits(d, i, x)
  PROVE  Sits(c, o + i, x)
<1>1. Len(c) \in Nat /\ Len(d) \in Nat /\ Len(x) \in Nat
  OBVIOUS
<1>2. o + i + Len(x) <= Len(c)
  BY <1>1 DEF Sits
<1>3. ASSUME NEW k \in 1 .. Len(x) PROVE c[o + i + k] = x[k]
  <2>1. i + k \in 1 .. Len(d) /\ o + (i + k) = o + i + k
    BY <1>1 DEF Sits
  <2>2. c[o + (i + k)] = d[i + k] /\ d[i + k] = x[k]
    BY <2>1 DEF Sits
  <2> QED BY <2>1, <2>2
<1> QED BY <1>2, <1>3 DEF Sits

\* What sits somewhere is the slice there.
LEMMA SliceIs ==
  ASSUME NEW c \in Seq(Octet), NEW d \in Seq(Octet), NEW o \in Nat, Sits(c, o, d)
  PROVE  Slice(c, o, Len(d)) = d
<1> DEFINE n == Len(d)
           t == Slice(c, o, n)
<1>1. n \in Nat /\ Len(c) \in Nat /\ o + n <= Len(c)
  BY DEF Sits
<1>2. t = SubSeq(c, o + 1, o + n)
  BY DEF Slice
<1>3. Len(t) = n /\ t \in Seq(Octet)
  BY <1>1, <1>2
<1>4. ASSUME NEW k \in 1 .. n PROVE t[k] = d[k]
  <2>1. t[k] = c[o + 1 + k - 1] /\ o + 1 + k - 1 = o + k
    BY <1>1, <1>2
  <2> QED BY <2>1 DEF Sits
<1> HIDE DEF t
<1>5. t = d
  BY <1>3, <1>4
<1> QED BY <1>5 DEF t

\* The greatest length two bytes hold.
Wide == 65535

LEMMA WideIs == Wide \in Nat /\ 300 <= Wide /\ BufferLength <= Wide /\ IdMod <= Wide + 1
BY CodecAssumption DEF Wide

LEMMA TwoIs ==
  ASSUME NEW n \in Nat, n <= Wide
  PROVE  /\ Two(n) \in Seq(Octet) /\ Len(Two(n)) = 2
         /\ Two(n)[1] * 256 + Two(n)[2] = n
<1>1. n \div 256 \in Octet /\ n % 256 \in Octet /\ (n \div 256) * 256 + (n % 256) = n
  BY DEF Octet, Wide
<1> QED BY <1>1 DEF Two

LEMMA TwoSits ==
  ASSUME NEW n \in Nat, n <= Wide, NEW c \in Seq(Octet), NEW o \in Nat, Sits(c, o, Two(n))
  PROVE  TwoAt(c, o) = n
<1>1. c[o + 1] = Two(n)[1] /\ c[o + 2] = Two(n)[2]
  <2>1. 1 \in 1 .. Len(Two(n)) /\ 2 \in 1 .. Len(Two(n))
    BY TwoIs
  <2> QED BY <2>1 DEF Sits
<1> QED BY <1>1, TwoIs DEF TwoAt

LEMMA FieldIs ==
  ASSUME NEW s \in Seq(Octet), Len(s) <= Wide
  PROVE  /\ Field(s) \in Seq(Octet) /\ Len(Field(s)) = 2 + Len(s)
         /\ Sits(Field(s), 0, Two(Len(s))) /\ Sits(Field(s), 2, s)
<1> DEFINE t == Two(Len(s))
<1>1. Len(s) \in Nat /\ Len(s) <= Wide
  OBVIOUS
<1>2. t \in Seq(Octet) /\ Len(t) = 2 /\ Field(s) = t \o s
  BY <1>1, TwoIs DEF Field
<1> HIDE DEF t
<1>3. Len(t \o s) = 2 + Len(s) /\ Sits(t \o s, 0, t) /\ Sits(t \o s, 2, s)
      /\ t \o s \in Seq(Octet)
  <2>1. t \in Seq(Octet) /\ s \in Seq(Octet) /\ Len(t) = 2
    BY <1>2
  <2> QED BY <2>1, AppendedToTwo
<1> QED BY <1>2, <1>3 DEF t

\* A string that was appended is read.
LEMMA FieldSits ==
  ASSUME NEW s \in Seq(Octet), Len(s) <= Wide, NEW c \in Seq(Octet), NEW o \in Nat,
         Sits(c, o, Field(s))
  PROVE  /\ TwoAt(c, o) = Len(s) /\ Slice(c, o + 2, Len(s)) = s
         /\ o + 2 + Len(s) <= Len(c)
<1> DEFINE f == Field(s)
           t == Two(Len(s))
<1>0. Len(s) \in Nat /\ Len(s) <= Wide
  OBVIOUS
<1>1. f \in Seq(Octet) /\ Len(f) = 2 + Len(s) /\ t \in Seq(Octet)
      /\ Sits(f, 0, t) /\ Sits(f, 2, s) /\ Sits(c, o, f)
  BY <1>0, FieldIs, TwoIs
<1> HIDE DEF f, t
<1>2. Sits(c, o + 0, t) /\ Sits(c, o + 2, s)
  BY <1>1, SitsIn
<1>3. o + 0 = o /\ o + 2 \in Nat
  OBVIOUS
<1>4. TwoAt(c, o) = Len(s)
  BY <1>0, <1>2, <1>3, TwoSits DEF t
<1>5. Slice(c, o + 2, Len(s)) = s
  BY <1>2, <1>3, SliceIs
<1>6. o + 2 + Len(s) <= Len(c)
  BY <1>2 DEF Sits
<1> QED BY <1>4, <1>5, <1>6

LEMMA PacketSits ==
  ASSUME NEW p, NEW e, NEW body \in Seq(Octet), NEW type, NEW qos,
         IsPacket(p, e, body, type, qos), NEW o \in Nat, NEW d \in Seq(Octet),
         Sits(body, o, d)
  PROVE  Sits(p, e + o, d)
<1>1. p \in Seq(Octet) /\ e \in Nat /\ Sits(p, e, body)
  BY DEF IsPacket, Sits
<1> QED BY <1>1, SitsIn

-----------------------------------------------------------------------------
(* The codec: PUBLISH *)

LEMMA NextIdIs == ASSUME message_id \in 0 .. IdMod - 1 PROVE NextId \in 1 .. IdMod - 1
<1> DEFINE n == (message_id + 1) % IdMod
<1>1. IdMod \in Nat /\ IdMod > 1
  BY CodecAssumption
<1>2. n \in 0 .. IdMod - 1
  <2>1. message_id + 1 \in Nat
    BY <1>1
  <2> QED BY <1>1, <2>1
<1>3. NextId = IF n = 0 THEN 1 ELSE n
  BY DEF NextId, Following
<1> HIDE DEF n
<1> QED BY <1>1, <1>2, <1>3

\* A PUBLISH, read back.
ReadsAs(p, topic, data, qos, id) ==
  /\ mqtt_get_total_length(p, Len(p)) = Len(p)
  /\ mqtt_get_type(p) = PUBLISH /\ mqtt_get_qos(p) = qos
  /\ mqtt_get_publish_topic(p, Len(p)) = topic
  /\ mqtt_get_publish_data(p, Len(p)) = data
  /\ qos > 0 /\ data # <<>> => mqtt_get_id(p, Len(p)) = id

LEMMA PublishIs ==
  ASSUME message_id \in 0 .. IdMod - 1,
         NEW topic \in Seq(Octet), topic # <<>>, NEW data \in Seq(Octet),
         NEW qos \in 0 .. 2, NEW retain \in 0 .. 1,
         3 + 2 + Len(topic) + Len(data) + (IF qos > 0 THEN 2 ELSE 0) <= BufferLength,
         NEW p, p = mqtt_msg_publish(topic, data, qos, retain)
  PROVE  ReadsAs(p, topic, data, qos, NextId)
<1> DEFINE f == Field(topic)
           id == IF qos > 0 THEN Two(NextId) ELSE <<>>
           x == f \o id
           body == x \o data
           n == Len(topic)
           k == Len(id)
           m == Len(data)
<1>1. /\ n \in Nat /\ n > 0 /\ m \in Nat /\ BufferLength \in Nat /\ BufferLength < 3 + 128 * 128
      /\ 3 + 2 + n + m <= BufferLength
  <2>1. n \in Nat /\ n > 0 /\ m \in Nat
    OBVIOUS
  <2> QED BY <2>1, CodecAssumption
<1>2. NextId \in Nat /\ NextId > 0 /\ NextId <= Wide
  BY NextIdIs, CodecAssumption, WideIs
<1>3. /\ f \in Seq(Octet) /\ Len(f) = 2 + n
  BY <1>1, WideIs, FieldIs
<1>4. /\ id \in Seq(Octet) /\ k = IF qos > 0 THEN 2 ELSE 0
  <2>1. CASE qos > 0
    BY <1>2, <2>1, TwoIs
  <2>2. CASE ~ (qos > 0)
    BY <2>2
  <2> QED BY <2>1, <2>2
<1>5. p = Finish(body, PUBLISH, qos, retain)
  BY DEF mqtt_msg_publish
<1>6. qos > 0 => id = Two(NextId)
  OBVIOUS
<1> HIDE DEF f, id
<1>7. Joined(x, f, id)
  BY <1>3, <1>4, Behind
<1>8. x \in Seq(Octet) /\ Len(x) = 2 + n + k /\ Sits(x, 0, f) /\ Sits(x, 2 + n, id)
  <2> HIDE DEF x
  <2>1. Sits(x, 0, f) /\ Sits(x, Len(f), id)
    BY <1>3, <1>4, <1>7, JoinedSits
  <2> QED BY <1>3, <1>4, <1>7, <2>1 DEF Joined
<1> HIDE DEF x
<1>9. Joined(body, x, data)
  BY <1>8, Behind
<1>10. body \in Seq(Octet) /\ Len(body) = 2 + n + k + m /\ Sits(body, 0, x)
       /\ Sits(body, 2 + n + k, data)
  <2> HIDE DEF body
  <2>1. Sits(body, 0, x) /\ Sits(body, Len(x), data)
    BY <1>8, <1>9, JoinedSits
  <2> QED BY <1>8, <1>9, <2>1 DEF Joined
<1> HIDE DEF body, k
<1>11. k \in Nat /\ 3 + 2 + n + m + k <= BufferLength
  BY <1>4, <1>1
<1>12. Sits(body, 0, f) /\ Sits(body, 2 + n, id)
  <2>1. Sits(body, 0 + 0, f) /\ Sits(body, 0 + (2 + n), id)
    BY <1>1, <1>3, <1>4, <1>8, <1>10, SitsIn
  <2>2. 0 + 0 = 0 /\ 0 + (2 + n) = 2 + n
    BY <1>1
  <2> QED BY <2>1, <2>2
<1>13. Fits(body)
  BY <1>1, <1>10, <1>11 DEF Fits
<1>14. PICK e : IsPacket(p, e, body, PUBLISH, qos)
  <2>1. PUBLISH \in 0 .. 15 /\ qos \in 0 .. 3
    BY DEF PUBLISH
  <2> QED BY <1>5, <1>10, <1>13, <2>1, FinishIs
<1> DEFINE L == Len(p)
<1>15. /\ p \in Seq(Octet) /\ e \in 2 .. 3 /\ L = e + 2 + n + k + m
       /\ LengthEnd(p, L) = e /\ mqtt_get_total_length(p, L) = L
       /\ mqtt_get_type(p) = PUBLISH /\ mqtt_get_qos(p) = qos
  BY <1>1, <1>10, <1>11, <1>14 DEF IsPacket
<1> HIDE DEF L
<1>16. Sits(p, e, f) /\ Sits(p, e + 2 + n, id) /\ Sits(p, e + 2 + n + k, data)
  <2>1. 0 \in Nat /\ 2 + n \in Nat /\ 2 + n + k \in Nat
    BY <1>1, <1>11
  <2>2. Sits(p, e + 0, f) /\ Sits(p, e + (2 + n), id) /\ Sits(p, e + (2 + n + k), data)
    BY <1>3, <1>4, <1>10, <1>12, <1>14, <2>1, PacketSits
  <2>3. e + 0 = e /\ e + (2 + n) = e + 2 + n /\ e + (2 + n + k) = e + 2 + n + k
    BY <1>1, <1>11, <1>15
  <2> QED BY <2>2, <2>3
<1>17. TwoAt(p, e) = n /\ Slice(p, e + 2, n) = topic
  <2>1. Len(topic) <= Wide /\ e \in Nat /\ Sits(p, e, Field(topic))
    BY <1>1, <1>15, <1>16, WideIs DEF f
  <2> QED BY <1>15, <2>1, FieldSits
<1>18. mqtt_get_publish_topic(p, L) = topic
  <2>1. e + 2 < L /\ e + 2 + n <= L
    BY <1>1, <1>11, <1>15
  <2> HIDE DEF n
  <2> QED BY <1>15, <1>17, <2>1 DEF mqtt_get_publish_topic, TopicFound
<1>19. DataAt(p, L) = IF m = 0 THEN -1 ELSE e + 2 + n + k
  <2> DEFINE j == e + 2 + n
  <2>1. DataAt(p, L) = IF j >= L THEN -1
                       ELSE IF qos = 0 THEN j ELSE IF j + 2 >= L THEN -1 ELSE j + 2
    <3>1. ~ (e + 2 >= L)
      BY <1>1, <1>11, <1>15
    <3>2. j = e + 2 + TwoAt(p, e)
      BY <1>17
    <3>3. j \in Nat /\ L \in Nat /\ (j >= L \/ j < L) /\ ~ (j >= L /\ j < L) /\ e + 2 < L
      BY <1>1, <1>11, <1>15, SMTT(30)
    <3> HIDE DEF j
    <3>4. CASE j >= L
      BY <1>15, <3>1, <3>2, <3>3, <3>4 DEF DataAt
    <3>5. CASE j < L
      BY <1>15, <3>1, <3>2, <3>3, <3>5 DEF DataAt
    <3> QED BY <3>3, <3>4, <3>5
  <2> QED BY <1>1, <1>4, <1>11, <1>15, <2>1, SMTT(30)
<1>20. mqtt_get_publish_data(p, L) = data
  <2>1. CASE m = 0
    <3>1. data = <<>>
      BY <2>1
    <3> QED BY <1>19, <2>1, <3>1 DEF mqtt_get_publish_data, NULL
  <2>2. CASE m > 0
    <3> DEFINE j == e + 2 + n + k
    <3>1. j \in Nat /\ L \in Nat /\ j # -1 /\ ~ (L < j) /\ L - j = m
      BY <1>1, <1>11, <1>15
    <3>2. DataEnd(p, L) = L
      <4> DEFINE T == {L, L}
      <4>1. L \in T /\ T \subseteq Int /\ \A i \in T : L <= i
        BY <3>1
      <4>2. DataEnd(p, L) = Min(T)
        BY <1>15 DEF DataEnd
      <4> HIDE DEF T
      <4> QED BY <4>1, <4>2, MinIs
    <3>3. DataAt(p, L) = j
      BY <1>1, <1>19, <2>2
    <3>4. Slice(p, j, m) = data
      BY <1>15, <1>16, <3>1, SliceIs
    <3> HIDE DEF j, m
    <3>5. mqtt_get_publish_data(p, L) = Slice(p, j, L - j)
      BY <1>15, <3>1, <3>2, <3>3 DEF mqtt_get_publish_data
    <3> QED BY <3>1, <3>4, <3>5
  <2> QED BY <1>1, <2>1, <2>2
<1>21. ASSUME qos > 0, data # <<>> PROVE mqtt_get_id(p, L) = NextId
  <2> DEFINE j == e + 2 + n
  <2>1. m > 0 /\ k = 2
    BY <1>4, <1>21
  <2>2. j \in Nat /\ L \in Nat /\ ~ (e + 2 >= L) /\ ~ (j + 2 >= L) /\ qos # 0
        /\ j = e + 2 + TwoAt(p, e)
    BY <1>1, <1>11, <1>15, <1>17, <1>21, <2>1, SMTT(30)
  <2>3. TwoAt(p, j) = NextId
    <3> DEFINE id2 == NextId
    <3>1. id2 \in Nat /\ id2 <= Wide /\ Sits(p, j, Two(id2))
      BY <1>2, <1>6, <1>16, <1>21
    <3> HIDE DEF id2, j
    <3>2. TwoAt(p, j) = id2
      BY <1>15, <2>2, <3>1, TwoSits
    <3> QED BY <3>2 DEF id2
  <2>4. PUBLISH \notin {PUBACK, PUBREC, PUBREL, PUBCOMP, SUBACK, UNSUBACK, SUBSCRIBE}
    BY DEF PUBLISH, PUBACK, PUBREC, PUBREL, PUBCOMP, SUBACK, UNSUBACK, SUBSCRIBE
  <2>5. mqtt_get_id(p, L) = IF e + 2 >= L THEN 0
                            ELSE IF qos = 0 \/ j + 2 >= L THEN 0 ELSE TwoAt(p, j)
    <3> HIDE DEF j
    <3> QED BY <1>15, <2>2, <2>4 DEF mqtt_get_id
  <2> QED BY <2>2, <2>3, <2>5
<1> QED BY <1>15, <1>18, <1>20, <1>21 DEF L, ReadsAs
-----------------------------------------------------------------------------
(* The codec: a packet that does not fit *)

LEMMA Longer ==
  ASSUME NEW x \in Seq(Nat), NEW y \in Seq(Nat)
  PROVE  x \o y \in Seq(Nat) /\ Len(x \o y) = Len(x) + Len(y)
BY ConcatProperties

LEMMA Octets == ASSUME NEW s \in Seq(Octet) PROVE s \in Seq(Nat) /\ Len(s) \in Nat
<1>1. Octet \subseteq Nat
  BY DEF Octet
<1>2. s \in Seq(Nat)
  BY ONLY s \in Seq(Octet), <1>1, SeqMonotonic, Zenon
<1> QED BY <1>2

\* The length of what is appended, whatever the string.
LEMMA FieldLength ==
  ASSUME NEW s \in Seq(Octet)
  PROVE  Field(s) \in Seq(Nat) /\ Len(Field(s)) = 2 + Len(s)
<1>1. Len(s) \in Nat /\ s \in Seq(Nat)
  BY Octets
<1> DEFINE n == Len(s)
<1> HIDE DEF n
<1>2. n \in Nat => n \div 256 \in Nat /\ n % 256 \in Nat
  OBVIOUS
<1>3. n \in Nat => Two(n) \in Seq(Nat) /\ Len(Two(n)) = 2
  BY <1>2 DEF Two
<1> DEFINE t == Two(n)
<1>4. n \in Nat /\ Field(s) = t \o s
  BY <1>1 DEF Field, n
<1> HIDE DEF t
<1>5. t \in Seq(Nat) /\ Len(t) = 2
  BY <1>3, <1>4 DEF t
<1>6. t \o s \in Seq(Nat) /\ Len(t \o s) = 2 + Len(s)
  BY <1>1, <1>5, Longer
<1> QED BY <1>4, <1>6

LEMMA PublishFails ==
  ASSUME message_id \in 0 .. IdMod - 1,
         NEW topic \in Seq(Octet), NEW data \in Seq(Octet),
         NEW qos \in 0 .. 2, NEW retain \in 0 .. 1,
         \/ topic = <<>>
         \/ 3 + 2 + Len(topic) + Len(data) + (IF qos > 0 THEN 2 ELSE 0) > BufferLength
  PROVE  mqtt_msg_publish(topic, data, qos, retain) = Fail
<1> DEFINE f == Field(topic)
           id == IF qos > 0 THEN Two(NextId) ELSE <<>>
           body == (f \o id) \o data
<1>1. NextId \in Nat
  BY NextIdIs, CodecAssumption
<1>2. f \in Seq(Nat) /\ Len(f) = 2 + Len(topic)
  BY FieldLength
<1>3. id \in Seq(Nat) /\ Len(id) = IF qos > 0 THEN 2 ELSE 0
  <2>1. NextId \div 256 \in Nat /\ NextId % 256 \in Nat
    BY <1>1
  <2> QED BY <2>1 DEF Two
<1>4. data \in Seq(Nat) /\ Len(topic) \in Nat /\ Len(data) \in Nat /\ BufferLength \in Nat
  BY Octets, CodecAssumption
<1>5. mqtt_msg_publish(topic, data, qos, retain) =
        IF topic = <<>> THEN Fail ELSE Finish(body, PUBLISH, qos, retain)
  BY DEF mqtt_msg_publish
<1> HIDE DEF f, id
<1>6. Len(body) = Len(f) + Len(id) + Len(data)
  <2>1. f \o id \in Seq(Nat) /\ Len(f \o id) = Len(f) + Len(id)
    BY <1>2, <1>3, Longer
  <2> QED BY <1>4, <2>1, Longer
<1> HIDE DEF body
<1>7. topic # <<>> => ~ Fits(body)
  BY <1>2, <1>3, <1>4, <1>6 DEF Fits
<1> QED BY <1>5, <1>7 DEF Finish
-----------------------------------------------------------------------------
(* The codec: CONNECT *)

\* The recursion of Ends, unfolded.
LEMMA EndsIs ==
  ASSUME NEW p, NEW start, NEW said
  PROVE  /\ Ends(p, start, said)[0] = start
         /\ \A n \in 1 .. 5 :
              Ends(p, start, said)[n] =
                IF n \notin said THEN Ends(p, start, said)[n - 1]
                ELSE Ends(p, start, said)[n - 1] + 2
                     + TwoAt(p, Ends(p, start, said)[n - 1])
<1> DEFINE Step(n, x) == IF n \notin said THEN x ELSE x + 2 + TwoAt(p, x)
           F(g) == g = [n \in 0 .. 5 |->
                          IF n = 0 THEN start
                          ELSE IF n \notin said THEN g[n - 1]
                          ELSE g[n - 1] + 2 + TwoAt(p, g[n - 1])]
           a1 == Step(1, start)
           a2 == Step(2, a1)
           a3 == Step(3, a2)
           a4 == Step(4, a3)
           f == [n \in 0 .. 5 |->
                   IF n = 0 THEN start ELSE IF n = 1 THEN a1 ELSE IF n = 2 THEN a2
                   ELSE IF n = 3 THEN a3 ELSE IF n = 4 THEN a4 ELSE Step(5, a4)]
           g == Ends(p, start, said)
<1> HIDE DEF a1, a2, a3, a4
<1>1. /\ f[0] = start /\ f[1] = a1 /\ f[2] = a2 /\ f[3] = a3 /\ f[4] = a4
      /\ f[5] = Step(5, a4) /\ f = [n \in 0 .. 5 |-> f[n]]
  OBVIOUS
<1> HIDE DEF f
<1>2. \A n \in 0 .. 5 : f[n] = IF n = 0 THEN start ELSE Step(n, f[n - 1])
  <2>1. a1 = Step(1, f[0]) /\ a2 = Step(2, f[1]) /\ a3 = Step(3, f[2]) /\ a4 = Step(4, f[3])
    BY <1>1 DEF a1, a2, a3, a4
  <2> HIDE DEF Step
  <2> SUFFICES ASSUME NEW n \in 0 .. 5
               PROVE f[n] = IF n = 0 THEN start ELSE Step(n, f[n - 1])
    OBVIOUS
  <2>2. n = 0 \/ n = 1 \/ n = 2 \/ n = 3 \/ n = 4 \/ n = 5
    OBVIOUS
  <2>3. 1 - 1 = 0 /\ 2 - 1 = 1 /\ 3 - 1 = 2 /\ 4 - 1 = 3 /\ 5 - 1 = 4
    OBVIOUS
  <2> QED BY <1>1, <2>1, <2>2, <2>3
<1>3. F(f)
  BY <1>1, <1>2
<1>4. g = CHOOSE at : F(at)
  BY DEF Ends
<1> HIDE DEF g
<1>5. F(g)
  BY <1>3, <1>4
<1>6. g[0] = start /\ \A n \in 1 .. 5 : g[n] = IF n \notin said THEN g[n - 1]
                                           ELSE g[n - 1] + 2 + TwoAt(p, g[n - 1])
  <2>1. \A n \in 0 .. 5 : g[n] = IF n = 0 THEN start
                                ELSE IF n \notin said THEN g[n - 1]
                                ELSE g[n - 1] + 2 + TwoAt(p, g[n - 1])
    BY <1>5
  <2>2. 0 \in 0 .. 5 /\ \A n \in 1 .. 5 : n \in 0 .. 5 /\ n # 0
    OBVIOUS
  <2> HIDE DEF F
  <2> QED BY <2>1, <2>2
<1> QED BY <1>6 DEF g

\* The flags, read back.
LEMMA BitsAre ==
  ASSUME NEW c \in 0 .. 1, NEW t \in 0 .. 1, NEW q \in 0 .. 3, NEW r \in 0 .. 1,
         NEW u \in 0 .. 1, NEW w \in 0 .. 1,
         NEW f, f = 2 * c + 4 * t + 8 * q + 32 * r + 128 * u + 64 * w
  PROVE  /\ f \in Octet /\ (f \div 4) % 2 = t /\ (f \div 128) % 2 = u
         /\ (f \div 64) % 2 = w
<1>2. f \in Octet
  BY DEF Octet
<1>3. f \div 4 = t + 2 * (q + 4 * r + 16 * u + 8 * w)
  OBVIOUS
<1>4. f \div 128 = u
  OBVIOUS
<1>5. f \div 64 = 2 * u + w
  OBVIOUS
<1> QED BY <1>2, <1>3, <1>4, <1>5

LEMMA AnnouncedIs ==
  ASSUME NEW info, info.will_qos \in 0 .. 2
  PROVE  /\ Flags(info) \in Octet
         /\ \A n \in 1 .. 5 : n \in Announced(Flags(info)) <=>
              \/ n = 1
              \/ n \in {2, 3} /\ Given(info.will_topic)
              \/ n = 4 /\ Given(info.username)
              \/ n = 5 /\ Given(info.password)
<1> DEFINE c == IF info.clean_session THEN 1 ELSE 0
           t == IF Given(info.will_topic) THEN 1 ELSE 0
           q == IF Given(info.will_topic) THEN info.will_qos ELSE 0
           r == IF Given(info.will_topic) /\ info.will_retain THEN 1 ELSE 0
           u == IF Given(info.username) THEN 1 ELSE 0
           w == IF Given(info.password) THEN 1 ELSE 0
           f == Flags(info)
<1>1. /\ c \in 0 .. 1 /\ t \in 0 .. 1 /\ q \in 0 .. 3 /\ r \in 0 .. 1
      /\ u \in 0 .. 1 /\ w \in 0 .. 1
  OBVIOUS
<1>2. f = 2 * c + 4 * t + 8 * q + 32 * r + 128 * u + 64 * w
  BY DEF Flags
<1>3. /\ t = 1 <=> Given(info.will_topic)
      /\ u = 1 <=> Given(info.username)
      /\ w = 1 <=> Given(info.password)
  OBVIOUS
<1> HIDE DEF c, t, q, r, u, w, f
<1>4. f \in Octet /\ (f \div 4) % 2 = t /\ (f \div 128) % 2 = u /\ (f \div 64) % 2 = w
  BY <1>1, <1>2, BitsAre
<1>5. FlagOf[2] = 4 /\ FlagOf[3] = 4 /\ FlagOf[4] = 128 /\ FlagOf[5] = 64
  BY DEF FlagOf
<1>6. /\ 1 \in Announced(f)
      /\ 2 \in Announced(f) <=> Given(info.will_topic)
      /\ 3 \in Announced(f) <=> Given(info.will_topic)
      /\ 4 \in Announced(f) <=> Given(info.username)
      /\ 5 \in Announced(f) <=> Given(info.password)
  BY <1>3, <1>4, <1>5 DEF Announced
<1> HIDE DEF Given
<1>7. ASSUME NEW n \in 1 .. 5
      PROVE n \in Announced(f) <=>
              \/ n = 1
              \/ n \in {2, 3} /\ Given(info.will_topic)
              \/ n = 4 /\ Given(info.username)
              \/ n = 5 /\ Given(info.password)
  <2>1. n = 1 \/ n = 2 \/ n = 3 \/ n = 4 \/ n = 5
    OBVIOUS
  <2> QED BY <1>6, <2>1
<1> QED BY <1>4, <1>7 DEF f
LEMMA SitsStill ==
  ASSUME NEW x \in Seq(Octet), NEW y \in Seq(Octet), NEW d \in Seq(Octet),
         NEW i \in Nat, Sits(x, i, d)
  PROVE  Sits(x \o y, i, d)
<1> DEFINE c == x \o y
<1>1. c \in Seq(Octet) /\ Sits(c, 0, x)
  BY AppendedSits
<1> HIDE DEF c
<1>2. Sits(c, 0 + i, d)
  BY <1>1, SitsIn
<1>3. 0 + i = i
  OBVIOUS
<1> QED BY <1>2, <1>3 DEF c

\* b is five sequences, one behind the other, of which the last four start at
\* i, j, k and l.
Five(b, h, f, w, u, v, i, j, k, l) ==
  /\ b \in Seq(Octet) /\ Len(b) = l + Len(v)
  /\ Sits(b, 0, h) /\ Sits(b, i, f) /\ Sits(b, j, w) /\ Sits(b, k, u) /\ Sits(b, l, v)

LEMMA FiveAppended ==
  ASSUME NEW h \in Seq(Octet), NEW f \in Seq(Octet), NEW w \in Seq(Octet),
         NEW u \in Seq(Octet), NEW v \in Seq(Octet),
         NEW b, b = h \o f \o w \o u \o v
  PROVE  Five(b, h, f, w, u, v, Len(h), Len(h) + Len(f), Len(h) + Len(f) + Len(w),
              Len(h) + Len(f) + Len(w) + Len(u))
<1> DEFINE x == h \o f
           y == x \o w
           z == y \o u
<1>0. Len(h) \in Nat /\ Len(f) \in Nat /\ Len(w) \in Nat /\ Len(u) \in Nat /\ Len(v) \in Nat
  OBVIOUS
<1>1. x \in Seq(Octet) /\ Len(x) = Len(h) + Len(f) /\ Sits(x, 0, h) /\ Sits(x, Len(h), f)
  BY AppendedSits
<1> HIDE DEF x
<1>2. y \in Seq(Octet) /\ Len(y) = Len(x) + Len(w) /\ Sits(y, Len(x), w)
      /\ Sits(y, 0, h) /\ Sits(y, Len(h), f)
  BY <1>0, <1>1, AppendedSits, SitsStill
<1> HIDE DEF y
<1>3. z \in Seq(Octet) /\ Len(z) = Len(y) + Len(u) /\ Sits(z, Len(y), u)
      /\ Sits(z, Len(x), w) /\ Sits(z, 0, h) /\ Sits(z, Len(h), f)
  <2>1. z \in Seq(Octet) /\ Len(z) = Len(y) + Len(u) /\ Sits(z, Len(y), u)
    BY <1>2, AppendedSits
  <2>2. Len(x) \in Nat
    BY <1>1
  <2>3. Sits(z, Len(x), w)
    BY <1>2, <2>2, SitsStill
  <2>4. Sits(z, 0, h) /\ Sits(z, Len(h), f)
    BY <1>0, <1>2, SitsStill
  <2> QED BY <2>1, <2>3, <2>4
<1>4. b = z \o v
  BY DEF x, y
<1> HIDE DEF z
<1>5. z \o v \in Seq(Octet) /\ Len(z \o v) = Len(z) + Len(v) /\ Sits(z \o v, Len(z), v)
      /\ Sits(z \o v, Len(y), u) /\ Sits(z \o v, Len(x), w) /\ Sits(z \o v, 0, h)
      /\ Sits(z \o v, Len(h), f)
  <2>1. z \o v \in Seq(Octet) /\ Len(z \o v) = Len(z) + Len(v) /\ Sits(z \o v, Len(z), v)
    BY <1>3, AppendedSits
  <2>2. Len(x) \in Nat /\ Len(y) \in Nat
    BY <1>1, <1>2
  <2>3. Sits(z \o v, Len(x), w)
    BY <1>3, <2>2, SitsStill
  <2>4. Sits(z \o v, Len(y), u)
    BY <1>3, <2>2, SitsStill
  <2>5. Sits(z \o v, 0, h) /\ Sits(z \o v, Len(h), f)
    BY <1>0, <1>3, SitsStill
  <2> QED BY <2>1, <2>3, <2>4, <2>5
<1>6. /\ Len(x) = Len(h) + Len(f) /\ Len(y) = Len(h) + Len(f) + Len(w)
      /\ Len(z) = Len(h) + Len(f) + Len(w) + Len(u)
  BY <1>0, <1>1, <1>2, <1>3
<1> QED BY <1>4, <1>5, <1>6 DEF Five

LEMMA FieldOfFour ==
  ASSUME NEW m \in Seq(Octet), Len(m) = 4
  PROVE  Field(m) \in Seq(Octet) /\ Len(Field(m)) = 6
<1>1. 4 \in Nat /\ 4 <= Wide
  BY WideIs
<1>2. Two(4) \in Seq(Octet) /\ Len(Two(4)) = 2 /\ Field(m) = Two(4) \o m
  BY <1>1, TwoIs DEF Field
<1> DEFINE t == Two(4)
           c == t \o m
<1>3. t \in Seq(Octet) /\ Len(t) = 2 /\ Field(m) = c
  BY <1>2
<1> HIDE DEF t
<1>4. Joined(c, t, m)
  BY <1>3, Behind
<1> HIDE DEF c
<1> QED BY <1>3, <1>4 DEF Joined

LEMMA ThreeAppended ==
  ASSUME NEW x \in Seq(Octet), NEW y \in Seq(Octet), NEW z \in Seq(Octet),
         Len(x) = 6, Len(y) = 2, Len(z) = 2
  PROVE  /\ x \o y \o z \in Seq(Octet) /\ Len(x \o y \o z) = 10
         /\ (x \o y \o z)[8] = y[2]
<1> DEFINE c == x \o y
           d == c \o z
<1>1. Joined(c, x, y)
  BY Behind
<1> HIDE DEF c
<1>2. c \in Seq(Octet) /\ Len(c) = 8 /\ c[6 + 2] = y[2]
  BY <1>1 DEF Joined
<1>3. Joined(d, c, z)
  BY <1>2, Behind
<1> HIDE DEF d
<1>4. d \in Seq(Octet) /\ Len(d) = 10 /\ d[8] = c[8]
  BY <1>2, <1>3 DEF Joined
<1> QED BY <1>2, <1>4 DEF c, d

\* What follows the header of a CONNECT up to its first string.
Start(info) == Field(<<77, 81, 84, 84>>) \o <<4, Flags(info)>> \o Two(info.keepalive)

LEMMA StartIs ==
  ASSUME NEW info, info.will_qos \in 0 .. 2, info.keepalive \in {120, 300}
  PROVE  /\ Start(info) \in Seq(Octet) /\ Len(Start(info)) = 10
         /\ Start(info)[8] = Flags(info)
<1> DEFINE m == <<77, 81, 84, 84>>
           F == Flags(info)
           B == <<4, F>>
           C == Two(info.keepalive)
<1>1. F \in Octet /\ 4 \in Octet
  BY AnnouncedIs DEF Octet
<1>2. m \in Seq(Octet) /\ Len(m) = 4
  BY DEF Octet
<1>3. C \in Seq(Octet) /\ Len(C) = 2
  <2>1. info.keepalive \in Nat /\ info.keepalive <= Wide
    BY WideIs
  <2> QED BY <2>1, TwoIs
<1> HIDE DEF F, m, C
<1>4. B \in Seq(Octet) /\ Len(B) = 2 /\ B[2] = F
  BY <1>1
<1> DEFINE A == Field(m)
<1>5. A \in Seq(Octet) /\ Len(A) = 6
  BY <1>2, FieldOfFour
<1>6. Start(info) = A \o B \o C
  BY DEF Start, m, F, C
<1> HIDE DEF A, B
<1>7. Start(info) \in Seq(Octet) /\ Len(Start(info)) = 10 /\ Start(info)[8] = B[2]
  <2> DEFINE b == A \o B \o C
  <2>1. b \in Seq(Octet) /\ Len(b) = 10 /\ b[8] = B[2]
    BY <1>3, <1>4, <1>5, ThreeAppended
  <2> HIDE DEF b
  <2> QED BY <1>6, <2>1 DEF b
<1> QED BY <1>4, <1>7 DEF F

\* One string of a CONNECT is read, or passed over.
IsRead(p, g, said, n, s) ==
  IF n \in said
  THEN /\ g[n] = g[n - 1] + 2 + Len(s)
       /\ Slice(p, g[n - 1] + 2, TwoAt(p, g[n - 1])) = s
  ELSE g[n] = g[n - 1]

LEMMA StringIsRead ==
  ASSUME NEW p \in Seq(Octet), NEW start, NEW said, NEW g, g = Ends(p, start, said),
         NEW n \in 1 .. 5, g[n - 1] \in Nat, NEW s \in Seq(Octet),
         n \in said => Len(s) <= Wide /\ Sits(p, g[n - 1], Field(s))
  PROVE  IsRead(p, g, said, n, s)
<1>1. g[n] = IF n \notin said THEN g[n - 1] ELSE g[n - 1] + 2 + TwoAt(p, g[n - 1])
  BY EndsIs, SMTT(30)
<1>2. CASE n \in said
  <2> DEFINE o == g[n - 1]
  <2>1. o \in Nat /\ Len(s) <= Wide /\ Sits(p, o, Field(s))
    BY <1>2
  <2> HIDE DEF o
  <2>2. TwoAt(p, o) = Len(s) /\ Slice(p, o + 2, Len(s)) = s
    BY <2>1, FieldSits
  <2> QED BY <1>1, <1>2, <2>2 DEF IsRead, o
<1>3. CASE n \notin said
  BY <1>1, <1>3 DEF IsRead
<1> QED BY <1>2, <1>3

\* The size of a CONNECT, and a connect_info as the client has it.
OptionalSize(s) == IF s = <<>> THEN 0 ELSE 2 + Len(s)
WillSize(info) == IF info.will_topic = <<>> THEN 0
                  ELSE 4 + Len(info.will_topic) + Len(info.will_message)
ConnectSize(info) == 3 + 10 + 2 + Len(info.client_id) + WillSize(info)
                     + OptionalSize(info.username) + OptionalSize(info.password)
IsInfo(info) ==
  /\ info.client_id \in Seq(Octet) /\ info.username \in Seq(Octet)
  /\ info.password \in Seq(Octet) /\ info.will_topic \in Seq(Octet)
  /\ info.will_message \in Seq(Octet) /\ info.will_qos \in 0 .. 2
  /\ info.keepalive \in {120, 300}

\* What follows the start of a CONNECT.
Optional(s) == IF Given(s) THEN Field(s) ELSE <<>>
Will(info) == IF Given(info.will_topic)
              THEN Field(info.will_topic) \o Field(info.will_message) ELSE <<>>
ConnectBody(info) == Start(info) \o Field(info.client_id) \o Will(info)
                     \o Optional(info.username) \o Optional(info.password)

LEMMA OptionalIs ==
  ASSUME NEW s \in Seq(Octet), OptionalSize(s) <= Wide
  PROVE  Optional(s) \in Seq(Octet) /\ Len(Optional(s)) = OptionalSize(s)
<1>1. CASE s = <<>>
  BY <1>1 DEF Optional, OptionalSize, Given
<1>2. CASE s # <<>>
  <2>1. Len(s) <= Wide
    BY <1>2, WideIs DEF OptionalSize
  <2> QED BY <1>2, <2>1, FieldIs DEF Optional, OptionalSize, Given
<1> QED BY <1>1, <1>2

LEMMA TwoFields ==
  ASSUME NEW s \in Seq(Octet), NEW t \in Seq(Octet), 4 + Len(s) + Len(t) <= Wide,
         NEW c, c = Field(s) \o Field(t)
  PROVE  /\ c \in Seq(Octet) /\ Len(c) = 4 + Len(s) + Len(t)
         /\ Len(s) <= Wide /\ Len(t) <= Wide
         /\ Sits(c, 0, Field(s)) /\ Sits(c, 2 + Len(s), Field(t))
<1> DEFINE x == Field(s)
           y == Field(t)
<1>1. Len(s) \in Nat /\ Len(t) \in Nat /\ Len(s) <= Wide /\ Len(t) <= Wide
  <2>1. Len(s) \in Nat /\ Len(t) \in Nat
    OBVIOUS
  <2> QED BY <2>1, WideIs
<1>2. x \in Seq(Octet) /\ Len(x) = 2 + Len(s) /\ y \in Seq(Octet) /\ Len(y) = 2 + Len(t)
  BY <1>1, FieldIs
<1> HIDE DEF x, y
<1> DEFINE z == x \o y
<1>6. Joined(z, x, y)
  BY <1>2, Behind
<1>7. z = c
  BY DEF x, y
<1> HIDE DEF z
<1>3. Joined(c, x, y)
  BY <1>6, <1>7
<1>4. Sits(c, 0, x) /\ Sits(c, Len(x), y)
  BY <1>2, <1>3, JoinedSits
<1>5. c \in Seq(Octet) /\ Len(c) = 4 + Len(s) + Len(t)
  BY <1>1, <1>2, <1>3 DEF Joined
<1> QED BY <1>1, <1>2, <1>4, <1>5 DEF x, y

LEMMA WillIs ==
  ASSUME NEW info, IsInfo(info), WillSize(info) <= Wide
  PROVE  /\ Will(info) \in Seq(Octet) /\ Len(Will(info)) = WillSize(info)
         /\ Given(info.will_topic) =>
              /\ Len(info.will_topic) <= Wide /\ Len(info.will_message) <= Wide
              /\ Sits(Will(info), 0, Field(info.will_topic))
              /\ Sits(Will(info), 2 + Len(info.will_topic), Field(info.will_message))
<1> DEFINE s == info.will_topic
           t == info.will_message
<1>0. s \in Seq(Octet) /\ t \in Seq(Octet)
  BY DEF IsInfo
<1>1. CASE ~ Given(s)
  <2>1. Will(info) = <<>> /\ WillSize(info) = 0
    BY <1>1 DEF Will, WillSize, Given
  <2> HIDE DEF Given
  <2> QED BY <1>1, <2>1
<1>2. CASE Given(s)
  <2>1. WillSize(info) = 4 + Len(s) + Len(t) /\ Will(info) = Field(s) \o Field(t)
    BY <1>2 DEF Will, WillSize, Given
  <2> DEFINE W == Will(info)
  <2>2. W = Field(s) \o Field(t) /\ 4 + Len(s) + Len(t) <= Wide
    BY <2>1
  <2> HIDE DEF s, t, W
  <2>3. /\ W \in Seq(Octet) /\ Len(W) = 4 + Len(s) + Len(t)
        /\ Len(s) <= Wide /\ Len(t) <= Wide
        /\ Sits(W, 0, Field(s)) /\ Sits(W, 2 + Len(s), Field(t))
    BY <1>0, <2>2, TwoFields
  <2> QED BY <2>1, <2>3 DEF s, t, W
<1> QED BY <1>1, <1>2

LEMMA ConnectMade ==
  ASSUME NEW info, Given(info.client_id)
  PROVE  mqtt_msg_connect(info) = Finish(ConnectBody(info), CONNECT, 0, 0)
BY DEF mqtt_msg_connect, ConnectBody, Start, Optional, Will

LEMMA PiecesSit ==
  ASSUME NEW h \in Seq(Octet), NEW f \in Seq(Octet), NEW w \in Seq(Octet),
         NEW u \in Seq(Octet), NEW v \in Seq(Octet),
         NEW n \in Nat, NEW i \in Nat, NEW j \in Nat, NEW k \in Nat,
         Len(h) = 10, Len(f) = 2 + n, Len(w) = i, Len(u) = j, Len(v) = k,
         NEW b, b = h \o f \o w \o u \o v
  PROVE  Five(b, h, f, w, u, v, 10, 12 + n, 12 + n + i, 12 + n + i + j)
<1>1. Five(b, h, f, w, u, v, Len(h), Len(h) + Len(f), Len(h) + Len(f) + Len(w),
           Len(h) + Len(f) + Len(w) + Len(u))
  BY FiveAppended
<1>2. /\ 10 + (2 + n) = 12 + n /\ 10 + (2 + n) + i = 12 + n + i
      /\ 10 + (2 + n) + i + j = 12 + n + i + j
  OBVIOUS
<1>3. Five(b, h, f, w, u, v, 10, 10 + (2 + n), 10 + (2 + n) + i, 10 + (2 + n) + i + j)
  BY <1>1
<1> QED BY <1>2, <1>3

LEMMA SizesAre ==
  ASSUME NEW info, IsInfo(info), ConnectSize(info) <= BufferLength
  PROVE  /\ Len(info.client_id) \in Nat /\ Len(info.client_id) <= Wide
         /\ WillSize(info) \in Nat /\ WillSize(info) <= Wide
         /\ OptionalSize(info.username) \in Nat /\ OptionalSize(info.username) <= Wide
         /\ OptionalSize(info.password) \in Nat /\ OptionalSize(info.password) <= Wide
<1>1. \A s \in Seq(Octet) : Len(s) \in Nat /\ OptionalSize(s) \in Nat
  BY DEF OptionalSize
<1>2. Len(info.client_id) \in Nat /\ OptionalSize(info.username) \in Nat
      /\ OptionalSize(info.password) \in Nat
  BY <1>1 DEF IsInfo
<1>3. WillSize(info) \in Nat
  <2> DEFINE s == Len(info.will_topic)
             t == Len(info.will_message)
  <2>1. s \in Nat /\ t \in Nat
    BY <1>1 DEF IsInfo
  <2>2. WillSize(info) = 0 \/ WillSize(info) = 4 + s + t
    BY DEF WillSize
  <2> HIDE DEF s, t
  <2> QED BY <2>1, <2>2
<1>4. BufferLength \in Nat
  BY CodecAssumption
<1> QED BY <1>2, <1>3, <1>4, WideIs, SMTT(30) DEF ConnectSize

LEMMA OptionalWide ==
  ASSUME NEW s \in Seq(Octet), Given(s), OptionalSize(s) <= Wide
  PROVE  Len(s) <= Wide /\ Optional(s) = Field(s)
<1>1. OptionalSize(s) = 2 + Len(s) /\ Optional(s) = Field(s)
  BY DEF Given, OptionalSize, Optional
<1>2. Len(s) \in Nat
  OBVIOUS
<1> QED BY <1>1, <1>2, WideIs

\* The body of a CONNECT that fits, and where its strings sit.
LEMMA BodyIs ==
  ASSUME NEW info, IsInfo(info), ConnectSize(info) <= BufferLength, NEW b,
         b = ConnectBody(info)
  PROVE  LET c == info.client_id
             o == 10 + 2 + Len(c)
             q == o + WillSize(info)
         IN /\ b \in Seq(Octet) /\ Fits(b)
            /\ Len(b) = q + OptionalSize(info.username) + OptionalSize(info.password)
            /\ b[8] = Flags(info)
            /\ Len(c) <= Wide /\ Sits(b, 10, Field(c))
            /\ Given(info.will_topic) =>
                 /\ Len(info.will_topic) <= Wide /\ Len(info.will_message) <= Wide
                 /\ Sits(b, o, Field(info.will_topic))
                 /\ Sits(b, o + 2 + Len(info.will_topic), Field(info.will_message))
            /\ Given(info.username) =>
                 Len(info.username) <= Wide /\ Sits(b, q, Field(info.username))
            /\ Given(info.password) =>
                 /\ Len(info.password) <= Wide
                 /\ Sits(b, q + OptionalSize(info.username), Field(info.password))
<1> DEFINE c == info.client_id
           h == Start(info)
           f == Field(c)
           w == Will(info)
           u == Optional(info.username)
           v == Optional(info.password)
           n == Len(c)
           i == WillSize(info)
           j == OptionalSize(info.username)
           k == OptionalSize(info.password)
<1>1. /\ n \in Nat /\ i \in Nat /\ j \in Nat /\ k \in Nat
      /\ n <= Wide /\ i <= Wide /\ j <= Wide /\ k <= Wide
  BY SizesAre
<1>2. /\ c \in Seq(Octet) /\ info.username \in Seq(Octet) /\ info.password \in Seq(Octet)
      /\ info.will_topic \in Seq(Octet) /\ info.will_message \in Seq(Octet)
  BY DEF IsInfo
<1>3. h \in Seq(Octet) /\ Len(h) = 10 /\ h[8] = Flags(info)
  BY StartIs DEF IsInfo
<1>4. f \in Seq(Octet) /\ Len(f) = 2 + n
  BY <1>1, <1>2, FieldIs
<1> DEFINE x == Field(info.will_topic)
           y == Field(info.will_message)
           m == Len(info.will_topic)
<1>5. /\ w \in Seq(Octet) /\ Len(w) = i
      /\ Given(info.will_topic) =>
           /\ m <= Wide /\ Len(info.will_message) <= Wide
           /\ Sits(w, 0, x) /\ Sits(w, 2 + m, y)
  BY <1>1, WillIs
<1>6. u \in Seq(Octet) /\ Len(u) = j
  BY <1>1, <1>2, OptionalIs
<1>7. v \in Seq(Octet) /\ Len(v) = k
  BY <1>1, <1>2, OptionalIs
<1>8. b = h \o f \o w \o u \o v
  BY DEF ConnectBody
<1>9. ConnectSize(info) = 3 + 10 + 2 + n + i + j + k
  BY DEF ConnectSize
<1>10. ASSUME Given(info.will_topic)
       PROVE m \in Nat /\ x \in Seq(Octet) /\ y \in Seq(Octet)
  <2>1. Len(info.will_topic) <= Wide /\ Len(info.will_message) <= Wide
    BY <1>5, <1>10
  <2>2. x \in Seq(Octet)
    BY <1>2, <2>1, FieldIs
  <2>3. y \in Seq(Octet)
    BY <1>2, <2>1, FieldIs
  <2> QED BY <1>2, <2>2, <2>3
<1>12. (Given(info.username) => Len(info.username) <= Wide /\ u = Field(info.username))
       /\ (Given(info.password) => Len(info.password) <= Wide /\ v = Field(info.password))
  BY <1>1, <1>2, OptionalWide
<1> HIDE DEF h, f, w, u, v, n, i, j, k, x, y, m
<1>13. Five(b, h, f, w, u, v, 10, 12 + n, 12 + n + i, 12 + n + i + j)
  BY <1>1, <1>3, <1>4, <1>5, <1>6, <1>7, <1>8, PiecesSit
<1>17. /\ b \in Seq(Octet) /\ Len(b) = 12 + n + i + j + k
       /\ Sits(b, 10, f) /\ Sits(b, 12 + n, w) /\ Sits(b, 12 + n + i, u)
       /\ Sits(b, 12 + n + i + j, v)
  BY <1>7, <1>13 DEF Five
<1>18. b[8] = h[8]
  <2>1. 8 \in 1 .. Len(h) /\ 0 + 8 = 8
    BY <1>3
  <2>2. Sits(b, 0, h)
    BY <1>13 DEF Five
  <2> QED BY <2>1, <2>2 DEF Sits
<1>14. Fits(b)
  <2>1. 3 + Len(b) = 3 + 10 + 2 + n + i + j + k
    BY <1>1, <1>17
  <2> QED BY <1>9, <2>1 DEF Fits
<1>15. Given(info.will_topic) => Sits(b, 12 + n, x) /\ Sits(b, 12 + n + 2 + m, y)
  <2> SUFFICES ASSUME Given(info.will_topic)
               PROVE Sits(b, 12 + n, x) /\ Sits(b, 12 + n + 2 + m, y)
    OBVIOUS
  <2>1. m \in Nat /\ x \in Seq(Octet) /\ y \in Seq(Octet) /\ Sits(w, 0, x) /\ Sits(w, 2 + m, y)
    BY <1>5, <1>10
  <2> DEFINE g == 12 + n
             r == 2 + m
  <2>2. 0 \in Nat /\ r \in Nat /\ g \in Nat /\ b \in Seq(Octet) /\ w \in Seq(Octet)
        /\ Sits(b, g, w) /\ Sits(w, r, y)
    BY <1>1, <1>5, <1>17, <2>1
  <2> HIDE DEF g, r
  <2>3. Sits(b, g + 0, x)
    BY <2>1, <2>2, SitsIn
  <2>4. Sits(b, g + r, y)
    BY <2>1, <2>2, SitsIn
  <2>5. 12 + n + 0 = 12 + n /\ 12 + n + (2 + m) = 12 + n + 2 + m
    BY <1>1, <2>1
  <2> QED BY <2>3, <2>4, <2>5 DEF g, r
<1>16. 10 + 2 + n = 12 + n
  BY <1>1
<1> QED BY <1>1, <1>3, <1>5, <1>12, <1>14, <1>15, <1>16, <1>17, <1>18 DEF f, n, i, j, k, x, y, m
\* The strings of a CONNECT, read back.
LEMMA ConnectIs ==
  ASSUME NEW info, IsInfo(info), Given(info.client_id),
         ConnectSize(info) <= BufferLength, NEW p, p = mqtt_msg_connect(info)
  PROVE  LET header == LengthEnd(p, Len(p))
             said == Announced(p[header + 8])
             at == Ends(p, header + 10, said)
             given == <<info.client_id, info.will_topic, info.will_message,
                        info.username, info.password>>
         IN /\ at[5] = Len(p) /\ mqtt_get_total_length(p, Len(p)) = Len(p)
            /\ \A n \in said : Slice(p, at[n - 1] + 2, TwoAt(p, at[n - 1])) = given[n]
<1> DEFINE c == info.client_id
           s == info.will_topic
           t == info.will_message
           u == info.username
           v == info.password
           b == ConnectBody(info)
           n == Len(c)
           i == WillSize(info)
           j == OptionalSize(u)
           k == OptionalSize(v)
           m == Len(s)
           l == Len(t)
           y == Len(u)
           z == Len(v)
           F == Flags(info)
<1>1. /\ c \in Seq(Octet) /\ s \in Seq(Octet) /\ t \in Seq(Octet) /\ u \in Seq(Octet)
      /\ v \in Seq(Octet) /\ n \in Nat /\ m \in Nat /\ l \in Nat
      /\ y \in Nat /\ z \in Nat
  BY DEF IsInfo
<1>2. i \in Nat /\ j \in Nat /\ k \in Nat /\ n <= Wide
  BY SizesAre
<1>3. /\ i = IF Given(s) THEN 4 + m + l ELSE 0
      /\ j = IF Given(u) THEN 2 + y ELSE 0
      /\ k = IF Given(v) THEN 2 + z ELSE 0
  BY DEF WillSize, OptionalSize, Given
<1>4. /\ b \in Seq(Octet) /\ Fits(b) /\ Len(b) = 12 + n + i + j + k /\ b[8] = F
      /\ Sits(b, 10, Field(c))
      /\ Given(s) => /\ m <= Wide /\ l <= Wide /\ Sits(b, 12 + n, Field(s))
                     /\ Sits(b, 12 + n + 2 + m, Field(t))
      /\ Given(u) => Len(u) <= Wide /\ Sits(b, 12 + n + i, Field(u))
      /\ Given(v) => Len(v) <= Wide /\ Sits(b, 12 + n + i + j, Field(v))
  <2>1. 10 + 2 + n = 12 + n
    BY <1>1
  <2> QED BY <2>1, BodyIs
<1>5. F \in Octet /\ \A x \in 1 .. 5 : x \in Announced(F) <=>
        \/ x = 1
        \/ x \in {2, 3} /\ Given(s)
        \/ x = 4 /\ Given(u)
        \/ x = 5 /\ Given(v)
  BY AnnouncedIs DEF IsInfo
<1>6. Announced(F) \subseteq 1 .. 5
  BY DEF Announced
<1>7. PICK e : IsPacket(p, e, b, CONNECT, 0)
  <2>1. CONNECT \in 0 .. 15 /\ 0 \in 0 .. 3 /\ 0 \in 0 .. 1
    BY DEF CONNECT
  <2>2. p = Finish(b, CONNECT, 0, 0)
    BY ConnectMade
  <2> HIDE DEF b
  <2> QED BY <1>4, <2>1, <2>2, FinishIs
<1> HIDE DEF c, s, t, u, v, b, n, i, j, k, m, l, y, z, F, Given
<1>8. /\ p \in Seq(Octet) /\ e \in Nat /\ LengthEnd(p, Len(p)) = e
      /\ mqtt_get_total_length(p, Len(p)) = Len(p) /\ Len(p) = e + Len(b)
  BY <1>7 DEF IsPacket
<1>9. p[e + 8] = F
  <2>1. 8 \in 1 .. Len(b)
    BY <1>1, <1>2, <1>4
  <2> QED BY <1>4, <1>7, <2>1 DEF IsPacket
<1> DEFINE said == Announced(F)
           g == Ends(p, e + 10, said)
<1>10. ASSUME NEW o \in Nat, NEW d \in Seq(Octet), Len(d) <= Wide, Sits(b, o, Field(d))
       PROVE Sits(p, e + o, Field(d))
  <2>1. Field(d) \in Seq(Octet)
    BY <1>10, FieldIs
  <2> QED BY <1>4, <1>7, <1>10, <2>1, PacketSits
<1>11. /\ 1 \in said
       /\ 2 \in said <=> Given(s)
       /\ 3 \in said <=> Given(s)
       /\ 4 \in said <=> Given(u)
       /\ 5 \in said <=> Given(v)
  BY <1>5
<1>12. g[0] = e + 10 /\ g = Ends(p, e + 10, said)
  BY EndsIs
<1> DEFINE start == e + 10
<1>13. g = Ends(p, start, said)
  OBVIOUS
<1>14. /\ 10 \in Nat /\ 12 + n \in Nat /\ 12 + n + 2 + m \in Nat /\ 12 + n + i \in Nat
       /\ 12 + n + i + j \in Nat
  BY <1>1, <1>2
<1>15. /\ Sits(p, e + 10, Field(c)) /\ Len(c) <= Wide
       /\ Given(s) => /\ Len(s) <= Wide /\ Len(t) <= Wide
                      /\ Sits(p, e + (12 + n), Field(s))
                      /\ Sits(p, e + (12 + n + 2 + m), Field(t))
       /\ Given(u) => Len(u) <= Wide /\ Sits(p, e + (12 + n + i), Field(u))
       /\ Given(v) => Len(v) <= Wide /\ Sits(p, e + (12 + n + i + j), Field(v))
  <2>1. Sits(p, e + 10, Field(c)) /\ Len(c) <= Wide
    BY <1>1, <1>2, <1>4, <1>10, <1>14 DEF n
  <2>2. Given(s) => /\ Len(s) <= Wide /\ Len(t) <= Wide
                    /\ Sits(p, e + (12 + n), Field(s))
                    /\ Sits(p, e + (12 + n + 2 + m), Field(t))
    BY <1>1, <1>4, <1>10, <1>14 DEF m, l
  <2>3. Given(u) => Len(u) <= Wide /\ Sits(p, e + (12 + n + i), Field(u))
    BY <1>1, <1>4, <1>10, <1>14
  <2>4. Given(v) => Len(v) <= Wide /\ Sits(p, e + (12 + n + i + j), Field(v))
    BY <1>1, <1>4, <1>10, <1>14
  <2> QED BY <2>1, <2>2, <2>3, <2>4
<1> HIDE DEF said, g, start
<1>16. g[1] = e + (12 + n) /\ IsRead(p, g, said, 1, c)
  <2>1. 1 - 1 = 0 /\ e + 10 \in Nat /\ 1 \in 1 .. 5
    BY <1>8
  <2>2. IsRead(p, g, said, 1, c)
    BY <1>1, <1>8, <1>12, <1>13, <1>15, <2>1, StringIsRead
  <2>3. g[1] = g[0] + 2 + n
    BY <1>11, <2>1, <2>2 DEF IsRead, n
  <2> QED BY <1>1, <1>8, <1>12, <2>2, <2>3
<1>17. /\ g[2] = IF Given(s) THEN e + (12 + n + 2 + m) ELSE e + (12 + n)
       /\ IsRead(p, g, said, 2, s)
  <2>1. 2 - 1 = 1 /\ e + (12 + n) \in Nat /\ 2 \in 1 .. 5
    BY <1>1, <1>8
  <2>2. IsRead(p, g, said, 2, s)
    BY <1>1, <1>8, <1>11, <1>13, <1>15, <1>16, <2>1, StringIsRead
  <2>3. g[2] = IF Given(s) THEN g[1] + 2 + m ELSE g[1]
    BY <1>11, <2>1, <2>2 DEF IsRead, m
  <2> QED BY <1>1, <1>8, <1>16, <2>2, <2>3
<1>18. g[3] = e + (12 + n + i) /\ IsRead(p, g, said, 3, t)
  <2>1. 3 - 1 = 2 /\ g[2] \in Nat /\ 3 \in 1 .. 5
    BY <1>1, <1>8, <1>17
  <2>2. IsRead(p, g, said, 3, t)
    BY <1>1, <1>8, <1>11, <1>13, <1>15, <1>17, <2>1, StringIsRead
  <2>3. g[3] = IF Given(s) THEN g[2] + 2 + l ELSE g[2]
    BY <1>11, <2>1, <2>2 DEF IsRead, l
  <2> QED BY <1>1, <1>3, <1>8, <1>17, <2>2, <2>3
<1>19. g[4] = e + (12 + n + i + j) /\ IsRead(p, g, said, 4, u)
  <2>1. 4 - 1 = 3 /\ g[3] \in Nat /\ 4 \in 1 .. 5
    BY <1>1, <1>2, <1>8, <1>18
  <2>2. IsRead(p, g, said, 4, u)
    BY <1>1, <1>8, <1>11, <1>13, <1>15, <1>18, <2>1, StringIsRead
  <2>3. g[4] = IF Given(u) THEN g[3] + 2 + y ELSE g[3]
    BY <1>11, <2>1, <2>2 DEF IsRead, y
  <2> QED BY <1>1, <1>2, <1>3, <1>8, <1>18, <2>2, <2>3
<1>20. g[5] = e + (12 + n + i + j + k) /\ IsRead(p, g, said, 5, v)
  <2>1. 5 - 1 = 4 /\ g[4] \in Nat /\ 5 \in 1 .. 5
    BY <1>1, <1>2, <1>8, <1>19
  <2>2. IsRead(p, g, said, 5, v)
    BY <1>1, <1>8, <1>11, <1>13, <1>15, <1>19, <2>1, StringIsRead
  <2>3. g[5] = IF Given(v) THEN g[4] + 2 + z ELSE g[4]
    BY <1>11, <2>1, <2>2 DEF IsRead, z
  <2> QED BY <1>1, <1>2, <1>3, <1>8, <1>19, <2>2, <2>3
<1> DEFINE given == <<c, s, t, u, v>>
<1>21. ASSUME NEW x \in said
       PROVE Slice(p, g[x - 1] + 2, TwoAt(p, g[x - 1])) = given[x]
  <2>1. x = 1 \/ x = 2 \/ x = 3 \/ x = 4 \/ x = 5
    BY <1>6 DEF said
  <2>2. /\ given[1] = c /\ given[2] = s /\ given[3] = t /\ given[4] = u /\ given[5] = v
    OBVIOUS
  <2>3. IsRead(p, g, said, x, given[x])
    BY <1>16, <1>17, <1>18, <1>19, <1>20, <2>1, <2>2
  <2> HIDE DEF given
  <2> QED BY <1>21, <2>3 DEF IsRead
<1>22. g[5] = Len(p)
  BY <1>4, <1>8, <1>20
<1> HIDE DEF given
<1> QED BY <1>8, <1>9, <1>21, <1>22 DEF g, said, given, c, s, t, u, v
LEMMA ConnectFails ==
  ASSUME NEW info, IsInfo(info),
         info.client_id = <<>> \/ ConnectSize(info) > BufferLength
  PROVE  mqtt_msg_connect(info) = Fail
<1> DEFINE c == info.client_id
           s == info.will_topic
           t == info.will_message
           u == info.username
           v == info.password
           h == Start(info)
           f == Field(c)
           w == Will(info)
           x == Optional(u)
           y == Optional(v)
           n == Len(c)
           i == WillSize(info)
           j == OptionalSize(u)
           k == OptionalSize(v)
<1>1. CASE c = <<>>
  BY <1>1 DEF mqtt_msg_connect, Given
<1>2. CASE c # <<>>
  <2>1. /\ c \in Seq(Octet) /\ s \in Seq(Octet) /\ t \in Seq(Octet) /\ u \in Seq(Octet)
        /\ v \in Seq(Octet)
    BY DEF IsInfo
  <2>2. \A d \in Seq(Octet) : Optional(d) \in Seq(Nat) /\ Len(Optional(d)) = OptionalSize(d)
                              /\ OptionalSize(d) \in Nat
    <3> SUFFICES ASSUME NEW d \in Seq(Octet)
                 PROVE /\ Optional(d) \in Seq(Nat) /\ Len(Optional(d)) = OptionalSize(d)
                       /\ OptionalSize(d) \in Nat
      OBVIOUS
    <3>1. CASE d = <<>>
      BY <3>1 DEF Optional, OptionalSize, Given
    <3>2. CASE d # <<>>
      <4>1. Optional(d) = Field(d) /\ OptionalSize(d) = 2 + Len(d)
        BY <3>2 DEF Optional, OptionalSize, Given
      <4> QED BY <4>1, FieldLength
    <3> QED BY <3>1, <3>2
  <2>3. x \in Seq(Nat) /\ Len(x) = j /\ y \in Seq(Nat) /\ Len(y) = k /\ j \in Nat /\ k \in Nat
    BY <2>1, <2>2
  <2>4. f \in Seq(Nat) /\ Len(f) = 2 + n /\ n \in Nat
    <3>1. c \in Seq(Octet)
      BY <2>1
    <3>2. n \in Nat
      BY <3>1
    <3> QED BY <3>1, <3>2, FieldLength
  <2>5. h \in Seq(Nat) /\ Len(h) = 10
    BY StartIs, Octets DEF IsInfo
  <2>6. w \in Seq(Nat) /\ Len(w) = i /\ i \in Nat
    <3>1. CASE s = <<>>
      <4>1. w = <<>> /\ i = 0
        BY <3>1 DEF Will, WillSize, Given
      <4> HIDE DEF w, i
      <4> QED BY <4>1
    <3>2. CASE s # <<>>
      <4> DEFINE a == Field(s)
                 b == Field(t)
                 l == Len(s)
                 m == Len(t)
      <4>1. w = a \o b /\ i = 4 + l + m
        BY <3>2 DEF Will, WillSize, Given
      <4>2. a \in Seq(Nat) /\ Len(a) = 2 + l /\ b \in Seq(Nat) /\ Len(b) = 2 + m
            /\ l \in Nat /\ m \in Nat
        <5>1. a \in Seq(Nat) /\ Len(a) = 2 + l
          BY <2>1, FieldLength
        <5>2. b \in Seq(Nat) /\ Len(b) = 2 + m
          BY <2>1, FieldLength
        <5> QED BY <2>1, <5>1, <5>2, SMTT(30)
      <4> HIDE DEF a, b, l, m, w, i
      <4>3. a \o b \in Seq(Nat) /\ Len(a \o b) = Len(a) + Len(b)
        BY <4>2, Longer
      <4> QED BY <4>1, <4>2, <4>3, SMTT(30)
    <3> QED BY <3>1, <3>2
  <2>7. mqtt_msg_connect(info) = Finish(h \o f \o w \o x \o y, CONNECT, 0, 0)
    BY <1>2, ConnectMade DEF ConnectBody, Given
  <2>8. ConnectSize(info) = 15 + n + i + j + k /\ ConnectSize(info) > BufferLength
        /\ BufferLength \in Nat
    <3>1. ConnectSize(info) = 3 + 10 + 2 + n + i + j + k
      BY DEF ConnectSize
    <3> QED BY <1>2, <2>3, <2>4, <2>6, <3>1, CodecAssumption
  <2> HIDE DEF h, f, w, x, y, n, i, j, k
  <2> DEFINE a == h \o f
             b == a \o w
             d == b \o x
             e == d \o y
  <2>9. a \in Seq(Nat) /\ Len(a) = 12 + n
    <3>1. a \in Seq(Nat) /\ Len(a) = Len(h) + Len(f)
      BY <2>4, <2>5, Longer
    <3> HIDE DEF a
    <3> QED BY <2>4, <2>5, <3>1
  <2>10. b \in Seq(Nat) /\ Len(b) = 12 + n + i
    <3> HIDE DEF a
    <3>1. b \in Seq(Nat) /\ Len(b) = Len(a) + Len(w)
      BY <2>6, <2>9, Longer
    <3> HIDE DEF b
    <3> QED BY <2>6, <2>9, <3>1
  <2>11. d \in Seq(Nat) /\ Len(d) = 12 + n + i + j
    <3> HIDE DEF a, b
    <3>1. d \in Seq(Nat) /\ Len(d) = Len(b) + Len(x)
      BY <2>3, <2>10, Longer
    <3> HIDE DEF d
    <3> QED BY <2>3, <2>10, <3>1
  <2>12. Len(e) = 12 + n + i + j + k
    <3> HIDE DEF a, b, d
    <3>1. e \in Seq(Nat) /\ Len(e) = Len(d) + Len(y)
      BY <2>3, <2>11, Longer
    <3> HIDE DEF e
    <3> QED BY <2>3, <2>11, <3>1
  <2>13. mqtt_msg_connect(info) = Finish(e, CONNECT, 0, 0)
    BY <2>7
  <2> HIDE DEF e
  <2>14. ~ Fits(e)
    BY <2>3, <2>4, <2>6, <2>8, <2>12 DEF Fits
  <2> QED BY <2>13, <2>14 DEF Finish
<1> QED BY <1>1, <1>2

-----------------------------------------------------------------------------
(* The codec: every call *)

LEMMA PublishCall ==
  ASSUME message_id \in 0 .. IdMod - 1, Publishes PROVE EncodedIsDecoded'
<1> PICK topic \in Topics, data \in Payloads, qos \in 0 .. 2, retain \in 0 .. 1 :
      call' = [name |-> "publish", topic |-> topic, data |-> data,
               qos |-> qos, id |-> NextId,
               packet |-> mqtt_msg_publish(topic, data, qos, retain)]
  BY DEF Publishes
<1> DEFINE p == mqtt_msg_publish(topic, data, qos, retain)
           size == 3 + 2 + Len(topic) + Len(data) + (IF qos > 0 THEN 2 ELSE 0)
<1>1. topic \in Seq(Octet) /\ data \in Seq(Octet)
  BY ReceiveAssumption DEF Octet
<1>2. /\ call'.name = "publish" /\ call'.topic = topic /\ call'.data = data
      /\ call'.qos = qos /\ call'.id = NextId /\ call'.packet = p
  OBVIOUS
<1>3. topic = <<>> \/ size > BufferLength => p = Fail
  BY <1>1, PublishFails
<1>4. size \in Nat /\ BufferLength \in Nat
  BY <1>1, CodecAssumption
<1>5. NextId # 0
  BY NextIdIs, CodecAssumption
<1>6. ASSUME topic # <<>>, ~ (size > BufferLength)
      PROVE ReadsAs(p, topic, data, qos, NextId)
  <2>1. size <= BufferLength
    BY <1>4, <1>6
  <2>2. topic # <<>> /\ message_id \in 0 .. IdMod - 1
        /\ 3 + 2 + Len(topic) + Len(data) + (IF qos > 0 THEN 2 ELSE 0) <= BufferLength
        /\ p = mqtt_msg_publish(topic, data, qos, retain)
    BY <1>6, <2>1
  <2> HIDE DEF p
  <2> QED BY <1>1, <2>2, PublishIs
<1> HIDE DEF p
<1>7. PublishIsDecoded'
  BY <1>2, <1>3, <1>5, <1>6 DEF PublishIsDecoded, ReadsAs
<1>8. FlagsTellStrings'
  BY <1>2 DEF FlagsTellStrings
<1> QED BY <1>7, <1>8 DEF EncodedIsDecoded

LEMMA ConnectCall == ASSUME Connects PROVE EncodedIsDecoded'
<1> PICK given \in Infos, will \in Wills :
      call' = [name |-> "connect", info |-> MQTT_InitLWT(given, will), topic |-> <<>>,
               data |-> <<>>, qos |-> 0, id |-> 0,
               packet |-> mqtt_msg_connect(MQTT_InitLWT(given, will))]
  BY DEF Connects
<1> DEFINE info == MQTT_InitLWT(given, will)
           p == mqtt_msg_connect(info)
<1>1. IsInfo(info)
  <2>1. Strings \subseteq Seq(Octet)
    BY ReceiveAssumption DEF Octet
  <2>2. /\ info.client_id = given.client_id /\ info.username = given.username
        /\ info.password = given.password /\ info.keepalive = given.keepalive
        /\ info.will_topic = will.will_topic /\ info.will_message = will.will_message
        /\ info.will_qos = will.will_qos
    <3>1. DOMAIN given = {"client_id", "username", "password", "clean_session", "keepalive"}
          /\ DOMAIN will = {"will_topic", "will_message", "will_qos", "will_retain"}
      BY DEF Infos, Wills
    <3>2. info = [x \in DOMAIN given \cup DOMAIN will |->
                    IF x \in DOMAIN will THEN will[x] ELSE given[x]]
      BY DEF MQTT_InitLWT
    <3> HIDE DEF info
    <3> QED BY <3>1, <3>2
  <2> HIDE DEF info
  <2> QED BY <2>1, <2>2 DEF IsInfo, Infos, Wills
<1>2. call'.name = "connect" /\ call'.info = info /\ call'.packet = p
  OBVIOUS
<1> HIDE DEF info
<1>3. info.client_id = <<>> \/ ConnectSize(info) > BufferLength => p = Fail
  BY <1>1, ConnectFails
<1>4. ConnectSize(info) \in Int /\ BufferLength \in Int
  <2>1. \A s \in Seq(Octet) : Len(s) \in Nat /\ OptionalSize(s) \in Nat
    BY DEF OptionalSize
  <2>2. Len(info.client_id) \in Nat /\ OptionalSize(info.username) \in Nat
        /\ OptionalSize(info.password) \in Nat
    BY <1>1, <2>1, SMTT(30) DEF IsInfo
  <2>3. WillSize(info) \in Nat
    <3> DEFINE s == Len(info.will_topic)
               t == Len(info.will_message)
    <3>1. s \in Nat /\ t \in Nat
      BY <1>1, <2>1 DEF IsInfo
    <3>2. WillSize(info) = 0 \/ WillSize(info) = 4 + s + t
      BY DEF WillSize
    <3> HIDE DEF s, t
    <3> QED BY <3>1, <3>2
  <2> QED BY <2>2, <2>3, CodecAssumption DEF ConnectSize
<1> DEFINE header == LengthEnd(p, Len(p))
           said == Announced(p[header + 8])
           at == Ends(p, header + 10, said)
           strings == <<info.client_id, info.will_topic, info.will_message,
                        info.username, info.password>>
           Told == /\ at[5] = Len(p) /\ mqtt_get_total_length(p, Len(p)) = Len(p)
                   /\ \A n \in said :
                        Slice(p, at[n - 1] + 2, TwoAt(p, at[n - 1])) = strings[n]
<1>5. ASSUME info.client_id # <<>>, ~ (ConnectSize(info) > BufferLength) PROVE Told
  <2>1. ConnectSize(info) <= BufferLength /\ Given(info.client_id)
    BY <1>4, <1>5 DEF Given
  <2>2. p = mqtt_msg_connect(info)
    OBVIOUS
  <2> HIDE DEF p
  <2> QED BY <1>1, <2>1, <2>2, ConnectIs
<1> HIDE DEF p
<1>6. FlagsTellStrings'
  <2>1. FlagsTellStrings' <=>
          IF info.client_id = <<>> \/ ConnectSize(info) > BufferLength THEN p = Fail ELSE Told
    BY <1>2 DEF FlagsTellStrings, ConnectSize, WillSize, OptionalSize
  <2> HIDE DEF Told
  <2> QED BY <1>3, <1>5, <2>1
<1>7. PublishIsDecoded'
  BY <1>2 DEF PublishIsDecoded
<1> QED BY <1>6, <1>7 DEF EncodedIsDecoded

CodecInv == message_id \in 0 .. IdMod - 1 /\ EncodedIsDecoded

\* Whatever the client publishes and whatever connect_info and will it has, for
\* every topic, payload and string and every buffer length below the reach of
\* a header of two bytes: a packet mqtt_msg_publish or mqtt_msg_connect made
\* reads back as what was encoded, and a call fails only if the packet does not
\* fit or what MQTT requires is missing.
THEOREM PacketsReadBack == ReceiveSpec => []EncodedIsDecoded
<1>1. ReceiveInit => CodecInv
  BY DEF ReceiveInit, CodecInv, EncodedIsDecoded, PublishIsDecoded, FlagsTellStrings, NoCall
<1>2. CodecInv /\ [ReceiveNext]_recvVars => CodecInv'
  <2> SUFFICES ASSUME CodecInv, [ReceiveNext]_recvVars PROVE CodecInv'
    OBVIOUS
  <2>1. NextId \in 0 .. IdMod - 1
    BY NextIdIs, CodecAssumption DEF CodecInv
  <2>2. ASSUME UNCHANGED <<message_id, call>> PROVE CodecInv'
    BY <2>2 DEF CodecInv, EncodedIsDecoded, PublishIsDecoded, FlagsTellStrings
  <2>3. ASSUME message_id' \in {message_id, NextId} PROVE message_id' \in 0 .. IdMod - 1
    BY <2>1, <2>3 DEF CodecInv
  <2>4. CASE Publishes
    <3>1. EncodedIsDecoded'
      BY <2>4, PublishCall DEF CodecInv
    <3>2. message_id' \in {message_id, NextId}
      BY <2>4 DEF Publishes, IdAfter
    <3> QED BY <2>3, <3>1, <3>2 DEF CodecInv
  <2>5. CASE Subscribes
    <3>1. call'.name = "subscribe" /\ message_id' \in {message_id, NextId}
      BY <2>5 DEF Subscribes, IdAfter
    <3>2. EncodedIsDecoded'
      BY <3>1 DEF EncodedIsDecoded, PublishIsDecoded, FlagsTellStrings
    <3> QED BY <2>3, <3>1, <3>2 DEF CodecInv
  <2>6. CASE Connects
    <3>1. EncodedIsDecoded'
      BY <2>6, ConnectCall
    <3>2. message_id' \in {message_id, NextId}
      BY <2>6 DEF Connects
    <3> QED BY <2>3, <3>1, <3>2 DEF CodecInv
  <2>7. CASE Forgotten
    <3>1. call'.name = "none" /\ message_id' \in {message_id, NextId}
      BY <2>7 DEF Forgotten, NoCall
    <3>2. EncodedIsDecoded'
      BY <3>1 DEF EncodedIsDecoded, PublishIsDecoded, FlagsTellStrings
    <3> QED BY <2>3, <3>1, <3>2 DEF CodecInv
  <2>8. CASE Receives
    <3>1. UNCHANGED call /\ message_id' \in {message_id, NextId}
      BY <2>8 DEF Receives
    <3>2. EncodedIsDecoded'
      BY <3>1 DEF CodecInv, EncodedIsDecoded, PublishIsDecoded, FlagsTellStrings
    <3> QED BY <2>3, <3>1, <3>2 DEF CodecInv
  <2>9. CASE UNCHANGED recvVars
    BY <2>2, <2>9 DEF recvVars
  <2> QED BY <2>4, <2>5, <2>6, <2>7, <2>8, <2>9 DEF ReceiveNext, Client
<1>3. CodecInv => EncodedIsDecoded
  BY DEF CodecInv
<1> QED BY <1>1, <1>2, <1>3, PTL DEF ReceiveSpec

-----------------------------------------------------------------------------
(* The codec: a packet in front of other bytes *)

\* The lengths said by the bytes 2 .. e of b.
Says(s, b, e) ==
  /\ s \in [2 .. e + 1 -> Nat] /\ s[e + 1] = 0
  /\ \A i \in 2 .. e : s[i] = (b[i] % 128) + 128 * s[i + 1]

LEMMA SaysSomething ==
  ASSUME NEW b, NEW e \in Nat \ {0}, \A i \in 2 .. e : b[i] \in Octet
  PROVE  \E s : Says(s, b, e)
<1> DEFINE step == [i \in 1 .. e - 1 |-> [x \in Nat |-> (b[e + 1 - i] % 128) + 128 * x]]
<1>1. \A i \in 2 .. e : b[i] % 128 \in Nat
  BY SMTT(30) DEF Octet
<1>2. step \in [1 .. e - 1 -> [Nat -> Nat]]
  <2> SUFFICES ASSUME NEW i \in 1 .. e - 1, NEW x \in Nat
               PROVE (b[e + 1 - i] % 128) + 128 * x \in Nat
    OBVIOUS
  <2>1. e + 1 - i \in 2 .. e
    OBVIOUS
  <2> QED BY <1>1, <2>1
<1>3. \A i \in 1 .. e - 1, x \in Nat : step[i][x] = (b[e + 1 - i] % 128) + 128 * x
  OBVIOUS
<1> HIDE DEF step
<1>4. PICK f : Recurs(f, e - 1, Nat, 0, step)
  <2>1. e - 1 \in Nat /\ 0 \in Nat
    OBVIOUS
  <2> QED BY <1>2, <2>1, RecursionExists
<1> DEFINE s == [i \in 2 .. e + 1 |-> f[e + 1 - i]]
<1>5. f \in [0 .. e - 1 -> Nat] /\ f[0] = 0
  BY <1>4 DEF Recurs
<1>6. s \in [2 .. e + 1 -> Nat] /\ s[e + 1] = 0
  <2>1. \A i \in 2 .. e + 1 : e + 1 - i \in 0 .. e - 1
    OBVIOUS
  <2>2. e + 1 \in 2 .. e + 1 /\ (e + 1) - (e + 1) = 0
    OBVIOUS
  <2> QED BY <1>5, <2>1, <2>2
<1>7. ASSUME NEW i \in 2 .. e PROVE s[i] = (b[i] % 128) + 128 * s[i + 1]
  <2>1. e + 1 - i \in 1 .. e - 1 /\ e + 1 - (e + 1 - i) = i
        /\ (e + 1 - i) - 1 = e + 1 - (i + 1) /\ (e + 1 - i) - 1 \in 0 .. e - 1
        /\ i \in 2 .. e + 1 /\ i + 1 \in 2 .. e + 1
    OBVIOUS
  <2>2. f[e + 1 - i] = step[e + 1 - i][f[(e + 1 - i) - 1]]
    BY <1>4, <2>1 DEF Recurs
  <2>3. f[(e + 1 - i) - 1] \in Nat
    BY <1>5, <2>1
  <2>4. f[e + 1 - i] = (b[e + 1 - (e + 1 - i)] % 128) + 128 * f[(e + 1 - i) - 1]
    BY <1>3, <2>1, <2>2, <2>3
  <2>5. s[i] = f[e + 1 - i] /\ s[i + 1] = f[e + 1 - (i + 1)]
    BY <2>1
  <2> QED BY <2>1, <2>4, <2>5
<1> HIDE DEF s
<1> QED BY <1>6, <1>7 DEF Says

\* They say it once.
LEMMA SaysOnce ==
  ASSUME NEW b, NEW c, NEW e \in Nat \ {0}, NEW s, NEW t, Says(s, b, e), Says(t, c, e),
         \A i \in 2 .. e : b[i] = c[i]
  PROVE  s[2] = t[2]
<1> DEFINE T == {i \in 1 .. e : s[i + 1] = t[i + 1]}
<1>1. e \in T
  BY DEF Says
<1>2. ASSUME NEW i \in 1 .. e - 1, i + 1 \in T PROVE i \in T
  <2>1. i + 1 \in 2 .. e /\ s[(i + 1) + 1] = t[(i + 1) + 1]
    BY <1>2
  <2>2. s[i + 1] = t[i + 1]
    BY <2>1 DEF Says
  <2> QED BY <2>2
<1> DEFINE U == T \cup {0}
<1>3. \A i \in 0 .. e - 1 : i + 1 \in U => i \in U
  BY <1>2
<1> HIDE DEF T
<1>4. \A i \in 0 .. e : i \in U
  <2>1. e \in U
    BY <1>1
  <2> HIDE DEF U
  <2> QED BY <1>3, <2>1, DownInduction
<1>5. 1 \in 0 .. e
  OBVIOUS
<1> QED BY <1>4, <1>5 DEF T

\* Where the length field of n bytes ends.
LEMMA EndIs ==
  ASSUME NEW b, NEW n \in Nat \ {0}
  PROVE  /\ LengthEnd(b, n) \in 1 .. n
         /\ \A i \in 1 .. n - 1 :
              b[i + 1] < 128 /\ (\A j \in 1 .. i - 1 : ~ (b[j + 1] < 128)) => LengthEnd(b, n) = i + 1
         /\ (\E i \in 1 .. n - 1 : b[i + 1] < 128) =>
              /\ LengthEnd(b, n) >= 2 /\ b[LengthEnd(b, n)] < 128
              /\ \A i \in 1 .. LengthEnd(b, n) - 2 : ~ (b[i + 1] < 128)
<1> DEFINE last == {i \in 1 .. n - 1 : b[i + 1] < 128}
<1>1. LengthEnd(b, n) = IF last = {} THEN n ELSE Min(last) + 1
  BY DEF LengthEnd
<1>2. last \subseteq 1 .. n - 1 /\ last \subseteq Int /\ last \subseteq Nat
  OBVIOUS
<1>3. last # {} => \E m \in last : \A i \in last : m <= i
  <2> SUFFICES ASSUME last # {} PROVE \E m \in last : \A i \in last : m <= i
    OBVIOUS
  <2> HIDE DEF last
  <2>1. PICK m \in last : \A y \in last : ~ (<<y, m>> \in OpToRel(<, Nat))
    BY <1>2, NatLessThanWellFounded, WFMin
  <2>2. ASSUME NEW i \in last PROVE m <= i
    <3>1. i \in Nat /\ m \in Nat
      BY <1>2
    <3>2. i < m => <<i, m>> \in OpToRel(<, Nat)
      BY <3>1 DEF OpToRel
    <3>3. ~ (i < m)
      BY <2>1, <3>2
    <3> QED BY <3>1, <3>3
  <2> QED BY <2>2
<1>4. last # {} => Min(last) \in last /\ \A i \in last : Min(last) <= i
  <2> SUFFICES ASSUME last # {} PROVE Min(last) \in last /\ \A i \in last : Min(last) <= i
    OBVIOUS
  <2>1. PICK m \in last : \A i \in last : m <= i
    BY <1>3
  <2> HIDE DEF last
  <2>2. Min(last) = m
    BY <1>2, <2>1, MinIs
  <2> QED BY <2>1, <2>2
<1>5. LengthEnd(b, n) \in 1 .. n
  <2> HIDE DEF last
  <2>1. CASE last = {}
    BY <1>1, <2>1
  <2>2. CASE last # {}
    <3>1. Min(last) \in 1 .. n - 1
      BY <1>2, <1>4, <2>2
    <3> QED BY <1>1, <2>2, <3>1
  <2> QED BY <2>1, <2>2
<1>6. ASSUME NEW i \in 1 .. n - 1, b[i + 1] < 128, \A j \in 1 .. i - 1 : ~ (b[j + 1] < 128)
      PROVE LengthEnd(b, n) = i + 1
  <2>1. i \in last /\ \A j \in last : i <= j
    BY <1>6
  <2> HIDE DEF last
  <2>2. Min(last) = i
    BY <1>2, <2>1, MinIs
  <2> QED BY <1>1, <2>1, <2>2
<1>7. ASSUME last # {}
      PROVE /\ LengthEnd(b, n) >= 2 /\ b[LengthEnd(b, n)] < 128
            /\ \A i \in 1 .. LengthEnd(b, n) - 2 : ~ (b[i + 1] < 128)
  <2> DEFINE m == Min(last)
  <2>1. LengthEnd(b, n) = m + 1 /\ m \in last /\ \A i \in last : m <= i
    BY <1>1, <1>4, <1>7
  <2> HIDE DEF m
  <2>2. m \in 1 .. n - 1 /\ b[m + 1] < 128
    BY <2>1
  <2>3. ASSUME NEW i \in 1 .. m - 1 PROVE ~ (b[i + 1] < 128)
    <3>1. i \in 1 .. n - 1 /\ ~ (m <= i)
      BY <2>2
    <3> QED BY <2>1, <3>1
  <2> HIDE DEF last
  <2> QED BY <2>1, <2>2, <2>3
<1> QED BY <1>5, <1>6, <1>7

\* What the length field says.
LEMMA TotalIs ==
  ASSUME NEW b \in Seq(Octet), NEW n \in 1 .. Len(b)
  PROVE  \E s : /\ Says(s, b, LengthEnd(b, n))
                /\ mqtt_get_total_length(b, n) = LengthEnd(b, n) + s[2]
<1> DEFINE e == LengthEnd(b, n)
           F(g) == g = [i \in 2 .. e + 1 |-> IF i > e THEN 0 ELSE (b[i] % 128) + 128 * g[i + 1]]
           said == CHOOSE g : F(g)
<1>1. Len(b) \in Nat /\ n \in Nat \ {0} /\ e \in 1 .. n
  <2>1. Len(b) \in Nat /\ n \in Nat \ {0}
    OBVIOUS
  <2> QED BY <2>1, EndIs
<1>2. mqtt_get_total_length(b, n) = e + said[2]
  BY DEF mqtt_get_total_length
<1>b. \A x \in Octet : x % 128 \in Nat
  BY DEF Octet
<1>a. ASSUME NEW i \in 2 .. e PROVE b[i] \in Octet
  <2>1. i \in 1 .. Len(b)
    BY <1>1
  <2> QED BY <2>1
<1> HIDE DEF e
<1>3. PICK s : Says(s, b, e)
  BY <1>1, <1>a, SaysSomething
<1>4. F(s)
  <2>1. ASSUME NEW i \in 2 .. e + 1
        PROVE s[i] = IF i > e THEN 0 ELSE (b[i] % 128) + 128 * s[i + 1]
    <3>1. CASE i > e
      <4>1. i = e + 1
        BY <1>1, <3>1
      <4> QED BY <1>3, <3>1, <4>1 DEF Says
    <3>2. CASE ~ (i > e)
      <4>1. i \in 2 .. e
        BY <1>1, <3>2
      <4> QED BY <1>3, <3>2, <4>1 DEF Says
    <3> QED BY <3>1, <3>2
  <2>2. s = [i \in 2 .. e + 1 |-> s[i]]
    BY <1>3 DEF Says
  <2> QED BY <2>1, <2>2
<1>5. F(said)
  BY <1>4, ZenonT(40)
<1> HIDE DEF said
<1>6. /\ said = [i \in 2 .. e + 1 |-> said[i]]
      /\ \A i \in 2 .. e + 1 :
           said[i] = IF i > e THEN 0 ELSE (b[i] % 128) + 128 * said[i + 1]
  BY <1>5
<1> HIDE DEF F
<1> DEFINE T == {i \in 2 .. e + 1 : said[i] \in Nat}
           U == {i \in 0 .. e + 1 : i < 2 \/ i \in T}
<1>7. said[e + 1] = 0
  <2>1. e + 1 \in 2 .. e + 1 /\ e + 1 > e
    BY <1>1
  <2> QED BY <1>6, <2>1
<1>8. ASSUME NEW i \in 2 .. e PROVE said[i] = (b[i] % 128) + 128 * said[i + 1]
  <2>1. i \in 2 .. e + 1 /\ ~ (i > e)
    BY <1>1
  <2> QED BY <1>6, <2>1
<1>9. \A i \in 0 .. e + 1 : i \in U
  <2>1. e + 1 \in U
    BY <1>1, <1>7
  <2>2. ASSUME NEW i \in 0 .. (e + 1) - 1, i + 1 \in U PROVE i \in U
    <3>1. CASE i < 2
      BY <1>1, <3>1
    <3>2. CASE i >= 2
      <4>1. i \in 2 .. e /\ i \in 2 .. e + 1 /\ i \in 0 .. e + 1
        BY <1>1, <3>2
      <4>2. said[i + 1] \in Nat /\ b[i] % 128 \in Nat
        <5>1. i + 1 \in T
          BY <2>2, <3>2
        <5>2. b[i] \in Octet
          BY <1>a, <4>1
        <5>3. b[i] % 128 \in Nat
          BY <1>b, <5>2
        <5> QED BY <5>1, <5>3
      <4>3. said[i] \in Nat
        BY <1>8, <4>1, <4>2
      <4> QED BY <4>1, <4>3
    <3> QED BY <1>1, <3>1, <3>2
  <2>3. e + 1 \in Nat
    BY <1>1
  <2> HIDE DEF U
  <2> QED BY <2>1, <2>2, <2>3, DownInduction
<1>10. said \in [2 .. e + 1 -> Nat]
  <2>1. ASSUME NEW i \in 2 .. e + 1 PROVE said[i] \in Nat
    <3>1. i \in 0 .. e + 1 /\ ~ (i < 2)
      BY <1>1
    <3> QED BY <1>9, <3>1
  <2> QED BY <1>6, <2>1
<1>11. Says(said, b, e)
  BY <1>7, <1>8, <1>10 DEF Says
<1> QED BY <1>2, <1>11 DEF e

\* A packet in front of other bytes: its length, its type and its bytes are read
\* as if it stood alone.
LEMMA FrontHead ==
  ASSUME NEW p \in Seq(Octet), NEW c \in Seq(Octet), Sits(c, 0, p),
         NEW n \in Len(p) .. Len(c), \E i \in 1 .. Len(p) - 1 : p[i + 1] < 128
  PROVE  /\ LengthEnd(c, n) = LengthEnd(p, Len(p))
         /\ LengthEnd(p, Len(p)) \in 2 .. Len(p)
         /\ mqtt_get_total_length(c, n) = mqtt_get_total_length(p, Len(p))
         /\ mqtt_get_type(c) = mqtt_get_type(p) /\ mqtt_get_qos(c) = mqtt_get_qos(p)
         /\ \A i \in 1 .. Len(p) : c[i] = p[i]
<1> DEFINE l == Len(p)
           e == LengthEnd(p, l)
<1>1. l \in Nat /\ l >= 2 /\ Len(c) \in Nat /\ n \in Nat /\ l <= n /\ n <= Len(c)
  BY DEF Sits
<1>2. ASSUME NEW i \in 1 .. l PROVE c[i] = p[i]
  <2>1. c[0 + i] = p[i] /\ 0 + i = i
    BY <1>1 DEF Sits
  <2> QED BY <2>1
<1>3. /\ e \in 2 .. l /\ p[e] < 128
      /\ \A i \in 1 .. e - 2 : ~ (p[i + 1] < 128)
  <2>1. l \in Nat \ {0}
    BY <1>1
  <2> HIDE DEF l
  <2>2. e \in 1 .. l /\ e >= 2 /\ p[e] < 128 /\ \A i \in 1 .. e - 2 : ~ (p[i + 1] < 128)
    BY <2>1, EndIs DEF l
  <2> QED BY <2>1, <2>2
<1> HIDE DEF l, e
<1>4. LengthEnd(c, n) = e
  <2>1. e - 1 \in 1 .. n - 1 /\ (e - 1) + 1 = e /\ c[e] < 128 /\ (e - 1) - 1 = e - 2
    BY <1>1, <1>2, <1>3
  <2>2. ASSUME NEW j \in 1 .. (e - 1) - 1 PROVE ~ (c[j + 1] < 128)
    <3>1. j \in 1 .. e - 2 /\ j + 1 \in 1 .. l
      BY <1>1, <1>3
    <3> QED BY <1>2, <1>3, <3>1
  <2>3. n \in Nat \ {0} /\ c[(e - 1) + 1] < 128
    BY <1>1, <2>1
  <2>4. \A i \in 1 .. n - 1 :
          c[i + 1] < 128 /\ (\A j \in 1 .. i - 1 : ~ (c[j + 1] < 128)) => LengthEnd(c, n) = i + 1
    BY <2>3, EndIs
  <2>5. LengthEnd(c, n) = (e - 1) + 1
    BY <2>1, <2>2, <2>3, <2>4
  <2> QED BY <2>1, <2>5
<1>5. mqtt_get_total_length(c, n) = mqtt_get_total_length(p, l)
  <2>1. n \in 1 .. Len(c) /\ l \in 1 .. Len(p)
    BY <1>1 DEF l
  <2>2. PICK s : Says(s, c, e) /\ mqtt_get_total_length(c, n) = e + s[2]
    BY <1>4, <2>1, TotalIs
  <2>3. PICK t : Says(t, p, e) /\ mqtt_get_total_length(p, l) = e + t[2]
    BY <2>1, TotalIs DEF e
  <2>4. ASSUME NEW i \in 2 .. e PROVE c[i] = p[i]
    <3>1. i \in 1 .. l
      BY <1>1, <1>3
    <3> QED BY <1>2, <3>1
  <2>5. e \in Nat \ {0}
    BY <1>1, <1>3
  <2>6. s[2] = t[2]
    BY <2>2, <2>3, <2>4, <2>5, SaysOnce
  <2> QED BY <2>2, <2>3, <2>6
<1>6. mqtt_get_type(c) = mqtt_get_type(p) /\ mqtt_get_qos(c) = mqtt_get_qos(p)
  <2>1. c[1] = p[1]
    BY <1>1, <1>2
  <2> QED BY <2>1 DEF mqtt_get_type, mqtt_get_qos
<1> QED BY <1>2, <1>3, <1>4, <1>5, <1>6 DEF l, e

LEMMA FrontSlice ==
  ASSUME NEW p \in Seq(Octet), NEW c \in Seq(Octet), Sits(c, 0, p),
         NEW i \in Nat, NEW k \in Nat, i + k <= Len(p)
  PROVE  Slice(c, i, k) = Slice(p, i, k)
<1> DEFINE d == Slice(p, i, k)
<1>1. Len(p) \in Nat /\ Len(c) \in Nat /\ Len(p) <= Len(c)
  BY DEF Sits
<1>2. d = SubSeq(p, i + 1, i + k)
  BY DEF Slice
<1>3. d \in Seq(Octet) /\ Len(d) = k /\ \A j \in 1 .. k : d[j] = p[i + j]
  <2>1. d \in Seq(Octet) /\ Len(d) = k
    <3>1. i + 1 \in 1 .. Len(p) + 1 /\ i + k \in i .. Len(p)
      BY <1>1
    <3> QED BY <1>1, <1>2, <3>1
  <2>2. ASSUME NEW j \in 1 .. k PROVE d[j] = p[i + j]
    <3>1. d[j] = p[(i + 1) + j - 1] /\ (i + 1) + j - 1 = i + j
      BY <1>1, <1>2
    <3> QED BY <3>1
  <2> QED BY <2>1, <2>2
<1> HIDE DEF d
<1>4. Sits(c, i, d)
  <2>1. ASSUME NEW j \in 1 .. k PROVE c[i + j] = d[j]
    <3>1. i + j \in 1 .. Len(p) /\ 0 + (i + j) = i + j
      BY <1>1
    <3>2. c[0 + (i + j)] = p[i + j]
      BY <3>1 DEF Sits
    <3> QED BY <1>3, <3>1, <3>2
  <2> QED BY <1>1, <1>3, <2>1 DEF Sits
<1> QED BY <1>3, <1>4, SliceIs DEF d

LEMMA NoSlice ==
  ASSUME NEW c \in Seq(Octet), NEW i \in Nat
  PROVE  Slice(c, i, 0) = NULL
BY DEF Slice, NULL

\* A PUBLISH in front of other bytes has its own topic, which is found, and
\* its own payload.
LEMMA FrontPublish ==
  ASSUME NEW p \in Seq(Octet), IsPacketOfMqtt(p), mqtt_get_type(p) = PUBLISH,
         NEW c \in Seq(Octet), Sits(c, 0, p), NEW n \in Len(p) .. Len(c)
  PROVE  /\ mqtt_get_publish_topic(c, n) = mqtt_get_publish_topic(p, Len(p))
         /\ mqtt_get_publish_data(c, n) = mqtt_get_publish_data(p, Len(p))
         /\ TopicFound(c, n)
<1> DEFINE l == Len(p)
           e == LengthEnd(p, l)
           w == TwoAt(p, e)
           q == mqtt_get_qos(p)
           j == e + 2 + w
           k == IF q = 0 THEN j ELSE j + 2
<1>1. /\ LengthEnd(c, n) = e /\ e \in 2 .. l /\ mqtt_get_total_length(c, n) = l
      /\ mqtt_get_total_length(p, l) = l
      /\ mqtt_get_qos(c) = q /\ \A i \in 1 .. l : c[i] = p[i]
  <2>1. (\E i \in 1 .. Len(p) - 1 : p[i + 1] < 128) /\ mqtt_get_total_length(p, Len(p)) = Len(p)
    BY DEF IsPacketOfMqtt
  <2> QED BY <2>1, FrontHead
<1>2. l \in Nat /\ n \in Nat /\ l <= n
  OBVIOUS
<1>3. e + 2 <= l /\ k <= l /\ w >= 1
  BY DEF IsPacketOfMqtt, IdAt
<1> HIDE DEF l, e, q
<1>4. w \in Nat /\ TwoAt(c, e) = w
  <2>1. e + 1 \in 1 .. l /\ e + 2 \in 1 .. l
    BY <1>1, <1>2, <1>3
  <2>2. p[e + 1] \in Octet /\ p[e + 2] \in Octet
    BY <2>1 DEF l
  <2>3. c[e + 1] = p[e + 1] /\ c[e + 2] = p[e + 2]
    BY <1>1, <2>1
  <2>4. \A x, y \in Octet : x * 256 + y \in Nat
    BY DEF Octet
  <2> QED BY <2>2, <2>3, <2>4, ZenonT(40) DEF TwoAt
<1> HIDE DEF w
<1>5. j \in Nat /\ k \in Nat /\ j <= k /\ e + 2 <= j /\ e + 2 \in Nat
  BY <1>1, <1>4
<1>6. mqtt_get_publish_topic(c, n) = mqtt_get_publish_topic(p, l) /\ TopicFound(c, n)
  <2>1. Slice(c, e + 2, w) = Slice(p, e + 2, w)
    <3>1. (e + 2) + w <= l
      BY <1>1, <1>2, <1>3, <1>4
    <3> QED BY <1>4, <1>5, <3>1, FrontSlice DEF l
  <2>2. TopicFound(p, l) /\ TopicFound(c, n)
    <3>1. TopicFound(p, l) <=> e + 2 < l /\ e + 2 + w <= l
      BY DEF TopicFound, e, w
    <3>2. TopicFound(c, n) <=> e + 2 < n /\ e + 2 + w <= n
      BY <1>1, <1>4 DEF TopicFound
    <3>3. e + 2 < l /\ e + 2 + w <= l /\ e + 2 < n /\ e + 2 + w <= n
      BY <1>1, <1>2, <1>3, <1>4
    <3> QED BY <3>1, <3>2, <3>3
  <2>3. mqtt_get_publish_topic(p, l) = Slice(p, e + 2, w)
    BY <2>2 DEF mqtt_get_publish_topic, e, w
  <2>4. mqtt_get_publish_topic(c, n) = Slice(c, e + 2, w)
    BY <1>1, <1>4, <2>2 DEF mqtt_get_publish_topic
  <2> QED BY <2>1, <2>2, <2>3, <2>4
<1>7. /\ DataAt(p, l) = IF k >= l THEN -1 ELSE k
      /\ DataAt(c, n) = IF k >= n THEN -1 ELSE k
  <2>1. ASSUME NEW b, NEW m \in Nat, LengthEnd(b, m) = e, TwoAt(b, e) = w,
               mqtt_get_qos(b) = q
        PROVE DataAt(b, m) = IF k >= m THEN -1 ELSE k
    <3> HIDE DEF j
    <3>0. j = e + 2 + TwoAt(b, e)
      BY <2>1 DEF j
    <3>1. CASE e + 2 >= m
      <4>1. k >= m
        BY <1>1, <1>2, <1>5, <3>1
      <4> QED BY <1>5, <2>1, <3>1, <4>1 DEF DataAt
    <3>2. CASE e + 2 < m /\ j >= m
      <4>1. k >= m /\ ~ (e + 2 >= m)
        BY <1>1, <1>2, <1>5, <3>2
      <4> QED BY <1>5, <2>1, <3>0, <3>2, <4>1 DEF DataAt
    <3>3. CASE e + 2 < m /\ j < m
      <4>1. ~ (j >= m) /\ ~ (e + 2 >= m)
        BY <1>1, <1>2, <1>5, <3>3
      <4>2. DataAt(b, m) = IF q = 0 THEN j ELSE IF j + 2 >= m THEN -1 ELSE j + 2
        BY <2>1, <3>0, <3>3, <4>1 DEF DataAt
      <4> QED BY <4>1, <4>2
    <3> QED BY <1>1, <1>2, <1>5, <3>1, <3>2, <3>3
  <2>2. TwoAt(p, e) = w /\ LengthEnd(p, l) = e /\ mqtt_get_qos(p) = q
    BY DEF w, e, q
  <2> HIDE DEF k
  <2> QED BY <1>1, <1>2, <1>4, <2>1, <2>2
<1>8. DataEnd(p, l) = l /\ DataEnd(c, n) = l
  <2>1. DataEnd(p, l) = Min({l, l}) /\ DataEnd(c, n) = Min({l, n})
    BY <1>1 DEF DataEnd
  <2>2. ASSUME NEW x \in Int, NEW y \in Int, x <= y PROVE Min({x, y}) = x
    <3> DEFINE T == {x, y}
    <3>1. x \in T /\ T \subseteq Int /\ \A i \in T : x <= i
      BY <2>2
    <3> HIDE DEF T
    <3>2. Min(T) = x
      BY <3>1, MinIs
    <3> QED BY <3>2 DEF T
  <2> QED BY <1>2, <2>1, <2>2
<1> HIDE DEF k
<1>9. mqtt_get_publish_data(c, n) = mqtt_get_publish_data(p, l)
  <2>1. k # -1 /\ ~ (l < k) /\ l - k \in Nat
    BY <1>2, <1>3, <1>5
  <2>2. mqtt_get_publish_data(p, l) = IF k >= l THEN NULL ELSE Slice(p, k, l - k)
    BY <1>1, <1>7, <1>8, <2>1 DEF mqtt_get_publish_data
  <2>3. mqtt_get_publish_data(c, n) = IF k >= n THEN NULL ELSE Slice(c, k, l - k)
    BY <1>1, <1>7, <1>8, <2>1 DEF mqtt_get_publish_data
  <2>4. Slice(c, k, l - k) = Slice(p, k, l - k)
    <3>1. k + (l - k) <= Len(p)
      BY <1>2, <1>5 DEF l
    <3> QED BY <1>5, <2>1, <3>1, FrontSlice
  <2>5. CASE k >= l
    <3>1. l - k = 0
      BY <1>2, <1>3, <1>5, <2>5
    <3>2. Slice(c, k, l - k) = NULL
      BY <1>5, <3>1, NoSlice
    <3> QED BY <2>2, <2>3, <2>5, <3>2
  <2>6. CASE ~ (k >= l)
    <3>1. ~ (k >= n)
      BY <1>2, <1>5, <2>6
    <3> QED BY <2>2, <2>3, <2>4, <2>6, <3>1
  <2> QED BY <2>5, <2>6
<1> QED BY <1>6, <1>9 DEF l

-----------------------------------------------------------------------------
(* What the broker sends: a turn of READPACKET *)

\* The answer to b with this id, and what p itself says and is owed.
Reply(b, id) ==
  LET type == mqtt_get_type(b) IN
  CASE type = PUBLISH /\ mqtt_get_qos(b) = 1 -> <<Finish(Two(id), PUBACK, 0, 0)>>
    [] type = PUBLISH /\ mqtt_get_qos(b) = 2 -> <<Finish(Two(id), PUBREC, 0, 0)>>
    [] type = PUBREC -> <<Finish(Two(id), PUBREL, 1, 0)>>
    [] type = PUBREL -> <<Finish(Two(id), PUBCOMP, 0, 0)>>
    [] type = PINGREQ -> <<mqtt_msg_bare(PINGRESP)>>
    [] OTHER -> <<>>
Command(p) == [topic |-> mqtt_get_publish_topic(p, Len(p)),
               data |-> mqtt_get_publish_data(p, Len(p)), wild |-> FALSE]
Owed(p) == Reply(p, IdOf(p))

LEMMA AnswerIs ==
  ASSUME NEW b, NEW id, NeedsId(b) => id # 0
  PROVE  Answer(b, id) = Reply(b, id) /\ (Answer(b, id) = Reply(b, id))'
<1> DEFINE n == NextId
<1>1. NeedsId(b) => (IF id = 0 THEN n ELSE id) = id /\ (IF id = 0 THEN n' ELSE id) = id
  OBVIOUS
<1> HIDE DEF n
<1>2. /\ mqtt_msg_answer(PUBACK, id) = Finish(Two(IF id = 0 THEN n ELSE id), PUBACK, 0, 0)
      /\ mqtt_msg_answer(PUBREC, id) = Finish(Two(IF id = 0 THEN n ELSE id), PUBREC, 0, 0)
      /\ mqtt_msg_answer(PUBREL, id) = Finish(Two(IF id = 0 THEN n ELSE id), PUBREL, 1, 0)
      /\ mqtt_msg_answer(PUBCOMP, id) = Finish(Two(IF id = 0 THEN n ELSE id), PUBCOMP, 0, 0)
  BY DEF mqtt_msg_answer, n, PUBACK, PUBREC, PUBREL, PUBCOMP
<1>3. /\ mqtt_msg_answer(PUBACK, id)' = Finish(Two(IF id = 0 THEN n' ELSE id), PUBACK, 0, 0)
      /\ mqtt_msg_answer(PUBREC, id)' = Finish(Two(IF id = 0 THEN n' ELSE id), PUBREC, 0, 0)
      /\ mqtt_msg_answer(PUBREL, id)' = Finish(Two(IF id = 0 THEN n' ELSE id), PUBREL, 1, 0)
      /\ mqtt_msg_answer(PUBCOMP, id)' = Finish(Two(IF id = 0 THEN n' ELSE id), PUBCOMP, 0, 0)
  BY DEF mqtt_msg_answer, n, PUBACK, PUBREC, PUBREL, PUBCOMP
<1>4. NeedsId(b) <=> \/ mqtt_get_type(b) = PUBLISH /\ mqtt_get_qos(b) \in 1 .. 2
                     \/ mqtt_get_type(b) \in {PUBREC, PUBREL}
  BY DEF NeedsId
<1>5. 1 \in 1 .. 2 /\ 2 \in 1 .. 2
  OBVIOUS
<1> DEFINE t == mqtt_get_type(b)
           q == mqtt_get_qos(b)
<1> HIDE DEF t, q
<1>6. Answer(b, id) = Reply(b, id)
  BY <1>1, <1>2, <1>4, <1>5 DEF Answer, Reply
<1>7. Answer(b, id)' = Reply(b, id)
  BY <1>1, <1>3, <1>4, <1>5 DEF Answer, Reply
<1> QED BY <1>6, <1>7

LEMMA FrontReply ==
  ASSUME NEW p, NEW b, mqtt_get_type(b) = mqtt_get_type(p), mqtt_get_qos(b) = mqtt_get_qos(p),
         NEW id, NeedsId(p) => id = IdOf(p)
  PROVE  Reply(b, id) = Owed(p) /\ (NeedsId(b) <=> NeedsId(p))
<1>1. NeedsId(p) => Reply(b, id) = Owed(p)
  BY DEF Reply, Owed
<1>2. ~ NeedsId(p) => Reply(b, id) = Owed(p)
  <2>1. 1 \in 1 .. 2 /\ 2 \in 1 .. 2
    OBVIOUS
  <2> QED BY <2>1 DEF Reply, Owed, NeedsId
<1> QED BY <1>1, <1>2 DEF NeedsId

\* The id of a packet in front of the buffer.
LEMMA FrontId ==
  ASSUME NEW p \in Seq(Octet), IsPacketOfMqtt(p), NeedsId(p),
         NEW c \in Seq(Octet), Sits(c, 0, p), NEW n \in Nat, n = Len(c), Len(p) < n
  PROVE  mqtt_get_id(c, n) = IdOf(p)
<1> DEFINE l == Len(p)
           e == LengthEnd(p, l)
           w == TwoAt(p, e)
           j == e + 2 + w
<1>1. /\ LengthEnd(c, n) = e /\ e \in 2 .. l
      /\ mqtt_get_type(c) = mqtt_get_type(p)
      /\ mqtt_get_qos(c) = mqtt_get_qos(p) /\ \A i \in 1 .. l : c[i] = p[i]
  <2>1. (\E i \in 1 .. Len(p) - 1 : p[i + 1] < 128) /\ mqtt_get_total_length(p, Len(p)) = Len(p)
    BY DEF IsPacketOfMqtt
  <2>2. n \in Len(p) .. Len(c)
    OBVIOUS
  <2> QED BY <2>1, <2>2, FrontHead
<1>2. l \in Nat /\ l < n
  OBVIOUS
<1>3. ASSUME NEW i \in Nat, i + 2 <= l PROVE TwoAt(c, i) = TwoAt(p, i) /\ TwoAt(p, i) \in Nat
  <2>1. i + 1 \in 1 .. l /\ i + 2 \in 1 .. l
    BY <1>2, <1>3
  <2>2. p[i + 1] \in Octet /\ p[i + 2] \in Octet
    BY <2>1
  <2>3. c[i + 1] = p[i + 1] /\ c[i + 2] = p[i + 2]
    BY <1>1, <2>1
  <2>4. \A x, y \in Octet : x * 256 + y \in Nat
    BY DEF Octet
  <2> QED BY <2>2, <2>3, <2>4, ZenonT(40) DEF TwoAt
<1>4. CASE mqtt_get_type(p) = PUBLISH
  <2>1. mqtt_get_qos(p) # 0
    <3>1. PUBLISH \notin {PUBREC, PUBREL}
      BY DEF PUBLISH, PUBREC, PUBREL
    <3> QED BY <1>4, <3>1 DEF NeedsId
  <2>2. e + 2 <= l /\ j + 2 <= l /\ IdOf(p) = TwoAt(p, j)
    BY <1>4, <2>1 DEF IsPacketOfMqtt, IdAt, IdOf
  <2> HIDE DEF l, e
  <2>3. w \in Nat /\ TwoAt(c, e) = w
    BY <1>1, <1>2, <1>3, <2>2
  <2> HIDE DEF w
  <2>4. j \in Nat /\ TwoAt(c, j) = TwoAt(p, j)
    BY <1>1, <1>2, <1>3, <2>2, <2>3
  <2>5. ~ (e + 2 >= n) /\ ~ (j + 2 >= n)
    BY <1>1, <1>2, <2>2, <2>4
  <2>6. PUBLISH \notin {PUBACK, PUBREC, PUBREL, PUBCOMP, SUBACK, UNSUBACK, SUBSCRIBE}
    BY DEF PUBLISH, PUBACK, PUBREC, PUBREL, PUBCOMP, SUBACK, UNSUBACK, SUBSCRIBE
  <2>7. mqtt_get_id(c, n) = TwoAt(c, e + 2 + TwoAt(c, e))
    BY <1>1, <1>4, <2>1, <2>3, <2>5, <2>6 DEF mqtt_get_id
  <2> QED BY <2>2, <2>3, <2>4, <2>7
<1>5. CASE mqtt_get_type(p) \in {PUBREC, PUBREL}
  <2>1. l >= 4 /\ p[2] < 128 /\ mqtt_get_type(p) # PUBLISH
    BY <1>5 DEF IsPacketOfMqtt, PUBLISH, PUBREC, PUBREL
  <2>2. n >= 4 /\ c[2] < 128 /\ IdOf(p) = TwoAt(p, 2)
    BY <1>1, <1>2, <2>1 DEF IdOf
  <2>3. TwoAt(c, 2) = TwoAt(p, 2)
    BY <1>2, <1>3, <2>1
  <2>4. mqtt_get_id(c, n) = TwoAt(c, 2)
    BY <1>1, <1>5, <2>1, <2>2 DEF mqtt_get_id
  <2> QED BY <2>2, <2>3, <2>4
<1> QED BY <1>4, <1>5 DEF NeedsId

\* A turn of READPACKET for bytes that start with a packet.
TurnIs(p, b, fill, got, answers) ==
  /\ mqtt_get_total_length(b, Len(b)) = Len(p)
  /\ mqtt_get_type(b) = mqtt_get_type(p)
  /\ Turn(b, fill, [got |-> got, answers |-> answers, drawn |-> FALSE]) =
       [got |-> (IF mqtt_get_type(p) = PUBLISH THEN <<Command(p)>> ELSE <<>>) \o got,
        answers |-> Owed(p) \o answers, drawn |-> FALSE]

LEMMA FrontTurn ==
  ASSUME NEW p \in Seq(Octet), IsPacketOfMqtt(p),
         NEW b \in Seq(Octet), Sits(b, 0, p), Len(b) < InBuffer,
         NEW fill \in Octet, NEW got, NEW answers
  PROVE  TurnIs(p, b, fill, got, answers)
<1> DEFINE after == [got |-> got, answers |-> answers, drawn |-> FALSE]
           a == Letters(InBuffer - Len(b), fill)
           c == b \o a
           id == mqtt_get_id(c, InBuffer)
<1>1. /\ Len(p) \in Nat /\ Len(b) \in Nat /\ Len(p) <= Len(b) /\ InBuffer \in Nat
      /\ InBuffer - Len(b) \in Nat
  BY ReceiveAssumption DEF Sits
<1>2. a \in Seq(Octet) /\ Len(a) = InBuffer - Len(b)
  BY <1>1 DEF Letters
<1> HIDE DEF a
<1>3. c \in Seq(Octet) /\ Len(c) = InBuffer /\ Sits(c, 0, p)
  <2>1. c \in Seq(Octet) /\ Len(c) = Len(b) + Len(a) /\ Sits(c, 0, b)
    BY <1>2, AppendedSits
  <2> HIDE DEF c
  <2>2. Sits(c, 0 + 0, p) /\ 0 + 0 = 0
    BY <2>1, SitsIn
  <2> QED BY <1>1, <1>2, <2>1, <2>2
<1> HIDE DEF c
<1>4. /\ mqtt_get_total_length(b, Len(b)) = Len(p)
      /\ mqtt_get_type(b) = mqtt_get_type(p) /\ mqtt_get_qos(b) = mqtt_get_qos(p)
  <2>1. (\E i \in 1 .. Len(p) - 1 : p[i + 1] < 128) /\ mqtt_get_total_length(p, Len(p)) = Len(p)
    BY DEF IsPacketOfMqtt
  <2>2. Len(b) \in Len(p) .. Len(b)
    BY <1>1
  <2> QED BY <2>1, <2>2, FrontHead
<1>5. NeedsId(p) => id = IdOf(p) /\ id # 0
  <2>1. NeedsId(p) => IdOf(p) # 0
    <3>1. 0 \notin 1 .. 2
      OBVIOUS
    <3> QED BY <3>1 DEF IsPacketOfMqtt, NeedsId
  <2> QED BY <1>1, <1>3, <2>1, FrontId
<1>6. Answer(b, id) = Owed(p) /\ ~ (id = 0 /\ NeedsId(b))
  <2> HIDE DEF id
  <2>1. Reply(b, id) = Owed(p) /\ (NeedsId(b) <=> NeedsId(p))
    BY <1>4, <1>5, FrontReply
  <2>2. Answer(b, id) = Reply(b, id)
    BY <1>5, <2>1, AnswerIs
  <2> QED BY <1>5, <2>1, <2>2
<1>7. Deliver(b, Len(b)) = IF mqtt_get_type(p) = PUBLISH THEN <<Command(p)>> ELSE <<>>
  <2>1. CASE mqtt_get_type(p) = PUBLISH
    <3>1. Len(b) \in Len(p) .. Len(b)
      BY <1>1
    <3>2. /\ mqtt_get_publish_topic(b, Len(b)) = mqtt_get_publish_topic(p, Len(p))
          /\ mqtt_get_publish_data(b, Len(b)) = mqtt_get_publish_data(p, Len(p))
          /\ TopicFound(b, Len(b))
      BY <2>1, <3>1, FrontPublish
    <3> QED BY <1>4, <2>1, <3>2 DEF Deliver, mqttDataCb, Command
  <2>2. CASE mqtt_get_type(p) # PUBLISH
    BY <1>4, <2>2 DEF Deliver
  <2> QED BY <2>1, <2>2
<1>8. Turn(b, fill, after) = [got |-> Deliver(b, Len(b)) \o after.got,
                             answers |-> Answer(b, id) \o after.answers,
                             drawn |-> after.drawn \/ (id = 0 /\ NeedsId(b))]
  BY DEF Turn, id, c, a
<1>9. after.got = got /\ after.answers = answers /\ after.drawn = FALSE
  OBVIOUS
<1> HIDE DEF after, id
<1>10. Turn(b, fill, after) =
         [got |-> (IF mqtt_get_type(p) = PUBLISH THEN <<Command(p)>> ELSE <<>>) \o got,
          answers |-> Owed(p) \o answers, drawn |-> FALSE]
  BY <1>6, <1>7, <1>8, <1>9
<1> QED BY <1>4, <1>10 DEF after, TurnIs

-----------------------------------------------------------------------------
(* What the broker sends: the turns over a segment *)

LEMMA TotalPositive ==
  ASSUME NEW b \in Seq(Octet), NEW n \in 1 .. Len(b)
  PROVE  mqtt_get_total_length(b, n) \in Nat \ {0}
<1>1. PICK s : /\ Says(s, b, LengthEnd(b, n))
               /\ mqtt_get_total_length(b, n) = LengthEnd(b, n) + s[2]
  BY TotalIs
<1>2. LengthEnd(b, n) \in 1 .. n /\ n \in Nat
  <2>1. n \in Nat \ {0}
    OBVIOUS
  <2> QED BY <2>1, EndIs
<1>3. s[2] \in Nat
  <2>1. 2 \in 2 .. LengthEnd(b, n) + 1
    BY <1>2
  <2> QED BY <1>1, <2>1 DEF Says
<1> QED BY <1>1, <1>2, <1>3

\* What is read from the byte n of B on, by the recursion of Read.
ReadFrom(g, B, fill, n) ==
  LET b == SubSeq(B, n + 1, Len(B)) IN
  IF Len(b) = 0 \/ Len(b) >= InBuffer THEN NothingRead
  ELSE Turn(b, fill, IF Again(b, Len(b))
                     THEN g[n + mqtt_get_total_length(b, Len(b))]
                     ELSE NothingRead)

LEMMA ReadIs ==
  ASSUME NEW B \in Seq(Octet), NEW fill
  PROVE  \E g : /\ Read(B, fill) = g[0]
                /\ \A n \in 0 .. Len(B) : g[n] = ReadFrom(g, B, fill, n)
<1> DEFINE N == Len(B)
           F(g) == g = [n \in 0 .. N |-> ReadFrom(g, B, fill, n)]
           read == CHOOSE g : F(g)
           Good(g, k) == g = [n \in 0 .. N |-> g[n]]
                         /\ \A n \in k .. N : g[n] = ReadFrom(g, B, fill, n)
           T == {k \in 0 .. N + 1 : \E g : Good(g, k)}
<1>1. N \in Nat
  OBVIOUS
<1>2. Read(B, fill) = read[0]
  BY DEF Read, ReadFrom
\* What is read from n on depends on what is read further on only.
<1>3. ASSUME NEW n \in 0 .. N, NEW g, NEW h, \A i \in n + 1 .. N : g[i] = h[i]
      PROVE ReadFrom(g, B, fill, n) = ReadFrom(h, B, fill, n)
  <2> DEFINE b == SubSeq(B, n + 1, Len(B))
             t == mqtt_get_total_length(b, Len(b))
  <2>1. b \in Seq(Octet) /\ Len(b) = N - n
    BY <1>1
  <2> HIDE DEF b
  <2>2. CASE Len(b) = 0
    BY <2>2 DEF ReadFrom, b
  <2>3. CASE Len(b) # 0 /\ ~ Again(b, Len(b))
    BY <2>3 DEF ReadFrom, b
  <2>4. CASE Len(b) # 0 /\ Again(b, Len(b))
    <3>1. Len(b) \in 1 .. Len(b)
      BY <1>1, <2>1, <2>4
    <3>2. t \in Nat \ {0}
      BY <2>1, <3>1, TotalPositive
    <3>3. t < Len(b)
      BY <2>4 DEF Again
    <3>4. n + t \in n + 1 .. N
      BY <1>1, <2>1, <3>2, <3>3
    <3>5. g[n + t] = h[n + t]
      BY <1>3, <3>4
    <3> QED BY <3>5 DEF ReadFrom, b
  <2> QED BY <2>2, <2>3, <2>4
<1>4. N + 1 \in T
  <2> DEFINE z == [n \in 0 .. N |-> 0]
  <2>1. z = [n \in 0 .. N |-> z[n]]
    OBVIOUS
  <2>2. \A n \in N + 1 .. N : FALSE
    BY <1>1
  <2> HIDE DEF z
  <2>3. Good(z, N + 1)
    BY <2>1, <2>2
  <2> HIDE DEF Good
  <2> QED BY <1>1, <2>3
<1>5. ASSUME NEW k \in 0 .. (N + 1) - 1, k + 1 \in T PROVE k \in T
  <2>1. PICK g : Good(g, k + 1)
    BY <1>5
  <2> DEFINE v == ReadFrom(g, B, fill, k)
             h == [n \in 0 .. N |-> IF n = k THEN v ELSE g[n]]
  <2>2. h = [n \in 0 .. N |-> h[n]] /\ h[k] = v /\ \A n \in k + 1 .. N : h[n] = g[n]
    BY <1>1
  <2> HIDE DEF h
  <2>3. ASSUME NEW n \in k .. N PROVE h[n] = ReadFrom(h, B, fill, n)
    <3>1. \A i \in n + 1 .. N : g[i] = h[i]
      BY <1>1, <2>2, SMTT(30)
    <3>2. n \in 0 .. N
      BY <1>1
    <3>3. ReadFrom(g, B, fill, n) = ReadFrom(h, B, fill, n)
      BY <1>3, <3>1, <3>2
    <3>4. CASE n = k
      BY <2>2, <3>3, <3>4
    <3>5. CASE n # k
      <4>1. n \in k + 1 .. N
        BY <1>1, <3>5
      <4> QED BY <2>1, <2>2, <3>3, <4>1
    <3> QED BY <3>4, <3>5
  <2>4. Good(h, k)
    BY <2>2, <2>3
  <2>5. k \in 0 .. N + 1
    BY <1>1
  <2> HIDE DEF Good
  <2> QED BY <2>4, <2>5
<1>6. 0 \in T
  <2>1. N + 1 \in Nat /\ 0 \in 0 .. N + 1
    BY <1>1
  <2> HIDE DEF T
  <2> QED BY <1>4, <1>5, <2>1, DownInduction
<1>7. PICK g : Good(g, 0)
  BY <1>6
<1>8. F(g)
  BY <1>7
<1>9. F(read)
  BY <1>8
<1> HIDE DEF read
<1>10. \A n \in 0 .. N : read[n] = ReadFrom(read, B, fill, n)
  BY <1>9
<1> QED BY <1>2, <1>10

\* f[i] is what the first i of ps make together.
Together(f, ps, m) ==
  f[0] = <<>> /\ \A i \in 1 .. m : f[i] = f[i - 1] \o ps[i]

Flattens(f, ps, m, T) ==
  f \in [0 .. m -> Seq(T)] /\ Together(f, ps, m) /\ FlattenSeq(ps) = f[m]

LEMMA FlattenIs ==
  ASSUME NEW T, NEW m \in Nat, NEW ps \in [1 .. m -> Seq(T)]
  PROVE  \E f : Flattens(f, ps, m, T)
<1> DEFINE S == Seq(T)
           step == [i \in 1 .. m |-> [x \in S |-> x \o ps[i]]]
<1>1. step \in [1 .. m -> [S -> S]] /\ <<>> \in S
  OBVIOUS
<1>2. \A i \in 1 .. m, x \in S : step[i][x] = x \o ps[i]
  OBVIOUS
<1> HIDE DEF step, S
<1>3. PICK f : Recurs(f, m, S, <<>>, step)
  BY <1>1, RecursionExists
<1>4. f \in [0 .. m -> S] /\ Together(f, ps, m)
  <2>1. f \in [0 .. m -> S] /\ f[0] = <<>>
    BY <1>3 DEF Recurs
  <2>2. ASSUME NEW i \in 1 .. m PROVE f[i] = f[i - 1] \o ps[i]
    <3>1. i - 1 \in 0 .. m
      OBVIOUS
    <3>2. f[i - 1] \in S /\ f[i] = step[i][f[i - 1]]
      BY <1>3, <2>1, <3>1 DEF Recurs
    <3> QED BY <1>2, <3>2
  <2> QED BY <2>1, <2>2 DEF Together
<1>5. Len(ps) = m
  BY DEF S
<1>6. FlattenSeq(ps) = f[m]
  <2>1. CASE m = 0
    <3>1. ps = <<>>
      BY <1>5, <2>1
    <3> QED BY <1>4, <1>5, <2>1, <3>1 DEF FlattenSeq, Together
  <2>2. CASE m # 0
    <3> DEFINE F(g) == g = [i \in 1 .. m |-> IF i = 1 THEN ps[i] ELSE g[i - 1] \o ps[i]]
               flat == CHOOSE g : F(g)
               h == [i \in 1 .. m |-> f[i]]
    <3>1. FlattenSeq(ps) = flat[m]
      BY <1>5, <2>2 DEF FlattenSeq
    <3>2. f[1] = ps[1]
      <4>1. 1 \in 1 .. m /\ 1 - 1 = 0
        BY <2>2
      <4>2. ps[1] \in Seq(T) /\ f[1] = f[0] \o ps[1] /\ f[0] = <<>>
        BY <1>4, <4>1 DEF Together
      <4> QED BY <4>2, ConcatEmptySeq
    <3>3. F(h)
      <4>1. ASSUME NEW i \in 1 .. m PROVE h[i] = IF i = 1 THEN ps[i] ELSE h[i - 1] \o ps[i]
        <5>1. CASE i = 1
          BY <3>2, <5>1
        <5>2. CASE i # 1
          <6>1. i - 1 \in 1 .. m
            BY <5>2
          <6>2. h[i - 1] = f[i - 1] /\ h[i] = f[i] /\ f[i] = f[i - 1] \o ps[i]
            BY <1>4, <6>1 DEF Together
          <6> QED BY <5>2, <6>2
        <5> QED BY <5>1, <5>2
      <4> QED BY <4>1
    <3>4. F(flat)
      BY <3>3
    <3> HIDE DEF flat
    <3>5. \A i \in 1 .. m : flat[i] = IF i = 1 THEN ps[i] ELSE flat[i - 1] \o ps[i]
      BY <3>4
    <3> DEFINE U == {i \in 0 .. m : i >= 1 => flat[i] = f[i]}
    <3>6. 0 \in U
      OBVIOUS
    <3>7. ASSUME NEW i \in 0 .. m - 1, i \in U PROVE i + 1 \in U
      <4>1. i + 1 \in 1 .. m /\ (i + 1) - 1 = i
        OBVIOUS
      <4>2. f[i + 1] = f[i] \o ps[i + 1]
        BY <1>4, <4>1 DEF Together
      <4>3. flat[i + 1] = f[i + 1]
        <5>1. CASE i = 0
          BY <3>2, <3>5, <4>1, <5>1
        <5>2. CASE i # 0
          <6>1. flat[i] = f[i] /\ i + 1 # 1
            BY <3>7, <5>2
          <6>2. flat[i + 1] = flat[(i + 1) - 1] \o ps[i + 1]
            BY <3>5, <4>1, <6>1
          <6> QED BY <4>1, <4>2, <6>1, <6>2
        <5> QED BY <5>1, <5>2
      <4> QED BY <4>1, <4>3
    <3>8. \A i \in 0 .. m : i \in U
      <4> HIDE DEF U
      <4> QED BY <3>6, <3>7, IntervalInduction
    <3>9. m \in 0 .. m
      OBVIOUS
    <3> QED BY <2>2, <3>1, <3>8, <3>9
  <2> QED BY <2>1, <2>2
<1> QED BY <1>4, <1>6 DEF S, Flattens

\* What follows the first k of them.
Rest(f, m, k) == SubSeq(f[m], Len(f[k]) + 1, Len(f[m]))

LEMMA BehindIs ==
  ASSUME NEW T, NEW x \in Seq(T), NEW y \in Seq(T), NEW z, z = x \o y
  PROVE  SubSeq(z, Len(x) + 1, Len(z)) = y
<1> DEFINE n == Len(x)
           l == Len(y)
           w == SubSeq(z, n + 1, Len(z))
<1>1. n \in Nat /\ l \in Nat /\ z \in Seq(T) /\ Len(z) = n + l
      /\ \A i \in 1 .. n + l : z[i] = IF i <= n THEN x[i] ELSE y[i - n]
  BY ConcatProperties
<1> HIDE DEF n, l
<1>2. Len(w) = l /\ w \in Seq(T) /\ \A i \in 1 .. l : w[i] = z[n + i]
  <2>1. n + 1 \in 1 .. Len(z) + 1 /\ Len(z) \in n .. Len(z)
    BY <1>1
  <2>2. w \in Seq(T) /\ Len(w) = l
    BY <1>1, <2>1
  <2>3. ASSUME NEW i \in 1 .. l PROVE w[i] = z[n + i]
    <3>1. w[i] = z[(n + 1) + i - 1] /\ (n + 1) + i - 1 = n + i
      BY <1>1
    <3> QED BY <3>1
  <2> QED BY <2>2, <2>3
<1>3. ASSUME NEW i \in 1 .. l PROVE w[i] = y[i]
  <2>1. n + i \in 1 .. n + l /\ ~ (n + i <= n) /\ (n + i) - n = i
    BY <1>1
  <2> QED BY <1>1, <1>2, <2>1
<1> HIDE DEF w
<1>4. w = y
  <2>1. Len(w) = Len(y) /\ w \in Seq(T) /\ y \in Seq(T) /\ \A i \in 1 .. Len(w) : w[i] = y[i]
    BY <1>2, <1>3 DEF l
  <2> QED BY ONLY <2>1, SeqEqual, Zenon
<1> QED BY <1>4 DEF w, n

Regroups(u, v, w) == (u \o v) \o w = u \o (v \o w)

LEMMA ThreeOf ==
  ASSUME NEW T, NEW u \in Seq(T), NEW v \in Seq(T), NEW w \in Seq(T)
  PROVE  Regroups(u, v, w)
BY ConcatAssociative, SMTT(30) DEF Regroups

Parts(f, ps, m, T) ==
  /\ Rest(f, m, 0) = f[m] /\ Rest(f, m, m) = <<>>
  /\ \A k \in 0 .. m : /\ Rest(f, m, k) \in Seq(T) /\ Len(f[k]) \in Nat
                       /\ Len(f[m]) = Len(f[k]) + Len(Rest(f, m, k))
  /\ \A k \in 0 .. m - 1 : /\ Rest(f, m, k) = ps[k + 1] \o Rest(f, m, k + 1)
                           /\ Len(f[k + 1]) = Len(f[k]) + Len(ps[k + 1])

LEMMA RestIs ==
  ASSUME NEW T, NEW m \in Nat, NEW ps \in [1 .. m -> Seq(T)], NEW f, Flattens(f, ps, m, T)
  PROVE  Parts(f, ps, m, T)
<1>0. f \in [0 .. m -> Seq(T)] /\ Together(f, ps, m)
  BY DEF Flattens
<1> DEFINE Splits(k, y) == y \in Seq(T) /\ f[m] = f[k] \o y
           U == {k \in 0 .. m : \E y : Splits(k, y)}
<1>1. m \in U
  <2>1. Splits(m, <<>>)
    <3>1. f[m] \in Seq(T) /\ <<>> \in Seq(T)
      BY <1>0
    <3> QED BY <3>1, ConcatEmptySeq
  <2> HIDE DEF Splits
  <2> QED BY <2>1
<1>2. ASSUME NEW k \in 0 .. m - 1, NEW y, Splits(k + 1, y)
      PROVE Splits(k, ps[k + 1] \o y) /\ Len(f[k + 1]) = Len(f[k]) + Len(ps[k + 1])
  <2>1. k + 1 \in 1 .. m /\ (k + 1) - 1 = k /\ k \in 0 .. m
    OBVIOUS
  <2>2. f[k + 1] = f[k] \o ps[k + 1]
    BY <1>0, <2>1 DEF Together
  <2>3. f[k] \in Seq(T) /\ ps[k + 1] \in Seq(T) /\ y \in Seq(T) /\ f[m] = f[k + 1] \o y
    BY <1>0, <1>2, <2>1
  <2>4. (f[k] \o ps[k + 1]) \o y = f[k] \o (ps[k + 1] \o y)
    <3> DEFINE u == f[k]
               v == ps[k + 1]
    <3> HIDE DEF u, v
    <3>1. u \in Seq(T) /\ v \in Seq(T) /\ y \in Seq(T)
      BY <2>3 DEF u, v
    <3>2. Regroups(u, v, y)
      BY <3>1, ThreeOf
    <3> QED BY <3>2 DEF u, v, Regroups
  <2>5. ps[k + 1] \o y \in Seq(T)
    BY <2>3
  <2>6. Len(f[k] \o ps[k + 1]) = Len(f[k]) + Len(ps[k + 1])
    BY <2>3, ConcatProperties
  <2> QED BY <2>2, <2>3, <2>4, <2>5, <2>6
<1>3. ASSUME NEW k \in 0 .. m, NEW y, Splits(k, y)
      PROVE Rest(f, m, k) = y
  <2>1. f[k] \in Seq(T) /\ y \in Seq(T) /\ f[m] = f[k] \o y
    BY <1>0, <1>3
  <2> DEFINE x == f[k]
             z == f[m]
  <2>2. x \in Seq(T) /\ z = x \o y
    BY <2>1
  <2>3. Rest(f, m, k) = SubSeq(z, Len(x) + 1, Len(z))
    BY DEF Rest
  <2> HIDE DEF x, z
  <2>4. SubSeq(z, Len(x) + 1, Len(z)) = y
    BY <2>1, <2>2, BehindIs
  <2> QED BY <2>3, <2>4
<1> HIDE DEF Splits
<1>4. \A k \in 0 .. m : k \in U
  <2>1. ASSUME NEW k \in 0 .. m - 1, k + 1 \in U PROVE k \in U
    <3>1. PICK y : Splits(k + 1, y)
      BY <2>1
    <3>2. k \in 0 .. m
      OBVIOUS
    <3> QED BY <1>2, <3>1, <3>2
  <2> HIDE DEF U
  <2> QED BY <1>1, <2>1, DownInduction
<1>5. ASSUME NEW k \in 0 .. m PROVE Splits(k, Rest(f, m, k))
  <2>1. PICK y : Splits(k, y)
    BY <1>4
  <2> QED BY <1>3, <2>1
<1>6. ASSUME NEW k \in 0 .. m - 1
      PROVE /\ Rest(f, m, k) = ps[k + 1] \o Rest(f, m, k + 1)
            /\ Len(f[k + 1]) = Len(f[k]) + Len(ps[k + 1])
  <2>1. k \in 0 .. m /\ k + 1 \in 0 .. m
    OBVIOUS
  <2>2. Splits(k + 1, Rest(f, m, k + 1))
    BY <1>5, <2>1
  <2>3. Splits(k, ps[k + 1] \o Rest(f, m, k + 1)) /\ Len(f[k + 1]) = Len(f[k]) + Len(ps[k + 1])
    BY <1>2, <2>2
  <2> QED BY <1>3, <2>1, <2>3
<1>7. Rest(f, m, m) = <<>>
  <2>1. Splits(m, <<>>)
    <3>1. f[m] \in Seq(T) /\ <<>> \in Seq(T)
      BY <1>0
    <3> QED BY <3>1, ConcatEmptySeq DEF Splits
  <2>2. m \in 0 .. m
    OBVIOUS
  <2> QED BY <1>3, <2>1, <2>2
<1>8. Rest(f, m, 0) = f[m]
  <2>1. Splits(0, f[m])
    <3>1. f[m] \in Seq(T) /\ f[0] = <<>>
      BY <1>0 DEF Together
    <3> QED BY <3>1, ConcatEmptySeq DEF Splits
  <2>2. 0 \in 0 .. m
    OBVIOUS
  <2> QED BY <1>3, <2>1, <2>2
<1>9. ASSUME NEW k \in 0 .. m
      PROVE /\ Rest(f, m, k) \in Seq(T) /\ Len(f[k]) \in Nat
            /\ Len(f[m]) = Len(f[k]) + Len(Rest(f, m, k))
  <2> DEFINE r == Rest(f, m, k)
  <2>1. r \in Seq(T) /\ f[m] = f[k] \o r /\ f[k] \in Seq(T)
    BY <1>0, <1>5 DEF Splits
  <2> HIDE DEF r
  <2>2. Len(f[k] \o r) = Len(f[k]) + Len(r) /\ Len(f[k]) \in Nat
    BY <2>1, ConcatProperties
  <2> QED BY <2>1, <2>2 DEF r
<1> QED BY <1>6, <1>7, <1>8, <1>9 DEF Parts

\* The commands of the packets k + 1 .. n.
Commands(ps, k, n) == [i \in 1 .. n - k |-> Command(ps[k + i])]

LEMMA CommandsIs ==
  ASSUME NEW ps, NEW n \in Nat, NEW k \in 0 .. n - 1
  PROVE  <<Command(ps[k + 1])>> \o Commands(ps, k + 1, n) = Commands(ps, k, n)
<1> DEFINE T == {Command(ps[i]) : i \in 1 .. n}
           x == <<Command(ps[k + 1])>>
           y == Commands(ps, k + 1, n)
           z == Commands(ps, k, n)
           xy == x \o y
<1>1. x \in Seq(T) /\ Len(x) = 1 /\ x[1] = Command(ps[k + 1])
  <2>1. k + 1 \in 1 .. n
    OBVIOUS
  <2> QED BY <2>1
<1>2. y \in Seq(T) /\ Len(y) = n - (k + 1) /\ \A i \in 1 .. n - (k + 1) : y[i] = Command(ps[k + 1 + i])
  <2>1. n - (k + 1) \in Nat /\ \A i \in 1 .. n - (k + 1) : k + 1 + i \in 1 .. n
    OBVIOUS
  <2> QED BY <2>1 DEF Commands
<1>3. z \in Seq(T) /\ Len(z) = n - k /\ \A i \in 1 .. n - k : z[i] = Command(ps[k + i])
  <2>1. n - k \in Nat /\ \A i \in 1 .. n - k : k + i \in 1 .. n
    OBVIOUS
  <2> QED BY <2>1 DEF Commands
<1> HIDE DEF T, x, y, z
<1>4. /\ xy \in Seq(T) /\ Len(xy) = Len(x) + Len(y)
      /\ \A i \in 1 .. Len(x) + Len(y) : xy[i] = IF i <= Len(x) THEN x[i] ELSE y[i - Len(x)]
  BY <1>1, <1>2, ConcatProperties
<1> HIDE DEF xy
<1>5. Len(xy) = Len(z) /\ \A i \in 1 .. Len(xy) : xy[i] = z[i]
  <2>1. Len(xy) = n - k
    BY <1>1, <1>2, <1>4
  <2>2. ASSUME NEW i \in 1 .. n - k PROVE xy[i] = z[i]
    <3>1. CASE i = 1
      BY <1>1, <1>2, <1>3, <1>4, <2>1, <3>1
    <3>2. CASE i # 1
      <4>1. i - 1 \in 1 .. n - (k + 1) /\ k + 1 + (i - 1) = k + i /\ ~ (i <= 1)
        BY <3>2
      <4>2. xy[i] = y[i - 1]
        BY <1>1, <1>2, <1>4, <2>1, <4>1
      <4> QED BY <1>2, <1>3, <4>1, <4>2
    <3> QED BY <3>1, <3>2
  <2> QED BY <1>3, <2>1, <2>2
<1>6. xy = z
  BY ONLY <1>3, <1>4, <1>5, SeqEqual, Zenon
<1> QED BY <1>6 DEF x, y, z, xy

\* READPACKET over packets of which the first n are publishes and the next, if
\* there is one, is not.
OwedBy(owed, ps, n, m) ==
  owed = [i \in 1 .. (IF n < m THEN n + 1 ELSE n) |-> Owed(ps[i])]
IsReadAs(B, fill, ps, n, owed) ==
  Read(B, fill) = [got |-> Commands(ps, 0, n), answers |-> FlattenSeq(owed), drawn |-> FALSE]
Leads(ps, n, m) ==
  /\ n \in 0 .. m /\ \A i \in 1 .. n : mqtt_get_type(ps[i]) = PUBLISH
  /\ n < m => mqtt_get_type(ps[n + 1]) # PUBLISH

LEMMA ReadDelivers ==
  ASSUME NEW m \in Nat, NEW ps \in [1 .. m -> Packets],
         NEW B, B = FlattenSeq(ps), Len(B) < InBuffer, NEW fill \in Octet,
         NEW n, Leads(ps, n, m), NEW owed, OwedBy(owed, ps, n, m)
  PROVE  IsReadAs(B, fill, ps, n, owed)
<1> DEFINE M == IF n < m THEN n + 1 ELSE n
<1>0. /\ n \in 0 .. m /\ \A i \in 1 .. n : mqtt_get_type(ps[i]) = PUBLISH
      /\ n < m => mqtt_get_type(ps[n + 1]) # PUBLISH
      /\ owed = [i \in 1 .. M |-> Owed(ps[i])]
  BY DEF Leads, OwedBy
<1>1. ASSUME NEW i \in 1 .. m PROVE IsPacketOfMqtt(ps[i]) /\ ps[i] \in Seq(Octet)
  BY ReceiveAssumption DEF IsPacketOfMqtt, Octet
<1>2. /\ M \in 0 .. m /\ M \in Nat /\ n <= M /\ n \in 0 .. m /\ n \in Nat
      /\ (n < m => M = n + 1) /\ (n = m => M = n)
  BY <1>0
<1> HIDE DEF M
<1> DEFINE A == UNION {{Owed(ps[i])[j] : j \in DOMAIN Owed(ps[i])} : i \in 1 .. m}
<1>3. owed \in [1 .. M -> Seq(A)]
  <2>1. ASSUME NEW p PROVE Owed(p) = <<>> \/ \E a : Owed(p) = <<a>>
    BY DEF Owed, Reply
  <2>2. ASSUME NEW i \in 1 .. M PROVE Owed(ps[i]) \in Seq(A)
    <3>1. i \in 1 .. m
      BY <1>2
    <3>2. CASE Owed(ps[i]) = <<>>
      <4> HIDE DEF A
      <4> QED BY <3>2
    <3>3. ASSUME NEW a, Owed(ps[i]) = <<a>> PROVE Owed(ps[i]) \in Seq(A)
      <4>1. a \in {Owed(ps[i])[j] : j \in DOMAIN Owed(ps[i])}
        <5>1. 1 \in DOMAIN <<a>> /\ <<a>>[1] = a
          OBVIOUS
        <5> QED BY <3>3, <5>1
      <4>2. a \in A
        BY <3>1, <4>1
      <4> HIDE DEF A
      <4> QED BY <3>3, <4>2
    <3> QED BY <2>1, <3>2, <3>3
  <2> HIDE DEF A
  <2> QED BY <1>0, <2>2
<1> HIDE DEF A
<1>4. PICK h : Flattens(h, owed, M, A)
  BY <1>2, <1>3, FlattenIs
<1>5. ps \in [1 .. m -> Seq(Octet)]
  BY <1>1
<1>6. PICK f : Flattens(f, ps, m, Octet)
  BY <1>5, FlattenIs
<1>7. B \in Seq(Octet) /\ B = f[m] /\ f[0] = <<>>
  BY <1>6 DEF Flattens, Together
<1>8. PICK g : /\ Read(B, fill) = g[0]
               /\ \A i \in 0 .. Len(B) : g[i] = ReadFrom(g, B, fill, i)
  BY <1>7, ReadIs
<1> DEFINE R(k) == Rest(f, m, k)
           Y(k) == Rest(h, M, k)
           Res(k) == [got |-> Commands(ps, k, n), answers |-> Y(k), drawn |-> FALSE]
           U == {k \in 0 .. n : g[Len(f[k])] = Res(k)}
<1>9. /\ R(0) = B /\ R(m) = <<>>
      /\ \A k \in 0 .. m : /\ R(k) \in Seq(Octet) /\ Len(f[k]) \in Nat
                           /\ Len(B) = Len(f[k]) + Len(R(k))
      /\ \A k \in 0 .. m - 1 : /\ R(k) = ps[k + 1] \o R(k + 1)
                               /\ Len(f[k + 1]) = Len(f[k]) + Len(ps[k + 1])
  <2>1. Parts(f, ps, m, Octet)
    BY <1>5, <1>6, RestIs
  <2> QED BY <1>7, <2>1 DEF Parts
<1>10. /\ Y(0) = FlattenSeq(owed) /\ Y(M) = <<>>
       /\ \A k \in 0 .. M - 1 : Y(k) = Owed(ps[k + 1]) \o Y(k + 1)
  <2>1. /\ Y(0) = FlattenSeq(owed) /\ Y(M) = <<>>
        /\ \A k \in 0 .. M - 1 : Y(k) = owed[k + 1] \o Y(k + 1)
    <3>1. Parts(h, owed, M, A) /\ FlattenSeq(owed) = h[M]
      BY <1>2, <1>3, <1>4, RestIs DEF Flattens
    <3> QED BY <3>1 DEF Parts
  <2>2. ASSUME NEW k \in 0 .. M - 1 PROVE owed[k + 1] = Owed(ps[k + 1])
    <3>1. k + 1 \in 1 .. M
      BY <1>2
    <3> QED BY <1>0, <3>1
  <2> QED BY <2>1, <2>2
<1>11. \A k \in 0 .. m : /\ R(k) = SubSeq(B, Len(f[k]) + 1, Len(B))
                         /\ g[Len(f[k])] = ReadFrom(g, B, fill, Len(f[k]))
  <2> SUFFICES ASSUME NEW k \in 0 .. m
               PROVE /\ R(k) = SubSeq(B, Len(f[k]) + 1, Len(B))
                     /\ g[Len(f[k])] = ReadFrom(g, B, fill, Len(f[k]))
    OBVIOUS
  <2>1. R(k) = SubSeq(B, Len(f[k]) + 1, Len(B))
    BY <1>7 DEF Rest
  <2>2. Len(f[k]) \in 0 .. Len(B)
    <3>1. Len(f[k]) \in Nat /\ Len(B) = Len(f[k]) + Len(R(k)) /\ R(k) \in Seq(Octet)
      BY <1>9
    <3> HIDE DEF R
    <3>2. Len(R(k)) \in Nat
      BY <3>1
    <3> QED BY <3>1, <3>2
  <2> QED BY <1>8, <2>1, <2>2
<1> HIDE DEF R, Y
\* Nothing is read where the bytes end.
<1>12. g[Len(f[m])] = NothingRead
  <2>0. m \in 0 .. m /\ Len(<<>>) = 0
    OBVIOUS
  <2>1. R(m) = SubSeq(B, Len(f[m]) + 1, Len(B)) /\ R(m) = <<>> /\ Len(<<>>) = 0
    BY <1>9, <1>11, <2>0
  <2>2. g[Len(f[m])] = ReadFrom(g, B, fill, Len(f[m]))
    BY <1>11, <2>0
  <2>3. ReadFrom(g, B, fill, Len(f[m])) = NothingRead
    BY <2>1 DEF ReadFrom
  <2> QED BY <2>2, <2>3
\* A packet, and what follows it.
<1>13. ASSUME NEW k \in 0 .. m - 1, NEW got, NEW answers,
              LET p == ps[k + 1]
                  after == [got |-> got, answers |-> answers, drawn |-> FALSE]
              IN IF mqtt_get_type(p) = PUBLISH THEN g[Len(f[k + 1])] = after
                 ELSE NothingRead = after
       PROVE g[Len(f[k])] =
               [got |-> (IF mqtt_get_type(ps[k + 1]) = PUBLISH THEN <<Command(ps[k + 1])>>
                         ELSE <<>>) \o got,
                answers |-> Owed(ps[k + 1]) \o answers, drawn |-> FALSE]
  <2> DEFINE p == ps[k + 1]
             b == R(k)
             r == R(k + 1)
             t == mqtt_get_total_length(b, Len(b))
             after == [got |-> got, answers |-> answers, drawn |-> FALSE]
  <2>1. k \in 0 .. m /\ k + 1 \in 1 .. m /\ k + 1 \in 0 .. m
    OBVIOUS
  <2>2. p \in Seq(Octet) /\ IsPacketOfMqtt(p)
    BY <1>1, <2>1
  <2>3. /\ b \in Seq(Octet) /\ r \in Seq(Octet) /\ b = p \o r
        /\ Len(B) = Len(f[k]) + Len(b) /\ Len(f[k]) \in Nat
        /\ Len(f[k + 1]) = Len(f[k]) + Len(p)
    BY <1>9, <2>1
  <2>4. /\ b = SubSeq(B, Len(f[k]) + 1, Len(B))
        /\ g[Len(f[k])] = ReadFrom(g, B, fill, Len(f[k]))
    BY <1>11, <2>1
  <2>5. IF mqtt_get_type(p) = PUBLISH THEN g[Len(f[k + 1])] = after ELSE NothingRead = after
    BY <1>13
  <2> HIDE DEF p, r, b, after
  <2>6. Sits(b, 0, p) /\ Len(b) = Len(p) + Len(r) /\ Len(p) \in Nat /\ Len(r) \in Nat
    BY <2>2, <2>3, AppendedSits
  <2>7. Len(p) >= 2
    <3>1. PICK i \in 1 .. Len(p) - 1 : p[i + 1] < 128
      BY <2>2 DEF IsPacketOfMqtt
    <3> QED BY <2>6, <3>1
  <2>8. Len(b) < InBuffer /\ ~ (Len(b) = 0) /\ ~ (Len(b) >= InBuffer) /\ InBuffer \in Nat
    <3>1. InBuffer \in Nat
      BY ReceiveAssumption
    <3>2. Len(b) \in Nat /\ Len(b) <= Len(B)
      <4>1. Len(b) \in Nat
        BY <2>6
      <4>2. Len(B) = Len(f[k]) + Len(b) /\ Len(f[k]) \in Nat
        BY <2>3
      <4> DEFINE x == Len(f[k])
                 y == Len(b)
                 z == Len(B)
      <4>3. y \in Nat /\ x \in Nat /\ z = x + y
        BY <4>1, <4>2
      <4> HIDE DEF x, y, z
      <4>4. y \in Nat /\ y <= z
        BY <4>3
      <4> QED BY <4>4 DEF y, z
    <3>3. Len(B) \in Nat
      BY <1>7
    <3> QED BY <2>6, <2>7, <3>1, <3>2, <3>3
  <2>9. /\ t = Len(p) /\ mqtt_get_type(b) = mqtt_get_type(p)
        /\ Turn(b, fill, after) =
             [got |-> (IF mqtt_get_type(p) = PUBLISH THEN <<Command(p)>> ELSE <<>>) \o got,
              answers |-> Owed(p) \o answers, drawn |-> FALSE]
    <3>1. b \in Seq(Octet) /\ Len(b) < InBuffer
      BY <2>3, <2>8
    <3> HIDE DEF t
    <3>2. TurnIs(p, b, fill, got, answers)
      BY <2>2, <2>6, <3>1, FrontTurn
    <3> QED BY <3>2 DEF after, t, TurnIs
  <2>10. (IF Again(b, Len(b)) THEN g[Len(f[k]) + t] ELSE NothingRead) = after
    <3>1. CASE Again(b, Len(b))
      <4>1. mqtt_get_type(p) = PUBLISH
        BY <2>9, <3>1 DEF Again
      <4>2. Len(f[k]) + t = Len(f[k + 1])
        BY <2>3, <2>9
      <4> QED BY <2>5, <3>1, <4>1, <4>2
    <3>2. CASE ~ Again(b, Len(b)) /\ mqtt_get_type(p) # PUBLISH
      BY <2>5, <3>2
    <3>3. CASE ~ Again(b, Len(b)) /\ mqtt_get_type(p) = PUBLISH
      <4>1. ~ (t < Len(b))
        BY <2>9, <3>3 DEF Again
      <4>2. Len(f[k + 1]) = Len(B)
        <5>1. Len(r) = 0
          BY <2>6, <2>9, <4>1
        <5> QED BY <2>3, <2>6, <5>1
      <4>3. Len(f[m]) = Len(B)
        BY <1>7
      <4>4. NothingRead = after
        BY <1>12, <2>5, <3>3, <4>2, <4>3
      <4> QED BY <3>3, <4>4
    <3> QED BY <3>1, <3>2, <3>3
  <2>11. ReadFrom(g, B, fill, Len(f[k])) = Turn(b, fill, after)
    BY <2>4, <2>8, <2>10 DEF ReadFrom
  <2> QED BY <2>4, <2>9, <2>11 DEF p
<1>14. Commands(ps, n, n) = <<>>
  BY <1>2 DEF Commands
<1>15. n \in U
  <2>1. CASE n = m
    <3>1. Y(n) = <<>>
      BY <1>2, <1>10, <2>1
    <3> QED BY <1>2, <1>12, <1>14, <2>1, <3>1 DEF NothingRead
  <2>2. CASE n < m
    <3>1. n \in 0 .. m - 1 /\ mqtt_get_type(ps[n + 1]) # PUBLISH
      BY <1>0, <1>2, <2>2
    <3>2. g[Len(f[n])] = [got |-> <<>> \o <<>>, answers |-> Owed(ps[n + 1]) \o <<>>,
                          drawn |-> FALSE]
      BY <1>13, <3>1 DEF NothingRead
    <3>3. Y(n) = Owed(ps[n + 1]) \o <<>>
      <4>1. n \in 0 .. M - 1 /\ Y(M) = <<>> /\ M = n + 1
        BY <1>2, <1>10, <2>2
      <4> QED BY <1>10, <4>1
    <3>4. <<>> \o <<>> = <<>>
      OBVIOUS
    <3> QED BY <1>2, <1>14, <3>2, <3>3, <3>4
  <2> QED BY <1>2, <2>1, <2>2
<1>16. ASSUME NEW k \in 0 .. n - 1, k + 1 \in U PROVE k \in U
  <2>1. /\ k \in 0 .. m - 1 /\ k \in 0 .. M - 1 /\ k \in 0 .. n /\ k + 1 \in 1 .. n
        /\ mqtt_get_type(ps[k + 1]) = PUBLISH
    BY <1>0, <1>2
  <2>2. g[Len(f[k + 1])] = [got |-> Commands(ps, k + 1, n), answers |-> Y(k + 1), drawn |-> FALSE]
    BY <1>16
  <2>3. g[Len(f[k])] = [got |-> <<Command(ps[k + 1])>> \o Commands(ps, k + 1, n),
                        answers |-> Owed(ps[k + 1]) \o Y(k + 1), drawn |-> FALSE]
    BY <1>13, <2>1, <2>2
  <2>4. <<Command(ps[k + 1])>> \o Commands(ps, k + 1, n) = Commands(ps, k, n)
    BY <1>2, CommandsIs
  <2>5. Owed(ps[k + 1]) \o Y(k + 1) = Y(k)
    BY <1>10, <2>1
  <2> QED BY <2>1, <2>3, <2>4, <2>5
<1>17. \A k \in 0 .. n : k \in U
  <2> HIDE DEF U
  <2> QED BY <1>2, <1>15, <1>16, DownInduction
<1>18. 0 \in 0 .. n /\ 0 \in 0 .. m /\ Len(f[0]) = 0
  <2> QED BY <1>2, <1>7
<1> QED BY <1>8, <1>10, <1>17, <1>18 DEF IsReadAs

LEMMA MaxIs ==
  ASSUME NEW m \in Nat, NEW T, T \subseteq 0 .. m, 0 \in T
  PROVE  Max(T) \in T /\ \A y \in T : y <= Max(T)
<1> DEFINE U == {k \in 0 .. m : \E x \in T : \A y \in T : y <= k => y <= x}
<1>1. 0 \in U
  OBVIOUS
<1>2. ASSUME NEW k \in 0 .. m - 1, k \in U PROVE k + 1 \in U
  <2>1. PICK x \in T : \A y \in T : y <= k => y <= x
    BY <1>2
  <2>2. CASE k + 1 \in T
    <3>1. k + 1 \in 0 .. m
      OBVIOUS
    <3> QED BY <2>2, <3>1
  <2>3. CASE k + 1 \notin T
    <3>1. \A y \in T : y <= k + 1 => y <= x
      BY <2>1, <2>3
    <3> QED BY <3>1
  <2> QED BY <2>2, <2>3
<1>3. \A k \in 0 .. m : k \in U
  <2> HIDE DEF U
  <2> QED BY <1>1, <1>2, IntervalInduction
<1>4. PICK x \in T : \A y \in T : x >= y
  <2>1. m \in U
    BY <1>3
  <2> QED BY <2>1
<1>5. Max(T) \in T /\ \A y \in T : Max(T) >= y
  BY <1>4 DEF Max
<1> QED BY <1>5

LEMMA LeadingIs ==
  ASSUME NEW m \in Nat, NEW ps, Len(ps) = m, NEW n, n = LeadingCount(ps)
  PROVE  Leads(ps, n, m)
<1> DEFINE T == {k \in 0 .. m : \A i \in 1 .. k : mqtt_get_type(ps[i]) = PUBLISH}
<1>1. n = Max(T)
  BY DEF LeadingCount
<1>2. T \subseteq 0 .. m /\ 0 \in T
  OBVIOUS
<1>3. n \in T /\ \A y \in T : y <= n
  <2> HIDE DEF T
  <2> QED BY <1>1, <1>2, MaxIs
<1>4. ASSUME n < m, mqtt_get_type(ps[n + 1]) = PUBLISH PROVE FALSE
  <2>1. n \in 0 .. m /\ n + 1 \in 0 .. m
    BY <1>3, <1>4
  <2>2. ASSUME NEW i \in 1 .. n + 1 PROVE mqtt_get_type(ps[i]) = PUBLISH
    <3>1. i \in 1 .. n \/ i = n + 1
      BY <2>1
    <3> QED BY <1>3, <1>4, <3>1
  <2>3. n + 1 \in T
    BY <2>1, <2>2
  <2> QED BY <1>3, <2>1, <2>3
<1> QED BY <1>3, <1>4 DEF Leads

\* A segment delivers what it holds.
LEMMA SegmentDelivers == ASSUME mqtt_tcpclient_recv PROVE CommandsAreDelivered'
<1>a. PICK packets \in SeqOf(Packets, MaxPackets) :
        \E kept \in 0 .. (IF packets = <<>> THEN 0 ELSE Len(Last(packets)) - 1),
           fill \in {49} :
          LET all == cutOff \o FlattenSeq(packets)
              bytes == SubSeq(all, 1, Len(all) - kept)
          IN segment' = [before |-> cutOff, packets |-> packets, kept |-> kept,
                         read |-> Read(bytes, fill)]
  BY DEF mqtt_tcpclient_recv
<1>1. PICK kept, fill :
        /\ fill \in {49}
        /\ LET all == cutOff \o FlattenSeq(packets)
               bytes == SubSeq(all, 1, Len(all) - kept)
           IN segment' = [before |-> cutOff, packets |-> packets, kept |-> kept,
                          read |-> Read(bytes, fill)]
  BY <1>a, ZenonT(40)
<1>2. PICK m \in Nat : packets \in [1 .. m -> Packets]
  BY ReceiveAssumption DEF SeqOf
<1>3. Len(packets) = m /\ \A i \in 1 .. m : packets[i] \in Packets
  BY <1>2
<1> DEFINE B == FlattenSeq(packets)
           n == LeadingCount(packets)
           M == IF n < m THEN n + 1 ELSE n
           own == [i \in 1 .. n |-> Command(packets[i])]
           owed == [i \in 1 .. M |-> Owed(packets[i])]
<1>4. /\ segment'.before = cutOff /\ segment'.packets = packets /\ segment'.kept = kept
      /\ segment'.read = Read(SubSeq(cutOff \o B, 1, Len(cutOff \o B) - kept), fill)
  BY <1>1
<1>b. Leads(packets, n, m)
  BY <1>3, LeadingIs
<1>5. n \in 0 .. m
  BY <1>b DEF Leads
<1>6. B \in Seq(Octet)
  <2>1. ASSUME NEW i \in 1 .. m PROVE packets[i] \in Seq(Octet)
    BY <1>3, ReceiveAssumption DEF IsPacketOfMqtt, Octet
  <2>2. packets \in [1 .. m -> Seq(Octet)]
    BY <1>2, <2>1
  <2>3. PICK f : Flattens(f, packets, m, Octet)
    BY <2>2, FlattenIs
  <2> QED BY <2>3 DEF Flattens
<1>7. ASSUME cutOff = <<>>, kept = 0, Len(B) < InBuffer
      PROVE Read(SubSeq(cutOff \o B, 1, Len(cutOff \o B) - kept), fill) =
              [got |-> own, answers |-> FlattenSeq(owed), drawn |-> FALSE]
  <2> HIDE DEF B
  <2>1. SubSeq(cutOff \o B, 1, Len(cutOff \o B) - kept) = B
    <3>1. cutOff \o B = B
      BY <1>6, <1>7, ConcatEmptySeq
    <3>2. SubSeq(B, 1, Len(B) - 0) = B
      <4>1. Len(B) \in Nat /\ Len(B) - 0 = Len(B)
        BY <1>6
      <4>2. SubSeq(B, 1, Len(B)) = B
        BY <1>6
      <4> QED BY <4>1, <4>2
    <3> QED BY <1>7, <3>1, <3>2
  <2> HIDE DEF n, M, owed
  <2>2. fill \in Octet
    BY <1>1 DEF Octet
  <2>3. Read(B, fill) = [got |-> Commands(packets, 0, n), answers |-> FlattenSeq(owed),
                         drawn |-> FALSE]
    <3>1. B = FlattenSeq(packets) /\ Len(B) < InBuffer
      BY <1>7 DEF B
    <3>2. OwedBy(owed, packets, n, m)
      BY DEF OwedBy, owed, M
    <3>3. IsReadAs(B, fill, packets, n, owed)
      BY <1>2, <1>b, <2>2, <3>1, <3>2, ReadDelivers
    <3> QED BY <3>3 DEF IsReadAs
  <2>4. Commands(packets, 0, n) = own
    <3>1. n - 0 = n /\ \A i \in 1 .. n : 0 + i = i
      BY <1>5
    <3> QED BY <3>1 DEF Commands
  <2> QED BY <2>1, <2>3, <2>4
<1>8. Min({n + 1, Len(packets)}) = M
  <2> DEFINE T == {n + 1, m}
  <2>1. M \in T /\ T \subseteq Int /\ \A i \in T : M <= i
    BY <1>5
  <2> HIDE DEF T, n, M
  <2>2. Min(T) = M
    BY <2>1, MinIs
  <2> QED BY <1>3, <2>2 DEF T
<1>9. [i \in 1 .. M |-> Answer(packets[i], IdOf(packets[i]))'] = owed
  <2>1. ASSUME NEW i \in 1 .. M
        PROVE Answer(packets[i], IdOf(packets[i]))' = Owed(packets[i])
    <3>1. i \in 1 .. m
      BY <1>5
    <3>2. IsPacketOfMqtt(packets[i])
      BY <1>3, <3>1, ReceiveAssumption
    <3> DEFINE p == packets[i]
    <3> HIDE DEF p
    <3>3. NeedsId(p) => IdOf(p) # 0
      <4>1. 0 \notin 1 .. 2 /\ IsPacketOfMqtt(p)
        BY <3>2 DEF p
      <4> QED BY <4>1 DEF IsPacketOfMqtt, NeedsId
    <3>4. (Answer(p, IdOf(p)) = Reply(p, IdOf(p)))'
      BY <3>3, AnswerIs
    <3> QED BY <3>4 DEF p, Owed
  <2> HIDE DEF M
  <2> QED BY <2>1
<1> HIDE DEF B, n, M, own, owed
<1> SUFFICES ASSUME segment'.before = <<>>, segment'.kept = 0,
                    Len(FlattenSeq(segment'.packets)) < InBuffer
             PROVE  /\ segment'.read.got = own
                    /\ segment'.read.answers = FlattenSeq(owed)
                    /\ ~ segment'.read.drawn
  BY <1>4, <1>8, <1>9 DEF CommandsAreDelivered, n, own, Command
<1> QED BY <1>4, <1>7 DEF B

LEMMA NothingIsOwed ==
  /\ segment = NoSegment => CommandsAreDelivered
  /\ segment' = NoSegment => CommandsAreDelivered'
<1> DEFINE ps == NoSegment.packets
<1>1. ps = <<>> /\ Len(ps) = 0 /\ NoSegment.read = NothingRead
  BY DEF NoSegment
<1>2. LeadingCount(ps) = 0
  <2> HIDE DEF ps
  <2> DEFINE n == LeadingCount(ps)
  <2>1. Leads(ps, n, 0)
    BY <1>1, LeadingIs
  <2> HIDE DEF n
  <2>2. n = 0
    BY <2>1 DEF Leads
  <2> QED BY <2>2 DEF n
<1>3. Min({0 + 1, Len(ps)}) = 0
  <2> DEFINE T == {0 + 1, Len(ps)}
  <2>1. 0 \in T /\ T \subseteq Int /\ \A i \in T : 0 <= i
    BY <1>1
  <2> HIDE DEF T
  <2>2. Min(T) = 0
    BY <2>1, MinIs
  <2> QED BY <2>2 DEF T
<1>4. FlattenSeq(<<>>) = <<>>
  BY DEF FlattenSeq
<1>5. NothingRead.got = <<>> /\ NothingRead.answers = <<>> /\ NothingRead.drawn = FALSE
  BY DEF NothingRead
<1> HIDE DEF ps
<1>6. ASSUME segment = NoSegment PROVE CommandsAreDelivered
  <2>1. segment.packets = ps /\ segment.read = NothingRead
    BY <1>1, <1>6 DEF ps
  <2>2. [i \in 1 .. 0 |-> Answer(ps[i], IdOf(ps[i]))] = <<>>
    OBVIOUS
  <2>3. [i \in 1 .. 0 |-> [topic |-> mqtt_get_publish_topic(ps[i], Len(ps[i])),
                           data |-> mqtt_get_publish_data(ps[i], Len(ps[i]))]] = <<>>
    OBVIOUS
  <2> QED BY <1>2, <1>3, <1>4, <1>5, <2>1, <2>2, <2>3 DEF CommandsAreDelivered
<1>7. ASSUME segment' = NoSegment PROVE CommandsAreDelivered'
  <2>1. segment'.packets = ps /\ segment'.read = NothingRead
    BY <1>1, <1>7 DEF ps
  <2>2. [i \in 1 .. 0 |-> Answer(ps[i], IdOf(ps[i]))'] = <<>>
    OBVIOUS
  <2>3. [i \in 1 .. 0 |-> [topic |-> mqtt_get_publish_topic(ps[i], Len(ps[i])),
                           data |-> mqtt_get_publish_data(ps[i], Len(ps[i]))]] = <<>>
    OBVIOUS
  <2> QED BY <1>2, <1>3, <1>4, <1>5, <2>1, <2>2, <2>3 DEF CommandsAreDelivered
<1> QED BY <1>6, <1>7

\* Whatever packets the broker sends that are packets of MQTT, however many, for
\* every length of in_buffer: of a segment of whole packets that is shorter than
\* the buffer, mqtt_tcpclient_recv delivers every leading publish, once, in
\* order, with its own topic and payload, and answers each of them, and the
\* packet that ends them, with its own id; no id of the client is used up.
THEOREM CommandsDelivered == ReceiveSpec => []CommandsAreDelivered
<1>1. ReceiveInit => CommandsAreDelivered
  BY NothingIsOwed DEF ReceiveInit
<1>2. CommandsAreDelivered /\ [ReceiveNext]_recvVars => CommandsAreDelivered'
  <2> SUFFICES ASSUME CommandsAreDelivered, [ReceiveNext]_recvVars
               PROVE  CommandsAreDelivered'
    OBVIOUS
  <2>1. CASE Client
    <3>1. segment' = NoSegment
      BY <2>1 DEF Client
    <3> QED BY <3>1, NothingIsOwed
  <2>2. CASE Forgotten
    <3>1. segment' = NoSegment
      BY <2>2 DEF Forgotten
    <3> QED BY <3>1, NothingIsOwed
  <2>3. CASE Receives
    BY <2>3, SegmentDelivers DEF Receives
  <2>4. CASE UNCHANGED recvVars
    <3>1. segment' = segment /\ message_id' = message_id
      BY <2>4 DEF recvVars
    <3>2. NextId' = NextId
      BY <3>1 DEF NextId
    <3>3. \A b, id : Answer(b, id)' = Answer(b, id)
      BY <3>2 DEF Answer, mqtt_msg_answer
    <3> QED BY <3>1, <3>3 DEF CommandsAreDelivered
  <2> QED BY <2>1, <2>2, <2>3, <2>4 DEF ReceiveNext
<1> QED BY <1>1, <1>2, PTL DEF ReceiveSpec
=============================================================================
