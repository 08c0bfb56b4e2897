------------------------------ MODULE MCParts ------------------------------
(***************************************************************************)
(* The parts of the strip that share no state with the sockets and the MQTT  *)
(* session, side by side: a behaviour is a behaviour of one of them, chosen  *)
(* in the initial state.  The parts that theorems are about are extended, so  *)
(* that the run checks their properties as they stand (those of a part that   *)
(* does not run are those of its initial state), and so is the bus: TLC       *)
(* evaluates its programs once that way.  The others are instantiated.       *)
(***************************************************************************)
EXTENDS I2cMaster, KeyDriver, Schedule, WifiStation, WebServer, OtaUpdate, SpiOverlap,
        PowerMeter, MqttReceive

CONSTANTS
  Cells, MemberNames, Leaves, HeapBudgets, MaxCalls,
  Documents, Plenty, IntMax, Nesting, TextBudgets, Texts, Spoilers

VARIABLES
  part,  \* the part that runs
  cell, strings, fault, kept, known, calls,
  document, text, stage, outcome

Tree == INSTANCE CJsonTree WITH Budgets <- HeapBudgets
Text == INSTANCE CJsonText WITH Budgets <- TextBudgets

treeVars == <<cell, strings, fault, kept, known, calls>>
jsonVars == <<document, text, stage, outcome>>
driverVars == <<spiVars, keyVars>>

InitParts ==
  /\ part \in {"schedule", "station", "web", "ota", "power", "mqtt", "i2c", "tree", "text",
              "spi", "keys"}
  /\ Init /\ ScheduleInit /\ StationInit /\ WebInit /\ OtaInit /\ MeterInit /\ ReceiveInit
  /\ Tree!InitTree /\ Text!InitText /\ SpiInit /\ key_init
  \* One initial state of a part that does not run is enough.
  /\ part # "schedule" => real = 1 /\ interval = CHOOSE i \in Intervals : TRUE
  /\ part # "mqtt" => message_id = 0
  /\ part # "tree" => kept = {}
  /\ part # "text" => document = CHOOSE d \in Documents : TRUE
  /\ part # "spi" => io80 = FALSE
  /\ part # "keys" => pin = [k \in Keys |-> 1]

ScheduleStep ==
  /\ part = "schedule" /\ ScheduleNext
  /\ UNCHANGED <<part, stationVars, webVars, otaVars, powerVars,
                 recvVars, i2cVars, treeVars, jsonVars,
                 driverVars>>

StationStep ==
  /\ part = "station" /\ StationNext
  /\ UNCHANGED <<part, scheduleVars, webVars, otaVars, powerVars,
                 recvVars, i2cVars, treeVars, jsonVars,
                 driverVars>>

WebStep ==
  /\ part = "web" /\ WebNext
  /\ UNCHANGED <<part, scheduleVars, stationVars, otaVars, powerVars,
                 recvVars, i2cVars, treeVars, jsonVars,
                 driverVars>>

OtaStep ==
  /\ part = "ota" /\ OtaNext
  /\ UNCHANGED <<part, scheduleVars, stationVars, webVars, powerVars,
                 recvVars, i2cVars, treeVars, jsonVars,
                 driverVars>>

PowerStep ==
  /\ part = "power" /\ MeterNext
  /\ UNCHANGED <<part, scheduleVars, stationVars, webVars, otaVars,
                 recvVars, i2cVars, treeVars, jsonVars,
                 driverVars>>

MqttStep ==
  /\ part = "mqtt" /\ ReceiveNext
  /\ UNCHANGED <<part, scheduleVars, stationVars, webVars, otaVars,
                 powerVars, i2cVars, treeVars, jsonVars,
                 driverVars>>

I2cStep ==
  /\ part = "i2c" /\ Next
  /\ UNCHANGED <<part, scheduleVars, stationVars, webVars, otaVars,
                 powerVars, recvVars, treeVars, jsonVars,
                 driverVars>>

TreeStep ==
  /\ part = "tree" /\ Tree!NextTree
  /\ UNCHANGED <<part, scheduleVars, stationVars, webVars, otaVars,
                 powerVars, recvVars, i2cVars, jsonVars,
                 driverVars>>

TextStep ==
  /\ part = "text" /\ Text!NextText
  /\ UNCHANGED <<part, scheduleVars, stationVars, webVars, otaVars,
                 powerVars, recvVars, i2cVars, treeVars,
                 driverVars>>

SpiStep ==
  /\ part = "spi" /\ SpiNext
  /\ UNCHANGED <<part, scheduleVars, stationVars, webVars, otaVars, powerVars,
                 recvVars, i2cVars, treeVars, jsonVars, keyVars>>

KeysStep ==
  /\ part = "keys" /\ KeysNext
  /\ UNCHANGED <<part, scheduleVars, stationVars, webVars, otaVars, powerVars,
                 recvVars, i2cVars, treeVars, jsonVars, spiVars>>

NextParts ==
  \/ ScheduleStep
  \/ StationStep
  \/ WebStep
  \/ OtaStep
  \/ PowerStep
  \/ MqttStep
  \/ I2cStep
  \/ TreeStep
  \/ TextStep
  \/ SpiStep
  \/ KeysStep

SpecParts ==
  /\ InitParts
  /\ [][NextParts]_<<part, scheduleVars, stationVars, webVars, otaVars, powerVars,
                    recvVars, i2cVars, treeVars, jsonVars, driverVars>>
-----------------------------------------------------------------------------

\* The types of every part.
PartsTypeOK ==
  /\ part = "schedule" => ScheduleTypeOK
  /\ part = "station" => StationTypeOK
  /\ part = "web" => WebTypeOK
  /\ part = "ota" => OtaTypeOK
  /\ part = "power" => MeterTypeOK
  /\ part = "mqtt" => ReceiveTypeOK
  /\ part = "i2c" => WireTypeOK
  /\ part = "tree" => Tree!TreeTypeOK
  /\ part = "spi" => SpiTypeOK

\* What the instantiated parts promise, in the words of their modules.
TreesAreSound == part = "tree" => Tree!TreesAreSound
TextIsTheTree == part = "text" => Text!TextIsTheTree
HeapIsKept == part = "text" => Text!HeapIsKept

-----------------------------------------------------------------------------
(* Values of the constants *)

MCTasks == {[hour |-> 1, minute |-> 0, repeat |-> {0}], [hour |-> 0, minute |-> 2, repeat |-> {}]}
\* Encoded, they have 2, 31, 64 and 225 bytes: at the limits, beyond them, and
\* enough for forms of 256 bytes and more, of which some are cut and accepted.
Ats(n) == [i \in 1 .. n |-> "@"]
MCNames == {<<"a", " ">>, Append(Ats(10), "a"), Append(Ats(21), "a"), Ats(75)}
MCUrls ==
  {[scheme |-> "http", host |-> "h1", path |-> "p1", short |-> TRUE],
   [scheme |-> "https", host |-> "h2", path |-> "p2", short |-> TRUE],
   [scheme |-> "none", host |-> "h1", path |-> "p3", short |-> TRUE],
   [scheme |-> "http", host |-> "h3", path |-> "p4", short |-> FALSE]}
MCFrames ==
  {[head |-> 85, Uk |-> 230, Ut |-> 1, Ik |-> 4, It |-> 2, Pk |-> 40, Pt |-> 2, Adj |-> 112],
   [head |-> 242, Uk |-> 220, Ut |-> 1, Ik |-> 0, It |-> 1, Pk |-> 9, Pt |-> 0, Adj |-> 113]}
MCDamages == {<<"none", 0>>, <<"lost", 12>>, <<"changed", 5>>}
\* PUBLISH of QoS 0, 1 and 2 (the latter without a payload), SUBACK, PINGRESP.
MCPackets == {<<48, 4, 0, 1, 116, 49>>, <<50, 6, 0, 1, 116, 0, 7, 50>>, <<52, 5, 0, 1, 116, 0, 8>>,
              <<144, 3, 0, 1, 0>>, <<208, 0>>}
MCTopics == {Letters(n, 116) : n \in {0, 1, 3}}
MCPayloads == {Letters(n, 100) : n \in {0, 1, 3} \cup 120 .. 126}
MCStrings == {<<>>, <<105>>, Letters(29, 112)}
MCLeaves == {[type |-> "string", value |-> "1"], [type |-> "string", value |-> "2"]}
MCMemberNames == {[text |-> "a", lower |-> "a"], [text |-> "A", lower |-> "a"]}

Str(s) == [type |-> "string", str |-> s]
Num(n) == [type |-> "number", int |-> n]
Arr(s) == [type |-> "array", items |-> s]
Obj(s) == [type |-> "object", items |-> s]
Member(k, v) == [key |-> k, val |-> v]
MCDocuments ==
  {Obj(<<Member(<<97>>, Num(-7)), Member(<<>>, Arr(<<>>))>>),
   Arr(<<Obj(<<>>), Str(<<34, 92, 31, 195, 47>>), [type |-> "null"]>>),
   Arr(<<[type |-> "true"], [type |-> "false"], Num(30)>>), Str(<<>>),
   Obj(<<Member(<<10>>, Obj(<<Member(<<98>>, Str(<<32>>))>>))>>)}
MCTexts ==
  { \* a byte order mark and "\ud83d\uDE00\u00e9"
    <<239, 187, 191, 34, 92, 117, 100, 56, 51, 100, 92, 117, 68, 69, 48, 48,
      92, 117, 48, 48, 101, 57, 34>>,
    \* [ -12e5, (newline) 1234]
    <<91, 32, 45, 49, 50, 101, 53, 44, 10, 49, 50, 51, 52, 93, 32>>,
    \* "a\u0000b"x
    <<34, 97, 92, 117, 48, 48, 48, 48, 98, 34, 120>>,
    \* "\u000\\": the escape takes the first backslash, the second is the last
    <<34, 92, 117, 48, 48, 48, 92, 92, 34>>,
    \* [[[[]]]]
    <<91, 91, 91, 91, 93, 93, 93, 93>> }
MCConfs == {[clk_polar |-> 0, clk_div |-> 2], [clk_polar |-> 1, clk_div |-> 5]}
=============================================================================
