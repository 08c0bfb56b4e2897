# zDC1 in TLA+

Specifications of the firmware of a Phicomm DC1 power strip (an ESP8266 on the
Espressif non-OS SDK): `app/user` and `app/mqtt`, written from the C code,
checked with TLC on small instances and, for the theorems listed below, proved
with TLAPS for every value of the constants.

Source paths below are relative to `src/`; `user_*.c` is in `app/user`,
`mqtt.c`, `ringbuf.c`, `proto.c` and `queue.c` are in `app/mqtt`.

## The system

The strip has a master relay (socket 0) and three branches, a main button, a
button per branch, timer tasks, a configuration in flash, and it is switched and
reports by JSON messages over MQTT, UDP, TCP or its web page.

Two things run. The **event loop** of the SDK runs callbacks to completion: what
the network receives, the 1 s timer, the 20 ms button timer, the MQTT timers, and
`MQTT_Task`, which is woken by events posted with `system_os_post`. The **GPIO
interrupt** `io_intr_handler` of the branch buttons comes between any two
instructions of them, and does not merely set a flag: it builds a JSON message
and runs `user_json_analysis` - relays, report and flash save included - on the
same global state. The interrupt locks of the I2C driver are commented out.

| component | source | state | operations | correct when |
|---|---|---|---|---|
| sockets | `user_json.c`, `user_io.c`, `user_function.c` | `user_config`, relay byte, last report | message, branch button, boot | no branch on under a closed master; relays, flash and report agree with RAM when all is quiet |
| settings | `user_setting.c`, `user_config.h` | RAM image, flash sector | load, migrate, default, save | a boot brings back what the device ran with; a torn save is recognised |
| timer tasks | `user_os_timer.c` | tasks in `user_config`, `utc_time` | tick, fire, resynchronise | a one-shot fires once; what a task does is driven, saved, reported |
| main button | `user_key.c` | unit counter, divider | scan | hold length decides between switch, SmartConfig, factory reset; one reset per hold |
| packet queue | `ringbuf.c`, `proto.c`, `queue.c` | ring of bytes, two positions, a count | put, get, frame, parse | a FIFO of whole packets that forgets the oldest for lack of room only |
| MQTT session | `mqtt.c`, `user_mqtt.c` | connection state, timers, posted events, `is_connect` | 15 callbacks and timers | a lost session is noticed and comes back; packets go on being sent; UDP when there is no server |
| Wi-Fi, LEDs | `user_wifi.c`, `user_led.c` | `wifi_states`, one timer | station events, SmartConfig, access point, network from the web page | state, LED and SmartConfig agree; a chosen network is never forgotten |
| clock | `user_os_timer.c`, `user_sntp.c` | `utc_time`, `time` | tick, resynchronise, ask which tasks are due | a task fires at its time and not twice |
| power meter | `uart.c` | receive FIFO, parser, samples | interrupt, read a frame, average | framing and receiver recover from any damage; averages within the widths of their types |
| web server | `user_webserver.c` | lengths of the request, shared by the connections | segment received | a request is answered once; the network set is the one typed |
| firmware update | `user_update.c` | `domain`, `ota_path`, download | start, name found, finished | a request names the host and path of one URL |
| MQTT codec | `mqtt_msg.c`, `mqtt.c` | `message_id`, receive buffer | encode, decode, deliver | what is encoded is decoded; commands of a segment are delivered |
| cJSON | `app/cJson/cJSON.c` | the heap | parse, print, minify, build and take apart trees | text and tree agree; every block is given back once, also when memory runs out |
| I2C bus | `driver/i2c_master.c`, `user_io.c` | two remembered levels, the lines | write, read, initialise | a write that succeeds was made; the bus recovers |
| UDP, TCP, startup | `user_udp.c`, `user_tcp.c`, `user_main.c` | sockets | receive, broadcast, initialise | messages reach `user_json_analysis` |
| libdriver | `driver/spi_overlap.c`, `spi.c`, `key.c`, ... | SPI registers, key timers | select, transfer, key edges | the bus is set for the device selected; keys stay heard |

How they interact: messages (UDP, TCP, web, MQTT) end in `user_json_analysis`,
which changes `user_config`, drives the relays, reports through `user_send`
(`user_mqtt_send` while `is_connect`, else UDP) and saves. The 1 s timer and the
buttons do the same on their own account. `user_mqtt_send` puts a packet into the
ring; `MQTT_Task` takes it out. A new address (`wifi_handle_event_cb`) starts the
MQTT client; the client's callbacks set `is_connect`. The web page hands a network to
`user_wifi_set`; a message can start an update. The drivers `driver/spi*.c`
and `driver/key.c` are built into the image and called by nobody.

What is hard: the interrupt in the middle of everything; saves that are three
steps long on a medium that can only clear bits; power failures; a ring that
interrupt and event loop share; an event queue of five that drops what does not
fit; sends, lookups and connections whose result nobody looks at; flags that outlive what they say.
`PROJECT.json` lists these hazards at their lines with the properties that
answer them.

## The modules

| module | models | kind |
|---|---|---|
| `DeviceConfig` | `user_config_t`, defaults, migration, NOR programming, the relay byte | pure operators |
| `PlugControl` | sockets, settings, timer tasks once due, what buttons do | state machine |
| `KeyScan` | the 20 ms scan of the main button | state machine |
| `MqttQueue` | the packet ring, load by load and store by store | state machine |
| `OutQueue` | what the packet ring promises | abstract specification, implemented by `MqttQueue` |
| `ByteQueue` | what `ringbuf.c` promises: a FIFO of bytes | abstract specification, implemented by `MqttQueue` |
| `MqttSession` | the MQTT client, `is_connect`, the station's address | state machine |
| `Schedule` | the clock and the tasks due by it | state machine |
| `WifiStation` | `wifi_states`, SmartConfig, access point, LEDs; instantiates `KeyScan` for the button | state machine |
| `WebServer` | requests in segments of several connections | state machine |
| `OtaUpdate` | lookups, downloads and buffers of the update | state machine |
| `PowerMeter` | receive interrupt, frame parser, averages | state machine |
| `MqttCodec` | `mqtt_msg.c` on bytes | operators |
| `MqttReceive` | calls of the codec and the loop over a received segment | state machine on `MqttCodec` |
| `I2cMaster` | the bit-banged bus, level by level, and the expander at its end | state machine |
| `CJsonTree` | items of cJSON on a heap of cells | state machine |
| `CJsonText` | parser, printer and minifier of cJSON on bytes | state machine |
| `SpiOverlap` | the SPI registers under `hspi_dev_sel`, transfers, flash reads | state machine |
| `KeyDriver` | the interrupt-driven keys of libdriver | state machine |
| `MCParts` | the modules from `Schedule` to `KeyDriver` side by side | instance |
| other `MC*` | values for TLC | instances |
| `Induction` | induction over the naturals and recursive functions | lemmas for the proofs |
| `*_proofs` | theorems | proofs |

### DeviceConfig and PlugControl

`cfg` is `user_config`, `flash` the sector, `relay` the byte in the IO expander,
`acked` whether its last write was acknowledged, `reported` the `on` values of the
last report. The sockets' `on`, their tasks and the few fields that decide
anything (`name[0..2]`, `version`, `interval`, whether MQTT is set) are kept; other strings are left
out. Each of the two contexts, `main` and `isr`, has a program counter and the
locals of the handler it runs, so that one set of actions, `Step(c)`, is the code
of both; `At("main", l)` waits while the interrupt runs. A step is one store to the
sockets, one load of a socket for the report (`Body`), as an argument (`ReadArgs`) or for the relay
byte (`ComputeByte`), one bus transfer, or one of copy, erase and
write of a save. Handlers begin with `Message`, `KeyShort`, `KeyReset`, `Tick`
(the event loop, idle) or `ButtonIrq` (any time after `user_io_init`); `Restart`
comes when the loop is idle, `PowerLoss` at any moment. `Program` is NOR flash:
writing ANDs the old cells with the new, so that a save overlapped by another is
what it would be on the device. A power failure in the middle of the write leaves its beginning in the
sector (`ProgramUpTo`, `CutOff`): name and MQTT fields, then some of the sockets, in the order of
`user_config_t`, whose last word has version and interval. `ReadArgs` and
`ComputeByte` take the sockets in any order, as C may.

Three ghost variables: `presses` bounds the interrupts; `hit` records the *windows*
into which a press fell, such as between composing the report and sending it;
`spent` the one-shots that have fired. The properties say in which windows
a press may spoil an agreement and claim it for all the others: the windows are
the documentation of the races, and the reviewable part of each property. One
window, `task`, is no press: a task of a branch that is on already opens the
master without noting a change.

Left to other modules: when a task is due (any set of enabled tasks may be due),
which button is a short press, how the report travels. `os_malloc` succeeds.

### KeyScan

`keyTime`, `timerNum` and `keyContinue` are the statics of `user_key_timer_func`;
`did` is what the last tick did. `Down` and `Up` are a tick with the button down or
up. `held`, `base` and `resets` are history for the properties: the ticks of the
hold, what the divider held when it began, the restores in it.

### MqttQueue and OutQueue

`fill_cnt`, `p_r` and `p_w` are volatile, so every load and store of them is a step
of its own, `reg` being the register in between. `Put` and `Get` are `RINGBUF_Put`
and `RINGBUF_Get`; `PutMore` and `Parse` are the loops of `PROTO_AddRb` and
`PROTO_ParseRb` around them; `op` says for whom (`MQTT_Publish`, an answer of
`mqtt_tcpclient_recv`, `MQTT_Task`). `buf` has one cell more than the ring: the byte
after it, which a torn wrap may reach. `isBegin`, which `PROTO_Init` does not set, starts
with any value.

`OutQueue` knows packets only. The refinement mapping reads them off the bytes that no
call has finished with (`Unread`: what the running read has taken so far, then the
ring): one packet for each END, the one whose frame ends there (`PacketsIn`). The packet
of a running put is `wanted` until its last byte is in. `litter` says that a frame
was begun before the bytes of the running put, and nothing ended it (`Abandoned`): the
remains of a refused packet, which take up room until they are read past.

### MqttSession

One action per callback, per timer and per branch of `MQTT_Task`. Events are alike and
are counted (`posts`); `Posts` loses those that do not fit, as `system_os_post`
does. The packet queue is `MqttQueue` seen from outside: a sequence of at most `Room`
packets of three kinds. Ghosts: `accepted`, `subscribed`, `announced` and `lost` since the
link came up, `cut` and `refused` for the exceptions of two properties.

`broker` is how the broker is configured: by address, by name, or with a name no lookup
starts for, as the empty one of the factory settings. `EspConnect` and `LookUp` may fail at once, calling nobody back;
the code ignores their results (`mqtt.c:841`, `:846`), and `refused` records it.

External, from how `mqtt.c` uses it: `espconn` has one packet in flight
(`unacked`), refuses to send another, may refuse for lack of memory, closes
asynchronously (`DisconCb`), reports errors by `ReconCb`; a lookup answers or fails before
the next `MQTT_Connect`; the broker answers CONNECT after reading it. Losing the Wi-Fi
aborts connections. One timing assumption: a reconnection (seconds) does not
complete while `timer_mqtt` (80 ms) of the old session is still running.

Left out: `user_mqtt_disconnect` and with it `TCP_DISCONNECTING` and `MQTT_DELETING`
(nobody calls it), TLS (`security` is always `NO_TLS`).

### Schedule

One `Tick(d)` per call of `user_os_timer_func`; `d` is the time that passed on the SNTP
clock, 0, 1 or 2 s, since a software timer is not that clock. `utc` is `utc_time`, replaced
while it is 0 and at hh:59:59; `Due` reads hour, minute, weekday and repeat mask of the
calendar that `time_strtohex` parses back from the text. `Wifi`, `SntpAnswers`,
`SetTask` and `SetInterval` are the outside. The lengths of minute, hour, day and week are constants.
`TasksKeepTime` bounds how far from its time a task fires while hours end with a
resynchronisation, excludes a second firing, and says which tasks the resynchronisation
may leap over: those of minute 0. What a task does is `Tick` of `PlugControl`.

### WifiStation

One action per Wi-Fi event, SmartConfig callback and firing of `mdns_restart_timer`, with
the button's `KeyScan` as `Key` so that a press starts or stops SmartConfig at its real
moments. `Boots` is `user_wifi_init`. External: the station's link, SmartConfig, the
clients of the access point. `WifiStatesTell` excepts one order of events: `SC_STATUS_LINK_OVER`
after the link was lost makes the LED steady (`overtaken`). `RestartIsPending` says that a
network from the web page is never forgotten while the one timer goes through its two firings, whatever button,
SmartConfig and page do meanwhile. (The handler of the timer has a branch for mDNS too, for which nobody arms it.)

### WebServer and OtaUpdate

A segment is what its bytes say to the code: whether it has a head, `Content-Length`, the offset of
`Host:`, the form. `Receive` is `webserver_recv`, with `check_data` and `save_data`.
Connections send whole requests or two segments, interleaved. `OneAnswer` names what
the code does not give: after a POST in two segments, `dat_sumlength` stays behind, and
requests without a length get an answer 400 before their page. The lengths of body and fields
are bytes, as in `parse_url` and `web_send_result_page`: of a form of 256 bytes or more the code sees the first
`FormLength % 256` (`Kept`, `Fields`). `NetworkIsTyped` excepts the
space, which a browser sends as `+` and `html_decode` keeps, and claims of such a long form only that what is set
is how the fields typed begin.

`OtaUpdate` has one action per start, answer of the resolver and end of a download;
several lookups may be under way, each in an entry of the resolver's table (`DnsEntries`), two of them of one name as well; with the
table full none starts. `OneUrlPerRequest` excepts a request
during whose lookup another was accepted: the first host is then asked for the second path. `domain` tells `freed` from
`NULL`: the next start frees a freed block again, which is why the model names that value.

### PowerMeter

`Received` and `Overflow` are the interrupt, which masks itself and posts; `uart_recvTask` empties the
FIFO through the parser (`redat_num`, head, sum, quantities of `Width` bytes) and unmasks.
The chip sends frames that the line may shorten or change. `MeterRecovers`: a masked
interrupt has an event on its way, and the second of two whole frames is read as
itself, unless a byte of the first looks like a head. Samples, sums and averages have 16 bits. The extremes that an average
leaves out are those of all the samples averaged in one call of the task, as the code sets its locals once per call (`Averages`).
`MeterAssumption` leaves out samples that would divide by zero (`IsFrame`); products of
quantities have no bound, as three bytes each do not reach the 32 bits of the code.

### MqttCodec and MqttReceive

Packets are bytes; encoder and decoder are operators named as the functions. `MqttReceive` makes every call the client makes, at the lengths where the fixed header grows
from two bytes to three and where the buffer ends, and decodes the result (`EncodedIsDecoded`; for CONNECT, that its flags
announce exactly the strings that follow, each as given, to the end).
TCP cuts the broker's packets anywhere; `Read` is the loop `READPACKET`, `Turn` one turn of it, and `IsPacketOfMqtt` what MQTT
asks of the broker: a length that is right, and the topic and the id, not zero, that go with the type.
`CommandsAreDelivered` speaks of a segment that begins and ends with a packet, and of the PUBLISH packets at its head: each is
delivered with its own topic and payload and answered with its own id, as is the packet of another type that ends them. Behind that one
the loop does not look, and a packet cut in two is not reassembled. Answered means handed to `QUEUE_Puts`: a full queue is
only logged. Where the topic of a PUBLISH is not found, `Deliver` says so by `wild`.

### I2cMaster

A transaction is a program of steps that set both lines, sample, or check the acknowledge, run one
by one against a slave that reads the lines as I2C prescribes. Two lines do not change at
once: the slave sees one order or the other. `KeyInterrupt` runs a transaction of its own between any
two steps: it reads the keys, up to five times, and writes with one retry, the way from `io_intr_handler` over
`user_json_analysis` to `user_io_set_plug_all` (`AfterInterrupt`). `BusReset` restarts the processor and leaves the slave as it is. `TrueMeansWritten`: a
write of the main program that returned true has reached the output register, its own and not one of the interrupt: the slave keeps a `log` of
what was written since the transaction began, without the interrupt's writes, and main and interrupt write different values too.
`SetRecovers`: wherever that left bus and slave, the next `user_io_set_plug_all` gets through; the 28 clocks of
`i2c_master_init` are exactly enough for it. Reads are not covered: one that is
interrupted may return true with a wrong byte.

### CJsonTree and CJsonText

`CJsonTree` has the cells of the heap with `next`, `prev` and `child`, and a client that calls the library in
any order within the rules of `cJSON.h`, with any allocation failing. `kept` are the addresses the client has: what
functions returned to it and it has not put into a list. `TreesAreSound`: every cell in use is kept or below one
that is, so that a partial copy or array a failing function leaves behind is noticed; lists stay lists,
nothing freed is used, every string has one owner, and `cJSON_Compare` is equality of names, structure and leaf values.
Two calls that break it without memory are made and excepted by name (`known`): a constant name is freed after `cJSON.c:2040` (`stray`),
a reference is lost at `cJSON.c:2094` (`lost`), and nothing else is.
A replacement for which there was no memory has no name afterwards; the client then asks without regard to case only, and
`cJSON_Compare` is judged on objects that have all their names, each once.

`CJsonText` takes a document through print (three ways), minify, damage and parse, with a budget of allocations,
on bytes, with `\u` escapes, UTF-8, numbers up to `IntMax` and the nesting limit.
`TextIsTheTree` and `HeapIsKept` are the round trip and the count of blocks after parsing and deleting. What is allocated in printing is not counted. The build
has no floating point, and neither has the model.

### SpiOverlap and KeyDriver

`SpiOverlap` edits the registers along the path the code has for each pair of devices and
compares the result with what the device wants (`BusIsSelected`: `Wanted`, `Effective`); the bits of the chip select's
setup time depend on the history and are not in `Wanted`. `KeyDriver` has one handler
for all keys, two timers per key, and edges at any time; edges of a pin whose interrupt is
disabled are lost.

## The runs

| run | instance | distinct states | shows |
|---|---|---|---|
| `plug_press` | 3 sockets, 1 press, new device | 1.40 M | `TypeOK`; an open branch implies an open master (`MasterRule`); `ResetIsPending`; `WriteBackIsIdle` |
| `plug_task` | 2 sockets, 1 press, version 4 image | 1.50 M | fired one-shots never come back (`OneShotStaysOff`); `RelayAgrees`, `FlashAgrees`, `ReportAgrees` |
| `plug_master_task` | 2 sockets, no press | (violation) | `ClosedMasterClosesAll`: a task that switches the master off leaves the branches on |
| `plug_task_unsaved` | 2 sockets, no press | (violation) | `SettingsPersist`: a task that opens the master is neither driven nor saved |
| `plug_save_race` | 2 sockets, 1 press | (violation) | `SettingsPersist`: a press inside a save, flash and RAM differ |
| `key_scan` | the constants of `user_key.c` | 31 k | `OneRestorePerHold`, `ShortPressIsShort`, `RestartAfterRestore` |
| `mqtt_queue` | ring of 6 bytes, no press | 27 k | termination (`PublishReturns`), refinement of `OutQueue` (`ImplementsFifo`) |
| `mqtt_queue_press` | ring of 5 bytes, 1 press | 614 k | `RingIsSound`: memory safety of the ring under a press, soundness unless torn; refinement of `ByteQueue` (`ImplementsBytes`) |
| `mqtt_session` | keep-alive 2 s, timeouts 1 s, 2 events, 2 packets | 119 k | `WorkIsPosted`, `SessionIsAccepted`, `SubscribeIsKept`, `SessionAnnounces`; live: `Reconnects`, `QueueDrains`, `SilenceIsNoticed` |
| `mqtt_udp_fallback` | the same | (violation) | `UdpWithoutServer`: after a reset, reports do not fall back to UDP |
| `power_average` | 10 samples, the widths of the code | (violation) | `AverageIsTrimmedMean`: ten samples of 1000 W are reported as 180.8 W |
| `parts` | the parts of `MCParts` | 213 k | seventeen invariants of eleven parts |

**`parts` is a bench, not a composition.** Its parts share no state with each other or with
the sockets and the session, so a product of their behaviours would show nothing more. The
initial state chooses `part`, and only that part moves. A property of an extended module is
checked under its own name, since its variables rest where `Init` puts them while another part
moves; those of an instance under `part = ...`. What is proved is extended, so that run
and theorem speak of one definition.

Why the bounds are enough. **Three sockets** have a master and two branches, so that
one branch can be pressed while the other is set or cleared, and the loops over the
sockets have a first, a middle and a last round; the fourth would be a third branch
like the others. The timer run has **two**, its interest being order in time; the agreements are checked there, where
messages, ticks and presses meet, and proved for any number. **One press**:
the interrupt does not nest, and every race is between it and one handler of
the loop; a second press finds either the state a first left after its
handler finished, which a message can leave as well, or falls into the same handler, whose windows
are then excused anyway. **One task slot** per socket already gives two tasks in one second.
Messages are one of each kind that takes its own path; one message of the timer run arms both tasks, which may then be due together or not. **Ring**: 6 bytes
hold packets that fit twice, once, exactly and not at all, wrap in every phase, and
contain every byte that framing escapes; `Size` and packet lengths differ from the code
(2048) but no code depends on them except by comparison. **Session**: keep-alive
and timeouts of 1 and 2 ticks keep their order (a ping comes later than a send
timeout), a queue of 2 overflows with three kinds of packets; the event queue has 2 places where the code has 5
(`MQTT_TASK_QUEUE_SIZE`), and overflows the sooner; the theorems are for any number.

**Clock**: minutes of 3 s, hours of 3 minutes, days of 2 hours, weeks of 2 days keep every carry; the timer
may be one second off per hour, and two when no resynchronisation comes; one daily
and one single task, one of them in minute 0. **Station**: the thresholds of
the button in order, 2 clients, 2 networks. **Web**: 2 connections, the code's fields of 31 and 63 letters, and names that fit, fill and exceed them or make
the form longer than 255 bytes. **Update**: four URLs, of which two are refused.
**Meter**: quantities of 1 byte and 3 samples, two kinds of frames, a lost byte and a changed
one, at most 1 byte arriving while the task runs; `power_average` has the code's 3
bytes, 10 samples and FIFO of 128. **MQTT**: payloads of 0, 1, 3 and 120 to 126 bytes around the
128 at which the header grows, strings of a CONNECT of 0, 1 and 29 bytes, a buffer of 132 that the longest exceed, ids modulo 3 so that they wrap, segments of
two packets out of five, among them a PUBLISH of each QoS. **Bus**: two values that are neither of the idle
levels, one interrupt or one reset at any step. Two resets in quick succession are
outside of it. **Trees**: six cells, enough for an object of two members and its copy, three calls from an empty heap, an array of leaves or an object of two members, two strings, names that differ in case only, allocations that fail at once, after the first, or never. **Texts**:
five documents and four foreign texts with every kind of value, escape and number,
the former damaged at every place, by a quote, a backslash or an end. **SPI**: two configurations, all four devices,
reads below, at and above the 32 bytes of the buffer, up to the end of the chip. **Keys**: two, so that one
handler serves both at once.

**Deadlock** is checked in all of them. No run uses symmetry: socket 0 is special, sockets are ordered, and
the other sets are integers.

### Fairness

`PlugControl`, `KeyScan` and the parts of `MCParts` state safety only. `MqttQueue` assumes that a call that runs
goes on (`WF` of each context's steps): code between two returns to the loop is
not suspended for ever. `MqttSession` assumes that `mqtt_timer`, a repeating
timer, ticks; that a posted event runs `MQTT_Task`; that `espconn` reports a close it was
asked for; and, strongly, that `TaskSend` happens if it is possible again
and again: the loop runs a posted task within milliseconds, while what disables it (a tick, the
send timeout) takes seconds, so that the task cannot be late every time. Nothing is assumed of network or broker, not
even an acknowledgement: every liveness property holds with a silent one.

## Findings

Five runs end in a violation; each is a disagreement of the code with a comment or
with the project's README.

* `plug_master_task`: `user_json.c:282` says closing the master closes all switches; a
  timer task on the master does not.
* `plug_task_unsaved`: the task of a branch that is on already sets
  `plug[0].on` (`user_os_timer.c:65`) without `update_user_config_flag`: relay and flash
  keep the old value.
* `plug_save_race`: `user_setting.c:14` says settings are saved when changed and read at
  power-on; a press inside `user_setting_set_config` leaves an older or a mixed image.
* `power_average`: `uart.c:443` and `:445` say samples are averaged without the highest and the lowest;
  the sum is a `uint16_t` and wraps from about 655 W on.
* `mqtt_udp_fallback`: README line 47 says UDP is used when there is no server;
  `mqtt_tcpclient_recon_cb` does not call `disconnectedCb`, so that `is_connect` stays TRUE.

## Proofs

All theorems but two are of the form `Spec => []Inv` (or `[][A]_vars`), the others are
refinements; they hold for every value of the constants that satisfies the named
assumptions of the module.

**PlugControl_proofs.** `PlugTypeOK` is type correctness for any number of sockets up to
four (the relay byte has no more lines), any tasks, messages, presses and initial flash; it includes
that programming over any cells gives a configuration again (`ProgramConfig`).
`ResetStaysPending` uses `ResetInv`: while the name is wiped, so is it in every copy in the buffer of a running save
and, unless that save is still to come, in the flash. `WriteBackChangesNothing` uses `ArgsInv`: while no press has fallen
into the `args` or `back` window, every argument already read equals the
configuration. Both rest on `Moves(c)`, a lemma per action on what a step of one
context may do to the other.

**PlugAgreement_proofs.** `LastReportAgrees`, `RelaysAgree` and `FlashHoldsConfig` prove the three
agreements, for every interleaving of messages, ticks, presses, restarts and power failures. None is inductive,
because each is broken in the middle of every handler. The invariants `ReportInv`, `RelayInv` and `SavedInv` say
that as long as two parts differ some handler is on its way to mend it (`WillReport`, `WillDrive`, `WillSave`), and
that what it has read is still current unless a press fell into the excepted window: the sockets loaded so far for the report
(`Values`) and for the relay byte (`Loaded`). `Alone(c)` says once per action what a step leaves of
the other context; three lemmas close the argument from it. `LastReportAgrees` needs the
idle write-back (`ArgsInv`) as well, `FlashHoldsConfig` that an image programmed into an erased sector is read back
(`ProgramErased`). `RelaysAgree` is for sockets that are 0 or 1, as the shifted byte shows no others.
The proofs also settled which exceptions are needed: none of the agreements depends on presses between two
reads of the arguments. `SpentTaskStaysOff` uses `SpentInv`: a task that has fired is off in RAM, in every running save and, unless
the tick that fired it has still to erase the sector, in flash - or the image there is not loaded: a write cut off half-way
leaves the version that was in the cells (`OffAtBoot`).

**PlugMaster_proofs.** `MasterRuleHolds`: no branch rests on under a closed master. `CoverInv` names who mends
the rule while it is broken (`Mending`: the handler that opened a branch and has not come to the master yet, or the one that
closed the master and has not come to this branch), what a handler has read of it (`ReadsCover`),
and that flash and running saves are safe as well unless they were taken half-way. It assumes
`NoTaskClosesMaster`, which the run of the finding `plug_master_task` shows to be necessary, and a flash that obeys
the rule when first powered. A write cut off in an erased sector has no version and boots with the defaults (`CoverBoot`). The proof found `MasterRule` false as it first stood: presses in the write-back of
the loop, then a power failure, leave an image that breaks it. That takes three presses, one more than the runs
can have; `Boot` now remembers that window too.

**MqttQueue_proofs** is about the ring of volatile variables, load by load. `BoundsInv`: indices, the
cell behind the ring and what each context has in its register stay in range, for presses at any point, torn or not
(`QueueIsBounded`). `PhaseInv`: as long as nothing is torn, `fill_cnt`, `p_r` and `p_w` are consistent, up to what the one operation
under way has still to do (`RingStaysSound`). On these rests `RingImplementsBytes`: until a press tears an operation, the ring
implements `ByteQueue`, a FIFO of bytes: a put happens when its byte is stored in `buf`, a get when its byte is
loaded, and a refused one when it returns.

`QueueImplementsFifo` is about the packets: the ring implements `OutQueue`, for any sizes and packets, whatever bytes
they hold. Its hypothesis `[](presses = 0)` leaves out the interrupt only: with a press the frames of two calls
interleave, and what the ring then promises is `ImplementsBytes` and `RingIsSound`. The step of the byte ring (`RingStep`) says how the
bytes move; `FifoInv` says what they are: complete frames, with the beginnings of given-up ones between them
(`Framed`), the frame of the running put last (`PutInv`), and the parser where the bytes it was fed
leave it (`GetInv`). Without the first an END need not end a packet, and without the last what is
given need not be the oldest. The lemmas on bytes are inductions: escaping writes no END inside a frame, parsing a
frame gives its packet, also behind an abandoned beginning, where BEGIN starts anew (`ParsesFrame`), and a byte more changes `PacketsIn` by
an END only. That packets are forgotten for lack of room only is a count: bytes without litter take
exactly the room of their packets (`NothingElse`), so that a full ring has none for one more (`NoRoom`).

**MqttSession_proofs.** `SessionAccepted` and `WorkPosted` both use `StateFits`: the client
connects while a lookup or a SYN is under way and has a link in exactly the
states that use one. Without it `TCP_RECONNECT_DISCONNECTING` could not be shown to wait
for a close that comes, nor a connecting client to have a lookup or a SYN on its way unless the call for it failed at once. `WorkPosted` needs only that the
event queue has room for one: a post that fails leaves an event behind anyway. `SessionTypeOK` is type
correctness; `SubscribeKept` rests on its typed queue and on two lemmas about it: a packet that comes in
takes another's place only by overflowing, and only the oldest leaves. `SessionAnnounced` adds to the property
that the timer runs only while reports go by MQTT and that a second tick to come means an announcement,
or a cut session, before it.

**Network_proofs**, for all sets of networks, clients, requests and URLs. `RestartPending` needs that the access point has no
link, and that a strip that left it without an MQTT client has a restart on its way (`PendingInv`). `StatesTell` needs that
SmartConfig runs in station mode only, and blinks as long as it looks for the phone. `AnsweredOnce` splits requests into their segments: the lemmas on `GET`, whole, first and second
half of a `POST` say what each leaves in `dat_sumlength`. `NetworkTyped`: decoding a field as a
browser encodes it gives the field, whatever its length, and decoding the first bytes of one, where the form is too long for the
length the code keeps, gives a beginning of it (`DecodeFront`); both are loops, so this is an induction whose step says where in
the text the decoder is after each letter. `OneUrl` needs that every lookup under way that was not disturbed is for the host of the path stored
(`UrlInv`), and `UpdateFreesOnce` that the blocks are allocated exactly while a download is under way.
`PacketsReadBack`, for all topics, payloads and connect_infos: strings *sit* somewhere in a packet (`Sits`),
which appending preserves, so a packet is followed field by field (`PublishIs`, `ConnectIs`); a header of one or two
length bytes says the length (`FinishIs`), the flags are a sum whose bits are read apart (`BitsAre`), and a body too long is refused (`PublishFails`,
`ConnectFails`). Assumes only that `buffer_length` (1024) is within two length bytes.
`CommandsDelivered`, for any packets of MQTT and any number of them in a segment. A packet in front of other bytes is read as if it stood
alone: its length (`FrontHead`; the recursion over the length bytes has one solution, `SaysOnce`), its topic and payload, also where they
are empty and the packet alone is read as having none (`FrontPublish`), and its id, which the code looks for in all of
`in_buffer` (`FrontId`); so a turn delivers and answers that packet (`FrontTurn`). The loop is a recursion on the byte it
has come to, which ends because no length is zero, even where bytes are no packet (`TotalPositive`, `ReadIs`). From the last
of the leading publishes back to the first, what is read from a packet on is what that packet and those
behind it say (`ReadDelivers`).

**Devices_proofs**, five devices without a common state:

* `KeyTypeOK`, `OneRestore`, `ShortIsShort`, `RestartFollowsRestore` of the button follow from one invariant, `IInv`:
  types, the equation `Div * keyTime + timerNum = base + held`
  while the counter has not cycled, and how `resets` and `did` go with it. That a restore happened once needs to know that
  `keyTime` passes `Reset` once, and that a press was short needs the ticks behind
  `keyTime`. Assumes `Short < Smart < Reset` and `Reset + 3 < 256`, the byte's range.
* `KeysHeard`, for any set of keys: that `long_press` belongs to one press rests on `key_5s` being armed
  only while the key has not been read up since (`HeardInv`).
* `TimeKept`, for any lengths of minute, hour, day and week: the clock is never further from the truth than the seconds
  lost since the last resynchronisation, which comes at the end of the hour. The lemmas before it are arithmetic of
  the calendar: the quotient and rest of a division are unique, and one second on, the digits are the
  same or carry.
* `BusServesSelected`, for any configurations of the devices, sequence of selections and length of read: `SpiInv` says that the registers are those of the
  device selected. `ChosenServes` goes through the ten paths of `hspi_dev_sel`, one for each pair of devices.
  That the flash reads cover what was asked for, piece by piece, is an induction on the pieces (`RequestsCover`). The proof
  would not close over two `CASE`s of the model whose arms overlapped, of which TLC takes the first and the language either; they are disjoint now.
* `MeterFindsFrames`, for any frames, number of bytes per quantity, damage and size of the FIFO. `MeterInv` looks ahead: it says
  where the bytes that wait in the FIFO *will* leave the parser (`FramesFound`), so that it does not matter when the task runs
  and how much it reads; that bytes can be eaten in two goes (`EatenTwice`) makes it inductive. Two lemmas say what a frame
  does, each an induction over its bytes: a quiet one leaves the parser between frames, wherever it was (`QuietSettles`), and between frames
  one is read with its quantities, checksum and head (`FrameIsRead`, by `Half`, the parser in the middle of it).

**Induction** has the principle itself, for sets of naturals and for intervals, up and down, and that a recursive function on an interval satisfies
its equation. The library states these with an operator as a parameter; here they have a set or a function, so that they
can be used.

Only model-checked:

* everything about liveness (`PublishReturns` and the others), which is out of the prover's reach;
* `TreesAreSound`, `TextIsTheTree`, `HeapIsKept`: `CJsonTree` and `CJsonText` follow cJSON's recursion with `RECURSIVE`
  operators, of which tlapm proves nothing;
* `TrueMeansWritten` and `SetRecovers`, about the runs of a recursive interpreter of the bus, hundreds of steps each, on chosen inputs;
* `PartsTypeOK`, which joins the types of all parts in a module that reaches `RECURSIVE` operators. The parts proved about have
  type theorems or typed invariants of their own.

## Defects met on the way

Seen while modelling and kept by the models; the properties name them as exceptions, or they
lie outside the modelled calls.

* `user_update.c`: `domain` is freed at 147 and again at 110 by the next start; the logo LED is
  overwritten after an upgrade that was refused (96); a second URL during a lookup mixes host and path.
* `user_webserver.c`: answers 400 after a POST in two segments (318); `+` stays (69); a form of 256 bytes or more is read
  modulo 256 (221), and a network with fields cut short may be set.
* `mqtt.c:846`: with no broker configured, or no entry of the resolver free, the client says `TCP_CONNECTING` until the
  Wi-Fi drops, and nothing tries again.
* `mqtt.c:114-120`, `user_mqtt.c:90`: of a PUBLISH whose topic is not found, as many bytes as the segment has are
  copied from address 0.
* `mqtt.c:351`: SUBACK and PUBLISH in one segment lose the PUBLISH.
* `uart.c`: a checksum that looks like a head hides the next frame, and every frame like it; the extremes are initialised
  once per call of the task (283-288), so that two averages in one call share them.
* `user_wifi.c:127`: a late `SC_STATUS_LINK_OVER` makes the LED steady without a link.
* `i2c_master.c`: the interrupt may strike between the two stores of `i2c_master_setDC`; the clocks of
  the reset with SDA high can write 0xFF to the expander.
* `cJSON.c`: print leaks if its last reallocation fails; replacing a member leaves it unnamed without
  memory, and leaves the replacement unattached if there is no such name; adding with a failed copy of the name
  forgets that the old name was constant and frees it later (2040); a reference that cannot be added is lost (2094); comparing objects with a name twice; printing a raw item without a
  value frees twice.
* `driver/spi_overlap.c`: setting up HSPI_CS_DEV late connects its chip select while another device is selected;
  a new configuration of the selected device waits for the next selection; `spi_lcd_9bit_write`
  keeps the phases of the transfer before.
* `driver/key.c`: a release between reading the pin and re-arming is lost until the next edge; a long press is
  followed by a `short_press` at its release.

## Not modelled

* `driver_lib`: copies of drivers that are modelled or not used. `spi_interface.c`, the SPI
  slave, `sdio_slv.c`, `hw_timer.c`, `gpio16.c`: called by nobody.
* `user_io_set_plug`: its only call is commented out (`user_json.c:278`).
* Startup, beyond the order of configuration, interrupt and relays; UDP and TCP beyond handing over what they
  receive (`user_tcp_init` is commented out). They keep no state of their own.
* Transmission and the buffers of `uart.c` (`UART_BUFF_EN` is 0), `user_check_sntp_stamp`, `cJSON_InitHooks`,
  `MQTT_Disconnect`, `MQTT_DeleteClient`, `MQTT_Ping`, `utils.c`: not compiled, without a caller, or
  without state.
* The heap of the SDK, which the interrupt enters as well, and the one encode buffer of the MQTT
  client that it shares: hazards without a property.
* lwIP, mbed TLS and the SDK: third-party or without source; the environment of the models.

## Plan

1. `Schedule` composed with `Tick` of `PlugControl`, so that tasks fire in the order of the clock.
2. The encode buffer of the MQTT client as a shared block between interrupt and event loop.
3. Two disturbances on the bus, and reads.
