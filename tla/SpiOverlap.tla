----------------------------- MODULE SpiOverlap -----------------------------
(***************************************************************************)
(* The overlapped SPI of driver/spi_overlap.c and the transfers of            *)
(* driver/spi.c: one controller, HSPI, serves a device on its own pins and,     *)
(* lent to the pins of the flash, two more devices and the flash itself.       *)
(* hspi_dev_sel edits the registers from the device selected before to the      *)
(* one wanted, by a path of its own for every pair of devices.  The drivers      *)
(* are part of libdriver; the strip itself calls none of them.                  *)
(***************************************************************************)
EXTENDS Integers, Sequences

CONSTANTS
  Confs,        \* configurations asked for, [clk_polar, clk_div]
  ChipSize,     \* bytes of the flash
  ReadAddrs,    \* where a read starts
  ReadLengths   \* bytes of a read

ASSUME SpiAssumption ==
  /\ ReadLengths \subseteq Nat /\ ReadAddrs \subseteq Nat
  /\ Confs \subseteq [clk_polar : 0 .. 1, clk_div : Nat]

HSPI_CS_DEV == 0
SPI_CS1_DEV == 1
SPI_CS2_DEV == 2
SPI_CS0_FLASH == 3
HSPI_IDLE == 4
SPI_BUFF_BYTE_NUM == 32
RomDiv == 32    \* the divider the boot code leaves: none a caller can ask for
SysClk == -1    \* in the place of a divider: the clock is not divided

VARIABLES
  bus,           \* the registers: reg (what backups hold), overlap, pins
  hspi_dev_reg,  \* backups, configurations, the device selected, spi_io_80m
  io80,          \* bit 8 of PERIPHS_IO_MUX: the flash runs at 80 MHz
  taken,         \* history: the configuration the last selection took
  lateInit,      \* history: HSPI_CS_DEV was set up while another was selected
  transfer,      \* history: the transfer of the last step, its call and phases
  read           \* history: the read of the last step, its requests and result

spiVars == <<bus, hspi_dev_reg, io80, taken, lateInit, transfer, read>>

Inactive == [clk_polar |-> 0, clk_div |-> 0]
NoTransfer == [call |-> "none", phases |-> {}]
NoRead == [addr |-> 0, len |-> 0, ok |-> TRUE, requests |-> <<>>]
Active == {d \in 0 .. 3 : hspi_dev_reg.active[d]}
Selected == hspi_dev_reg.selected_dev_num

-----------------------------------------------------------------------------
(* Edits of the registers *)

\* SPI_USER (flash mode, phases, CS setup, sampling edge), SPI_CLOCK, SPI_PIN.
RomRegisters ==
  [flashMode |-> TRUE, phases |-> {}, setup |-> FALSE, edge |-> 0,
   sysclk |-> FALSE, div |-> RomDiv, cs |-> 0]

SysClock(b) == [b EXCEPT !.reg.sysclk = TRUE]
ClkDiv(b, div) == [b EXCEPT !.reg.sysclk = FALSE, !.reg.div = div]
SampleEdge(b, polar) == [b EXCEPT !.reg.edge = polar]
ActiveCs(b, cs) == [b EXCEPT !.reg.cs = cs]
EnableDevCs(b) == [b EXCEPT !.pins = @ \cup {HSPI_CS_DEV}]
DisableDevCs(b) == [b EXCEPT !.pins = @ \ {HSPI_CS_DEV}]

hspi_overlap_init(b) == [b EXCEPT !.overlap = TRUE, !.reg.setup = TRUE]
hspi_overlap_deinit(b) == [b EXCEPT !.overlap = FALSE, !.reg.setup = FALSE]

spi_reg_backup(b) == b.reg
spi_reg_recover(b, backup) == [b EXCEPT !.reg = backup]

spi_master_init(b) ==
  [b EXCEPT !.reg.flashMode = FALSE, !.reg.setup = TRUE, !.reg.sysclk = FALSE,
            !.reg.phases = @ \cup {"command"}, !.reg.div = 1]

-----------------------------------------------------------------------------
(* hspi_master_dev_init *)

\* The first device to be set up: the registers of the flash and of a device
\* are backed up, and none is selected.
FirstInit(r) ==
  LET flash == [bus EXCEPT !.reg.sysclk = io80]
      dev == spi_master_init(flash)
  IN [bus |-> dev,
      dev_reg |-> [r EXCEPT !.spi_io_80m = io80, !.backedUp = TRUE,
                            !.flash_backup = spi_reg_backup(flash),
                            !.dev_backup = spi_reg_backup(dev),
                            !.selected_dev_num = HSPI_IDLE]]

hspi_master_dev_init(dev_no, c) ==
  LET s == IF hspi_dev_reg.backedUp THEN [bus |-> bus, dev_reg |-> hspi_dev_reg]
           ELSE FirstInit(hspi_dev_reg)
  IN /\ hspi_dev_reg' = [s.dev_reg EXCEPT !.active[dev_no] = TRUE,
                                          !.conf[dev_no] = c]
     /\ bus' = IF dev_no = SPI_CS0_FLASH THEN s.bus
               ELSE [s.bus EXCEPT !.pins = @ \cup {dev_no}]
     /\ lateInit' = (lateInit \/ (dev_no = HSPI_CS_DEV
                       /\ s.dev_reg.selected_dev_num \notin {HSPI_CS_DEV, HSPI_IDLE}))
     /\ transfer' = NoTransfer /\ read' = NoRead
     /\ UNCHANGED <<io80, taken>>

hspi_overlap_flash_init == hspi_master_dev_init(SPI_CS0_FLASH, Inactive)

-----------------------------------------------------------------------------
(* hspi_dev_sel, by the device selected before *)

Flash(b) == ActiveCs(SampleEdge(b, 0), 0)
FlashBackup == hspi_dev_reg.flash_backup
DevBackup == hspi_dev_reg.dev_backup
Is80m == hspi_dev_reg.spi_io_80m

\* The clock of a device on the pins of the flash, and of one on its own pins.
SharedClock(b, c) == IF Is80m THEN SysClock(b) ELSE ClkDiv(b, c.clk_div)
OwnClock(b, c) == ClkDiv(b, c.clk_div)

Shared(b, c, dev_no) == ActiveCs(SampleEdge(b, c.clk_polar), dev_no)
Own(b, c) == ActiveCs(SampleEdge(OwnClock(b, c), c.clk_polar), 0)
FlashClock(b) == IF Is80m THEN SysClock(b) ELSE b

FromDev(b, c, dev_no) ==
  LET lent == hspi_overlap_init(DisableDevCs(b)) IN
  CASE dev_no \in {SPI_CS1_DEV, SPI_CS2_DEV} -> Shared(SharedClock(lent, c), c, dev_no)
    [] dev_no = SPI_CS0_FLASH -> Flash(FlashClock(spi_reg_recover(lent, FlashBackup)))
    [] OTHER -> b

\* From either of the two devices that share the pins.
FromShared(b, c, dev_no) ==
  CASE dev_no = Selected -> b
    [] dev_no \in {SPI_CS1_DEV, SPI_CS2_DEV} \ {Selected} ->
         Shared(IF Is80m THEN b ELSE OwnClock(b, c), c, dev_no)
    [] dev_no = SPI_CS0_FLASH -> Flash(spi_reg_recover(b, FlashBackup))
    [] dev_no = HSPI_CS_DEV -> Own(hspi_overlap_deinit(EnableDevCs(b)), c)

\* The mutant leaves the registers of the flash to a device.
FromFlashUnrecovered(b, c, dev_no) ==
  CASE dev_no \in {SPI_CS1_DEV, SPI_CS2_DEV} -> Shared(SharedClock(b, c), c, dev_no)
    [] dev_no = HSPI_CS_DEV -> Own(hspi_overlap_deinit(EnableDevCs(b)), c)
    [] OTHER -> b

FromFlash(b, c, dev_no) ==
  CASE dev_no \in {SPI_CS1_DEV, SPI_CS2_DEV} ->
         Shared(SharedClock(spi_reg_recover(b, DevBackup), c), c, dev_no)
    [] dev_no = HSPI_CS_DEV ->
         Own(spi_reg_recover(hspi_overlap_deinit(EnableDevCs(b)), DevBackup), c)
    [] OTHER -> b

FromIdle(b, c, dev_no) ==
  LET lent == hspi_overlap_init(DisableDevCs(b)) IN
  CASE dev_no \in {SPI_CS1_DEV, SPI_CS2_DEV} ->
         Shared(SharedClock(spi_reg_recover(lent, DevBackup), c), c, dev_no)
    [] dev_no = SPI_CS0_FLASH -> Flash(FlashClock(spi_reg_recover(lent, FlashBackup)))
    [] dev_no = HSPI_CS_DEV ->
         Own(spi_reg_recover(hspi_overlap_deinit(EnableDevCs(b)), DevBackup), c)

\* A device that was not set up is refused; the device selected already is left
\* as it is, whatever its configuration has become.
hspi_dev_sel(dev_no) ==
  LET c == hspi_dev_reg.conf[dev_no] IN
  IF dev_no \notin Active THEN UNCHANGED <<bus, hspi_dev_reg, taken, lateInit>>
  ELSE /\ bus' = CASE Selected = HSPI_CS_DEV -> FromDev(bus, c, dev_no)
                   [] Selected \in {SPI_CS1_DEV, SPI_CS2_DEV} -> FromShared(bus, c, dev_no)
                   [] Selected = SPI_CS0_FLASH -> FromFlash(bus, c, dev_no)
                   [] OTHER -> FromIdle(bus, c, dev_no)
       /\ hspi_dev_reg' = [hspi_dev_reg EXCEPT !.selected_dev_num = dev_no]
       /\ taken' = IF dev_no = Selected THEN taken ELSE c
       /\ lateInit' = (lateInit /\ dev_no # HSPI_CS_DEV)

-----------------------------------------------------------------------------
(* Transfers of a byte.  A caller has selected its device. *)

Transfers(call, phases) ==
  /\ hspi_dev_reg.backedUp /\ Selected \in {HSPI_CS_DEV, SPI_CS1_DEV, SPI_CS2_DEV}
  /\ bus' = [bus EXCEPT !.reg.phases = phases]
  /\ transfer' = [call |-> call, phases |-> phases]
  /\ read' = NoRead
  /\ UNCHANGED <<hspi_dev_reg, io80, taken, lateInit>>

spi_lcd_9bit_write == Transfers("lcd", bus.reg.phases)
spi_mast_byte_write == Transfers("byte", bus.reg.phases \ {"mosi", "miso"})
spi_byte_write_espslave == Transfers("write", (bus.reg.phases \cup {"mosi"}) \ {"miso"})
spi_byte_read_espslave == Transfers("read", (bus.reg.phases \cup {"miso"}) \ {"mosi"})

-----------------------------------------------------------------------------
(* hspi_overlap_read_flash_data *)

\* One request of the controller for each buffer, the last for what remains.
Requests(addr, len) ==
  LET Request(n) == [addr |-> addr + n * SPI_BUFF_BYTE_NUM,
                     bytes |-> IF len - n * SPI_BUFF_BYTE_NUM >= SPI_BUFF_BYTE_NUM
                               THEN SPI_BUFF_BYTE_NUM ELSE len - n * SPI_BUFF_BYTE_NUM]
      count == (len + SPI_BUFF_BYTE_NUM - 1) \div SPI_BUFF_BYTE_NUM
  IN [n \in 1 .. count |-> Request(n - 1)]

\* Words copied from the buffer of a request.
Words(r) == IF r.bytes % 4 = 0 THEN r.bytes \div 4 ELSE r.bytes \div 4 + 1

\* The device is selected first, even for a read that is then refused.
hspi_overlap_read_flash_data ==
  /\ SPI_CS0_FLASH \in Active
  /\ hspi_dev_sel(SPI_CS0_FLASH)
  /\ \E addr \in ReadAddrs, len \in ReadLengths :
       read' = IF addr + len > ChipSize
               THEN [addr |-> addr, len |-> len, ok |-> FALSE, requests |-> <<>>]
               ELSE [addr |-> addr, len |-> len, ok |-> TRUE,
                     requests |-> Requests(addr, len)]
  /\ transfer' = NoTransfer
  /\ UNCHANGED io80

-----------------------------------------------------------------------------

SpiInit ==
  /\ bus = [reg |-> RomRegisters, overlap |-> FALSE, pins |-> {}]
  /\ hspi_dev_reg = [flash_backup |-> RomRegisters, dev_backup |-> RomRegisters,
                     conf |-> [d \in 0 .. 3 |-> Inactive],
                     active |-> [d \in 0 .. 3 |-> FALSE],
                     selected_dev_num |-> 0, spi_io_80m |-> FALSE, backedUp |-> FALSE]
  /\ io80 \in BOOLEAN /\ taken = Inactive /\ lateInit = FALSE
  /\ transfer = NoTransfer /\ read = NoRead

Select ==
  /\ \E d \in 0 .. 3 : hspi_dev_sel(d)
  /\ transfer' = NoTransfer /\ read' = NoRead
  /\ UNCHANGED io80

SpiNext ==
  \/ \E d \in 0 .. 2, c \in Confs : hspi_master_dev_init(d, c)
  \/ hspi_overlap_flash_init
  \/ Select
  \/ spi_lcd_9bit_write
  \/ spi_mast_byte_write
  \/ spi_byte_write_espslave
  \/ spi_byte_read_espslave
  \/ hspi_overlap_read_flash_data

SpiSpec == SpiInit /\ [][SpiNext]_spiVars

-----------------------------------------------------------------------------

SpiTypeOK ==
  /\ bus.pins \subseteq 0 .. 2 /\ bus.reg.cs \in 0 .. 2
  /\ Selected \in 0 .. 4 /\ taken \in Confs \cup {Inactive}

\* What the registers should be for device d with configuration c, whatever was
\* selected before: who has the pins, the clock, the edge, the chip select.
Wanted(d, c) ==
  [overlap |-> d # HSPI_CS_DEV,
   flashMode |-> d = SPI_CS0_FLASH,
   clock |-> CASE d = HSPI_CS_DEV \/ (d # SPI_CS0_FLASH /\ ~ Is80m) -> c.clk_div
               [] d # HSPI_CS_DEV /\ Is80m -> SysClk
               [] OTHER -> RomDiv,
   edge |-> IF d = SPI_CS0_FLASH THEN 0 ELSE c.clk_polar,
   cs |-> IF d \in {SPI_CS1_DEV, SPI_CS2_DEV} THEN d ELSE 0]

Effective ==
  [overlap |-> bus.overlap, flashMode |-> bus.reg.flashMode,
   clock |-> IF bus.reg.sysclk THEN SysClk ELSE bus.reg.div,
   edge |-> bus.reg.edge, cs |-> bus.reg.cs]

TotalOf(f) ==
  LET sum[n \in 0 .. Len(f)] == IF n = 0 THEN 0 ELSE sum[n - 1] + f[n]
  IN sum[Len(f)]

\* A history of selections leaves no trace: the bus is set for the device that is
\* selected, with the configuration it had when it was selected, and the chip
\* select of HSPI_CS_DEV, which shares a number with that of the flash, is not
\* connected while the flash has the bus.  (It is, if HSPI_CS_DEV is set up for the
\* first time or again while another is selected.)  A transfer has the phases of its
\* call; only spi_lcd_9bit_write keeps those of the transfer before.
BusIsSelected ==
  /\ hspi_dev_reg.backedUp /\ Selected # HSPI_IDLE =>
       /\ Effective = Wanted(Selected, taken)
       /\ Selected \in bus.pins \cup {SPI_CS0_FLASH}
       /\ HSPI_CS_DEV \in bus.pins => Selected = HSPI_CS_DEV \/ lateInit
  /\ LET Needs(call) == CASE call = "byte" -> {"command"}
                          [] call = "write" -> {"command", "mosi"}
                          [] call = "read" -> {"command", "miso"}
     IN transfer.call \notin {"none", "lcd"} => transfer.phases = Needs(transfer.call)
  /\ read.ok =>
       LET r == read.requests IN
       /\ \A n \in DOMAIN r : r[n].bytes \in 1 .. SPI_BUFF_BYTE_NUM
       /\ TotalOf([n \in DOMAIN r |-> r[n].bytes]) = read.len
       /\ TotalOf([n \in DOMAIN r |-> 4 * Words(r[n])]) \in read.len .. read.len + 3
=============================================================================
