# TLA+ models of the Base64 gateware

The repository holds two independent gatewares for the Base64 board, a 68000
accelerator for the Amiga, and the software that goes with them.  This directory
models the **fx68k gateware** (`src/rtl/base64_fx68k/`), the one that is
released; the **Amiga tools** that go with it (`src/fx68k/sw/turbomem/`); the
**firmware** of the TG68 gateware (`src/fw/libsoc/`, `src/prj/tg68test/`) and
the ROM generator (`src/romgen/`).  It says where the TG68 gateware itself
(`src/rtl/`) stands.

Paths below are those of the files' names; PROJECT.json maps every definition
to its lines.

## 1. Inventory

### The fx68k gateware

One clock (12 x the motherboard's 7 MHz) drives everything; the fx68k core
advances one S-state per clock.  The core is an empty submodule here: in the
models it is an external bus master.

| Part | Source | State | Operations | What makes it correct |
|---|---|---|---|---|
| 7M phase aligner | `base64_top.sv` 366-433 | `ph`, `slip_cnt`, `ph_locked` | one step per clock, on an edge or not | the grid follows the motherboard's clock, and only it |
| Reset, halt, cold-boot retry | `base64_top.sv` 249-365, 476-652 | counters, synchronisers, `rst_stretch`, `rtry_*` | power-up, RESET instruction, retry | the core starts once, with the machine; never resets itself; never stuck |
| E clock, synchronisers | `base64_top.sv` 335-365, 449-459 | `e_cnt`, `e_pin`, `s_*` | per clock / per 7M tick | - (used by the engines) |
| Bridge engine (section 10) | `base64_top.sv` 801-1091 | `st`, latched cycle, sample flags | S0..S7 and the 6800 states | each core cycle becomes one bus cycle; its answer is its own |
| Retime engine (section 10b, default) | `base64_top.sv` 1133-1256 | `rt_*` | strobes on ticks, answer on ticks, VMA | writes land, reads return, 6800 cycles meet E |
| Bus ownership, passive mode | `base64_top.sv` 729-799 | `bg_pin_n`, `arb_*`, `passive` | grant, release, decision window | never two drivers; never stuck |
| Interrupt filter | `base64_top.sv` 461-469 | two samples | per 7M tick | a stable level gets through |
| SDRAM controller | `sdram_ctrl.v` | FSM, open-row table, timers | init, read, write, refresh | device timing, row table, refresh interval |
| Fast RAM bridge | `fastmem_zii.v` 303-534 | `bstate`, `fm_hold`, registered decode | request, early acknowledge | memory semantics on the core's bus |
| Autoconfig chain | `fastmem_zii.v` 84-382, `turbomem_zii.v` 178-277, `autoconfig_zii.v`, `sd_subsystem.v` 80-84 | offers, slot bitmap, bases, shut-up flags, CFGOUT, registered decodes | nibble reads, base and shut-up writes, passing the chain | one slave per cycle; the memory pooled is the memory answered; the chain never sticks |
| Fast RAM address map | `fastmem_zii.v` 271-278, 412-447 | - | slot, popcount, SDRAM word | no two addresses share a word |
| Turbomem ROM, mapROM | `turbomem_zii.v` 292-413 | key/status registers, DTACK counter | ROM reads, unlock, switch | protected unless unlocked |
| SD card path | `sd_subsystem.v`, `sdcard.v`, `shifter.v`, `fifo.v`, `rx_cpu_buf.v`, `tx_cpu_buf.v` | FIFOs, shifter | register access, byte stream | bytes in order, none lost or doubled |
| LEDs, debug monitor | `base64_top.sv` 1527-1639 | counters | - | no influence |

How they interact: the core drives an address and strobes; the decodes
(`fm_space`, `tm_space`, `sd_space`) decide whether an on-chip slave answers,
otherwise the connected bus engine runs the cycle on the motherboard.  All
slaves answer by `DTACK` into one OR; read data come through one mux.  The two
bus engines both follow the core all the time; a parameter (`RETIME`) decides
whose pins are connected, and two signals cross between them.  Reset lines are
open-drain and fed back.

### The software

| Part | Source | State | Operations | What makes it correct |
|---|---|---|---|---|
| FAT library | `minfat.c`, `minfat.h` | one sector buffer and the number of the sector it claims, the current directory position, a structure per open file | mount, scan, open, create, extend, write, delete, close, LoadFileAbs | chains stay sound and unshared; what was closed stays; the buffer is what it claims to be; every call returns |
| SD card driver | `spi_c.c` | is the card addressed by sector; three counted loops | spi_init, sd_read_sector, sd_write_sector, size from the CSD | it is a store of sectors; it always returns |
| C runtime | `small_printf.c`, `string_c.c`, `ldiv.s` | none between calls | printf and relatives, strtok, strtol, long division | what C says, for the arguments the firmware has |
| Test firmware | `boot.c` | which ROM was found | MemCheck, LoadROM, main | the size of memory; soft or stock Kickstart, whole |
| Turbomem and mapROM tools | `turbomem.c`, `maprom.c` | exec's memory list, the control register, each program's place | probe, AddMemList, fill the shadow, check it, switch it on and off | ROM code never runs from a shadow that is not the ROM unless the check is fooled; memory is added only when whole |
| cfgdump | `cfgdump.c` | none | read a board's identity, vectors and names | it reads what the board shows |
| ROM generator | `romgen.c` | none | options, words, lanes, lines | every byte in its lane |

The firmware runs on the TG68 core: boot.c calls the FAT library, which calls the
driver, which talks SPI to the card; all of them print through the runtime.  The
Amiga tools run as programs, and as the board's boot routine, on the machine the
fx68k gateware makes, next to any other task; they meet on the mapROM control
register and on exec's memory list.

### The TG68 gateware

`m68k_bridge.sv` (bus S-states on enables of a fast clock), `tg68wrapper.sv`
(decode, caches, sequencing), `sdram.sv` (burst controller), `hostclocks.sv`,
`fx68k_sys.sv` (the fx68k core behind a request/acknowledge port),
`autoconfig/`, `peripherals/` (UART, SPI), `jtag/` (capture engine and FIFOs
between two clocks) and the bring-up designs (`sdram_smoketest`, `blink`,
`prj/*`).  Vendored or generated: the TG68K and fx68k cores, the Micron model,
PLLs, memory images.

### What is hard here

Everything runs on one clock, so the hard behaviours are not threads but
*machines stepping side by side* with nobody having tried every offset between
them: core, two bus engines, E, a motherboard that answers when it likes, an
SDRAM that must be refreshed, and reset lines that several parties pull.

The software has its own: one sector buffer shared by FAT, directories and
files, written to a card that may lose power between any two sectors; a card
that answers late, or not, or not yet; programs that replace the ROM every task
is executing, on a machine that interrupts and resets them.

PROJECT.json lists each hazard at its line.

## 2. Modules

```
SdramChip        the device: commands, row state, ages, timing rules
  SdramCtrl      sdram_ctrl.v, one action per state-machine arm
    FastmemBridge     core + fastmem_zii.v bridge + controller + device
      FastmemProofs   timing, row table; SdramCtrl implements MemPort; and
                      FastmemBridge is a memory on the core's bus
MemPort          what the controller promises: a one-port memory (abstract)
PhaseAligner     base64_top.sv section 3
ColdBoot         base64_top.sv sections 1, 1b, 2, 7, 7b
  BusOwnership   base64_top.sv sections 9, 9b, 11, on the same clocks
    ColdBootProofs  of these three
CoreBus          ticks, E, synchronisers, the core's bus cycle
  BusBridge      base64_top.sv section 10
    Retime       base64_top.sv section 10b
      MotherboardBus  both engines, muxes, pins and the motherboard
        MotherboardProofs  with either engine connected
FastmemMap       fastmem_zii.v: which addresses, which SDRAM words (no state)
  ZorroBus       the core's bus as the autoconfig boards see it
    FastmemConfig, Turbomem, SdConfig   one board each
      AutoconfigChain      the three boards on their chain
        AutoconfigProofs
Fifo             fifo.v, tx_cpu_buf.v, rx_cpu_buf.v as operators on records
  Shifter        shifter.v
    SdPath       the core's cycles, sdcard.v, a polling driver, the card
      SdPathProofs

FatVolume        the volume: sectors, FAT, directory, the shared buffer
  MinFat         minfat.c and boot.c's LoadROM, one step per access
    MinFatProofs    the FAT, the files and the buffer, until a step goes wrong
SectorStore      what a card driver promises: a store of sectors (abstract)
SpiCard          spi_c.c and the card
  SpiCardProofs  it implements SectorStore
  Firmware       the library's calls, then the driver
Ldiv, CStrings, SmallPrintf, MemCheck, RomGen, DiagDump   functions
  Library        their calls, and what each ought to compute
TurbomemAdd      turbomem.c: probing the window, AddMemList
  MapromTool     diag_point, maprom.c and TestAddTurboMem on one machine
    MapromProofs
```

In the gateware's modules **one step is one master clock**.  An action's primed
variables are the registers' next values; a Verilog register that is not
assigned is UNCHANGED; the last assignment in a block wins, as in the source.
Where several blocks are clocked together, each is an operator over its own
registers and a `Clock` action conjoins them.  In the software's modules a step
is what nothing can come between, or what nothing else can see the middle of:
a sector on its way to the card, a command and its answer, one bus access.  The
MC modules (`MCAutoconfig`, `MCMinFat`, `MCFirmware`,
`MCMapromTool`) only name constants; the other runs take the module itself.

**SdramChip / SdramCtrl / MemPort.**  `SdramChip` is the contract of the
repository's own checked device model (`sdram_model_checked.v`), with times
counted in controller clocks and saturated at `AgeCap`/`RefCap` (nothing looks
at a larger age); a broken rule is recorded in `viol`.  Its `pipe` is the CAS
latency of `is42s16160b_model.v`.  `SdramCtrl` has one action per arm of the
state machine, each carrying the three counters that run beside it.  Its inputs
are arbitrary on every clock, so timing holds whatever the requester does.
`MemPort` is the abstract promise, which `SdramCtrl` refines
(`ImplementsMemPort`).

**FastmemBridge** drives the same arms from the bridge and the core's bus
cycle.  `promised` is what the finished bus cycles ought to have left in
memory.  `RMW_CYCLES` adds TAS.

**PhaseAligner.**  The motherboard's edge is due every `PERIOD` clocks; up to
`MaxNoise` misplaced edges and `MaxSlips` phase slips may come.

**ColdBoot.**  Who pulls /RESET and /HALT, and the core's reaction two clocks
later.  Counters are scaled by their bit numbers only.

**BusOwnership** adds the synchronisers of /BR and /BGACK, the retimed /BG, the
decision window after the power-up hold, passive mode and the enable of the bus
switches.  The guest is external: a DMA master, reset by /RESET, that asks for at
most `BURST` clocks (no longer than the window, as line 759 says of a transfer)
and drives once granted; or an accelerator that holds /BR from power-up on and
drives when it likes.  The core, external too, answers /BR with /BG some time and
uses the bus until /BGACK comes (line 734).  The tri-states of the engines' pins
follow from `bus_owned` alone and are not drawn.

**CoreBus / BusBridge / Retime / MotherboardBus.**  Both engines run side by
side on the same core and the same synchronised answers, as in the netlist.
Pins that are functions of state and latched cycle are defined, not stored.
The motherboard is the environment: any delay of DTACK/VPA/BERR, read data up
to `DATA_LAG` clocks after DTACK and gone with AS, answers released within
`REL` clocks of AS, RAM latching on the rise of AS, CIA on the fall of E.

**FastmemMap / ZorroBus / FastmemConfig / Turbomem / SdConfig /
AutoconfigChain.**  An address is a record of A31-A24, the 64 KB page and the
offset in it.  Each board is a set of `...Clock` operators over its own
registers; all three follow every bus cycle.  `told` is what Kickstart believes
to be memory.  The environment is Kickstart as the Zorro rules bind it: CFGIN
falls between cycles, memory goes inside the Zorro II window, I/O boards get
pages $E9-$EF of their own.  S3 is left out: only write data change there.

**Fifo / Shifter / SdPath.**  A byte is a number modulo `CYCLE`: driver and
card number the bytes they send, so a byte lost, doubled or swapped shows;
`pending`, `due` and `unread` count exactly what a number modulo `CYCLE` would
hide.  A byte is shifted in `BITS` bits.  `rx_length` has no reset and powers
up with anything.  The driver is external and goes by STATUS: it writes in the
modes that send only, transfers as many bytes as the last status allows
(`HALF` if half, 2 if the adapter can take or give a word, else 1), and
commands the shifter only when the last status showed it idle and everything
has been read.  A driver that reads a word while the adapter holds one byte
would lose the byte that arrives meanwhile (`rx_cpu_buf.v:48-50`): the rule is
a precondition of the hardware, not a courtesy.  Reset is held far longer than
its synchroniser (three stages), so it is one step.

**FatVolume / MinFat.**  A volume is a function from sector numbers to what is
in them: a partition or boot sector, a sector of the FAT (links), of a directory
(entries) or of a file (which sector of which file).  A call of the library runs
in steps, one per directory sector, FAT access or cluster.  The sectors a step
writes go to `io.todo` and reach the card one by one (`Land`) before the next
step, so that the power may go between any two (`PowerLoss`: the buffer, the open
files and the running call are gone, the card stays).  A failed read leaves the
buffer as it was and the claim in `cached` as the code leaves it.  A failed write
leaves the card as it was: either the driver says so, then SetCluster leaves out the
copies of the FAT that it has still to write (`left`) and its callers go on, or the
driver says that the sector was written.  FileWriteSector, FileReadSector and
FileNextSector look at nothing and may be called anywhere.  With cluster 0 (an empty
file that has none yet, or a file read past its end) the sector is
`data_start - 2 * cluster_size` or a few more, in the FAT or the root directory; behind
the last sector one writes into whatever comes next (`Astray`, `Beyond`).  `faults`
counts these steps with the failed accesses, because the invariants end there.
FileSize is counted in sectors and `rest`: "in" when it ends within the last sector,
"past" when it reaches into one behind those that `size` counts, which is what
`size += 512` makes of a partial last sector that is written again (`Lengthened`);
LoadFileAbs reads as far as FileSize reaches (`Reach`).  The programs keep several files
open, and close a file before its name is deleted.
`kept` is what the closed files ought to hold.  `SoundVolume` says from which
volumes the programs start: every sector of the FAT and of the directory is one,
the copies of the FAT agree, chains of files end with the largest link and never
meet, no cluster is lost, the directory is the root (a chain, or FAT16's area), a
long name stands before the entry that it names, no name occurs twice, and the
links behind the last cluster are not free.  That is what a formatter makes; the
observations on minfat.c below say what happens on others.  TLC evaluates it on the
volumes of `MCMinFat`.

**SectorStore / SpiCard / Firmware.**  One action is one command of the driver
with the card's answer, or one phase of a transfer; the driver's loops count
down from constants.  The card is external: any kind (none, v1, v2, high
capacity), native until CMD0, some commands asleep, some more initialising, busy
for a while after a block, possibly for longer than the driver polls.  Faults are
commands lost or refused, those of spi_init too, blocks that never come and blocks
the card refuses; an answer that is garbled after the card has acted on the command
is not modelled.  `SectorStore` is the promise: one request at a time; a read that
answers 1 delivers the sector asked for, a write that answers 0 has left every
sector alone, and one that answers 1 has stored its own, unless its block was
refused or it came while the card was late with the last one, which can only be
after a write that took longer than the polls (`slow`).  Either may fail.  Three
history variables of `SpiCard` say which case it was: `missed`, the commands that
were lost or refused, `fate` of the block, and `slow`.  A driver that counts in
another unit than the card (`WrongUnit`) promises nothing (`blind`);
`AddressedRight` says that it takes a missed CMD8 or CMD58 to get there.

**Ldiv, CStrings, SmallPrintf, MemCheck, RomGen, DiagDump / Library.**  The
runtime keeps nothing between calls, so that each function is an operator: the
division in two halves, the state machine of the format, the tokeniser's and number parser's loops, the aliasing test of the
memory size, the ROM generator's lanes, the bytes cfgdump reads through a window.
Recursive functions take the place of loops.  `Library` has the calls, and
`Right` is the definition each is compared with: quotient and remainder, the text
C prints, tokens and numbers, the true size, the true lane.  `Firmware` makes any
one call before the driver starts.

**TurbomemAdd / MapromTool.**  A window decodes fewer address bits than it
claims, or nothing: `Folds` says on which cell each probe falls.  A task is at a
place of its program with its local variables; a step reads or writes one
longword.  `Disable` keeps the others and interrupts out.  `Mix` is a step of the
source's checksum, rotation and addition modulo the values of a longword
(2*`HALF`: 2^32 in the source, 4 in the run).  Reset may come anywhere, and strikes
the control register but not the SDRAM; `MaxFaults` words of a copy go astray.  The
history variable `fooled` records that a check has passed over a collision
(`Collide`): other contents, two words of a bank apart, with the same two sums.

## 3. Runs

Runs that pass:

| Run | Shows | Bounds, and why they are enough |
|---|---|---|
| `sdram` | every device rule, the row table and no tRAS stall (`RowsKnown`), and the refinement of `MemPort`, under arbitrary requests and resets | two banks (the machine treats one and "the others"), two rows, two byte values, device minima at the *tightest* value the controller can meet; `T_REFI` and the power-up counter just long enough for accesses to fall between refreshes |
| `fastmem_bridge` | bus writes land once, reads return them, no refresh is dropped, every cycle ends, with a reset anywhere | one bank, two rows: row hits, misses and refreshes all occur; `T_REFI = 12` makes refreshes fall due in the middle of accesses. The device minima are 0 here: `sdram` checks them for any requester |
| `phase_aligner` | the grid settles after noise and slips; a lock made on regular edges ignores noise | the real period and tolerance; more misplaced edges than `SLIP_TOL` |
| `cold_boot` | core starts with the machine, never resets itself by RESET, a core that faults is retried, and is always released; the switches are never closed beside an accelerator that holds /BR, and no DMA master drives the FPGA off the bus for good | counters of a few bits; every overlap of the pulses occurs; a window of five clocks and a DMA master that keeps /BR for up to four, so that it may ask twice in a window or straddle either end |
| `bus_retime` | RETIME = 1: writes land, reads return, a bus error is its own cycle's, every cycle ends, pins steady past AS, a 6800 cycle meets one fall of E | the 7M period at its real 12 clocks; E period 2 ticks instead of 10, so VMA meets every phase of E; one RAM, one CIA, one empty address, one on-chip slave |
| `bus_bridge` | RETIME = 0: read data and autovectors (`BridgeAnswers`), with interrupts and a reset anywhere | the same, E period 3, two interrupt levels and two data words |
| `autoconfig` | one slave per cycle, steady over it; the memory pooled is the memory answered; no aliases; ROM reads steady; the chain reaches the pin | every offer, placement and refusal, resets anywhere; addresses at the edges of each window; `SD_ACK` and `ACK_CLKS` 2 |
| `sd_path` | bytes written reach the card, bytes received reach the core, in order, none lost or doubled; an idle status tells the truth | FIFOs of 2 bytes, so that both fill and the shifter stalls; receive commands of 1 and 7 bytes (7 exceeds every buffer together); 2 bits at divider 3, 17 clocks a byte, as fast against the bus as 8 bits at divider 0; one reset anywhere |
| `minfat` | chains sound and unshared at every sector written; closed files stay, whatever is called and wherever the power goes; the shared buffer is what it claims; LoadROM starts a whole image or none, but for a last sector that only FileSize claims; every call returns | FAT32, four clusters of two sectors, two of them the directory's, two links or entries a sector (so that a search and a chain cross sectors), two names, files of three sectors (a file ends in the middle of its second cluster, or within its last sector), and one power loss, failed read, failed write (told or not) or call outside a file: 1.2 million states |
| `firmware` | the driver addresses every kind of card rightly, implements `SectorStore`, always returns, with lost and refused commands and blocks and late cards; before it, some 25,000 calls of the library against their definitions | sectors 1 and 512 (the byte address of 1 is the number of 512: a card addressed wrongly meets the other one), two tries of each kind, two faults, a card busy for up to five polls of which the driver waits three; division of longs of 8 bits by words of 4, all of them; numbers of 16 bits; memory of 32 and 64 MB (see the observation on less) |
| `maprom_tools` | ROM code never runs from a shadow that is not the ROM, until a check is fooled by two wrong words of a bank (reached in the run); memory is added only when whole, under a name that stays; every program ends with interrupts on | the boot routine and two Shells (a third does nothing that the second cannot), two longwords of two bits a bank, two ROMs, seven probes as in the source with four ways to fold them, one stray write, one reset |

`DATA_LAG = 4` is the largest lag the retime engine tolerates: with 5, a read
can be latched before its data are there (the acknowledge may follow DTACK at
the synchronisers' pace when DTACK comes just before a tick).

In `fastmem_bridge` the deferral counter `REF_DEFER` never reaches its limit:
this requester leaves the port idle often enough; `sdram` exercises the limit
with its arbitrary one.

In `sd_path` the half-full bit stands for a burst of `HALF = 2` bytes into a
FIFO of 2 and an adapter of 2; in the source for 16 bytes into 32 and 2, which
is roomier.  The status cannot lie about a byte on its way between two
registers because two accesses are at least eight clocks apart and a byte moves
on in one.

A run that finds a disagreement between the code and what the repository says:

| Run | Finding |
|---|---|
| `fastmem_tas` | the write half of TAS on fast RAM is acknowledged by the read half's DTACK and lost |

### Observations

Met while modelling; each can be seen again as told, but none is kept as a run.

Gateware:

* A receive command of no bytes does not receive none: `rx_length` takes the new
  value on the clock on which the shifter already looks at the old one
  (`shifter.v:78-91`), which no reset clears.  If that was not 0 a byte is shifted,
  and the count goes from 0 to 8191.  `Lengths` leaves 0 out; with it (and its
  assumption dropped) `sd_path` fails.
* A double fault during a stretched RESET resets the core, and it starts again
  (`base64_top.sv:512`; lines 506-508: "a genuine double bus fault now HALTS and
  stays halted").  Check `HaltStays` with `MCColdBoot.cfg`.
* In passive mode the FPGA still pulls /RESET and /HALT: neither the RESET
  instruction nor a halted core nor the cold-boot retry asks for `passive`
  (`base64_top.sv:577-600, 649-652`), although `fx68k/README.md:149` says that it
  "hands the bus over for good: outputs tri-stated".  Check `PassiveQuiet` with
  `MCColdBoot.cfg`.
* The FPGA lets go of the bus three clocks after /BGACK (two of the synchroniser,
  one of `bus_enable`, `base64_top.sv:1112`), when the new master may drive
  already; `OneOwner` therefore speaks of accelerators, whom the window precedes.
* RETIME = 1: the autovector number is that of the engine that is not connected
  (`base64_top.sv:686, 958, 1058`), which may hold another cycle's.  Check
  `VectorIsLevel` with `MCBusBridge.cfg` and RETIME = TRUE, no CIA, no reset.
* The mapROM register is decoded from A15-A12 and A3-A1 alone
  (`turbomem_zii.v:357, 374`): a keyed word written to any memory at such an
  offset switches mapROM, although lines 343-347 say that "only a deliberate
  write can do it".  Check `MapromDeliberate` with `MCAutoconfig.cfg`,
  STRAY_KEYS = TRUE and Address <- MCStrayAddress.  So does maprom.c itself when
  it copies a ROM that holds a word $5Axx at such an address: the antecedent
  `Clean` of `RomServed` is this and no more.
* `PhaseAligner!LocksWhenTrusted` fails: re-acquisition sets `ph` to
  `PHASE_OFS` on the clock of the edge (`base64_top.sv:392`), so on the next
  regular edge it reads `PHASE_OFS - 1` and is set again.  On a perfectly
  regular clock the aligner never locks, and until it does a misplaced edge
  moves the grid; an edge one clock late locks it.
* The cold-boot retry is disarmed by time the core spends in reset: a core that
  is not halted counts as alive even while the motherboard holds it in reset
  (`base64_top.sv:596-598`).
* RETIME = 0 latches `bx_uds_n`/`bx_lds_n` when AS falls
  (`base64_top.sv:955-956`), two S-states before the core asserts the strobes of
  a write: `bus_bridge` therefore checks no write data.
* With OFFER_SPLIT the second offer cannot be reached: CFGOUT drops at the end
  of the cycle that configured the 2 MB half (`fastmem_zii.v:188-189`), although
  lines 8-9 and 36 announce 2 + 4 MB.

FAT library (`minfat.c`):

* A failed read of the FAT leaves `cachedsector` claimed (232-300): the next write
  puts the stale buffer over the FAT, and LoadFileAbs returns 1 with wrong data.
* NextDirEntry does not look whether a sector was read (756): it goes on with what is
  in the buffer.  If that is the sector before, the long name at its end is given to
  its own first entry, and LoadROM may start another, shorter file: put a file in
  place of the `Label` before `Long("a")` in `MCMinFat`, and an image shorter than
  `kept` is started.  FindFreeDirEntry may write such a sector.
* FileWriteSector has no check at all (459-473).  On a file whose StartCluster is 0 it
  writes to `data_start + cluster_size * (0 - 2)`, which is in the last copy of the FAT
  or in the root directory of FAT16; behind the last sector it writes into the next
  cluster of whatever chain, or of none.  The run does both.
* `size += 512` (469) when the last sector is only partly the file's makes FileSize
  reach into a sector that was never written and may have no cluster.  LoadFileAbs
  counts up from FileSize (660-684), loads that sector too, over cluster 0 if the chain
  has ended, and leaves in `cachedsector` the number of a sector that may be one of the
  FAT while the buffer holds another.  `RomTrue` and `CacheTrue` leave that out by name
  (`Claimed`, `LastRead`).
* SetCluster stops at the first copy it cannot write (265-270) and nobody looks at what
  it returns: the copies disagree, or the chain is not what the caller thinks it is.
* `FatSound`, `FilesKept`, `CacheTrue` and `RomTrue` therefore speak of the time until a
  read or a write has failed or a program has gone on behind the end of its file, and
  `CallsEnd` of the calls up to there.  The run follows such a call to its end.
* AllocateCluster is bounded by the FAT's size, not by the number of clusters
  (304-336).  File chains end only at the exact end-of-chain value (431),
  directories at any from F8 (821): a file another system ended with F8 is
  followed past its end.
* FileDelete frees the clusters before the entry goes (1007-1019): a power loss
  between leaves an entry that leads to free clusters.  `torn` names them.
* `Attributes && ATTR_DIRECTORY` (922, a logical and): a deleted entry with any
  attribute is never used again, nor one behind a long name.
* FileOpen leaves `dirty` as it was (384-420); SetFilename clears `Attributes`
  through `strncpy`, whose assembly writes a byte more; FileRead that ends at a
  sector's end does not advance; LoadFileAbs of an empty file returns 1.

Card driver (`spi_c.c`):

* A command that fails leaves the card selected (246-251, 344-348).
* The response token of a write is not looked at and its timeout is ignored: it
  returns 1 (269-280).  A busy card pulls the line low, which the next command
  takes for R1 = 0: after a write of more polls than `BUSY_POLLS` the next one may
  be lost though it is reported done, and so may one whose block is refused
  (`late` and `refused` in `SectorStore`).
* A CMD8 or CMD58 lost in spi_init makes a high-capacity card one addressed by
  bytes: without its premise `AddressedRight` is violated.
* spi_init returns 1 even if wait_init has failed; the size of a v2 card of a
  terabyte overflows.

C runtime:

* `ldiv.s`: an estimate that is two too large is corrected once, and then
  `7$: bhs.s 7$` (140) branches to itself: with some divisors of more than 16 bits
  the division never ends ($C7E7EFC7 / $20A4F).  The firmware divides by the
  radices of `small_printf.c:21-23` only, 2, 10 and 16, so that `Ldiv` is division
  by a word, and the path behind `2$` (106-149) is not modelled.
* `string.s` (not modelled): memcpy and strncpy move one byte more than asked,
  memset of one writes nothing and of none 65536, strcmp has the wrong sign where
  the first string is the beginning of the second.
* `small_printf.c`: zero is not padded, width 9 is not a width, a 0 inside a width
  is the pad flag, `-` goes to putchar even in sprintf, the buffer of 16 digits
  overflows for %b beyond 16 bits and for wider widths, a size of 0 is no limit.
  The calls in `MCFirmware` leave these out.
* `boot.c` MemCheck: the mask is a bit short: memory of less than the 32 MB the
  board has is reported at double its size.  The run has 32 MB and 64 MB.

Tools:

* `romgen`: the help says words, the code counts bytes of the offset;
  `std_small.mk:45,50` calls it with `-s4`, now the stride (the word size is
  `-z`), and gets every fifth word only.
* `cfgdump` (99-102, 127) reads the vectors of the SD board as bytes at stride 2
  though its image is packed in nibbles (`sd_subsystem.v`, header), and prints
  3855 for $354.  Of this board `SeesOnly` covers the window once its driver has
  written to it: the registers are printed as if they were a DiagArea, and no
  read takes a byte out of the FIFO.
* `turbomem.c`: if AllocMem fails the region's name stays in the program's text,
  freed at exit (226); TestAddTurboMem does not look whether the region is in the
  list already.
* The mapROM checksum (`maprom.c:167-175`, `turbomem.c:452-460`) is said to notice "a
  copy that landed in the wrong order" (164-166).  A single wrong word of a bank
  always shows; two may cancel: neighbouring $00000000 and $FFFFFFFF swapped, or the
  second word of a bank written over the first.  `maprom_tools` meets the latter,
  and `RomServed` speaks until then (`fooled`).

### Fairness

All fairness is of a clock, of a processor that goes on executing, or of an
environment that is bound to answer:

* `FastmemBridge`: the clock runs (`WF(SysClock)`), nothing else.
* `PhaseAligner`: the clock runs and the power-up hold ends; noise and slips
  need no fairness, they are bounded.
* `ColdBoot`, `BusOwnership`: the clock and the 7M ticks keep coming whoever touches the lines,
  and nobody keeps the motherboard in reset for ever.
* `MotherboardBus`: the clock runs; a motherboard device that keeps seeing AS
  answers in the end (an empty address is answered by BERR); an on-chip slave
  is answering on one of the clocks on which the core samples.

* `MinFat`: a call that is running goes on and its sectors reach the card
  (`WF(Internal)`); nobody has to make a call.
* `Firmware`: the program goes on (`WF(FirmwareRuns)`); the card need not answer,
  the driver's loops are counted.
* `MapromTool`: weak fairness of each task's step.  exec gives every ready task
  its turn, and while one has interrupts off the others' steps are not enabled.

`ChainPasses` carries its premise itself (Kickstart goes on refusing what it is
offered); `sdram` and `sd_path` check safety and refinement only.

## 4. Proofs

`FastmemProofs` proves of the controller, for every number of banks, rows, columns and words
and all timing parameters meeting `ChipAssumption`, `CtrlAssumption` and
`TimingAssumption`:

* `TypeCorrect`: the type invariant;
* `TimingKept`: no command breaks tRCD, tRP, tRAS, tRC or tRFC;
* `BankRulesKept`: no command addresses a bank in the wrong state;
* `RowTableExact`: the controller's row table is the device's;
* `NoStallForRas`: a row change never waits for a counter that is not running;
  `RowsAlwaysKnown` states the last two as the run does.

`TimingAssumption` is the exact relation between the controller's parameters
and the device's minima under which they hold (for instance
`C_RAS <= T_RCD + 5`: the states between ACTIVATE and the next PRECHARGE give
five clocks on top of `T_RCD`, which is the only reason why the refresh path
may ignore `ras_timer`).  TLC runs `sdram` with these relations tight.

None of the properties is inductive: an age says nothing of the state that
will issue the next command.  The invariant `TimingInv` therefore says, for
each state and each bank, that *age + clocks still owed before the earliest
command that needs it* reaches the minimum: `OpenAges` for open rows (first
access, first precharge, `ras_timer`), `ClosedAges` for closed ones,
`PowerUpAges` while the power-up sequence runs after a reset that may have
struck in the middle of an access, `RefreshAge` after a refresh; and `Table`,
`AllClosed`, `CurrentRow` tie the controller's table to the device.  Each arm
of the machine has its lemma; `StepInv` assembles them.

It also proves `ControllerIsAPort`: `Spec => ImplementsMemPort`, under the same
assumptions.  The step that is hard is the acknowledge of a read: `MemPort`
hands over the word that the memory holds now, the controller what it read some
clocks ago.  `DataOnTheWay` says where the word is meanwhile: in the device's pipe,
at the slot that the timer leaves, and still what the memory holds, since no write
is issued while a read waits.  `AckIsAnswer` says that an acknowledge that is up
belongs to an access that is over.  With `TimingInv` they are inductive
(`PortInv`), and every arm then is a step of the port or a stutter.

Of the bridge it proves, for every memory, every parameter that meets the
assumptions above, any order of cycles, refreshes and resets, and programs without
TAS (`RMW_CYCLES = FALSE`; with it `fastmem_tas` shows the opposite):

* `EveryWriteLands` (`WritesLand`) and `EveryReadReturns` (`ReadsReturnLastWrite`);
* `RefreshesInTime` (`RefreshNotLost`), if the parameters leave room for it
  (`RefreshRoom`): the deferral and one access that changes a row, or one refresh,
  end within an interval.  The gateware has 640 clocks of interval for 64 of deferral
  and 12 of work.  The relation is sufficient, not exact: the run
  `fastmem_bridge` holds with two clocks less, since a core's requests do not
  follow each other that closely.

Every step of the system is a step of the controller (`SysIsController`), so that
`PortInv` holds in it.  `Follows` says in four lines what a clock of the controller
does to an access: it starts from the inputs of that clock, keeps address and
direction, ends by itself, writes once.  `BridgeInv` ties it to the other two:
`Strobes` (what the core drives in each state), `Decoded` (the registered decode is
the cycle's from S2 on), `Handshake` (the bridge asks between AS and DTACK, and
S5 and S6 follow only an access that is over), `OneAccess` (a busy controller is
busy with this cycle, and its WRITE has waited for the strobes), `Ahead` (the array
is ahead of the finished cycles by exactly the write that has been issued), `Held`
(the word of a read waits in the bridge).  For the refresh, `RefreshInTime` adds a measure:
`Left` is the clocks that the controller can be away from S_IDLE, and `LeftFalls`
shows that each clock takes one off, in particular that S_RW waits for strobes one
clock at most and S_ACK_WAIT never for `req`; once `REF_DEFER` clocks are over,
S_IDLE takes the refresh (`IdleDecides`), so that `refresh_timer + Left` stays below
`T_REFI` while one is due.

`MotherboardProofs` proves of the retime engine (RETIME = 1, the default), for any
addresses and data, any E clock, resets at any time, and a motherboard that answers
when it likes:

* `RetimeWritesLand` (`WritesLand`) and `RetimeReadsReturn` (`ReadsReturn`);
* `RetimeBerrIsOwn` (`BerrIsOwn`);
* `RetimePinsKeepProtocol` (`PinsKeepProtocol`).

Its hypothesis, `RetimeGrid`, is the grid as built (12 master clocks to a 7M period,
VMA held past E, the sample before the tick that ends S5) and what the engine needs
of the motherboard: data at most 4 clocks behind DTACK, answers gone soon after AS
(`PH_ACK + REL <= 6`, `REL <= 3`), one device to an address.  The two bounds are
tight at the source's values: TLC finds `ReadsReturn` violated with `DATA_LAG = 5`
and `BerrIsOwn` with `REL = 3` at `PH_ACK = 4`.  The constants of `bus_retime` meet
it.

None of the four is inductive: nothing in the engine's registers says that an answer
belongs to the cycle that is on the bus.  It is a matter of clocks, and the invariant
counts them.  `Reach` is the number of clocks before AS can fall again, from the phase
of the grid and the state of the core; `Fading` says that an answer to the last cycle,
and what the synchronisers hold of it, are gone within it, so that the next cycle
starts clean (`FallsClean`).  An acknowledge is given on a tick, and `AckPhase` says
where on the grid the core then is until S7; so `RisesEarly` knows the phase at which
AS rises.  `Trailing` weighs the two clocks of the synchronisers and the clocks to S6
against `DATA_LAG`.  `Vma` counts the falls of E that a 6800 cycle has met, and `Ahead`
says by which write the devices and the finished writes differ: a CIA takes it before
the core is done, RAM after.  A bus error comes from the engine that is not connected:
`Stale` bounds how long BERR of a refused cycle can linger by how far that engine is
from sampling again, and `Refusal` says that what it has seen and not passed on yet
belongs to the cycle on the bus.

Of the bridge of section 10 (RETIME = 0) it proves, for the same addresses, data, E
clock and resets:

* `BridgeHandsOver` (`BridgeAnswers`), for reads and vectors;
* `BridgePinsKeepProtocol` (`PinsKeepProtocol`).

This engine needs less of the motherboard (`BridgeGrid`): answers gone 17 clocks after
AS, and data that trail DTACK by up to `8 + Settle - SMP_N` clocks, 10 at the source's
values, because it samples DTACK in S5 and captures the word until S6 ends.  `Settle`
is the last phase of S6 at which a word still reaches the core in time.  TLC found the
invariant unbroken at exactly these bounds for six sets of constants, and
`BridgeAnswers` violated one clock beyond each (`DATA_LAG = 11` or `REL = 18` at
`PH_ACK = 4` and `SMP_N = 4`).

The bridge takes a copy of the core's cycle and runs it on its own; what has to be shown
is that copy and cycle never part.  On the side of the pins, `Gone` counts the clocks
since AS rose, so that the answers of one cycle are over when AS falls for the next;
then `OwnAnswers`, `OwnFirst` and `OwnSecond` say that the pins and, a clock later each,
the two flip-flops of the synchronisers hold answers of this cycle only, and `Sampled`
that the sample has decided about this cycle.  On the side of the core, `Taken` says that
a cycle not yet acknowledged (`Pending`) is the one that the core waits in, and that a core
that has been answered is not taken a second time; `Handed` that acknowledges and
vectors go with the core's AS.  Between them `Timely` weighs the data still missing
against the clocks to `Settle`, and `Delivered` says that the core which sees DTACK is
in the latched cycle, and too far from S7 to miss its word.  An on-chip cycle is taken
as well (`bx_start` does not look at `int_space`, `base64_top.sv:862-863`): in the model
nobody answers it on the motherboard, so the bridge goes round S5 and S6 until a reset
and the core's next motherboard cycle waits.  The two theorems, about safety, hold of
such addresses too; `bus_bridge` has none.
Both engines share the lemmas on the grid,
the core, E, the synchronisers and the motherboard.

`AutoconfigProofs` proves, for any set of addresses and any data written to the
boards (`AddressAssumption`):

* `WordsInjective`: for *every* set of owned slots, no two addresses that fast
  RAM answers share an SDRAM word.  The popcount of the owned slots below a
  slot is at most 7 and grows strictly from one owned slot to the next
  (`BelowCount`, `BelowGrows`), so the megabyte determines the slot (`DenseMb`);
  memory, the mapROM banks and the CPU window lie in disjoint megabytes: 0-7, 8
  and 16-31 (`Megabytes`); page and offset pass through unchanged
  (`SameAddress`).
* `WordsKeptApart`: `Spec => []NoAliases`, since `addr_match` is always a set of
  slots.

and, for every Kickstart that keeps the Zorro rules (`Sensible` of `ZorroBus`), any
windows of autoconfig and fast RAM (`ChainAssumption`, `OffsetAssumption`) and any
words on the data bus (`DataAssumption`):

* `OneAnswers` (`OneSlave`): no two boards drive or acknowledge the same cycle.
* `PoolIsMemory` (`MemoryPlaced`): what Kickstart was told is memory is the slots
  that fast RAM decodes.
* `RomReads` (`TurbomemReads`): a read of the Turbomem board returns its ROM.
* `ClaimsSteady` (`ClaimSteady`), if no stray key is written after the chain has
  been shut (`STRAY_KEYS = FALSE`): the claim of a cycle does not move under it.

The four rest on one inductive invariant, `ChainInv`.  `CorePhases` says which
strobes the core drives in which clock of a cycle.  `OneWrite` says that a board
takes one write a cycle, in the first clock of S4.  `Order`: the chain passes from
board to board in order, for good.  `Closing`: a board that has just been configured
takes no second write until the cycle is over, though the configuration page is
still decoded.  `Due` and `Placed`: a page is free when it is written, so the
boards' pages stay disjoint.  `DecodesTrue`: the decodes are registered and a clock
old, but true for as long as a cycle needs them, since the configuration page is
none of the windows it opens.  `Told`: between Kickstart's write and the clock at
which it arrives, what Kickstart knows is `addr_match` with the block that is under
way.  `ReadAhead`: the ROM's word lies two registers behind the address.

`ColdBootProofs` proves of the aligner `NoiseNeverMoves` (`LockIgnoresNoise`) for every period,
offset and tolerance and any amount of noise: once locked on regular edges, until
the first phase slip, no misplaced edge moves the grid.  A reload needs `SLIP_TOL`
disagreements that no regular edge interrupts.  The invariant `CountsNoise` says
that on the right grid the slip counter never gets ahead of the environment's own
count of misplaced edges since the last regular one, which stays below `SLIP_TOL`.

Of the resets it proves `CoreWaitsForBoard` (`ColdStartTogether`) for all widths of
the counters, with and without the cold reset pulse and the retries.  `cold_armed`
falls only when both synchronised lines are high; `SeenLow` says that while the
motherboard is in its power-on reset it stands, since the synchroniser has seen
the motherboard's /RESET two clocks into the FPGA's hold, which is longer.

`OnlyAskedReset` (`RunningNotReset`) is proved from the same module for all
widths, where a keyboard reset lasts two clocks or more (`KBD_MIN >= 1`).  On its
own the property is not inductive: a core that halts while its own RESET
instruction is still stretched holds both lines low, and is reset without anyone
asking (the observation in Section 3).  `OnlyAsked` says that such samples are out of
the synchroniser before that core runs again, and `AskedTwice` that a keyboard or
retry pulse is on both lines for two clocks, so that no core can run, and halt,
between the samples of one pulse.

It also proves `BusHasOneOwner` (`OneOwner`) for every length of the window and of
a transfer that fits into it.  `DmaShort` counts: as long as the window has seen
nothing but /BR, a DMA master has asked for as many clocks as the window has run
and the synchroniser still holds, so it runs out of `BURST` before the window ends.
`AcceleratorHolds` says that an accelerator's /BR fills the synchroniser before the
window opens (two clocks of the hold), and with `WindowOver` that the decision can
only be passive; until it has fallen the switches are open.

`SpiCardProofs` proves, for every number of sectors and values, all counts of tries
and every card, from `CardAssumption`:

* `CardAddressedRight` (`AddressedRight`).  `Known` and `CameUp` go along spi_init:
  where the driver is says what kind of card has answered and, as long as CMD8 and
  CMD58 are heeded (`Heeded`), how far it has come.
* `DriverIsAStore`: `Spec => ImplementsSectorStore`.  `Follows` ties the phases of a
  transfer together: the card has heard this command for this sector or was busy
  when the call came, and the block has its fate when the driver starts to wait.
  `InTime` says that a card is busy for longer than the polls that are left only
  if the last block was slow, and `UnitKept` that a blind driver stays blind.

`MapromProofs` proves, for every number of Shells, every size of the banks and of a
longword, every ROM and whatever the shadow holds at power-up or suffers while it
is filled:

* `RomAlwaysServed` (`RomServed`): a shadow that is not the ROM is never switched on
  for good, unless two words of a bank are wrong and the sums agree all the same.
  `Tally` says that a sum in progress is the fold of the words read so far;
  `MixApart` that a step of it keeps two sums apart and two words; hence
  `CheckNotices`: equal sums of contents that differ take two wrong words in a bank.
  A checksum that is taken while mapROM is active reads the shadow, so "the shadow
  is the ROM" and "the sums are the ROM's" need each other: `SumsTrue`, `CheckTold` and `Served` are inductive together, with
  `MutualExclusion` of the places that have interrupts off and `OneBit` of the
  register (LOAD and ACTIVE never both, so that no copy goes into a shadow in use).
* `MemoryAlwaysWhole` (`MemoryAdded`).

`SdPathProofs` proves, for every depth of the FIFOs, number of bits to a byte,
divider, length of a receive command and numbering of the bytes, and any order of
accesses, stalls and resets (`FifoAssumption`, `ShifterAssumption`,
`SdPathAssumption`):

* `SdPathKeepsOrder` (`BytesInOrder`): a byte on its way out or in is neither lost
  nor doubled nor overtaken;
* `SdPathStatusTrue` (`StatusTrue`): idle and empty means done.

Two of the assumptions say something of the code.  `2 * HALF <= DEPTH + 3`: what
is less than half full must take another half, FIFO and adapter together (16, 32
in the source).  A receive command asks for 1 to 8191 bytes: see the observation on
commands of none.  The order rests on two chains.  `TxChain` numbers what `sr`,
`in_reg`, the FIFO and the adapter hold, each from where the one before it ends;
`RxChain` does so for what the core has taken but not latched yet, the adapter, the
FIFO, `out_reg` and `sr`.  Both use that `FifoClock` is a queue: `FifoStep` gives the
length and every place of it, whichever of the two pointers wraps, and `HoldsStep`
the numbers.  A write or a read that found no room or no byte would break the chain;
that it does not is the driver's doing, and the invariant has to carry what the
last status was worth ever since: `TxRoom` and `RxReady` say that the room or the
bytes that it promised are there, in the adapter itself from a fixed state of the bus
cycle on, because the FIFO has had the clocks between two accesses to take or give a
byte (`StrobesTimed` says in which state each strobe comes).  For the status,
`Counted` and `Drained` say that nothing can hide between two registers when it is
latched: behind an empty place of the path there is no byte left that has not had its
clock to move on, and a receive command that is still due keeps the shifter out of
IDLE.

`MinFatProofs` proves, for any set of names, any number of clusters, links and
entries to a sector and sectors to a cluster, FAT16 or FAT32, any junk in the other
sectors and any number of losses of power, from every volume that is sound
(`VolumeAssumption`, `VolumesAssumption`), and until a read or a write fails or a
program goes on behind the end of its file (the observations in Section 3 tell what
happens after):

* `FatStaysSound` (`FatSound`): at every sector written, whatever a link or an entry
  names is allocated and named once; between two calls no cluster is lost.
* `FilesStayKept` (`FilesKept`): what was closed stays, in order and whole, and every
  sector that an entry counts has been written (`rest` tells where FileSize claims more).
* `CacheRight` (`CacheTrue`): the buffer holds the sector of the FAT that
  `cachedsector` says.
* `RomRight` (`RomTrue`): LoadROM starts the whole image, or the stock ROM if the card
  has none; a last sector that only FileSize claims holds anything.

Two things make this hard.  A call writes several sectors and the power may go after
any of them, so that it is not enough for the volume to be sound when the call is
over; and that a chain ends and meets no other is not a fact about any one link.  For
the first, the invariant (`Certified`) speaks of a sequence of volumes, `Trace`: what
is on the card, what will be there once the next sector has landed, and so on to the
last.  `Good` says that each is sound, `AtEnd` what the open files (`Handles`), the
search through the directory (`Searching`), the running call (`Calling`) and the buffer
(`Buffered`) know of the last one.  So `Land` only drops the first volume, and
`PowerLoss` cuts the sequence short.  For the second there is a certificate that all
volumes of the sequence share: `D`, the directory's clusters; `own`, the slot of the
directory whose file a cluster belongs to; `pos`, its place in the chain.  A cluster and
its successor agree on `own` and differ by one in `pos` (`ChainsOK`), a file's sectors
are where `pos` says (`FileOK`): statements about one link or one cluster each, which an
access to the FAT disturbs in one place.  The order of the writes shows in it: a new
cluster gets owner and place while it is still free (`ClaimSound`), then its end
mark, and only then does the old chain lead to it; a deleted file stops counting
(`Victim`, `torn`) before its first cluster is free.

`FilesKept` follows the links, the invariant does not.  `WalkIs` joins them: after j
links from the first cluster of a file one is in the cluster of that file with place j.
It is an induction along the chain, made without an operator for a parameter: of the
places where the claim fails there would be a least one.  `FatSound` compares
cardinalities: links and entries that name a cluster are mapped one to one onto the
clusters that are named.

What holds without any condition on failed reads is `TypeInv`: contents that look like
FAT or directory sectors are of the right shape even when the wrong buffer has been
written over them.

The only safety property that is model-checked and not proved is `LibraryRight`, a
comparison of functions over the inputs of `MCFirmware`: for every input it would be
an induction over the loops of each of them.  All liveness under fairness
(`CallsEnd` and the others) is outside the prover's reach, like ENABLED.  No module
declares a RECURSIVE operator: the loops of the runtime are recursive functions.

## 5. Not modelled, and the plan

The suite is kept to about a dozen runs and forty properties, so that it can be
run on every change; a new question takes the place of a weaker one, or joins
an existing run through a composition.

1. The engines under another master: /BGACK in the middle of a motherboard cycle
   (neither engine looks at the grant then), the IPL filter.  When the core lets
   go of the bus is the submodule's matter.
2. `M68kBridge` - the TG68 bridge with its arbitration states and the
   request/acknowledge port of `fx68k_sys.sv`; it ends a cycle and takes the next
   on the same clock (`m68k_bridge.sv:150`).
3. `SdramBurst` - the TG68 SDRAM controller, on `SdramChip`: the device contract
   and `MemPort` are written so that a second controller can be put beside them.
4. `JtagFifo` (two clocks), `Uart`, the TG68 wrapper's caches and sequencing.
5. Of the FAT library: subdirectories, the assembly of long names, the partition
   types, reading by bytes (FileSeek, FileRead, FileGetCh) and FAT16's fixed root
   in a run of its own.  Of the runtime: `string.s`, `uart.c`.  Of boot.c: the
   keyboard loop.
6. Proofs: the functions of the runtime, for every input.

Left out for good: third-party cores, vendor models and generated files; LEDs;
bring-up designs; the text that the tools print.
