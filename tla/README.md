# Formal models of the QRB2210 (Arduino Uno Q) QNX 8 startup

The repository is a board support package: a boot image description (`images/`), a small
watchdog program (`support/wdtkick`) and, above all, the *startup program*
(`startup/boards/qrb2210` for the board, `startup/lib` for what all boards share). The boot
loader starts it on one core with caches and MMU in whatever state the loader left. It finds
the RAM, builds the *system page* that describes the machine, brings up the other cores,
loads the image file system (IFS) with the kernel, and hands everything over. It has no
operating system under it, no process to restart and nearly no tests: what it gets wrong
shows as a machine that does not boot, or as a kernel that runs on a false description of it.

This directory holds TLA+ models of that program, TLC configurations that check them, and
proofs that TLAPS checks. Paths below are relative to `.../src/hardware/`.

## 1. Inventory

### Components

| Component | State it keeps | Operations | Talks to |
|---|---|---|---|
| Secondary-CPU bring-up: `lib/init_smp.c`, `smp_start.S`, `board_smp.c` | `cpu_starting`, `syspage_available`, `smp.pending`, each core's `w19` | `init_smp`, `start_aps`, `transfer_aps`, `board_smp_start`, `smp_start`, `cpu_startnext` | firmware (PSCI), system page, spin callout |
| Spin callout: `callout_smp_spin.S` | `smp.start_addr`, exclusive monitors, event registers | exchange loop, shut-down | kernel |
| Release of cores elsewhere: `psci_smp.c`, `spin_smp*.{c,S}`, `fdt_smp_spin_start.c`, `spin_shim_rtn.S` | `spin_num_cpu`, `spin_start_addr`, release addresses, `spin_shim_id` | count, start, acknowledge | bring-up, firmware |
| RAM manager: `ram.c`, `jtag.c`, `init_mitigation_mem.c` | `ram_list`, `avoid_list`, `ws_early_next` | `add_ram`, `avoid_ram`, `find_ram`, `alloc_ram`, `reserve_ram`, `ws_alloc`, `add_sysram` | everyone who needs memory; asinfo |
| Address-space entries: `as_*.c` | the asinfo section, `CONTINUED` chains | `as_add`, `as_add_containing`, `as_find*` | RAM manager, drivers, kernel |
| System page builder: `syspage_memory.c`, `callouts.c`, `strings.c`, `add_cache.c` | one block of sections, pointers into it, registered owners | `set_`, `grow_`, `reloc_`, `alloc_`, `write_syspage_*`, `add_callout*`, `output_callouts`, `add_string` | every other component writes into it |
| Hardware information: `hwi_*.c`, `hwibus_*.c`, `hwidev_*.c`, `hwitag_*.c` | items and tags in one section | add a bus, a device, a tag; set a tag | strings, system page, drivers |
| CPU information: `init_cpuinfo.c`, `cpu_cluster_add.c` | `cpuinfo`, `cacheattr`, `cluster` | `init_one_cpuinfo` on each CPU | bring-up, strings |
| IFS restore: `restore_ifs.c`, `load_ifs.c` | in RAM *across power cycles*: two IFS, their info, saved data | restore, load, save, check | RAM manager, executables |
| Command line and options: `_main.c`, `bootstrap_cmdline.c`, `*_tweak_cmdline.c`, `getopt.c`, `common_options.c` | `argv`, flags; arguments inside the bootstrap programs | four scans of `argv`, `bootstrap_arg_adjust` | all |
| Exception levels: `_start_el1.S`, `hypervisor*.{c,S}`, `aarch64_sysctl.S` | level and registers of each CPU, required mode | entry, selection and switch of the mode | bring-up, kernel |
| Page tables: `aarch64_map.c`, `init_mmu.c`, `elf_map.c` | four levels of tables, roots of each CPU, `free_vaddr` | map, assign, recursive entry, MMU on | RAM manager, ELF loader, callouts |
| ELF loading: `elf64.c`, `elf32.c` | the bootstrap program in memory | use in place, copy, pad, map | page tables |
| UEFI: `efi_entry_point.c`, `uefi*.c`, `init_raminfo_*efi.c` | memory map, boot services, console | read the map, end the services now or late | firmware, RAM manager |
| Firmware's tables: `fdt_*.c`, `init_raminfo_fdt.c`, `acpi.c`, `board_find_*.c` | caches of what was looked up | registers, interrupts, reserved memory; search of ACPI and SMBIOS | RAM manager, drivers |
| Interrupt controllers: `gic_v3.c`, `gic_v3_its.c`, `gic_v2.c` and their callouts; T18x and QorIQ controllers behind them | registers, LPI tables, ITS command queue | set-up; `id`, `eoi`, `mask`, `unmask`, `config`, `send_ipi` | kernel |
| Console: `hw_ser*.c`, `qrb2210_uart.c`, `callout_debug*.S` | registers of six chips | write, display, poll, break | kernel, its serial driver |
| Time: `init_qtime*.c`, `invert_timer_freq.c`, `timer_*.c`; RTC: `hw_rtc_*.c`, `calc_time_t.c` | the qtime section; chips | set-up, conversions; read the date | kernel |
| Watchdog kicker: `support/wdtkick/main.c` | times, priority | options, kick loop | firmware's watchdog |

`PROJECT.json` lists every component with its files and how far it is modelled.

### What makes it correct

- *Bring-up*: cores come up one at a time on one shared stack, each under its own number;
  one writer of the system page; nobody enters the callout before it exists; the kernel
  starts when every core has left startup memory; the boot core never waits for ever.
- *Spin callout*: one CPU per stored address, none lost, shut-down reaches all.
- *RAM manager*: what has been given out is never free again; searches never return memory
  in use; what the kernel is told is free (`sysram`) is what is free.
- *System page and tables*: sections and the pointers into them survive every growth and
  move; what was said of a device, a name or a CPU's cache is what is read.
- *IFS restore*: whenever the power fails, the next boot starts pristine executables.
- *Command line, modes*: each program gets its own arguments; all CPUs enter the kernel in
  one mode, the one the system page announces.
- *Firmware*: nothing that the firmware keeps is given away; what its tables say is what is read.
- *Page tables, loader*: the tables are one flat map; the kernel is where it was linked.
- *Interrupts*: the vector of an interrupt masks that interrupt and no other; masked means
  masked when the callout returns; nothing of the firmware's leaks; nothing is lost.
- *Devices*: output in order, a date that the clock showed, time that is not made longer,
  a watchdog fed in time.

### What is hard

Interleavings of cores with no locks, only flags, two of whose stores go through caches; one
static stack; a time-out that races the answer; pointers into a page that moves; a list of
free memory changed by code that also searches it; words of the command line that are changed
while they are parsed; RAM that outlives the program and a power failure at any step; callouts
that run on all CPUs against hardware that acts later; firmware that changes its own map.
`PROJECT.json` "hazards" lists each at its line with the property that covers it.

## 2. Modules

| Module | Models | Kind |
|---|---|---|
| `BringUp` | what the boot promises about CPUs | abstract specification |
| `SmpStartup` | boot core, secondary cores, firmware, the two caches that matter | state machine, implements `BringUp` |
| `SmpSpin` | the callout's loop, `ldaxr`/`stlxr`, `wfe`/`sev`, the kernel's stores | state machine |
| `SmpHandOff` | `SmpStartup` and `SmpSpin` joined where a core passes from one to the other | composition |
| `FreeMemory` | what allocation promises | abstract specification |
| `AddressSpace`, `RamManager` | asinfo; `ram.c` and its callers in the phases of the boot | operators; state machine, implements `FreeMemory` |
| `HwTree` | items with tags, only added to | abstract specification |
| `HwInfo` | string tables; items and tags in a section that moves; every call that adds a device or a tag | operators |
| `SysTables` | these and the CPUs' own entries, through the boot | state machine, implements `HwTree` |
| `Syspage` | the page while it is built, the two output passes | state machine |
| `RestoreIfs` | boots, power failures, the RAM between them | state machine |
| `Options` | `argv` and hidden arguments; option values | operators |
| `BootSequence` | levels and registers; from entry to the kernel by command line and exception level | state machine |
| `Uefi`, `FirmwareTables` | exit from UEFI; device tree, ACPI, SMBIOS | state machines |
| `AddressMap` | a flat map that calls extend | abstract specification |
| `PageTable`, `ElfLoad` | the table walk; loading and switching the MMU on | operators; state machine, implements `AddressMap` |
| `GicEntries`, `GicV3` | entries and numbers; set-up, callouts on all CPUs, devices | operators; state machine |
| `CommandQueue` | batches executed in order | abstract specification |
| `GicIts` | LPIs: tables, ring, lock, redistributors' caches | state machine, implements `CommandQueue` |
| `Cascade`, `GicV2` | controllers behind an SPI; GICv2 with one of them | state machines, composed |
| `Console`, `Rtc`, `Qtime`, `Watchdog`, `CpuRelease` | devices and what waits for them | state machines |
| `SmpHandOffProofs` (bring-up, spin callout and both joined), `RamManagerProofs`, `GicV2Proofs`, `GicV3Proofs`, `GicItsProofs`, `BootProofs` (`BootSequence`, `Uefi`, `Syspage`), `RestoreIfsProofs`, `DeviceProofs` (`Watchdog`, `Console`, `Qtime`) | theorems | proofs |
| `MC...` | values for TLC | |

`MCBoot` and `MCDevices` each hold several machines that share no state: a behaviour is one
of one part (`part`), the parts take turns in the same variables, and a property of the run
says what one part's module states, under the name and the comment there. The machines with
theorems have variables of their own: `MCBoot` extends `BootSequence`, `Uefi`, `RestoreIfs` and
`Syspage`, `MCDevices` extends `Watchdog`, `Console` and `Qtime`, so that what is checked of them is what their theorems say.

Operators named `...Omitted`, `...OffByOne` and so on, marked *Slip* where they replace an
action, are what a plausible error in the code would make of the definition that follows
them. No specification uses them; replacing the definition by the slip makes the property
named in `PROJECT.json` "mutants" fail, which shows that the property can fail. Properties
that are conjunctions have more slips than the one listed there; each part fails for one:

| Property | Further slips that violate it |
|---|---|
| `MemoryAccounted`, `AsinfoAccounted` | `AvoidOverflowsLate`; `PlacePieceOuterKept`, `as_add_containing_all_continued` |
| `HandedOverOnce` | `PutBackOmitted`, `KernelStepEarly` |
| `SetUpAgrees`, `CalloutsKeepState`, `ServedInTheEnd` (GICv3) | `TrigModeIdAbsolute`, `RedistCountsFirst`; `SendTestsNew`; `RedistDisablesLast` |
| `TablesAgree`; `EnablesAreAsked`, `ServedInTheEnd` (GICv2) | `IndexInEntry`; `ClearedButLast`, `IdentifiedForgets` |
| `TablesReadAsSaid` | `EnsureClassAnew`, `MatchesShapeless` |
| `BootsPristineIfs`, `SyspageBuilt`, `LoadedAsLinked` | `ClearedOnFailure`, `Ifs2SumZeroSkipped`; `SizeNoRounding`, `reloc_data_strict`; `MapStartupSize`, `PaddedReadOnly` |
| `CommandLineKept`, `FirmwareLetGo`, `FirmwareRead` | `bootstrap_arg_adjustLast`; `ResumeOn`, `AvoidNone`, `UseUnchecked`; `HitAny`, `AfterLast` |
| `ConsoleKept`, `TimeIsTrue`, `TicksAgree` | `break_detect_8250Any`; `PivotLate`, `TransferUnset`; `ProductUnchecked` |

### Correspondence with the code

**SmpStartup.** `bsp` is the boot core's program counter, named after the functions; `ap[c]`
that of core *c* in `smp_start.S`. One action is one store or load of a shared flag with the
private instructions around it. The MMU is off on both sides, so memory is Device-nGnRnE
and stores are seen in program order; the exceptions are state of their own: `csLine` (the
boot core's store to `cpu_starting` before `board_mmu_disable()` cleans its cache) and
`pendingLine` (the secondary's zero in `smp.pending`, stored with the MMU on, cleaned by `dc
cvac`; `EvictLine` may write it back earlier). PSCI may refuse: always if the core is on,
else for reasons of its own (`PsciFailure`). `start_aps()` crashes when its 32-bit counter
wraps; `transfer_aps()` has no time-out, which is why `BootEnds` needs the clean.

**SmpSpin.** The architecture is modelled as the callout's comments use it: a store opens
the monitors that cover the address, opening another CPU's monitor sets its event register,
`wfe` returns at once when the register is set. A monitor may be lost at any time.

**RamManager.** Addresses are bytes of a sixteen-byte machine whose pages have two. `phase` is
the order in which `main()` and `init_system_private()` call things. Each action is a whole
caller: `AddRam` with its allocation of the image and the temporary system page, `AllocAny`
with the search, the cut and the trimming of `sysram` entries. Banks are disjoint, as the
callers' are. Lists that would overflow crash the boot exactly where `crash()` is called.
`AddressSpace` walks the table as `as_add_containing()` does: `Containing` selects the owners,
`Clip` is the part of the new range in one, and `PlacePiece` gives an inner owner its part of what an outer
one had got; `SysramAfter` adds the free ranges from the lowest up, and `Trim` cuts late allocations out of them.

**Syspage.** A cell is eight bytes and remembers which section and index it is, so that a
wrong move is visible wherever it happens. `AllocSyspage` sizes, then lets up to `MaxSplits`
asinfo entries appear, as the allocations between the passes do. `Grow` moves what lies behind
a section with the library's `memmove()`, one cell after the other in the direction it chooses.
The callouts are those of `ToOutput`, in the order in which `output_callouts()` meets them, in both passes.

**HwInfo, SysTables.** The hwinfo section is an array of words; a string,
tag or item remembers what it is, and offsets are positions. Every library call that adds or sets
something is one action with all it allocates, in the code's order, so that a pointer taken before a
move would be seen. The board's `init_hwinfo()` is external: any order of calls up to a
bound. Each CPU in turn reports itself as `init_one_cpuinfo()` does; a CPU is a kind of CPU, and
its identification registers are dumped into the CPU's part of a section that all share.

**RestoreIfs.** The RAM that searches can return is a sequence of slots taken first fit, so
"the address will be the same everytime" is a property and not an assumption. A slot holds
one thing, half-written things included. A boot runs from `PowerOn`; `PowerFails` at any step,
`RamLost` and `MemoryError` while off. `KernelRuns` writes executables' data and any slot that
startup left free. Offsets inside an image are abstracted; two sums that differ are taken not
to be equal by accident, and zeros sum to zero.

**Options, BootSequence.** A word is a sequence of lexemes, so that
clusters, attached values and separators are cut as `getopt()` and `strchr()` cut them, in
the words themselves. A CPU has the registers its set-up writes, once per exception level, and
an `msr` goes to the one its level and E2H select (`Msr`); `InForce` asks whether what was set
still holds at the level the kernel runs at.

**Uefi, FirmwareTables.** Pages have types; firmware events move pages between
them and make the map's key stale, as long as boot services exist. Trees are nodes with
cells; libfdt is external and used by its result. What is read past an array is
`NULL_PADDR`, the value no memory has. A device tree is opened by the command-line tweak at the
address of the register, by an option at that or at another one, or by both in this order; the
first address tried is kept, whatever is found there. `Blobs` is what the header at an address
says. Nodes are searched by type and by compatible string, with the texts as sets of words.

**PageTable, ElfLoad.** Tables of four entries and pages of eight bytes; levels are
allocated on the walk. `call` remembers one call with its result for the refinement of
`AddressMap`, and `view` is what a walk from the root finds. `vstart` is each CPU's step from
physical to virtual addresses. An executable has a header of either class; the 32-bit loader cuts
the physical addresses it keeps to `Paddr32` and is otherwise the 64-bit one word for word. The
loops for executables that are not linked to virtual addresses are left out: startup has the MMU.
`Copied` is `copy_memory()`; a byte of the image is its own address.

**GicV3, GicEntries.** An interrupt is the frame that holds its registers and its INTID. The
startup program disables, clears, groups, routes and enables in the order of
`gic_v3_initialize()`, then each CPU in turn as the bring-up does; a step behind
`wait_for_rwp()` waits. `lagging` holds interrupts that are disabled but that the hardware
still acts on, which is what RWP is about. Numbers are kept: the INTID in IAR, the vector, the
vector relative to its entry, `vec_off` and the register bit that is written are computed as
the code does. External, and only as the callouts need it: the kernel adds an entry's base to
what the first claiming callout returned, calls callouts with interrupts masked and for one
interrupt on one CPU at a time, and lets a driver serve a device that it masked before it is
unmasked. `Firmware` holds the states that the firmware may leave: the distributor on or off, and any
interrupts enabled, pending, of either group, level or edge, and routed anywhere; the theorems hold for any
such set. ESPIs keep the group they are found with, since the code
writes no `IGROUPR` for them, and one in Group 0 is not delivered (`Waiting`). `Ident` is what the identification registers say, from which the
code tells the version, and with it how many redistributors lie in `GicrSize` bytes.

**GicIts.** The set-up in its order, then callouts as their instructions: the lock by
`ldaxr`/`stxr` with `wfe` and `sev`, the byte of the table, `INVALL` and `SYNC`
with the wrap of the ring, `CWRITER`. The ITS executes and may stall; a redistributor holds a
byte until an executed `INVALL` lets it be read again, and reads any byte when it likes. Entries
are checked against the number of LPIs that the controller has, and counted in `num_lpis`. There is
room for `NumElts` of them.

**GicV2, Cascade.** The kernel's dispatch is external and goes down from the GIC to the
controller and up again, with `INTR_GENFLAG_ID_LOOP`; `count` is the mask count it hands to eoi.

**Console, Rtc, Qtime, Watchdog, CpuRelease.** Each chip is what its routines look at: a
transmitter of `Depth` characters, a command that can be stuck, registers that latch. A wait with
a bound is counted (`Polls`). `sent` is what the line has carried, `lost` which characters it will not carry and
why; `powered` is off while the kernel's driver has turned the transmitter off. At least one
character is put out before the console is used for anything else (`Puts`), since `main()` announces
itself. A clock ticks between any two reads, and its century turns over; `Order` is the order in which a
routine reads the registers of a chip, with the century (`cent`) where the routine reads it, in the loop or behind it. `osc` is what
drives a clock: an `mc146818` whose divider bits are not those of a crystal is tested (`TestDivider`) and not read
(`Bail`), but for an `IXP200`, which has no such bits; a `ds1743` is started. The read behind `chip_done()`
(`hw_rtc_mc146818.c:103`) works, since unmapping does nothing on this CPU (`map_startup_mem.c:31`). `_gmtime()` has no caller and is checked as the inverse of
`calc_time_t()`. Words of `Qtime` have four digits, with the wrap of the wider word well above; a period
needs `UINT_MAX / 10 - 10` to be positive, hence `UINT_MAX >= 110`. `Passes` divides period and product by ten
again and again, as `timer_tick2ns()` does; `Ten[k]` is its power of ten. The kicker reads one option per
step (`optind`); its sleep ends up to `Lag` late, its number is cut to `unsigned`, and privileges may be
refused.

## 3. Runs

| Run | Question | Result |
|---|---|---|
| `smp_hand_off` | From `CPU_ON` through the callout's loop into the kernel on four cores, one store or load at a time: stack, numbers, page, callout, hand-over, termination, refinement of `BringUp`, starts and a shut-down at any time | holds |
| `ram_manager` | Five allocations of any kind around three banks, -r and -R options; refinement of `FreeMemory` | holds |
| `gic_v3` | Two CPUs, an SPI, an ESPI, a PPI and the IPIs: set-up after any firmware, every cut of the INTIDs into entries, callouts on both CPUs at once | holds |
| `gic_its` | Three CPUs, one ring of five slots, two callouts, a stall: refinement of `CommandQueue`, stale bytes, the lock | holds |
| `gic_v2` | Two CPUs, an SPI, one of four cascades with two vectors, IPIs | holds |
| `sys_tables` | Devices, buses, tags, caches and clusters said in any order; refinement of `HwTree` | holds |
| `boot` | Six parts: command line and modes, UEFI, firmware's tables, IFS over three power failures, system page, loader with the refinement of `AddressMap` | holds |
| `devices` | Five parts: consoles, clocks, watchdog, timer arithmetic, release of cores | holds |
| `smp_board_table` | The board's affinity table: does `board_smp_start()` start a fresh core? | **violated** |
| `board_ipi` | The board's `send_ipi` callout: is an IPI ever lost? | **violated** |
| `restore_ifs2_place` | Second IFS restored where the user placed it: is it reserved? | **violated** |
| `fdt_reg_count` | A memory node with more ranges than `REG_CHUNK`: is only what was extracted returned? | **violated** |

The violated ones are disagreements between the code and a comment of its own; each is a
"finding" in `PROJECT.json` with the line quoted.

### Further disagreements met while modelling

These can be reproduced with a property or a value that the modules already have; the
properties of the passing runs name them as exceptions where they would show.

- *-r before -M* (`init_system_private.c:260`): a range reserved before the option that adds its
  memory is reserved nowhere. `JtagRanges <- MCLateRange` in `RamManager.cfg` violates `HeldNotFree`;
  `BoardFits` excludes it from the theorems.
- *Half-copied IFS2 on a secure system* (`restore_ifs.c:93`): zeros sum to zero, so the
  zeroed info counts as valid. `RestorePlaces = {6}` violates `Ifs2Complete`.
- *Parking loop* (board `_start.S:80`): it waits for `secondary_cpu`, which nothing stores.
- *Retries of the UEFI exit* (`uefi.c:115`): after the last one the loop ends and the boot goes on
  as if the services had ended. `ExitsOrCrashes` of `Uefi` states it; `ServicesEnded` excepts it.
- *RTC*: `rtc72423` reports a month that counts from 1 (`MonthInBounds` fails in December);
  `hw_rtc_mc146818.c:104` converts the number of the century register instead of its value; noon and
  midnight in 12-hour format are half a day off. `Departs` in `Rtc` names them.
- *Century of a running clock* (`hw_rtc_mc146818.c:103`, `hw_rtc_ds1386.c:74`): it is read behind the loop
  that keeps the other registers consistent, so that a century which turns over in between makes 2099 of
  1999. `TimeIsTrue` fails without its exception `CenturyTurned`.
- *Stopped clock* (`hw_rtc_mc146818.c:63`): the answer is 0, January 1970, which the clock may never
  have shown. `TimeIsTrue` fails without its exception `Stopped`.
- *Contiguous hint in the system page* (`syspage_memory.c:202`, `aarch64_map.c:264`): the view of the kernel is
  mapped first, with the hint where a whole run lies in it; the callouts' pages are then mapped again,
  read-only and executable, without the hint where they are no whole run, and the rest of the run keeps it. A processor that holds
  the run as one translation may go on with the old rights, so that "make the callouts
  read only execute" need not come true. `HintsHold` excepts the rights in these runs (`CutByRemap`); with
  `ContigHintSound({})` in its place `LoadedAsLinked` fails.
- *Groups of the ESPIs* (`gic_v3.c:1380`): `IGRPMODRnE` is written but `IGROUPRnE` is not, so they are in
  Group 1 only if the firmware or the reset put them there. `SetUpClean` says nothing of their group.
- *LPI entries*: `gic_v3.c:1143` accepts entries in any order with gaps that
  `callout_interrupt_gic_v3.S:576` does not count. `LpiNumbersAgree` is stated for contiguous ones.
- *Identification registers* (`init_cpuinfo.c:433`): the dump stops one `stp` early, so the last two
  of the 56 entries that line 449 counts are never stored. `IdDumpOwn` excepts them.
- *Triggers of the last SPIs* (`gic_v3.c:1354`): the loop over `ICFGR` divides the number of SPIs by
  sixteen and rounds down; with 1020 INTIDs those from 1008 on keep the firmware's trigger.
  `AllLevelled` says that a board has none there.
- *T18x IC6* (`callout_interrupt_t18x_pcie_ic6.S:115`): the offset of controller 2 is lost in the
  result (lines 222-226). Not modelled.

### Bounds, and why they are enough

- *Four cores* is the board's number; order, overtaking and the hand-over from one secondary to
  the next need three. `SpinWrap = 6` lets the counter wrap at every state of the awaited core.
  `MaxCpus` has the default and the -P values 1 and 2. Cores and CPUs are numbered crosswise, so
  that a confusion shows, and up to three CPUs are in the callout's loop at once.
- *Sixteen bytes, pages of two*: an entry can be cut at either end, in the middle or whole,
  with the 4G line inside a bank, the limit below the top, and a later bank joining two; three
  list entries are full after one cut in the middle.
- *GIC*: two CPUs are the least for a race on a mask or an IPI; their redistributors are
  swapped, so that CPU number and index differ. Firmware leaves the reset state, or everything in use
  and pending. One SPI beyond the first register, one ESPI and
  one PPI have a device; `NumCpu` as a route is a core that is off.
- *ITS*: batches of three commands from the set-up and of two from a callout in a ring of five slots,
  with at most `MaxLag` unexecuted commands, so that it wraps inside a batch at every offset. Two callouts are the least for the lock.
- *GICv2*: two vectors, one of them with a number whose bit is elsewhere; one mask beyond the
  one being served; two requests, so that one arrives while another is served.
- *Tables*: chunks of eight words or characters, so that two calls make a section grow and move
  at every phase of an item; one bare and one rich set of attributes; three kinds of CPU of
  which two share some caches.
- *Boot*: lines of three words from seven that hit every branch of `getopt()`; five
  machines; six pages of memory with four firmware events, which is one more than
  the retries; trees with both cell sizes, two interrupt controllers and a nexus; lists of ACPI
  tables with the wanted one first, in the middle and last. Of the tree, the tables and the address of
  the blob, which share no state, one varies at a time (`OneVaries`); headers that are not the native
  64-bit one are tried with one executable (`OneHeader`), whose image and the RAM lie below the four
  gigabytes that `Paddr32` stands for. Two executables are the least
  with a `next_entry` between them; three power failures give a complete boot, an interrupted
  one and one that inherits from both. Four executables whose segments begin and end
  on, before and after a page, with a contiguous run in place and one cut. One of the sizes of the
  system page makes its view a whole aligned run that the callouts cut; each device range is mapped once.
- *Devices*: waits of three polls can run out and succeed; two characters show an exchange of order;
  dates on both sides of leap days, centuries and the pivot year; a clock of two hours a century that starts
  in the last hour or just before it, stopped or driven in every way (the date or the clock varies, since the conversion
  starts when the reading has ended); every frequency up to 40 and
  those around powers of ten.

`CHECK_DEADLOCK FALSE` is set where the program ends: in the kernel, in a crash, or with
everything handed over or used up.

### Fairness

`SmpHandOff`: weak fairness for each core, since a core that is on executes; strong fairness
for `StoreExclusive`: a retried exclusive pair succeeds in the end, by the architecture's
forward-progress rule, which the loop keeps (no other memory access between the pair). None for
`EvictLine`, since nothing obliges a cache to evict. The kernel is assumed to start its next
CPU as long as it has not shut the others down. `GicV3`: weak fairness for the startup program,
for the writes of each frame taking effect and for each CPU in the kernel's interrupt path, since
none of them waits for anything else; strong fairness for taking an exception (a CPU that is
interruptible again and again takes it) and for the end of the wait for RWP, which other CPUs'
writes may set again between two polls. `GicIts`: the ITS and each redistributor go on,
and so does each CPU in a callout; a stalled ITS is told to retry by the code itself, and need not
stall. `GicV2`: each CPU goes on, requests are latched, and the driver of the cascade leaves its SPI
unmasked. `Console`: the CPU in the routine, and a transmitter that is on and not stuck; nobody
owes the chip to be turned on again. `CpuRelease`: each core and the boot core. The other
machines have safety properties only.

## 4. Proofs

**The bring-up.** `SmpHandOffProofs` proves, for any number of cores, any affinity table, any set
of -P values and any wrap of the counter (`SmpAssumption`, no more), `TypeOK`, `StackExclusive`,
`OwnNumber`, `SyspageOneWriter`, `CalloutInPlace`, `KernelOwnsMachine` and `NoStaleZero`. None is
inductive alone: that two cores never share the stack depends on who has been started, on what
`cpu_starting` says and on the cache line it may still be in. `IInv` has one part for each
such dependency:

- `LoopInv`: the loop variable and the hook fit the program counter;
- `StartingInv`: the number is in memory before the core that reads it runs;
- `ActiveInv`: one core is between `CPU_ON` and its report, and the boot core waits for it;
- `ReportedInv`, `StartedInv`: cores keep their numbers, and all below `idx` have reported;
- `RequestInv`, `ParkedInv`: cores leave one for each request, and all below `idx` have left;
- `PageInv`: page, callout and flags are ready before the first one may leave.

There is one lemma for each action, with a step for each part it can disturb; `StepInv`
combines them and the theorems follow from `IInv`. The proof holds for the board's faulty
table too: a refused core ends in a crash, which is safe. `StartsFreshCore` is not among the
theorems, as that table violates it.

**The refinement.** `BringUpImplemented` shows that every boot is one of `BringUp`, if no two
CPUs are given the same core (`OneCorePerCpu`; with a shared core one step would change the
state of two CPUs at once). `BspImplements` and `ApImplements` take the actions of the two sides:
`PsciSuccess` is the abstract `Start`, the report is its end, publishing the page, each request, each
departure and the kernel's start are steps of their own, and all others stutter. `RInv` adds
`EarlyInv` to `IInv`: no core is past the callout's entry while others still register.

**The composition.** For `HandOffSpec` the same module proves, again for any number of cores,
`HandedOverOnce`: each stored address releases exactly one CPU, a shut-down is kept until
all have it, and no CPU runs the kernel before the hand-over or without an entry in the page.
`HInv` joins `IInv` with what the loop needs: `ExclusiveInv` (a CPU whose store-exclusive may succeed
holds the word that is there), `ShutdownInv` (a shut-down ends the starts) and `KernelInv` (nothing
is stored before the kernel runs). `CountInv` puts `OnePerAddress` as an equation on the number
of CPUs in the kernel, which one lemma for each kind of step keeps. `ComposedBringUp` shows
that the composed system still implements `BringUp`.

**Memory.** `RamManagerProofs` proves `MemoryAccounted`, which is `TypeOK`, `RamListCanonical` (the
list is sorted, disjoint and merged), `HeldNotFree` and `FoundIsFree`, and that `RamManager`
implements `FreeMemory` (`FreeMemoryImplemented`), for machines and lists of any size. The
argument has two halves. `FixSizeKeepsClear`: what `fix_size()` returns is a non-empty part of the
candidate that the avoid range does not touch, so a search never returns what is on the avoid
list. And the list algebra: what `add_mem()` and the loop of `alloc_ram()` do to the *set of
bytes* of a list, entry by entry. `IInv` ties the two together: all that is held, reserved or part of
the lists is on the avoid list or off the free list, and what is held comes from banks that were
added. The free list is modelled as a set of ranges, whose form `Canon` states, since only a set
makes the splicing provable without induction. The hypothesis is `BoardFits`: the memory of the lists
lies in the first bank and in no reserved range, and later banks overlap neither the image nor a
range of `-r`. The second half is the disagreement *-r before -M* of section 3.

**What the kernel is told of it.** `AsinfoIsAccounted` proves `AsinfoAccounted` under the same hypothesis. `AInv`
adds to `IInv` what every caller leaves of the table: `Shape` (below the two roots every entry is a bank,
or lies within the bank that owns it), `NamedBytes` and `Apart` (the "ram" entries are the banks added so
far and the "sysram" entries, from the end of the options on, the free bytes; neither names a byte twice) and
`Taken` (what was reserved is held). A walk over the table that adds entries while it runs is proved by the
least position at which it would go wrong. That the banks lie in the root is `Low \in 0 .. MemTop`: the root
has at least 32 address bits.

**GICv2.** `GicV2Proofs` proves `EnablesAreAsked` for any number of CPUs, SPIs and vectors and every
cascade. `ChildInv` is what makes it inductive: the vector in hand (`x19`) exists only between the
`id` and `eoi` of the boot CPU, so only one mask count may differ from its enable bit.
`NothingIsLost` is the safety half of `ServedInTheEnd`: a request of a cascaded device is in a
status register, a cached bit or the code in hand, and an IPI's command has an interrupt behind it.
It needs that the CPU numbers of `gic_v2_gicc_init()` are those of the interfaces (`MapInv`).

**GICv3.** `GicV3Proofs` proves `SetUpAgrees` for every state that the firmware may leave (hypothesis `AllLevelled`, see section 3; it is true
whenever the number of SPIs is a multiple of sixteen, `FewerSpisLevelled`), `CalloutsKeepState` for
the IPI callout of the GICv3 (the one of the board loses IPIs: run `board_ipi`), and two of their
parts that need no hypothesis: `NumbersAgree` for every cut of the INTIDs into entries, and
`OnlyUnmaskedActs`. `IInv` says what each phase of the set-up leaves: which INTIDs are still the
firmware's, when they are levelled and routed, and that an SGI stays enabled once it is (`SetUpInv`,
`EdgeInv`), which redistributors are done (`MapInv`), which lists of
entries cover the INTIDs (`EntryInv`), and that a CPU waiting for RWP has its interrupt disabled
(`CpuInv`).

**LPIs.** `GicItsProofs` proves that the ring implements `CommandQueue` (`QueueImplemented`): with the
lock, the wrap at every offset and the one store of `CWRITER`, batches are executed whole and in
order. `QInv` says that the holder of the lock alone writes, between what it has published and what
the ITS has read; the arithmetic of the ring is in `RingPlace` and `RingLag`. `RoomAssumption` bounds
the lag: the code does not look whether the ring is full. `LpisAgree` proves `TablesAgree` from
`StaleInv`: a stale byte in a redistributor is still to be repaired by an `INVALL` of a callout under
way or in the ring. Its hypothesis `OneEach` is that the ITS has enough bits of
collection numbers for the CPUs, and that the redistributor the callouts name, 0, is that of CPU 0. `LpisKeepNumbers` needs neither.

**The mode.** `BootProofs` proves `ModeIsCommon` for any number of CPUs and any machine and
options that `BootAssumption` describes. `IInv` says that each CPU is as the firmware left it, entered,
or handed over with the flags of CPU 0; `Agreement` shows that a CPU handed over with given flags
reaches one level with one set of registers, by cases on the level it came from.

**The firmware's memory.** The same module proves `FirmwareLetGo` for maps of any length, any order of the
descriptors and any activity of the firmware between two reads. `UefiInv` follows the map from the pages to the
kernel: image and buffer are the loader's pages (`ImageStays`, `BufferTaken`); however old the map, its descriptors
stay in order and name every page that the firmware never gives back (`MapHolds`); so what was told of
the memory holds none of them, and none of the image but what is also on the avoid list (`ToldHolds`). Which
of its reads the boot is at (`ReadInOrder`) decides who still has to ask for the exit, and `LetGo` says what
is left of the console and the services from there on.

**The system page.** The same module proves `SyspageBuilt` for any sections, callouts and sizes that
`PageAssumption` describes and any order of growing, registering and moving. It begins with the copy: what
`memmove()` leaves for overlapping ranges in either direction (`MemmoveMoves`), from which follows what growing and
moving make of the page. `PageInv` is what holds between any two of them. `PageSound`: each section is whole
where its pointer says, every cell belongs to one, and no section begins within another; the last part is why
comparing pointers with `bottom` tells what has to be moved up, also for sections that are still empty and lie at
one place. `OwnersHold`: a registered owner points to the cell it was registered for. `Counted`: what
the sizing pass found is what the second pass will meet, in a page that is longer by the asinfo entries added since.
That these are at most `Reserve` is an assumption (`MaxSplits`), the one the code makes in its *four more*
entries; beyond them only the rounding to whole pages keeps the callouts within the page.

**Power failures.** `RestoreIfsProofs` proves `BootsPristineIfs`, `ValidInfoIsTrue` and `Ifs2Complete`
(`BootsPristine`) and `RestoreFindsLastBoot` (`FindsLastBoot`) for any number of executables, slots,
power failures and memory errors. The RAM is the only state that survives, so `IInv` is mostly about what
it may hold at *every* moment: `InfoSound` (a valid block lists data that is there and
that no search can hand out; during a boot the block is invalid and grows with `i`), `ImageSound`
(what of the image is known good at each step) and `SecondSound` (when the info of IFS2 may be
believed). `FreeSlots` and `Placed` derive "the address will be the same everytime" from the order of
the allocations, and count them, so that `alloc_ram()` never fails (`Cardinality`); `LeftSound` is what
a complete boot leaves while the RAM is intact. `PlacesAssumption` excludes the places of IFS2 for
which the finding of `restore_ifs2_place` and the half-copied IFS2 of section 3 show that the claim is
false, and the slot that the info of the IFS gets.

**The devices.** `DeviceProofs` has one invariant for each machine.
`DogInv` proves `DogIsFed` for any line, time-out, lateness and wrap of the delay: the parameters hold what the
options read so far said, the last one winning (`Holds`), and whenever the kicker sleeps there is
more left of the watchdog than the sleep and its lateness take (`LeavesTime`).
`ConsoleInv` proves `ConsoleKept` for any depth, patience and number of characters and keys. On the way out: which
call is under way fits the chip (`RightCall`), a routine that writes has waited for the room (`HasRoom`), the command
register holds one character (`OneCommand`), and what was written is sent, in the transmitter or accounted
for as lost (`Kept`). On the way in: keys lie in the receiver in the order they arrived, and those that left it
were read or eaten by a break (`KeysInOrder`, `NoneSkipped`).
`QtimeInv` proves `TicksAgree` for any width of the words, any frequency and any argument: at each turn of
the division, `period * 10 * freq + quot` is the power of ten reached so far (`Dividing`), so nothing is lost
to the word's width; `PassesLeft` bounds what `k` divisions of period and product leave, from which the conversions follow.

**Induction.** The library's induction theorems cannot be instantiated here. Where a lemma speaks of every
position of a recursive function, it is proved by its least counterexample (`LeastNat`, from `WFMin` of
the well-founded order on the naturals).

**Only model-checked:** all liveness (`BootEnds`, `ShutdownReachesAll`, `EveryCpuArrives`,
`ServedInTheEnd`, `TakesEffect`, `RoutineReturns`, `AskedRuns`), since fairness and `ENABLED` are
outside TLAPS; `TablesReadAsSaid` and the refinement of `HwTree`, which reach `RECURSIVE` operators;
`TimeIsTrue`, the recursion of a calendar; `CommandLineKept` and `FirmwareRead`, which parse words and nodes
by folds; `LoadedAsLinked` and the refinement of `AddressMap`, whose walks are
folds over tables. For the last two groups an induction like those above would have to
be carried out for each fold.

## 5. Not modelled, and what is left

Not modelled: printing (`print_sysp.c`), the decompressors, libfdt, and the headers of register
numbers that the models abstract to names (`qrb2210_rcc.h`, `gic.h`, `acpi.h`). Left out of
modelled parts: the parking loop of the board's `_start.S`; the 64K granule; the
memory-mapped variants of the GICv3 callouts, `hwi_grow_tag()`, which nothing calls, the guards of
`cpu_cluster_add()`, which nothing here trips, waking a redistributor, masking LPIs by the
redistributor's own registers; the IC6 variant of the T18x; the PCI look-up of an 8250; the ELF
loops for executables without virtual addresses; `qrb2210_wdt.c`, which has no caller. The order in which the ITS sees commands and `CWRITER` is
taken to be the program's, although the callout's barrier stands behind the store of `CWRITER` only
(`callout_interrupt_gic_v3.S:1036`).

Left for later, in this order:

1. Proofs: the end of the loader (`LoadedAsLinked`) for a map that is given as a function; the calendar
   (`TimeIsTrue`) with the days before a year as a recursive function.
2. `RamManager`, `PageTable` and `Syspage` composed at the end of the boot, for
   `cpu_syspage_remap()` after the page is closed (`syspage_memory.c:202`).
3. The parts left out of modelled components above, the redistributor's own LPI registers first.
