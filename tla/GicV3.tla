------------------------------- MODULE GicV3 -------------------------------
(***************************************************************************)
(* The GICv3 from the board's first gic_v3_spi_add_entry() to the kernel:  *)
(* gic_v3_initialize(), gic_v3_gicc_init() of every CPU, and then the      *)
(* callouts id, eoi, mask, unmask and send_ipi on all CPUs at once, with   *)
(* devices that interrupt at any time.  The hardware is external: a write  *)
(* to an enable register takes effect later, and RWP tells until when.     *)
(* The kernel is external too: it calls the callouts with interrupts       *)
(* masked, for one interrupt on one CPU at a time, ends an interrupt on    *)
(* the CPU that took it, and takes the commands of an IPI in one step.     *)
(***************************************************************************)
EXTENDS GicEntries

CONSTANTS
    NumCpu,        \* the CPUs, all of them brought up
    Gicr,          \* the redistributor with each CPU's affinity, by its index
    Ident,         \* GICD_IIDR.Implementer, GICD_PIDR2.ArchRev, GICR_TYPER.PPInum
    GicrSize,      \* bytes of redistributors, or 0: one for each CPU
    SharedIds,     \* the INTIDs of SPIs and ESPIs with a device
    Ppis,          \* the PPIs with a device, by redistributor and INTID
    Offered,       \* the entries the board may register
    Firmware,      \* what firmware may leave in the distributor and redistributors
    SendIpi,       \* the callout in smp->send_ipi
    MaxRaise,      \* bound: interrupts the devices raise
    MaxWanted      \* bound: interrupts that are unmasked at the same time

Cpus == 0 .. NumCpu - 1
GICD == -1
Frames == Cpus \cup {GICD}

\* An interrupt is the frame its registers are in and its INTID.
Shared == {GICD} \X SharedIds
Sgi0(f) == <<f, 0>>
Sgis == {Sgi0(f) : f \in Cpus}
Irq == Shared \cup Ppis \cup Sgis
NoIrq == <<GICD, 1023>>
Frame(x) == x[1]
Id(x) == x[2]
SharedOf(kind) == {x \in Shared : Id(x) \in Supported(kind)}
OfFrame(f) == {x \in Irq : Frame(x) = f}

ASSUME GicV3Assumption ==
    /\ NumCpu \in Nat \ {0} /\ MaxRaise \in Nat /\ MaxWanted \in Nat
    /\ Gicr \in [Cpus -> Cpus] /\ \A c, d \in Cpus : Gicr[c] = Gicr[d] => c = d
    /\ Ident \in [implementer : Nat, arch : 1 .. 4, ppi_num : Nat] /\ GicrSize \in Nat
    /\ SharedIds \subseteq Supported("spi") \cup Supported("espi")
    /\ Ppis \subseteq Cpus \X (16 .. 31)
    /\ Offered \subseteq [kind : {"spi", "espi"}, base : Nat, num : Nat, msi : BOOLEAN]
    /\ SendIpi \in {"sendipi_gic_v2", "sendipi_gic_v3_sr"}
    /\ Firmware \subseteq [on : BOOLEAN, group1 : SUBSET Irq, edge : SUBSET SharedIds,
                           target : [SharedIds -> 0 .. NumCpu], enabled : SUBSET Irq, pend : SUBSET Irq]

VARIABLES
    boot,        \* where the startup program is
    bringing,    \* the CPU whose turn it is to run gic_v3_gicc_init()
    entries,     \* spi_intrinfo and espi_intrinfo
    intrinfo,    \* the system page's entries
    on,          \* GICD_CTLR: the distributor forwards interrupts
    group1, edge, target,
    enabled,     \* ISENABLER
    lagging,     \* interrupts disabled, but the hardware still acts on them
    pend, line,  \* latched interrupts; devices that hold their line
    stale,       \* interrupts pending from before the startup program
    raised,      \* number of interrupts raised
    gicrIdx,     \* aarch64_gicr_map
    gicCpu,      \* aarch64_gic_map, as the redistributor its SGI goes to
    at,          \* where each CPU is
    arg,         \* the interrupt its callout is for
    active,      \* the interrupt it has acknowledged
    wanted,      \* interrupts the kernel has unmasked (and not masked since)
    deferred,    \* masked when they were taken, for a thread to serve them
    ipicmds      \* CPUs with commands in ipicmds[]

bootVars == <<boot, bringing, entries, intrinfo, gicrIdx, gicCpu>>
distVars == <<on, group1, edge, target>>
irqVars == <<pend, line, stale, raised>>
cpuVars == <<at, arg, active>>
kernelVars == <<wanted, deferred, ipicmds>>
vars == <<bootVars, distVars, enabled, lagging, irqVars, cpuVars, kernelVars>>

\* Firmware has left what it may; none of it is about to change.
Init ==
    /\ boot = "config" /\ bringing = 0 /\ intrinfo = <<>>
    /\ entries = [spi |-> spi_intrinfo, espi |-> espi_intrinfo]
    /\ \E left \in Firmware :
          /\ on = left.on /\ group1 = left.group1 /\ edge = left.edge /\ target = left.target
          /\ enabled = left.enabled /\ pend = left.pend /\ stale = left.pend
    /\ lagging = {} /\ line = {} /\ raised = 0
    /\ gicrIdx = [c \in Cpus |-> GICD] /\ gicCpu = [c \in Cpus |-> GICD]
    /\ at = [c \in Cpus |-> "boot"]
    /\ arg = [c \in Cpus |-> NoIrq] /\ active = [c \in Cpus |-> NoIrq]
    /\ wanted = {} /\ deferred = {} /\ ipicmds = {}

----------------------------------------------------------------------------
\* The hardware.

\* Interrupts are disabled.
Disable(irqs) ==
    /\ enabled' = enabled \ irqs
    /\ lagging' = lagging \cup (enabled \cap irqs)

\* RWP of a frame: a disabling write has not taken effect.
Rwp(f) == lagging \cap OfFrame(f) # {}

Propagate(x) ==
    /\ x \in lagging
    /\ lagging' = lagging \ {x}
    /\ UNCHANGED <<bootVars, distVars, enabled, irqVars, cpuVars, kernelVars>>

\* A device interrupts: an edge is latched, a level holds until it is served.
Raise(x) ==
    /\ raised < MaxRaise /\ raised' = raised + 1
    /\ IF Id(x) \in edge THEN pend' = pend \cup {x} /\ UNCHANGED line
                         ELSE line' = line \cup {x} /\ UNCHANGED pend
    /\ UNCHANGED <<bootVars, distVars, enabled, lagging, stale, cpuVars, kernelVars>>

Pending == pend \cup line
Aimed(x, c) == IF Frame(x) = GICD THEN target[Id(x)] = c ELSE Frame(x) = Gicr[c]
Signals(c) ==
    IF on THEN {x \in (enabled \cup lagging) \cap group1 \cap Pending :
                    Aimed(x, c) /\ \A d \in Cpus : active[d] # x}
    ELSE {}

----------------------------------------------------------------------------
\* The startup program.  A step that follows wait_for_rwp() waits.

\* gic_v3_spi_add_entry() and gic_v3_espi_add_entry(), called by the board
\* before it initialises; an entry that is refused changes nothing.
AddEntry(e) ==
    /\ boot = "config" /\ Len(entries[e.kind]) < NumElts
    /\ Asserted(e) /\ Accepts(entries[e.kind], e)
    /\ entries' = [entries EXCEPT ![e.kind] = Append(@, e)]
    /\ UNCHANGED <<boot, bringing, intrinfo, gicrIdx, gicCpu, distVars, enabled, lagging,
                   irqVars, cpuVars, kernelVars>>

\* "Enough entries should be added to account for all supported SPIs".
AllCovered(kind) ==
    entries[kind] # <<>> =>
        \A i \in Supported(kind) : \E k \in DOMAIN entries[kind] : Holds(entries[kind][k], i)

BootStep(from, to) ==
    /\ boot = from /\ boot' = to
    /\ UNCHANGED <<cpuVars, kernelVars, line, raised>>
DistStep(from, to) ==
    BootStep(from, to) /\ UNCHANGED <<bringing, entries, gicrIdx, gicCpu>>

\* Disable distributor.
DisableGicd ==
    /\ DistStep("config", "spis")
    /\ AllCovered("spi") /\ AllCovered("espi")
    /\ on' = FALSE
    /\ UNCHANGED <<intrinfo, group1, edge, target, enabled, lagging, pend, stale>>

\* ICENABLER and ICPENDR of a range of interrupts.
Clear(irqs) ==
    /\ Disable(irqs)
    /\ pend' = pend \ irqs /\ stale' = stale \ irqs

\* The ICFGR registers written are those below itn / 16: with an itn of 1020
\* the division leaves out the last one.
Itn == 32 + gic_v3_num_spis
Levelled == {i \in SharedIds : i < 16 * (Itn \div 16)}

ClearSpis ==
    /\ DistStep("spis", "espis")
    /\ Clear(SharedOf("spi"))
    /\ group1' = group1 \cup SharedOf("spi") /\ edge' = edge \ Levelled
    /\ UNCHANGED <<intrinfo, on, target>>

\* The ESPIs get IGRPMODR but no IGROUPR.
ClearEspis ==
    /\ ~Rwp(GICD) /\ DistStep("espis", "enable")
    /\ Clear(SharedOf("espi"))
    /\ edge' = edge \ Supported("espi")
    /\ UNCHANGED <<intrinfo, on, group1, target>>

\* Enable GICD, in its two writes.
EnableGicd ==
    /\ ~Rwp(GICD) /\ DistStep("enable", "route")
    /\ on' = TRUE
    /\ UNCHANGED <<intrinfo, group1, edge, target, enabled, lagging, pend, stale>>

\* Slip: the loop for the ESPIs is missing.
RouteSpisOnly ==
    /\ DistStep("route", "entries")
    /\ target' = [i \in SharedIds |-> IF i \in Supported("spi") THEN 0 ELSE target[i]]
    /\ UNCHANGED <<intrinfo, on, group1, edge, enabled, lagging, pend, stale>>

\* Route all SPIs and ESPIs to the CPU that runs the startup program.
Route ==
    /\ DistStep("route", "entries")
    /\ target' = [i \in SharedIds |-> 0]
    /\ UNCHANGED <<intrinfo, on, group1, edge, enabled, lagging, pend, stale>>

\* Slip: the ESPI's register is not relative to the first ESPI.
TrigModeIdAbsolute(kind, irq) == irq + (IF kind = "espi" THEN MinIrq.espi ELSE 0)

\* gic_v3_set_intr_trig_mode(): the INTID whose ICFGR field is set.
TrigModeId(kind, irq) ==
    LET first == IF kind = "espi" THEN MinIrq.espi ELSE 0
    IN first + 16 * ((irq - first) \div 16) + (irq % 16)

\* The INTIDs of entries with INTR_FLAG_MSI.
MsiIds == {irq \in SharedIds : \E kind \in DOMAIN entries : \E k \in DOMAIN entries[kind] :
                LET e == entries[kind][k] IN e.msi /\ Holds(e, irq)}
KindOf(irq) == IF irq \in Supported("espi") THEN "espi" ELSE "spi"

\* The entries go to the system page, MSIs become edge triggered, and
\* gic_cpu_init is set.
AddInterrupts ==
    /\ DistStep("entries", "redist")
    /\ intrinfo' = AllEntries(OrDefault("spi", entries.spi), OrDefault("espi", entries.espi))
    /\ edge' = edge \cup {TrigModeId(KindOf(irq), irq) : irq \in MsiIds}
    /\ UNCHANGED <<on, group1, target, enabled, lagging, pend, stale>>

\* Slip: the SGI is enabled before everything is disabled.
RedistDisablesLast ==
    /\ BootStep("redist", "iface")
    /\ LET f == Gicr[bringing]
       IN /\ gicrIdx' = [gicrIdx EXCEPT ![bringing] = f]
          /\ group1' = group1 \cup OfFrame(f)
          /\ pend' = pend \ OfFrame(f) /\ stale' = stale \ OfFrame(f)
          /\ Disable(OfFrame(f))
    /\ UNCHANGED <<bringing, entries, intrinfo, gicCpu, on, edge, target>>

\* Slip: the index is counted up before the comparison.
RedistCountsFirst ==
    /\ BootStep("redist", "iface")
    /\ LET f == Gicr[bringing]
       IN /\ gicrIdx' = [gicrIdx EXCEPT ![bringing] = f + 1]
          /\ group1' = group1 \cup OfFrame(f)
          /\ pend' = pend \ OfFrame(f) /\ stale' = stale \ OfFrame(f)
          /\ enabled' = (enabled \ OfFrame(f)) \cup {Sgi0(f)}
          /\ lagging' = lagging \cup ((enabled \cap OfFrame(f)) \ {Sgi0(f)})
    /\ UNCHANGED <<bringing, entries, intrinfo, gicCpu, on, edge, target>>

\* gic_init_version_info(): the minor version is known of ARM's GICv3 only.
ARM == 1083
gic_init_version_info ==
    [major |-> Ident.arch,
     minor |-> IF Ident.implementer = ARM /\ Ident.arch = 3 /\ Ident.ppi_num > 0 THEN 1 ELSE 0]

\* gic_v3_set_paddr_range(): a redistributor has two frames of 64 Kbytes, from
\* GICv4 on four.
gicr_offset_shift_val == IF gic_init_version_info.major >= 4 THEN 18 ELSE 17
gicr_index_limit == IF GicrSize = 0 THEN NumCpu ELSE GicrSize \div 2 ^ gicr_offset_shift_val

\* From one redistributor to the next, none of them past the range.
Reached(f) == \A i \in 1 .. f : i < gicr_index_limit

\* gic_v3_gicc_init(): the redistributor with the CPU's affinity; its SGIs and
\* PPIs to Group 1, not pending and disabled, but for the SGI of the IPIs.
Redist ==
    /\ BootStep("redist", "iface")
    /\ LET f == Gicr[bringing]
       IN /\ Reached(f)
          /\ gicrIdx' = [gicrIdx EXCEPT ![bringing] = f]
          /\ group1' = group1 \cup OfFrame(f)
          /\ pend' = pend \ OfFrame(f) /\ stale' = stale \ OfFrame(f)
          /\ enabled' = (enabled \ OfFrame(f)) \cup {Sgi0(f)}
          /\ lagging' = lagging \cup ((enabled \cap OfFrame(f)) \ {Sgi0(f)})
    /\ UNCHANGED <<bringing, entries, intrinfo, gicCpu, on, edge, target>>

\* Then its system register interface, and the CPU goes on to the kernel; the
\* next one is started, or the kernel.  The SGI1R value is the affinity.
Iface ==
    /\ boot = "iface" /\ ~Rwp(Gicr[bringing])
    /\ gicCpu' = [gicCpu EXCEPT ![bringing] = Gicr[bringing]]
    /\ IF bringing = NumCpu - 1
       THEN /\ boot' = "kernel" /\ bringing' = 0
            /\ at' = [c \in Cpus |-> "thread"]
       ELSE /\ boot' = "redist" /\ bringing' = bringing + 1
            /\ UNCHANGED at
    /\ UNCHANGED <<entries, intrinfo, gicrIdx, distVars, enabled, lagging, irqVars,
                   arg, active, kernelVars>>

StartupStep ==
    \/ DisableGicd \/ ClearSpis \/ ClearEspis \/ EnableGicd \/ Route \/ AddInterrupts
    \/ Redist \/ Iface

----------------------------------------------------------------------------
\* The callouts, on CPUs that execute kernel code.

Kernel(c, from, to) ==
    /\ at[c] = from /\ at' = [at EXCEPT ![c] = to]
    /\ UNCHANGED <<bootVars, distVars, stale, raised>>

\* The interrupt whose enable bit the mask and unmask callouts of CPU c write
\* for a vector: a PPI's in the redistributor that tpidr_el1 leads to.
Written(c, x) ==
    LET id == WrittenId(intrinfo, VectorOf(intrinfo, Id(x)))
    IN <<IF id < 32 THEN gicrIdx[c] ELSE GICD, id>>

MayCall(c, x) == x \in Shared \cup (OfFrame(gicrIdx[c]) \ Sgis) /\ \A d \in Cpus : arg[d] # x

\* The CPU takes an interrupt exception.
TakeIrq(c) ==
    /\ Kernel(c, "thread", "irq")
    /\ Signals(c) # {}
    /\ UNCHANGED <<enabled, lagging, pend, line, arg, active, kernelVars>>

\* interrupt_id_gic_v3_ppi_sr reads IAR: any interrupt of the best priority,
\* where SGI0 comes last.  If there is none any more all id callouts return -1.
Identify(c) ==
    /\ at[c] = "irq"
    /\ LET best == IF Signals(c) \subseteq Sgis THEN Signals(c) ELSE Signals(c) \ Sgis
       IN
       \/ \E x \in best :
            /\ Kernel(c, "irq", "vector")
            /\ active' = [active EXCEPT ![c] = x]
            /\ pend' = pend \ {x}
            /\ UNCHANGED <<enabled, lagging, line, arg, kernelVars>>
       \/ /\ best = {} /\ Claimants(intrinfo, Id(NoIrq)) = {}
          /\ Kernel(c, "irq", "thread")
          /\ UNCHANGED <<enabled, lagging, pend, line, arg, active, kernelVars>>

\* Vector 0 is the IPI (interrupt_config_gic_v3_ppi).
Ipi(x) == VectorOf(intrinfo, Id(x)) = 0

\* The kernel takes the commands of its CPU.
ServeIpi(c) ==
    /\ Kernel(c, "vector", "eoi") /\ Ipi(active[c])
    /\ ipicmds' = ipicmds \ {c}
    /\ UNCHANGED <<enabled, lagging, pend, line, arg, active, wanted, deferred>>

\* A driver's handler serves the device, ...
Handle(c) ==
    /\ Kernel(c, "vector", "eoi") /\ ~Ipi(active[c])
    /\ line' = line \ {active[c]}
    /\ UNCHANGED <<enabled, lagging, pend, arg, active, kernelVars>>

\* ... or the kernel masks the interrupt and leaves it to a thread.
StoreMask(x, c) ==
    /\ arg' = [arg EXCEPT ![c] = x]
    /\ Disable({Written(c, x)})

MaskTaken(c) ==
    /\ Kernel(c, "vector", "rwp") /\ ~Ipi(active[c]) /\ MayCall(c, active[c])
    /\ StoreMask(active[c], c)
    /\ deferred' = deferred \cup {active[c]}
    /\ UNCHANGED <<pend, line, active, wanted, ipicmds>>

\* A thread masks an interrupt.
Mask(c, x) ==
    /\ x \in wanted /\ MayCall(c, x)
    /\ Kernel(c, "thread", "rwp")
    /\ StoreMask(x, c)
    /\ UNCHANGED <<pend, line, active, kernelVars>>

Return(c) ==
    /\ Kernel(c, "rwp", IF active[c] = NoIrq THEN "thread" ELSE "eoi")
    /\ arg' = [arg EXCEPT ![c] = NoIrq]
    /\ wanted' = wanted \ {arg[c]}
    /\ UNCHANGED <<enabled, lagging, pend, line, active, deferred, ipicmds>>

\* Slip: the mask callout does not wait for RWP.
MaskedAtOnce(c) == Return(c)

\* It returns when RWP is clear.
Masked(c) == Return(c) /\ ~Rwp(Frame(Written(c, arg[c])))

\* The unmask callout does not wait.
Unmask(c, x) ==
    /\ x \notin wanted \cup deferred /\ Cardinality(wanted) < MaxWanted /\ MayCall(c, x)
    /\ Kernel(c, "thread", "thread")
    /\ enabled' = enabled \cup {Written(c, x)}
    /\ lagging' = lagging \ {Written(c, x)}
    /\ wanted' = wanted \cup {x}
    /\ UNCHANGED <<pend, line, arg, active, deferred, ipicmds>>

\* A driver's thread serves the device of an interrupt that was left to it.
Serve(c, x) ==
    /\ x \in deferred \ wanted
    /\ Kernel(c, "thread", "thread")
    /\ line' = line \ {x} /\ deferred' = deferred \ {x}
    /\ UNCHANGED <<enabled, lagging, pend, arg, active, wanted, ipicmds>>

\* EOIR1 with the IAR value.
Eoi(c) ==
    /\ Kernel(c, "eoi", "thread")
    /\ active' = [active EXCEPT ![c] = NoIrq]
    /\ UNCHANGED <<enabled, lagging, pend, line, arg, kernelVars>>

\* Slip: the new commands are tested and not the old ones.
SendTestsNew(c, d) ==
    /\ c # d
    /\ Kernel(c, "thread", "thread")
    /\ ipicmds' = ipicmds \cup {d}
    /\ UNCHANGED <<arg, enabled, lagging, pend, line, active, wanted, deferred>>

\* send_ipi: the commands are added with interrupts masked; if there were some
\* their sender has triggered the SGI or will.
Send(c, d) ==
    /\ c # d
    /\ Kernel(c, "thread", IF d \in ipicmds THEN "thread" ELSE "sgi")
    /\ ipicmds' = ipicmds \cup {d}
    /\ arg' = IF d \in ipicmds THEN arg ELSE [arg EXCEPT ![c] = Sgi0(gicCpu[d])]
    /\ UNCHANGED <<enabled, lagging, pend, line, active, wanted, deferred>>

\* SGI1R_EL1 raises SGI0 on the CPU with that affinity.  The GICv2 callout
\* stores to the ARM_GICD_SGIR of a distributor at gic_gicd_vaddr, which only
\* gic_v2.c sets: a fault at a small address.
Trigger(c) ==
    LET works == SendIpi = "sendipi_gic_v3_sr"
    IN /\ Kernel(c, "sgi", IF works THEN "thread" ELSE "fault")
       /\ pend' = IF works THEN pend \cup {arg[c]} ELSE pend
       /\ arg' = [arg EXCEPT ![c] = NoIrq]
       /\ UNCHANGED <<enabled, lagging, line, active, kernelVars>>

Continue(c) ==
    \/ Identify(c) \/ ServeIpi(c) \/ Handle(c) \/ MaskTaken(c) \/ Masked(c)
    \/ Eoi(c) \/ Trigger(c)

Thread(c) ==
    \/ \E x \in Irq : Mask(c, x) \/ Unmask(c, x) \/ Serve(c, x)
    \/ \E d \in Cpus : Send(c, d)

Next ==
    \/ \E e \in Offered : AddEntry(e)
    \/ StartupStep
    \/ \E x \in Irq \ Sgis : Raise(x)
    \/ \E x \in Irq : Propagate(x)
    \/ \E c \in Cpus : TakeIrq(c) \/ Continue(c) \/ Thread(c)

\* The startup program and the callouts run on, writes take effect, and a CPU
\* that is interruptible again and again takes an interrupt that is signalled.
\* RWP of others' writes may come and go, but a poll sees it clear some day.
Fairness ==
    /\ WF_vars(StartupStep)
    /\ \A f \in Frames : WF_vars(\E x \in OfFrame(f) : Propagate(x))
    /\ \A c \in Cpus : SF_vars(TakeIrq(c)) /\ WF_vars(Continue(c)) /\ SF_vars(Masked(c))

Spec == Init /\ [][Next]_vars /\ Fairness

----------------------------------------------------------------------------
\* Every variable has its type.
TypeOK ==
    /\ boot \in {"config", "spis", "espis", "enable", "route", "entries", "redist",
                 "iface", "kernel"}
    /\ bringing \in Cpus
    /\ DOMAIN entries = {"spi", "espi"}
    /\ on \in BOOLEAN
    /\ group1 \subseteq Irq /\ edge \subseteq SharedIds
    /\ target \in [SharedIds -> 0 .. NumCpu]
    /\ enabled \subseteq Irq /\ lagging \subseteq Irq /\ pend \subseteq Irq
    /\ line \subseteq Irq /\ stale \subseteq Irq /\ wanted \subseteq Irq
    /\ deferred \subseteq Irq
    /\ raised \in 0 .. MaxRaise
    /\ gicrIdx \in [Cpus -> Frames] /\ gicCpu \in [Cpus -> Frames]
    /\ at \in [Cpus -> {"boot", "thread", "irq", "vector", "rwp", "eoi", "sgi", "fault"}]
    /\ arg \in [Cpus -> Irq \cup {NoIrq}] /\ active \in [Cpus -> Irq \cup {NoIrq}]
    /\ ipicmds \subseteq Cpus

\* The numbers go round: each INTID is claimed, its vector lies in one entry,
\* and the mask callout of that entry writes the bit of that INTID, however the
\* board has cut the INTIDs into entries.
NumbersAgree ==
    boot = "kernel" => \A i \in {Id(x) : x \in Ppis} \cup SharedIds :
        /\ Claimants(intrinfo, i) # {}
        /\ VectorOf(intrinfo, i) = i
        /\ Cardinality({k \in DOMAIN intrinfo : Holds(intrinfo[k], i)}) = 1
        /\ WrittenId(intrinfo, i) = i

\* "wait for RWP to be clear": once the mask callout has returned the hardware
\* cannot signal the interrupt, whatever the other CPUs do, until it is
\* unmasked; and no CPU masks or enables an interrupt it was not asked to.
OnlyUnmaskedActs ==
    boot = "kernel" =>
        enabled \cup lagging
            \subseteq wanted \cup Sgis \cup {arg[c] : c \in {d \in Cpus : at[d] = "rwp"}}

\* Whatever firmware left, the kernel starts with nothing of it pending, with
\* every CPU's SGI0 enabled for the IPIs, all that can interrupt it in Group 1 but
\* for the ESPIs, whose group stays firmware's, "as level triggered" except for
\* MSIs, and the SPIs and ESPIs routed to the CPU that ran startup.
SetUpClean ==
    boot = "kernel" =>
        /\ stale = {}
        /\ Sgis \subseteq enabled
        /\ Irq \ SharedOf("espi") \subseteq group1
        /\ edge = MsiIds
        /\ target = [i \in SharedIds |-> 0]

\* "Trigger ID0 to target CPU if old ipicmd[cpu] was 0": a CPU with commands
\* has its SGI pending, or coming from the sender that found no commands, or
\* is about to take them.
IpiNotLost ==
    \A d \in ipicmds :
        \/ Sgi0(Gicr[d]) \in pend
        \/ \E c \in Cpus : at[c] = "sgi" /\ arg[c] = Sgi0(Gicr[d])
        \/ at[d] = "vector" /\ active[d] = Sgi0(Gicr[d])

\* Interrupts that are asserted and unmasked are acknowledged or served, unless
\* they are masked again, until none is waiting; but for an ESPI that firmware
\* has left in Group 0.
Waiting == (wanted \cap Pending \cap group1) \ Sgis
Delivered == []<>(Waiting = {})

\* The commands sent to a CPU are taken.
IpiServed == \A d \in Cpus : []<>(d \notin ipicmds)

\* What the set-up leaves: the table and the hardware number the INTIDs alike,
\* and the kernel inherits nothing of the firmware's: what it finds is disabled,
\* grouped, levelled and routed as it expects, and nothing but an IPI interrupts
\* it before it has unmasked it (gic_v3_initialize(), gic_v3_gicc_init()).
SetUpAgrees == TypeOK /\ NumbersAgree /\ SetUpClean /\ OnlyUnmaskedActs

\* What the callouts keep, also against each other on several CPUs: only what is
\* unmasked acts, and no command of a CPU is left without its interrupt.
CalloutsKeepState == OnlyUnmaskedActs /\ IpiNotLost

\* What waits, an unmasked interrupt or the commands for a CPU, gets its turn
\* (interrupt_id_gic_v3, sendipi_gic_v3_sr).
ServedInTheEnd == Delivered /\ IpiServed
=============================================================================
