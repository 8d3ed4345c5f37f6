------------------------------- MODULE GicV2 -------------------------------
(***************************************************************************)
(* The GICv2 with a cascaded controller on one of its SPIs: gic_v2_init()  *)
(* on the boot CPU, gic_v2_gicc_init() on every CPU (gic_v2.c), then the   *)
(* id, eoi, mask and unmask callouts (callout_interrupt_gic_v2.S) and      *)
(* send_ipi (callout_sendipi_gic_v2.S) on all CPUs at once.                *)
(*                                                                         *)
(* The kernel is external: it takes the commands of an IPI in one step,    *)
(* calls id callouts from the GIC down to the cascaded controller, again   *)
(* while the latter has INTR_GENFLAG_ID_LOOP, and eoi callouts back up.    *)
(***************************************************************************)
EXTENDS Cascade

CONSTANTS
    Cpus,        \* 0 .. n - 1, startup's numbers; 0 boots
    Iface,       \* the GIC's number of each CPU's interface
    ItLines,     \* GICD_TYPER.ITLinesNumber
    Spis,        \* SPIs with a device of their own
    CascadeSpi,  \* the SPI of the cascaded controller
    MaxIpis      \* bound: commands sent

Shared == Spis \union {CascadeSpi}
ASSUME GicV2Assumption ==
    /\ IsFiniteSet(Cpus) /\ Cpus \subseteq Nat /\ 0 \in Cpus
    /\ Iface \in [Cpus -> 0 .. 7] /\ \A c, d \in Cpus : Iface[c] = Iface[d] => c = d
    /\ Cardinality(Cpus) = 1 => Iface[0] = 0
    /\ CascadeSpi \notin Spis /\ ItLines \in 0 .. 31
    /\ Shared \subseteq 32 .. 1019

VARIABLES
    stage,      \* "reset", then "up" once gic_v2_init() is done
    on,         \* GICD_CTLR
    spiOn,      \* ISENABLER of the SPIs
    latched,    \* pending state from before startup or of an edge
    line,       \* SPIs whose device asserts its line
    edge,       \* ICFGR
    target,     \* ITARGETSR: SPI -> interface
    active,     \* SPIs between acknowledge and end of interrupt
    gicc,       \* interfaces that are enabled
    sgi,        \* interface -> SGI0 pending, by the CPU that sent it
    gic_cpu,    \* aarch64_gic_map; -1 stands for ~0
    at,         \* what each CPU is doing
    w24,        \* the interrupt it acknowledged
    x19,        \* the vector the cascaded id callout returned
    ipicmds,    \* CPUs with commands to take
    sending,    \* CPU -> whom it is about to interrupt
    sent,
    unmasked    \* SPIs the kernel unmasked

gicVars == <<stage, on, spiOn, latched, line, edge, target, active, gicc, sgi, gic_cpu,
             at, w24, x19, ipicmds, sending, sent, unmasked>>
vars == <<gicVars, childVars>>
Spurious == 1023
Nobody == -1

\* Firmware may leave anything enabled and pending.
Init ==
    /\ ChildInit
    /\ stage = "reset" /\ on = TRUE /\ gicc = {}
    /\ \E all \in BOOLEAN : /\ spiOn = (IF all THEN Shared ELSE {})
                         /\ latched = (IF all THEN Spis ELSE {})
    /\ line = {}
    /\ edge = Shared /\ target = [i \in Shared |-> Nobody]
    /\ active = {} /\ sgi = [c \in Cpus |-> {}] /\ gic_cpu = [c \in Cpus |-> -1]
    /\ at = [c \in Cpus |-> IF c = 0 THEN "init" ELSE "off"]
    /\ w24 = [c \in Cpus |-> Spurious] /\ x19 = NoVector
    /\ ipicmds = {} /\ sending = [c \in Cpus |-> Nobody] /\ sent = 0 /\ unmasked = {}

-----------------------------------------------------------------------------
(* gic_v2.c.                                                               *)

itn == (ItLines + 1) * 32
num_vectors == [ppi |-> 32, spi |-> Min({1020, itn}) - 32]
last_spi == num_vectors.ppi + num_vectors.spi

\* The byte of ITARGETSR0 is banked: a CPU reads its own bit, or 0 when
\* there is one interface only.
gic_v2_cpunum(c) == IF Cardinality(Cpus) = 1 THEN 0 ELSE Iface[c]

\* Mutant: the last register is not written.
ClearedButLast == {i \in Shared : i < itn - 32}
Cleared == {i \in Shared : i < itn}
Routed  == {i \in Shared : i < last_spi}

\* 32 and up, in whole registers of 32, 4 and 16 interrupts.
gic_v2_init ==
    /\ stage = "reset" /\ stage' = "up"
    /\ on' = TRUE
    /\ spiOn' = spiOn \ Cleared /\ latched' = latched \ Cleared
    /\ target' = [i \in Shared |-> IF i \in Routed THEN gic_v2_cpunum(0) ELSE target[i]]
    /\ edge' = edge \ Cleared
    /\ UNCHANGED <<line, active, gicc, sgi, gic_cpu, at, w24, x19, ipicmds, sending, sent, unmasked, childVars>>

\* init_cpuinfo() of each CPU; CPU c + 1 is started when c is ready.
gic_v2_gicc_init(c) ==
    /\ stage = "up" /\ at[c] = "init"
    /\ gic_cpu' = [gic_cpu EXCEPT ![c] = gic_v2_cpunum(c)]
    /\ gicc' = gicc \union {Iface[c]}
    /\ at' = [d \in Cpus |-> IF d = c THEN "run" ELSE IF d = c + 1 THEN "init" ELSE at[d]]
    /\ UNCHANGED <<stage, on, spiOn, latched, line, edge, target, active, sgi, w24, x19, ipicmds, sending, sent, unmasked, childVars>>

-----------------------------------------------------------------------------
(* The hardware.                                                           *)

Asserted == line \union (IF ChildLine THEN {CascadeSpi} ELSE {})
Pending == {i \in spiOn \ active : i \in latched \/ (i \notin edge /\ i \in Asserted)}
Signalled(c) == {i \in Pending : target[i] = Iface[c]}
Interrupted(c) ==
    on /\ Iface[c] \in gicc /\ (sgi[c] # {} \/ Signalled(c) # {})

\* A device raises its line, until its handler has run.
AssertLine ==
    /\ raised < MaxRaise /\ raised' = raised + 1
    /\ \E i \in Spis \ line : line' = line \union {i}
    /\ UNCHANGED <<stage, on, spiOn, latched, edge, target, active, gicc, sgi, gic_cpu, at, w24,
                   x19, ipicmds, sending, sent, unmasked,
                   kind, status, enable, code, gate, cache, count, masks, owed>>

\* A device of the cascaded controller, or its code register.
ChildRaise == stage = "up" /\ Raise /\ UNCHANGED gicVars
ChildLatch == stage = "up" /\ Latch /\ UNCHANGED gicVars

-----------------------------------------------------------------------------
(* Taking an interrupt.                                                    *)

GoTo(c, where) == at' = [at EXCEPT ![c] = where]
cpuRest == <<stage, on, spiOn, line, edge, target, gicc, gic_cpu, sending, sent, unmasked>>

\* interrupt_id_gic_v2_ppi: SGI 0, of the lowest priority, is ended at once,
\* with its sender.
IdentifyIpi(c) ==
    /\ at[c] = "run" /\ sending[c] = Nobody /\ Interrupted(c) /\ Signalled(c) = {}
    /\ \E from \in sgi[c] : sgi' = [sgi EXCEPT ![c] = @ \ {from}]
    /\ w24' = [w24 EXCEPT ![c] = 0]
    /\ GoTo(c, "ipi")
    /\ UNCHANGED <<cpuRest, latched, active, x19, ipicmds, childVars>>

\* interrupt_id_gic_v2_spi: what is not below 32 is an SPI, by its offset.
interrupt_id_gic_v2_spi(c) == IF w24[c] > 1021 THEN NoVector ELSE w24[c] - 32
IdentifySpi(c) ==
    /\ at[c] = "run" /\ sending[c] = Nobody /\ Interrupted(c) /\ Signalled(c) # {}
    /\ LET i == Min(Signalled(c))
       IN  /\ w24' = [w24 EXCEPT ![c] = i]
           /\ active' = active \union {i} /\ latched' = latched \ {i}
           /\ GoTo(c, IF i = CascadeSpi THEN "child" ELSE "isr")
    /\ UNCHANGED <<cpuRest, sgi, x19, ipicmds, childVars>>

\* The kernel takes the commands.
TakeCommands(c) ==
    /\ at[c] = "ipi" /\ ipicmds' = ipicmds \ {c} /\ GoTo(c, "eoi")
    /\ UNCHANGED <<cpuRest, latched, active, sgi, w24, x19, childVars>>

\* The handler of an SPI quiets its device.
Isr(c) ==
    /\ at[c] = "isr" /\ line' = line \ {interrupt_id_gic_v2_spi(c) + 32} /\ GoTo(c, "eoi")
    /\ UNCHANGED <<stage, on, spiOn, latched, edge, target, active, gicc, sgi, gic_cpu, w24, x19, ipicmds, sending, sent, unmasked, childVars>>

ChildId(c) ==
    /\ at[c] = "child"
    /\ \E v \in Vectors \union {NoVector} :
          /\ Identified(v) /\ x19' = v
          /\ GoTo(c, IF v = NoVector THEN "eoi" ELSE "childIsr")
    /\ UNCHANGED <<cpuRest, latched, active, sgi, w24, ipicmds, kind, count, raised, masks, owed>>

ChildIsr(c) ==
    /\ at[c] = "childIsr" /\ owed' = owed \ {x19} /\ GoTo(c, "childEoi")
    /\ UNCHANGED <<cpuRest, latched, active, sgi, w24, x19, ipicmds,
                   kind, status, enable, code, gate, cache, count, raised, masks>>

ChildEoi(c) ==
    /\ at[c] = "childEoi" /\ Ended(x19) /\ x19' = NoVector
    /\ GoTo(c, IF IdLoop THEN "child" ELSE "eoi")
    /\ UNCHANGED <<cpuRest, latched, active, sgi, w24, ipicmds, kind, status, cache, count, raised, masks, owed>>

\* interrupt_eoi_gic_v2 leaves out id 0.
interrupt_eoi_gic_v2(c) ==
    /\ at[c] = "eoi" /\ GoTo(c, "run")
    /\ active' = IF w24[c] = 0 THEN active ELSE active \ {w24[c]}
    /\ w24' = [w24 EXCEPT ![c] = Spurious]
    /\ UNCHANGED <<cpuRest, latched, sgi, x19, ipicmds, childVars>>

-----------------------------------------------------------------------------
(* Threads.                                                                *)

\* The vector is relative to the entry; the register wants the id.
IdOf(vector) == vector + 32

interrupt_unmask_gic_v2_spi(i) ==
    /\ stage = "up" /\ i \notin unmasked /\ i < last_spi
    /\ spiOn' = spiOn \union ({IdOf(i - 32)} \cap Shared)
    /\ unmasked' = unmasked \union {i}
    /\ UNCHANGED <<stage, on, latched, line, edge, target, active, gicc, sgi, gic_cpu, at, w24, x19, ipicmds, sending, sent, childVars>>

interrupt_mask_gic_v2_spi(i) ==
    /\ stage = "up" /\ i \in unmasked
    /\ spiOn' = spiOn \ {IdOf(i - 32)} /\ unmasked' = unmasked \ {i}
    /\ UNCHANGED <<stage, on, latched, line, edge, target, active, gicc, sgi, gic_cpu, at, w24, x19, ipicmds, sending, sent, childVars>>

\* sendipi_gic_v2: only the first command of several interrupts.
Send(c, d) ==
    /\ at[c] = "run" /\ at[d] # "off" /\ at[d] # "init" /\ sending[c] = Nobody /\ sent < MaxIpis
    /\ ipicmds' = ipicmds \union {d} /\ sent' = sent + 1
    /\ sending' = IF d \in ipicmds THEN sending ELSE [sending EXCEPT ![c] = d]
    /\ UNCHANGED <<stage, on, spiOn, latched, line, edge, target, active, gicc, sgi, gic_cpu, at, w24, x19, unmasked, childVars>>

\* Mutant: the target is startup's number.
TriggerUnmapped(c) ==
    /\ sending[c] # Nobody
    /\ sgi' = [d \in Cpus |-> IF Iface[d] = sending[c] THEN sgi[d] \union {c} ELSE sgi[d]]
    /\ sending' = [sending EXCEPT ![c] = Nobody]
    /\ UNCHANGED <<stage, on, spiOn, latched, line, edge, target, active, gicc, gic_cpu, at, w24, x19, ipicmds, sent, unmasked, childVars>>
\* The kernel gave the target as the map has it.
Trigger(c) ==
    /\ sending[c] # Nobody
    /\ sgi' = [d \in Cpus |-> IF Iface[d] = gic_cpu[sending[c]] THEN sgi[d] \union {c} ELSE sgi[d]]
    /\ sending' = [sending EXCEPT ![c] = Nobody]
    /\ UNCHANGED <<stage, on, spiOn, latched, line, edge, target, active, gicc, gic_cpu, at, w24, x19, ipicmds, sent, unmasked, childVars>>

ChildMasks == stage = "up" /\ (Mask \/ Unmask) /\ UNCHANGED gicVars

Service(c) ==
    \/ gic_v2_gicc_init(c) \/ IdentifyIpi(c) \/ IdentifySpi(c) \/ TakeCommands(c) \/ Isr(c)
    \/ ChildId(c) \/ ChildIsr(c) \/ ChildEoi(c) \/ interrupt_eoi_gic_v2(c) \/ Trigger(c)

Next ==
    \/ gic_v2_init \/ AssertLine \/ ChildRaise \/ ChildLatch
    \/ ChildMasks
    \/ \E i \in Shared : interrupt_unmask_gic_v2_spi(i)
    \/ \E i \in Spis : interrupt_mask_gic_v2_spi(i)
    \/ \E c \in Cpus : Service(c) \/ \E d \in Cpus : Send(c, d)

\* CPUs go on, with interrupts enabled; registers latch; the driver of the
\* cascaded controller has it unmasked at the GIC.
Fairness ==
    /\ \A c \in Cpus : WF_vars(Service(c))
    /\ WF_vars(ChildLatch)
    /\ WF_vars(interrupt_unmask_gic_v2_spi(CascadeSpi))
    /\ WF_vars(gic_v2_init)

Spec == Init /\ [][Next]_vars /\ Fairness

-----------------------------------------------------------------------------
(* Properties.                                                             *)

InService(v) == x19 = v
\* A vector's enable bit follows its mask count through id, eoi, mask and
\* unmask on several CPUs ("Only unmask interrupt if mask count is zero"):
\* closed while it is masked, open otherwise, but for the one being served.
EnableFollowsCount ==
    \A v \in Vectors : HasBit(v) =>
        /\ count[v] > 0 => ~HwEnabled(v)
        /\ count[v] = 0 /\ ~InService(v) => HwEnabled(v)

\* Nothing acts that the kernel did not unmask since gic_v2_init(), and what
\* acts does so on the boot CPU, whatever its interface is called.
OnlyUnmaskedActs ==
    stage = "up" => \A c \in Cpus : Signalled(c) # {} => c = 0 /\ Signalled(c) \subseteq unmasked

\* A request of a cascaded device is handled, or stays masked: none is lost
\* between the status register, the code register, the cached bits and the
\* level the GIC sees.
RequestServed ==
    \A v \in UNION {VectorsOf[k] : k \in Kinds} :
        []<>(v \notin owed \/ (Maskable /\ count[v] > 0))

\* Commands left for a CPU are taken: only their first sender interrupts it,
\* and the interrupt reaches the interface of that very CPU.
IpiServed == \A c \in Cpus : []<>(c \notin ipicmds)

\* The enables are what the kernel asked for: per vector of a cascade its count,
\* per interrupt of the GIC its mask, and nothing is left of the firmware's.
EnablesAreAsked == EnableFollowsCount /\ OnlyUnmaskedActs

\* What waits, a device of a cascade or the commands for a CPU, gets its turn
\* (callout_interrupt_t18x_pcie.S and its siblings, sendipi_gic_v2).
ServedInTheEnd == RequestServed /\ IpiServed
=============================================================================
