----------------------------- MODULE SmpStartup -----------------------------
(***************************************************************************)
(* Bringing up the secondary CPUs: init_smp.c on the boot core, smp_start.S *)
(* and the head of the smp_spin callout on the others, and the firmware    *)
(* that switches cores on.  One action is one load or store of a flag the  *)
(* cores share, with the private instructions around it.                   *)
(*                                                                         *)
(* Startup runs with the MMU off, so its stores reach memory in program    *)
(* order.  Two do not: what the boot core stores while its data cache is   *)
(* still on, and the zero a core stores in smp.pending from the callout.   *)
(***************************************************************************)
EXTENDS Integers, FiniteSets

CONSTANTS
    NumCores,    \* cores of the SoC; core 0 boots
    BoardCpus,   \* board_smp_num_cpu()
    Affinity,    \* qrb2210_core_affinity: the core of each CPU but 0
    MaxCpus,     \* values of max_cpus to consider
    SpinWrap     \* bound: turns after which start_aps()'s counter is 0 again

ASSUME SmpAssumption ==
    /\ NumCores \in Nat \ {0} /\ BoardCpus \in Nat \ {0}
    /\ Affinity \in [1 .. BoardCpus - 1 -> Int]
    /\ MaxCpus \subseteq Nat \ {0}
    /\ SpinWrap \in Nat \ {0}

Secondary == 1 .. NumCores - 1

\* The board's own values: the cores of the SoC, which board_smp_num_cpu()
\* returns, and a table of six entries and two initialisers (the rest are 0).
QRB2210_CPU_CORES_NUMBER == 4
qrb2210_core_affinity == [i \in 0 .. 5 |-> IF i = 1 THEN 1 ELSE 0]

VARIABLES
    bsp,                \* where the boot core is
    hook,               \* smp_hook_rtn
    idx, count,         \* i and count of the loops
    numCpu,             \* lsp.syspage.p->num_cpu
    page,               \* the system page at its final place
    ap, num,            \* where each core is, and its w19
    dcache,             \* the boot core's data cache is on
    cpu_starting, csLine,       \* in memory; dirty in that cache, or 0
    syspage_available,
    pending, pendingLine        \* in memory; cores whose cache holds a zero

bspVars == <<bsp, hook, idx, count, numCpu, page>>
csVars == <<dcache, cpu_starting, csLine>>
pendingVars == <<pending, pendingLine>>
vars == <<bspVars, ap, num, csVars, syspage_available, pendingVars>>

Init ==
    /\ bsp = "init_smp" /\ hook = "dummy" /\ idx = 0 /\ count = 0
    /\ numCpu = 1 /\ page = "building"
    /\ ap = [c \in Secondary |-> "off"] /\ num = [c \in Secondary |-> 0]
    /\ dcache \in BOOLEAN /\ cpu_starting = 0 /\ csLine = 0
    /\ syspage_available = 0
    /\ pending = 0 /\ pendingLine = {}

BspGoes(from, to) == bsp = from /\ bsp' = to
ApGoes(c, from, to) == ap[c] = from /\ ap' = [ap EXCEPT ![c] = to]

-----------------------------------------------------------------------------
(* The boot core, up to the hand-over.                                     *)

InitSmp ==
    /\ BspGoes("init_smp", "hook")
    /\ \E max_cpus \in MaxCpus :
         /\ numCpu' = IF max_cpus = 1 THEN 1
                      ELSE IF BoardCpus > max_cpus THEN max_cpus ELSE BoardCpus
         /\ hook' = IF numCpu' > 1 THEN "start_aps" ELSE "dummy"
    /\ UNCHANGED <<idx, count, page, ap, num, csVars, syspage_available, pendingVars>>

CallHook ==
    /\ bsp = "hook"
    /\ \/ hook = "start_aps" /\ bsp' = "start_aps" /\ idx' = 1
       \/ hook = "dummy" /\ bsp' = "flags" /\ UNCHANGED idx
    /\ UNCHANGED <<hook, count, numCpu, page, ap, num, csVars, syspage_available, pendingVars>>

\* cpu_starting = i + 1, or the end of the loop.
StartNext ==
    /\ bsp = "start_aps"
    /\ \/ /\ idx < numCpu /\ bsp' = "mmu"
          /\ IF dcache THEN csLine' = idx + 1 /\ UNCHANGED cpu_starting
                       ELSE cpu_starting' = idx + 1 /\ UNCHANGED csLine
          /\ UNCHANGED hook
       \/ /\ idx >= numCpu /\ bsp' = "flags" /\ hook' = "transfer_aps"
          /\ UNCHANGED <<cpu_starting, csLine>>
    /\ UNCHANGED <<idx, count, numCpu, page, ap, num, dcache, syspage_available, pendingVars>>

WriteBack(line, memory) == IF line = 0 THEN memory ELSE line

\* Slip: the cache is switched off with what it holds.
BoardMmuDisableNoClean ==
    /\ BspGoes("mmu", "psci")
    /\ dcache' = FALSE /\ csLine' = 0
    /\ UNCHANGED <<hook, idx, count, numCpu, page, ap, num, cpu_starting,
                   syspage_available, pendingVars>>

BoardMmuDisable ==
    /\ BspGoes("mmu", "psci")
    /\ dcache' = FALSE /\ csLine' = 0
    /\ cpu_starting' = WriteBack(csLine, cpu_starting)
    /\ UNCHANGED <<hook, idx, count, numCpu, page, ap, num, syspage_available, pendingVars>>

\* External: the firmware switches a core on that is there and off.
CpuOnAllowed(core) == core \in Secondary /\ ap[core] = "off"

PsciSuccess ==
    /\ BspGoes("psci", "wait_ap")
    /\ CpuOnAllowed(Affinity[idx])
    /\ ap' = [ap EXCEPT ![Affinity[idx]] = "entry"]
    /\ count' = 0
    /\ UNCHANGED <<hook, idx, numCpu, page, num, csVars, syspage_available, pendingVars>>

\* crash("Cortex-A core %d start failed!"): refused, for that or another reason.
PsciFailure ==
    /\ BspGoes("psci", "crashed")
    /\ UNCHANGED <<hook, idx, count, numCpu, page, ap, num, csVars, syspage_available,
                   pendingVars>>

\* Slip: the next core is started without a wait for this one.
WaitApSkipped ==
    /\ BspGoes("wait_ap", "start_aps")
    /\ idx' = idx + 1
    /\ UNCHANGED <<hook, count, numCpu, page, ap, num, csVars, syspage_available, pendingVars>>

\* One turn of the wait; ap_fail() when the counter wraps.
WaitAp ==
    /\ bsp = "wait_ap"
    /\ count' = (count + 1) % SpinWrap
    /\ \/ count' = 0 /\ bsp' = "crashed" /\ UNCHANGED idx
       \/ count' # 0 /\ cpu_starting # 0 /\ UNCHANGED <<bsp, idx>>
       \/ count' # 0 /\ cpu_starting = 0 /\ bsp' = "start_aps" /\ idx' = idx + 1
    /\ UNCHANGED <<hook, numCpu, page, ap, num, csVars, syspage_available, pendingVars>>

\* The -F switches, into every CPU's cpuinfo.
PropagateFlags ==
    /\ BspGoes("flags", "alloc")
    /\ UNCHANGED <<hook, idx, count, numCpu, page, ap, num, csVars, syspage_available,
                   pendingVars>>

\* Slip: the page is announced when its memory is there.
AllocSyspageThenTransfer ==
    /\ BspGoes("alloc", "hook2")
    /\ page' = "allocated"
    /\ UNCHANGED <<hook, idx, count, numCpu, ap, num, csVars, syspage_available, pendingVars>>

\* alloc_syspage_memory() also puts the callouts in their place.
AllocSyspage ==
    /\ BspGoes("alloc", "write")
    /\ page' = "allocated"
    /\ UNCHANGED <<hook, idx, count, numCpu, ap, num, csVars, syspage_available, pendingVars>>

WriteSyspage ==
    /\ BspGoes("write", "hook2")
    /\ page' = "written"
    /\ UNCHANGED <<hook, idx, count, numCpu, ap, num, csVars, syspage_available, pendingVars>>

CallTransferHook ==
    /\ bsp = "hook2"
    /\ \/ hook = "transfer_aps" /\ bsp' = "transfer_aps" /\ idx' = 1
       \/ hook = "dummy" /\ bsp' = "startnext" /\ UNCHANGED idx
    /\ UNCHANGED <<hook, count, numCpu, page, ap, num, csVars, syspage_available, pendingVars>>

\* Slip: the last CPU is forgotten.
TransferNextOffByOne ==
    /\ bsp = "transfer_aps"
    /\ \/ idx < numCpu - 1 /\ bsp' = "announce" /\ pending' = 1
       \/ idx >= numCpu - 1 /\ bsp' = "startnext" /\ UNCHANGED pending
    /\ UNCHANGED <<hook, idx, count, numCpu, page, ap, num, csVars, syspage_available,
                   pendingLine>>

\* *pending = 1, or the end of the loop.
TransferNext ==
    /\ bsp = "transfer_aps"
    /\ \/ idx < numCpu /\ bsp' = "announce" /\ pending' = 1
       \/ idx >= numCpu /\ bsp' = "startnext" /\ UNCHANGED pending
    /\ UNCHANGED <<hook, idx, count, numCpu, page, ap, num, csVars, syspage_available,
                   pendingLine>>

Announce ==
    /\ BspGoes("announce", "wait_pending")
    /\ syspage_available' = idx
    /\ UNCHANGED <<hook, idx, count, numCpu, page, ap, num, csVars, pendingVars>>

\* Slip: the boot core does not wait.
WaitPendingSkipped ==
    /\ BspGoes("wait_pending", "transfer_aps")
    /\ idx' = idx + 1
    /\ UNCHANGED <<hook, count, numCpu, page, ap, num, csVars, syspage_available, pendingVars>>

\* There is no time-out here.
WaitPending ==
    /\ BspGoes("wait_pending", "transfer_aps")
    /\ pending = 0
    /\ idx' = idx + 1
    /\ UNCHANGED <<hook, count, numCpu, page, ap, num, csVars, syspage_available, pendingVars>>

StartKernel ==
    /\ BspGoes("startnext", "kernel")
    /\ UNCHANGED <<hook, idx, count, numCpu, page, ap, num, csVars, syspage_available,
                   pendingVars>>

Bsp ==
    \/ InitSmp \/ CallHook \/ StartNext \/ BoardMmuDisable \/ PsciSuccess \/ PsciFailure
    \/ WaitAp \/ PropagateFlags \/ AllocSyspage \/ WriteSyspage
    \/ CallTransferHook \/ TransferNext \/ Announce \/ WaitPending \/ StartKernel

-----------------------------------------------------------------------------
(* A secondary core.                                                       *)

\* Exception level, vectors, caches; then the stack all of them use.
ApEntry(c) ==
    /\ ApGoes(c, "entry", "read")
    /\ UNCHANGED <<bspVars, num, csVars, syspage_available, pendingVars>>

ApReadNum(c) ==
    /\ ApGoes(c, "read", "adjust")
    /\ num' = [num EXCEPT ![c] = cpu_starting - 1]
    /\ UNCHANGED <<bspVars, csVars, syspage_available, pendingVars>>

\* Slip: the core reports as soon as it knows its number.
ApAdjustReports(c) ==
    /\ ApGoes(c, "adjust", "cpuinfo")
    /\ cpu_starting' = 0
    /\ UNCHANGED <<bspVars, num, dcache, csLine, syspage_available, pendingVars>>

\* board_smp_adjust_num() returns its argument; hypervisor_init(), cpu_startup().
ApAdjust(c) ==
    /\ ApGoes(c, "adjust", "cpuinfo")
    /\ UNCHANGED <<bspVars, num, csVars, syspage_available, pendingVars>>

\* init_one_cpuinfo() writes into the system page.
ApCpuinfo(c) ==
    /\ ApGoes(c, "cpuinfo", "report")
    /\ UNCHANGED <<bspVars, num, csVars, syspage_available, pendingVars>>

ApReport(c) ==
    /\ ApGoes(c, "report", "available")
    /\ cpu_starting' = 0
    /\ UNCHANGED <<bspVars, num, dcache, csLine, syspage_available, pendingVars>>

ApSeesSyspage(c) ==
    /\ ApGoes(c, "available", "startnext")
    /\ syspage_available = num[c]
    /\ UNCHANGED <<bspVars, num, csVars, syspage_available, pendingVars>>

\* cpu_startnext(), vstart(): the MMU goes on and the callout begins.
ApStartNext(c) ==
    /\ ApGoes(c, "startnext", "callout")
    /\ UNCHANGED <<bspVars, num, csVars, syspage_available, pendingVars>>

\* The zero is in this core's cache.
ApClearPending(c) ==
    /\ ApGoes(c, "callout", "clean")
    /\ pendingLine' = pendingLine \union {c}
    /\ UNCHANGED <<bspVars, num, csVars, syspage_available, pending>>

CleanLine(c) ==
    /\ pendingLine' = pendingLine \ {c}
    /\ pending' = IF c \in pendingLine THEN 0 ELSE pending

\* Slip: no dc cvac.
ApCleanPendingOmitted(c) ==
    /\ ApGoes(c, "clean", "parked")
    /\ UNCHANGED <<bspVars, num, csVars, syspage_available, pendingVars>>

\* dc cvac, dsb sy
ApCleanPending(c) ==
    /\ ApGoes(c, "clean", "parked")
    /\ CleanLine(c)
    /\ UNCHANGED <<bspVars, num, csVars, syspage_available>>

Ap(c) ==
    \/ ApEntry(c) \/ ApReadNum(c) \/ ApAdjust(c) \/ ApCpuinfo(c) \/ ApReport(c)
    \/ ApSeesSyspage(c) \/ ApStartNext(c) \/ ApClearPending(c) \/ ApCleanPending(c)

\* External: a cache may write a dirty line back whenever it likes.
EvictLine ==
    \/ /\ csLine # 0
       /\ cpu_starting' = csLine /\ csLine' = 0
       /\ UNCHANGED <<bspVars, ap, num, dcache, syspage_available, pendingVars>>
    \/ /\ \E c \in pendingLine : CleanLine(c)
       /\ UNCHANGED <<bspVars, ap, num, csVars, syspage_available>>

Next == Bsp \/ EvictLine \/ \E c \in Secondary : Ap(c)

\* A core that is on executes; nothing obliges a cache to write back.
Spec == /\ Init /\ [][Next]_vars
        /\ WF_vars(Bsp) /\ \A c \in Secondary : WF_vars(Ap(c))

-----------------------------------------------------------------------------
(* Properties.                                                             *)

BspPcs == {"init_smp", "hook", "start_aps", "mmu", "psci", "wait_ap", "flags", "alloc", "write",
           "hook2", "transfer_aps", "announce", "wait_pending", "startnext", "kernel", "crashed"}
ApPcs == {"off", "entry", "read", "adjust", "cpuinfo", "report", "available", "startnext",
          "callout", "clean", "parked"}

\* The flags hold CPU numbers; no core ever takes one the page has no room for.
TypeOK ==
    /\ bsp \in BspPcs /\ hook \in {"dummy", "start_aps", "transfer_aps"}
    /\ idx \in 0 .. BoardCpus /\ count \in 0 .. SpinWrap - 1
    /\ numCpu \in 1 .. BoardCpus /\ page \in {"building", "allocated", "written"}
    /\ ap \in [Secondary -> ApPcs] /\ num \in [Secondary -> 0 .. BoardCpus - 1]
    /\ dcache \in BOOLEAN /\ cpu_starting \in 0 .. BoardCpus /\ csLine \in 0 .. BoardCpus
    /\ syspage_available \in 0 .. BoardCpus - 1
    /\ pending \in {0, 1} /\ pendingLine \subseteq Secondary

\* The core uses the stack: from "mov sp" to its report, and in cpu_startnext().
OnStack(c) == ap[c] \in {"read", "adjust", "cpuinfo", "report", "startnext"}
\* It executes code of the system page.
InCallout(c) == ap[c] \in {"callout", "clean", "parked"}
Numbered(c) == ap[c] \notin {"off", "entry", "read"}

\* "All secondary cores use this same stack address and so are serialized"
\* (smp_start.S:52).
StackExclusive == \A c, d \in Secondary : OnStack(c) /\ OnStack(d) => c = d

\* A core that has read its number has the number of the CPU it was switched
\* on as, whatever was still in the boot core's cache (board_mmu_disable()).
OwnNumber ==
    \A c \in Secondary : Numbered(c) => num[c] \in 1 .. numCpu - 1 /\ Affinity[num[c]] = c

\* init_one_cpuinfo() and the boot core never write the page at the same time.
SyspageOneWriter ==
    \A c \in Secondary :
        ap[c] = "cpuinfo" => /\ bsp \in {"wait_ap", "crashed"}
                             /\ \A d \in Secondary \ {c} : ap[d] # "cpuinfo"

\* No core jumps to smp_spin_vaddr before the page it is in has been written.
CalloutInPlace ==
    \A c \in Secondary : ap[c] = "startnext" \/ InCallout(c) => page = "written"

\* When the kernel starts, every CPU of the page has left startup's memory for
\* the callout, and no other core runs (transfer_aps()).
KernelOwnsMachine ==
    bsp = "kernel" =>
        /\ \A i \in 1 .. numCpu - 1 : \E c \in Secondary : InCallout(c) /\ num[c] = i
        /\ \A c \in Secondary : ap[c] = "off" \/ InCallout(c)

\* A zero of smp.pending still in a cache answers the request the boot core
\* is waiting for, so that writing it back never wipes a later one.
NoStaleZero ==
    pendingLine # {} => bsp = "wait_pending" /\ \A c \in pendingLine : num[c] = idx

\* The boot ends: in the kernel, or in a crash.
BootEnds == <>(bsp \in {"kernel", "crashed"})

\* board_smp_start() asks for a core that is there and off ("CPU core start
\* failed" is for firmware that refuses, board_smp.c:88).
StartsFreshCore == bsp = "psci" => CpuOnAllowed(Affinity[idx])

StateOf(i) ==
    IF Affinity[i] \notin Secondary THEN "off"
    ELSE LET p == ap[Affinity[i]] IN
         CASE p = "off" -> "off"
           [] p \in {"entry", "read", "adjust", "cpuinfo", "report"} -> "building"
           [] p = "available" -> "waiting"
           [] p \in {"startnext", "callout"} -> "leaving"
           [] p \in {"clean", "parked"} -> "parked"

Promise == INSTANCE BringUp WITH
    CpuLimit <- BoardCpus,
    n <- numCpu,
    state <- [i \in 1 .. BoardCpus - 1 |-> StateOf(i)],
    page <- IF page = "written" THEN "written" ELSE "building",
    outcome <- IF bsp \in {"kernel", "crashed"} THEN bsp ELSE "booting"

\* Seen from outside, CPUs register and leave one at a time and in order.
ImplementsBringUp == Promise!Spec
=============================================================================
