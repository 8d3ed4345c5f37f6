----------------------------- MODULE SmpHandOff -----------------------------
(***************************************************************************)
(* SmpStartup and SmpSpin composed: a core that has told transfer_aps() it *)
(* is in the callout goes on into the callout's loop, and the kernel, once *)
(* the boot core has entered it, starts the CPUs of the system page.       *)
(***************************************************************************)
EXTENDS SmpStartup

VARIABLES startAddr, pc, x4, monitor, event, starts, shutdown

Spin == INSTANCE SmpSpin WITH Cpus <- Secondary

spinVars == <<startAddr, pc, x4, monitor, event, starts, shutdown>>
allVars == <<vars, spinVars>>

HandOffInit == Init /\ Spin!Init

\* The startup program runs; the callout's loop does not move.
StartupStep == Next /\ UNCHANGED spinVars

\* From "dsb sy" to the loop, in the same callout.
EnterLoop(c) == ap[c] = "parked" /\ Spin!Enter(c) /\ UNCHANGED vars

SpinStep(c) == (Spin!Cpu(c) \/ Spin!LoseMonitor(c)) /\ UNCHANGED vars

\* Slip: the kernel's stores are not held back until the hand-off.
KernelStepEarly ==
    /\ Spin!KernelStart(numCpu - 1) \/ Spin!KernelShutdown
    /\ UNCHANGED vars

\* The kernel starts num_cpu - 1 CPUs, or gives up early.
KernelStep ==
    /\ bsp = "kernel"
    /\ Spin!KernelStart(numCpu - 1) \/ Spin!KernelShutdown
    /\ UNCHANGED vars

HandOffNext ==
    \/ StartupStep
    \/ KernelStep
    \/ \E c \in Secondary : EnterLoop(c) \/ SpinStep(c)

\* A kernel that means to use every CPU: it stores the next address as long as
\* it has not shut the others down.
KernelStarts ==
    bsp = "kernel" /\ Spin!KernelStart(numCpu - 1) /\ UNCHANGED vars

HandOffSpec ==
    /\ HandOffInit /\ [][HandOffNext]_allVars
    /\ WF_allVars(Bsp /\ UNCHANGED spinVars)
    /\ WF_allVars(KernelStarts)
    /\ \A c \in Secondary :
        /\ WF_allVars(Ap(c) /\ UNCHANGED spinVars)
        /\ WF_allVars(EnterLoop(c))
        /\ WF_allVars(Spin!Cpu(c) /\ UNCHANGED vars)
        /\ SF_allVars(Spin!StoreExclusive(c) /\ UNCHANGED vars)

----------------------------------------------------------------------------
\* The callout's variables have their types.
SpinTypeOK == Spin!TypeOK

\* What SmpSpin promises of its loop (see there), here with the real kernel's
\* side: it stores nothing before the hand-off and num_cpu - 1 addresses after.
OnePerAddress == Spin!OnePerAddress
ShutdownKept == Spin!ShutdownKept

\* A shutdown reaches every core that was brought up and not started, sleeping
\* or not; the others were never switched on.
ShutdownReachesAll ==
    shutdown ~> \A c \in Secondary : ap[c] # "off" => pc[c] \in {"kernel", "halt"}

\* A secondary CPU executes kernel code only after the boot core has handed
\* the machine over, and only a CPU the system page lists does.
KernelAfterHandOff ==
    \A c \in Secondary :
        pc[c] = "kernel" =>
            bsp = "kernel" /\ ap[c] = "parked" /\ num[c] \in 1 .. numCpu - 1

\* End to end: a boot that reaches the kernel ends with every CPU of the system
\* page in the kernel, unless the kernel shut the remaining ones down.
EveryCpuArrives ==
    (bsp = "kernel") ~>
        \A i \in 1 .. numCpu - 1 :
            pc[Affinity[i]] \in {"kernel"} \cup (IF shutdown THEN {"halt"} ELSE {})

\* The loop keeps its word on the kernel's side of the hand-off: each address is
\* taken by one CPU, a shut-down is kept until all have it, and none runs the
\* kernel before the machine is handed over.  (callout_smp_spin.S, smp_hand_off())
HandedOverOnce == SpinTypeOK /\ OnePerAddress /\ ShutdownKept /\ KernelAfterHandOff
=============================================================================
