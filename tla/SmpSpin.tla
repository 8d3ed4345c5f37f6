------------------------------- MODULE SmpSpin -------------------------------
(***************************************************************************)
(* The loop of the smp_spin callout: CPUs exchange smp.start_addr for zero *)
(* with a load-exclusive and a store-exclusive and sleep in between; the   *)
(* kernel stores the addresses, or -1 to shut everybody down.              *)
(*                                                                         *)
(* A store opens the monitors that cover the address; a CPU that loses its *)
(* monitor to another's store gets an event; wfe returns at once if there  *)
(* is one.                                                                 *)
(***************************************************************************)
EXTENDS Integers, FiniteSets

CONSTANT Cpus

VARIABLES
    startAddr,   \* smp.start_addr
    pc, x4,      \* of each CPU
    monitor,     \* CPUs whose exclusive monitor is set
    event,       \* CPUs whose event register is set
    starts,      \* addresses the kernel has stored
    shutdown     \* it has stored -1

vars == <<startAddr, pc, x4, monitor, event, starts, shutdown>>

None == "0"
Entry == "entry"
Shutdown == "-1"

Init ==
    /\ startAddr = None
    /\ pc = [c \in Cpus |-> "outside"] /\ x4 = [c \in Cpus |-> None]
    /\ monitor = {} /\ event \in {{}, Cpus}
    /\ starts = 0 /\ shutdown = FALSE

Goes(c, from, to) == pc[c] = from /\ pc' = [pc EXCEPT ![c] = to]

\* External: a store to smp.start_addr.
Store(value) ==
    /\ startAddr' = value
    /\ event' = event \union monitor
    /\ monitor' = {}

Enter(c) ==
    /\ Goes(c, "outside", "load")
    /\ UNCHANGED <<startAddr, x4, monitor, event, starts, shutdown>>

\* Slip: a plain load.
LoadExclusiveForgets(c) ==
    /\ pc[c] = "load"
    /\ x4' = [x4 EXCEPT ![c] = startAddr]
    /\ pc' = [pc EXCEPT ![c] = IF startAddr = None THEN "wfe" ELSE "exchange"]
    /\ UNCHANGED <<startAddr, monitor, event, starts, shutdown>>

\* ldaxr, cbnz
LoadExclusive(c) ==
    /\ pc[c] = "load"
    /\ x4' = [x4 EXCEPT ![c] = startAddr]
    /\ monitor' = monitor \union {c}
    /\ pc' = [pc EXCEPT ![c] = IF startAddr = None THEN "wfe" ELSE "exchange"]
    /\ UNCHANGED <<startAddr, event, starts, shutdown>>

\* wfe, b 0b
WaitForEvent(c) ==
    /\ Goes(c, "wfe", "load")
    /\ c \in event /\ event' = event \ {c}
    /\ UNCHANGED <<startAddr, x4, monitor, starts, shutdown>>

Taken(c) == IF x4[c] = Shutdown THEN "put back" ELSE "kernel"

\* Slip: str instead of stlxr.
StoreExclusivePlain(c) ==
    /\ Goes(c, "exchange", Taken(c))
    /\ Store(None)
    /\ UNCHANGED <<x4, starts, shutdown>>

\* stlxr with its monitor still set, then br x4 unless x4 is -1.
StoreExclusive(c) ==
    /\ c \in monitor
    /\ Goes(c, "exchange", Taken(c))
    /\ startAddr' = None
    /\ event' = event \union (monitor \ {c}) /\ monitor' = {}
    /\ UNCHANGED <<x4, starts, shutdown>>

\* stlxr without it: cbnz w5.
StoreFails(c) ==
    /\ c \notin monitor
    /\ Goes(c, "exchange", "load")
    /\ UNCHANGED <<startAddr, x4, monitor, event, starts, shutdown>>

\* Slip: nobody puts the -1 back.
PutBackOmitted(c) ==
    /\ Goes(c, "put back", "sev")
    /\ UNCHANGED <<startAddr, x4, monitor, event, starts, shutdown>>

\* str x4, [x3]
PutBack(c) ==
    /\ Goes(c, "put back", "sev")
    /\ Store(x4[c])
    /\ UNCHANGED <<x4, starts, shutdown>>

\* sev, and wfi for ever.
SendEvent(c) ==
    /\ Goes(c, "sev", "halt")
    /\ event' = Cpus
    /\ UNCHANGED <<startAddr, x4, monitor, starts, shutdown>>

Cpu(c) ==
    \/ LoadExclusive(c) \/ WaitForEvent(c) \/ StoreExclusive(c) \/ StoreFails(c)
    \/ PutBack(c) \/ SendEvent(c)

\* External: a monitor may be lost for any reason, which is an event too.
LoseMonitor(c) ==
    /\ c \in monitor /\ pc[c] \in {"wfe", "exchange"}
    /\ monitor' = monitor \ {c} /\ event' = event \union {c}
    /\ UNCHANGED <<startAddr, pc, x4, starts, shutdown>>

\* External: the kernel starts its CPUs one after the other, or gives up.
KernelStart(n) ==
    /\ startAddr = None /\ starts < n /\ ~shutdown
    /\ Store(Entry)
    /\ starts' = starts + 1
    /\ UNCHANGED <<pc, x4, shutdown>>

KernelShutdown ==
    /\ startAddr = None /\ ~shutdown
    /\ Store(Shutdown)
    /\ shutdown' = TRUE
    /\ UNCHANGED <<pc, x4, starts>>

-----------------------------------------------------------------------------
Pcs == {"outside", "load", "wfe", "exchange", "put back", "sev", "halt", "kernel"}

\* The variables have their types.
TypeOK ==
    /\ startAddr \in {None, Entry, Shutdown}
    /\ pc \in [Cpus -> Pcs] /\ x4 \in [Cpus -> {None, Entry, Shutdown}]
    /\ monitor \subseteq Cpus /\ event \subseteq Cpus
    /\ starts \in Nat /\ shutdown \in BOOLEAN

\* Each address the kernel stores is taken by one CPU: "only one processor at
\* a time will pick up the address" (callout_smp_spin.S:29).
OnePerAddress ==
    Cardinality({c \in Cpus : pc[c] = "kernel"}) + (IF startAddr = Entry THEN 1 ELSE 0) = starts

\* Once the kernel has asked for a shut-down, the -1 is in memory or in the
\* hands of one CPU that is about to put it back.
ShutdownKept ==
    shutdown => \/ startAddr = Shutdown
                \/ \E c \in Cpus : pc[c] = "put back" /\ x4[c] = Shutdown
=============================================================================
