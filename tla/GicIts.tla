------------------------------- MODULE GicIts -------------------------------
(***************************************************************************)
(* LPIs through the interrupt translation service: gic_v3_lpi_add_entry(), *)
(* the LPI part of gic_v3_initialize(), gic_v3_its_initialize(), the LPI   *)
(* part of gic_v3_gicc_init() with gic_v3_its_mapc(), and then the mask    *)
(* and unmask callouts of all CPUs, which change a byte of a table that    *)
(* the redistributors cache and queue commands to have it read again.      *)
(* External: the ITS, which executes commands in its own time and may stop *)
(* at one until it is told to retry; the redistributors, which read an     *)
(* entry of the table whenever they like; and the kernel, which masks or   *)
(* unmasks an interrupt on one CPU at a time.  Stores of a CPU reach the   *)
(* ITS in program order.                                                   *)
(***************************************************************************)
EXTENDS Integers, Sequences, FiniteSets, FiniteSetsExt

CONSTANTS
    NumCpu,      \* the CPUs, brought up in this order
    Gicd,        \* GICD_TYPER: LPIS, num_LPIs and IDbits
    Gits,        \* GITS_TYPER and GITS_BASERn: sizes, and the format of RDbase
    Gicr,        \* GICR_TYPER: PLPIS and DirectLPI
    ProcNum,     \* GICR_TYPER.Processor_Number of each CPU's redistributor
    Offered,     \* the entries the board may register, [base, num]
    Slots,       \* the commands the queue has room for
    Tries,       \* polls of CREADR before the assertion fails (255)
    MaxLag,      \* bound: commands the ITS may be behind when a call writes more
    MaxStalls,   \* bound: commands the ITS stops at
    MaxCalls     \* bound: calls of the callouts

Cpus == 0 .. NumCpu - 1
NoRd == -1

ASSUME GicItsAssumption ==
    /\ NumCpu \in Nat \ {0} /\ Slots \in Nat \ {0} /\ Tries \in Nat \ {0}
    /\ MaxLag \in Nat /\ MaxStalls \in Nat /\ MaxCalls \in Nat
    /\ ProcNum \in [Cpus -> Nat]
    /\ Offered \subseteq [base : Nat, num : Nat \ {0}]

\* Nothing in the code makes sure that the commands of a CPU (3) or of a callout
\* (2) find room in the queue of 2048: it relies on an ITS that keeps up.
ASSUME RoomAssumption == Slots > 3 /\ Slots > MaxLag + 2

ARM_GIC_LPI_MIN_IRQ == 8192

gic_v3_num_lpis ==
    IF ~Gicd.lpis THEN 0
    ELSE IF Gicd.num = 0 THEN 2 ^ (Gicd.idbits + 1) - ARM_GIC_LPI_MIN_IRQ
    ELSE 2 ^ (Gicd.num + 1)

\* Where the entries of LPIs are recorded: none yet, with room for 16.
NumElts == 16
lpi_intrinfo == <<>>

uses_ITS == Gicr.plpis /\ ~Gicr.direct

VARIABLES
    boot,        \* where the startup program is
    cpu,         \* the CPU that runs gic_v3_gicc_init()
    entries,     \* lpi_intrinfo
    num_lpis,    \* lpi_params.num_lpis
    polls,       \* loop of gic_v3_its_mapc()
    enabled, quiet, stalled,          \* GITS_CTLR and the Stalled bit
    slots,       \* the memory of the command queue
    cwriter, creader,                 \* slot numbers
    mapped,      \* the collection table: a redistributor for each ICID
    inval,       \* redistributors with an INVALL under way
    cached,      \* LPIs each redistributor takes to be enabled
    on,          \* redistributors with LPIs enabled
    table,       \* indices of the configuration table with the enable bit
    lock, monitor, event,             \* lock word, monitors, event registers
    pc, arg, want,                    \* a CPU in a callout, its LPI, unmask or mask
    x3, k,       \* the slot it writes next and the collection
    calls

bootVars == <<boot, cpu, entries, num_lpis, polls>>
itsVars == <<enabled, quiet, stalled, cwriter, creader, mapped>>
redistVars == <<inval, cached, on>>
lockVars == <<lock, monitor, event>>
callVars == <<pc, arg, want, x3, k, calls>>
vars == <<bootVars, itsVars, slots, redistVars, table, lockVars, callVars>>

NoCmd == [op |-> "none"]
Mapc(icid, rd) == [op |-> "MAPC", icid |-> icid, rd |-> rd]
Sync(rd) == [op |-> "SYNC", rd |-> rd]
Invall(icid) == [op |-> "INVALL", icid |-> icid]

\* The reset value or what firmware has left: perhaps a running ITS.
Init ==
    /\ boot = "config" /\ cpu = 0 /\ entries = lpi_intrinfo /\ num_lpis = 0 /\ polls = 0
    /\ enabled \in BOOLEAN /\ quiet \in (IF enabled THEN {FALSE} ELSE BOOLEAN)
    /\ stalled = FALSE /\ creader = 0 /\ cwriter = 0
    /\ slots = [s \in 0 .. Slots - 1 |-> NoCmd]
    /\ mapped = [i \in Cpus |-> NoRd]
    /\ inval = {} /\ cached = [r \in Cpus |-> {}] /\ on = {} /\ table = {}
    /\ lock = 0 /\ monitor = {} /\ event = {}
    /\ pc = [c \in Cpus |-> "boot"] /\ arg = [c \in Cpus |-> -1]
    /\ want = [c \in Cpus |-> FALSE]
    /\ x3 = [c \in Cpus |-> 0] /\ k = [c \in Cpus |-> 0] /\ calls = 0

----------------------------------------------------------------------------
\* The hardware.

Ring(s) == s % Slots
Lag == Ring(cwriter - creader)

\* A disabled ITS comes to rest.
Quiesce ==
    /\ ~enabled /\ ~quiet /\ quiet' = TRUE
    /\ UNCHANGED <<bootVars, enabled, stalled, cwriter, creader, mapped, slots, redistVars,
                   table, lockVars, callVars>>

\* The ITS executes a command; SYNC waits until what was asked of that
\* redistributor is done.  A command that names none has no effect.
Execute ==
    /\ enabled /\ ~stalled /\ creader # cwriter
    /\ LET cmd == slots[creader]
       IN /\ cmd.op = "SYNC" => cmd.rd \notin inval
          /\ mapped' = IF cmd.op = "MAPC" THEN [mapped EXCEPT ![cmd.icid] = cmd.rd] ELSE mapped
          /\ inval' = inval \cup (IF cmd.op = "INVALL" THEN {mapped[cmd.icid]} \ {NoRd} ELSE {})
    /\ creader' = Ring(creader + 1)
    /\ UNCHANGED <<bootVars, enabled, quiet, stalled, cwriter, slots, cached, on, table,
                   lockVars, callVars>>

\* While a CPU is brought up it may stop at a command.
Stall ==
    /\ boot = "poll" /\ enabled /\ ~stalled /\ creader # cwriter /\ polls < MaxStalls
    /\ stalled' = TRUE
    /\ UNCHANGED <<bootVars, enabled, quiet, cwriter, creader, mapped, slots, redistVars,
                   table, lockVars, callVars>>

\* A redistributor drops what it has cached of the configuration table.
Reload(r) ==
    /\ r \in inval
    /\ inval' = inval \ {r} /\ cached' = [cached EXCEPT ![r] = table]
    /\ UNCHANGED <<bootVars, itsVars, slots, on, table, lockVars, callVars>>

\* A redistributor reads the entry of an LPI, for its own reasons; all LPIs are
\* routed to the collection of CPU 0.
Fetch(r, i) ==
    /\ r \in on /\ r = mapped[0]
    /\ cached' = [cached EXCEPT ![r] = (@ \ {i}) \cup ({i} \cap table)]
    /\ UNCHANGED <<bootVars, itsVars, slots, inval, on, table, lockVars, callVars>>

----------------------------------------------------------------------------
\* The startup program.

LastVector(e) == e.base + e.num - 1
Holds(e, v) == v \in e.base .. LastVector(e)

\* The assertions of gic_v3_lpi_add_entry(), and what it refuses: an overlap,
\* or vectors that are not above all that are there.
AddLpiEntry(e) ==
    /\ boot = "config" /\ Len(entries) < NumElts
    /\ e.base >= ARM_GIC_LPI_MIN_IRQ
    /\ e.base + e.num - ARM_GIC_LPI_MIN_IRQ <= gic_v3_num_lpis
    /\ \A i \in DOMAIN entries :
        /\ ~Holds(entries[i], e.base)
        /\ ~(LastVector(e) >= entries[i].base /\ e.base <= LastVector(entries[i]))
        /\ e.base > LastVector(entries[i])
    /\ num_lpis' = num_lpis + e.num /\ num_lpis' <= gic_v3_num_lpis
    /\ entries' = Append(entries, e)
    /\ UNCHANGED <<boot, cpu, polls, itsVars, slots, redistVars, table, lockVars, callVars>>

BootStep(from, to) ==
    /\ boot = from /\ boot' = to
    /\ UNCHANGED <<entries, num_lpis, lockVars, calls, arg, want, x3, k>>
SetupStep(from, to) ==
    BootStep(from, to) /\ UNCHANGED <<cpu, polls, cached, inval, on, pc>>

\* The configuration table: one byte per registered LPI, enable bit off.  Then
\* gic_v3_its_initialize() disables the ITS; without one the program stops.
ConfigTable ==
    /\ entries # <<>>
    /\ SetupStep("config", IF uses_ITS THEN "quiesce" ELSE "assert")
    /\ table' = {} /\ enabled' = FALSE
    /\ UNCHANGED <<quiet, stalled, slots, cwriter, creader, mapped>>

\* The whole pages of a table of n entries; a BASER has 8 bits for them.
NumPages(n, entry, page) == Max({1, (n * entry) \div page})
Fits(n, entry, page) == NumPages(n, entry, page) <= 256

ASSUME GitsAssumption == Gits.devid_bits < 32 /\ Gits.cid_bits \in 1 .. 16

num_collections == Min({2 ^ Gits.cid_bits, NumCpu})

TableStep(from, to) ==
    SetupStep(from, to) /\ UNCHANGED <<enabled, quiet, stalled, slots, cwriter, creader, table>>

\* Once it is quiescent it gets an empty device table for all device IDs, ...
DeviceTable ==
    /\ quiet
    /\ TableStep("quiesce", IF Fits(2 ^ Gits.devid_bits, Gits.dt_entry, Gits.page)
                            THEN "collections" ELSE "assert")
    /\ UNCHANGED mapped

\* ... and an empty collection table; hardware collections are not supported.
CollectionTable ==
    /\ TableStep("collections", IF Gits.hw_collections = 0 /\ num_collections > 0
                                   /\ Fits(num_collections, Gits.ct_entry, Gits.page)
                                THEN "queue" ELSE "assert")
    /\ mapped' = [i \in Cpus |-> NoRd]

\* An empty queue; a write to CBASER zeroes CREADR.
ItsQueue ==
    /\ SetupStep("queue", "enable")
    /\ slots' = [s \in 0 .. Slots - 1 |-> NoCmd]
    /\ cwriter' = 0 /\ creader' = 0 /\ stalled' = FALSE
    /\ UNCHANGED <<enabled, quiet, mapped, table>>

\* gic_v3_its_mapc() for each CPU: the ITS is enabled, once it is quiescent.
ItsEnable ==
    /\ enabled \/ quiet
    /\ SetupStep("enable", "issue")
    /\ enabled' = TRUE /\ quiet' = FALSE
    /\ UNCHANGED <<stalled, slots, cwriter, creader, mapped, table>>

Icid(c) == c % 2 ^ Gits.cid_bits
MapBatch(c) == <<Mapc(Icid(c), c), Sync(c), Invall(Icid(c))>>

next_cmd_q_slot(s) == (s + 1) % Slots

\* Its three commands, then CWRITER with the Retry bit.
Issue ==
    /\ BootStep("issue", "poll")
    /\ LET s1 == next_cmd_q_slot(cwriter)
           s2 == next_cmd_q_slot(s1)
       IN /\ slots' = [slots EXCEPT ![cwriter] = MapBatch(cpu)[1], ![s1] = MapBatch(cpu)[2],
                                    ![s2] = MapBatch(cpu)[3]]
          /\ cwriter' = next_cmd_q_slot(s2)
    /\ polls' = 0 /\ stalled' = FALSE
    /\ UNCHANGED <<cpu, enabled, quiet, creader, mapped, redistVars, table, pc>>

\* A poll that finds commands left: Retry if the ITS has stalled.  The count
\* of the polls is a byte; when it is 0 again the assertion fails.
Poll ==
    /\ creader # cwriter \/ stalled
    /\ BootStep("poll", IF polls = Tries THEN "assert" ELSE "poll")
    /\ polls' = (polls + 1) % (Tries + 1) /\ stalled' = FALSE
    /\ UNCHANGED <<cpu, enabled, quiet, cwriter, creader, mapped, slots, redistVars, table, pc>>

\* All are executed: the CPU's redistributor may have LPIs, and the next CPU is
\* brought up, or the kernel entered.
EnableLpis ==
    /\ creader = cwriter /\ ~stalled
    /\ BootStep("poll", IF cpu = NumCpu - 1 THEN "kernel" ELSE "enable")
    /\ cpu' = IF cpu = NumCpu - 1 THEN cpu ELSE cpu + 1
    /\ on' = on \cup {cpu}
    /\ pc' = IF cpu = NumCpu - 1 THEN [c \in Cpus |-> "thread"] ELSE pc
    /\ polls' = 0
    /\ UNCHANGED <<itsVars, slots, inval, cached, table>>

StartupStep ==
    ConfigTable \/ DeviceTable \/ CollectionTable \/ ItsQueue \/ ItsEnable \/ Issue \/ Poll \/ EnableLpis

----------------------------------------------------------------------------
\* From INTID to vector and from vector to the byte of the table.

vec_off(e) == e.base - ARM_GIC_LPI_MIN_IRQ

\* The id callout is the same for every entry, so the first one claims all LPIs.
interrupt_id_gic_v3_lpi(intid) ==
    IF intid < ARM_GIC_LPI_MIN_IRQ THEN -1 ELSE intid - ARM_GIC_LPI_MIN_IRQ
VectorOf(intid) == entries[1].base + interrupt_id_gic_v3_lpi(intid)

\* Slip: the offset of the entry is left out.
IndexInEntry(v) ==
    LET e == CHOOSE e \in {entries[i] : i \in DOMAIN entries} : Holds(e, v) IN v - e.base

\* The kernel passes the vector relative to its entry.
IndexOf(v) ==
    LET e == CHOOSE e \in {entries[i] : i \in DOMAIN entries} : Holds(e, v)
    IN (v - e.base) + vec_off(e)

\* The patch data: one collection, and an RDbase of 0 with an increment that
\* does not reach the field.  Redistributors have addresses or numbers.
NumCollections == 1
RDbase == 0
Target(rdbase) ==
    IF ~Gits.pta /\ \E c \in Cpus : ProcNum[c] = rdbase
    THEN CHOOSE c \in Cpus : ProcNum[c] = rdbase ELSE NoRd

Lpis == UNION {e.base .. LastVector(e) : e \in {entries[i] : i \in DOMAIN entries}}

----------------------------------------------------------------------------
\* The callouts.

Callout(c, from, to) ==
    /\ pc[c] = from /\ pc' = [pc EXCEPT ![c] = to]
    /\ UNCHANGED <<bootVars, enabled, quiet, stalled, creader, mapped, redistVars, calls>>

Call(c, v, unmask) ==
    /\ calls < MaxCalls /\ v \in Lpis /\ \A d \in Cpus : arg[d] # v
    /\ pc[c] = "thread" /\ pc' = [pc EXCEPT ![c] = "load"]
    /\ arg' = [arg EXCEPT ![c] = v] /\ want' = [want EXCEPT ![c] = unmask]
    /\ calls' = calls + 1
    /\ UNCHANGED <<bootVars, itsVars, slots, redistVars, table, lockVars, x3, k>>

\* ldaxr: the lock is free, or the CPU waits for an event.
LoadLock(c) ==
    /\ Callout(c, "load", IF lock = 0 THEN "store" ELSE "wfe")
    /\ monitor' = monitor \cup {c}
    /\ UNCHANGED <<cwriter, slots, table, lock, event, arg, want, x3, k>>

Wfe(c) ==
    /\ c \in event /\ Callout(c, "wfe", "load")
    /\ event' = event \ {c}
    /\ UNCHANGED <<cwriter, slots, table, lock, monitor, arg, want, x3, k>>

\* stxr: it fails if another CPU has stored since.
StoreLock(c) ==
    /\ Callout(c, "store", IF c \in monitor THEN "table" ELSE "load")
    /\ IF c \in monitor
       THEN lock' = 1 /\ monitor' = {} /\ event' = event \cup (monitor \ {c})
       ELSE UNCHANGED lockVars
    /\ UNCHANGED <<cwriter, slots, table, arg, want, x3, k>>

\* Change the byte, and read where the queue goes on.  Nothing in the code
\* makes sure that there is room.
EditTable(c) ==
    /\ Lag <= MaxLag /\ Callout(c, "table", "invall")
    /\ table' = IF want[c] THEN table \cup {IndexOf(arg[c])} ELSE table \ {IndexOf(arg[c])}
    /\ x3' = [x3 EXCEPT ![c] = cwriter] /\ k' = [k EXCEPT ![c] = 0]
    /\ UNCHANGED <<cwriter, slots, lockVars, arg, want>>

\* Slip: an offset just past the queue is let through.
PastLate(s) == IF s + 1 > Slots THEN 0 ELSE s + 1

\* Past the last offset the queue goes on at 0.
Past(s) == IF s + 1 > Slots - 1 THEN 0 ELSE s + 1

Write(c, cmd) ==
    /\ slots' = [slots EXCEPT ![x3[c]] = cmd]
    /\ x3' = [x3 EXCEPT ![c] = Past(@)]
    /\ UNCHANGED <<cwriter, table, lockVars, arg, want>>

\* Slip: only the SYNC is queued.
WriteInvallOmitted(c) ==
    /\ Callout(c, "invall", "sync")
    /\ UNCHANGED <<slots, x3, k, cwriter, table, lockVars, arg, want>>

WriteInvall(c) ==
    /\ Callout(c, "invall", "sync") /\ Write(c, Invall(k[c])) /\ UNCHANGED k

WriteSync(c) ==
    /\ Callout(c, "sync", IF k[c] + 1 = NumCollections THEN "cwriter" ELSE "invall")
    /\ Write(c, Sync(Target(RDbase))) /\ k' = [k EXCEPT ![c] = @ + 1]

StoreCwriter(c) ==
    /\ Callout(c, "cwriter", "unlock")
    /\ cwriter' = x3[c]
    /\ UNCHANGED <<slots, table, lockVars, arg, want, x3, k>>

\* Slip: the store releases the lock, but nobody waits with a monitor or is woken.
UnlockQuiet(c) ==
    /\ Callout(c, "unlock", "thread")
    /\ lock' = 0 /\ monitor' = {} /\ arg' = [arg EXCEPT ![c] = -1]
    /\ x3' = [x3 EXCEPT ![c] = 0] /\ k' = [k EXCEPT ![c] = 0]
    /\ UNCHANGED <<cwriter, slots, table, event, want>>

\* stlr, which is an event for those that watch the lock, dsb and sev.
Unlock(c) ==
    /\ Callout(c, "unlock", "thread")
    /\ lock' = 0 /\ monitor' = {} /\ event' = Cpus \ {c}
    /\ arg' = [arg EXCEPT ![c] = -1] /\ want' = [want EXCEPT ![c] = FALSE]
    /\ x3' = [x3 EXCEPT ![c] = 0] /\ k' = [k EXCEPT ![c] = 0]
    /\ UNCHANGED <<cwriter, slots, table>>

Continue(c) ==
    \/ LoadLock(c) \/ Wfe(c) \/ StoreLock(c) \/ EditTable(c) \/ WriteInvall(c)
    \/ WriteSync(c) \/ StoreCwriter(c) \/ Unlock(c)

Next ==
    \/ \E e \in Offered : AddLpiEntry(e)
    \/ StartupStep
    \/ Quiesce \/ Execute \/ Stall
    \/ \E r \in Cpus : Reload(r) \/ \E v \in Lpis : Fetch(r, v - ARM_GIC_LPI_MIN_IRQ)
    \/ \E c \in Cpus : Continue(c) \/ \E v \in Lpis, unmask \in BOOLEAN : Call(c, v, unmask)

\* The CPUs run on, and so do the ITS and the redistributors.
Fairness ==
    /\ WF_vars(StartupStep) /\ WF_vars(Quiesce) /\ WF_vars(Execute)
    /\ \A c \in Cpus : WF_vars(Continue(c)) /\ WF_vars(Reload(c))

Spec == Init /\ [][Next]_vars /\ Fairness

----------------------------------------------------------------------------
\* The ring is a queue: whatever the callouts of the CPUs and the wrap do, the
\* ITS executes what was issued, batch after batch, nothing twice and nothing
\* that was not written.
Queued ==
    IF boot \in {"config", "quiesce", "collections", "queue"} THEN <<>>
    ELSE [i \in 1 .. Lag |-> slots[Ring(creader + i - 1)]]
Commands == INSTANCE CommandQueue WITH
    queue <- Queued,
    Batches <- {MapBatch(c) : c \in Cpus} \cup {<<Invall(0), Sync(Target(RDbase))>>}
ImplementsCommandQueue == Commands!Spec

\* A redistributor acts on a configuration that is not the table's only while
\* a CPU has not got to its commands yet or the ITS has not executed them: the
\* SYNC that ends them is for the redistributor the INVALL was for.
StaleOnlyWhileQueued ==
    \/ boot # "kernel" \/ creader # cwriter
    \/ \E c \in Cpus : pc[c] \in {"invall", "sync", "cwriter"}
    \/ cached[mapped[0]] = table

\* Each LPI the board has registered arrives with its own vector, and masking
\* that vector changes its own byte of the configuration table, inside of it:
\* "we don't necessarily care that the entries are contiguous".
OrderIsEnough ==
    boot = "kernel" => \A v \in Lpis :
        /\ VectorOf(v) = v
        /\ IndexOf(v) = v - ARM_GIC_LPI_MIN_IRQ
        /\ IndexOf(v) < num_lpis

\* They do if the entries are contiguous, however the board has cut them.
Contiguous == \A v \in Lpis : v = ARM_GIC_LPI_MIN_IRQ \/ v - 1 \in Lpis
LpiNumbersAgree == Contiguous => OrderIsEnough

\* A callout returns, whoever holds the lock; and an interrupt that is masked
\* (unmasked) is sooner or later masked (unmasked) for the hardware, too.
TakesEffect ==
    /\ \A c \in Cpus : []<>(pc[c] \in {"boot", "thread"})
    /\ \A i \in 0 .. gic_v3_num_lpis - 1 :
        /\ []<>(boot # "kernel" \/ i \in table \/ i \notin cached[0])
        /\ []<>(boot # "kernel" \/ i \notin table \/ i \in cached[0])

\* The ITS, its redistributors and the table of configurations agree: an LPI has
\* one number for all of them, and a configuration that is not the table's is
\* acted on only while its commands are on their way (gic_v3_its.c, its.c).
TablesAgree == LpiNumbersAgree /\ StaleOnlyWhileQueued
=============================================================================
