---------------------------- MODULE CpuRelease ----------------------------
(***************************************************************************)
(* The three ways the library has to start another processor: a PSCI call  *)
(* (psci_smp.c), processors that spin in startup since reset               *)
(* (spin_smp_init.S, spin_smp.c), and processors that spin in the firmware *)
(* on the release address of the device tree (fdt_smp_spin_start.c,        *)
(* spin_shim_rtn.S).  start_aps() starts them one at a time.               *)
(***************************************************************************)
EXTENDS Naturals, FiniteSets

CONSTANTS Methods,      \* of "psci", "spin" and "fdt", one per behaviour
          Cores,        \* the secondary cores
          IdOf,         \* a core's affinity; 0 is the boot processor's
          Trees,        \* device trees; of each cpu node, by index: [id, props]
          PsciNodes     \* their psci nodes: [cpu_on, conduit]

VARIABLES method, tree, psci,
          shared,           \* one release address for all nodes
          todo,             \* what the boot processor does next
          cpu,              \* the processor it starts
          num, counted,     \* spin_num_cpu; what was read of it
          start_addr,       \* spin_start_addr: a processor's index, or 0
          released,         \* cores whose release address holds the shim's
          shim_id,          \* spin_shim_id, as it is in memory
          ev,               \* cores whose event register is set
          pc, index,        \* of each core
          excl,             \* cores that hold the exclusive monitor
          asked, refused    \* starts asked for; a start has failed
spin == <<num, counted, start_addr, index, excl>>
fdt == <<released, shim_id>>
given == <<method, tree, psci, shared>>
vars == <<given, todo, cpu, spin, fdt, ev, pc, asked, refused>>

Become(c, p) == pc' = [pc EXCEPT ![c] = p]
Sev == ev' = Cores
Wfe(c, p) == c \in ev /\ ev' = ev \ {c} /\ Become(c, p)

\* The core a start of processor i means.
Meant(i) == IF method = "spin" THEN {c \in Cores : index[c] = i /\ pc[c] # "stlxr"}
            ELSE {c \in Cores : IdOf[c] = IF method = "fdt" THEN tree[i].id ELSE i}
Running == {c \in Cores : pc[c] = "run"}

-----------------------------------------------------------------------------
(* The boot processor.                                                     *)

spin_smp_num_cpu == num
fdt_num_cpu == Cardinality(DOMAIN tree)

\* init_smp(): the processors are counted once.
Count == /\ todo = "count"
         /\ counted' = (CASE method = "spin" -> spin_smp_num_cpu
                          [] method = "fdt" -> fdt_num_cpu
                          [] method = "psci" -> 1 + Cardinality(Cores))
         /\ todo' = "next" /\ cpu' = 1
         /\ UNCHANGED <<given, num, start_addr, index, excl, fdt, ev, pc, asked, refused>>

\* start_aps(): the next one once this one has answered.
Start == /\ todo = "next" /\ cpu < counted
         /\ asked' = asked \union {cpu} /\ todo' = method
         /\ UNCHANGED <<given, cpu, spin, fdt, ev, pc, refused>>
Answered == /\ todo = "answer" /\ Meant(cpu) \intersect Running # {}
            /\ todo' = "next" /\ cpu' = cpu + 1
            /\ UNCHANGED <<given, spin, fdt, ev, pc, asked, refused>>
Refuse == todo' = "failed" /\ refused' = TRUE

\* A node without "cpu_on" is given up before its method is looked at: the
\* calls go by smc then, with the standard function number.
fdt_psci_configure == IF psci.cpu_on /\ psci.conduit = "hvc" THEN "hvc" ELSE "smc"

\* psci_cpu_id() is the processor's number; the firmware may refuse, and
\* does not hear a call by the other conduit.
psci_smp_start ==
    /\ todo = "psci"
    /\ \/ \E c \in Meant(cpu) :
            pc[c] = "off" /\ fdt_psci_configure = psci.conduit /\ Become(c, "run")
          /\ todo' = "answer" /\ UNCHANGED refused
       \/ Refuse /\ UNCHANGED pc
    /\ UNCHANGED <<given, cpu, spin, fdt, ev, asked>>

\* The index with the address; dsb and sev; the core clears it.
SpinStore == /\ todo = "spin" /\ start_addr' = cpu /\ todo' = "sev"
             /\ UNCHANGED <<given, cpu, num, counted, index, excl, fdt, ev, pc, asked, refused>>
SpinSev == /\ todo = "sev" /\ Sev /\ todo' = "notice"
           /\ UNCHANGED <<given, cpu, spin, fdt, pc, asked, refused>>
SpinNoticed == /\ todo = "notice" /\ start_addr = 0 /\ todo' = "answer"
               /\ UNCHANGED <<given, cpu, spin, fdt, ev, pc, asked, refused>>
spin_smp_start == SpinStore \/ SpinSev \/ SpinNoticed

\* The release address first, the core's id next, each flushed and signalled.
FdtRelease ==
    /\ todo = "fdt"
    /\ IF "release" \notin tree[cpu].props THEN Refuse /\ UNCHANGED <<released, ev>>
       ELSE /\ released' = released \union (IF shared THEN Cores ELSE Meant(cpu))
            /\ Sev /\ todo' = "id" /\ UNCHANGED refused
    /\ UNCHANGED <<given, cpu, spin, shim_id, pc, asked>>
FdtId ==
    /\ todo = "id"
    /\ IF "reg" \notin tree[cpu].props THEN Refuse /\ UNCHANGED <<shim_id, ev>>
       ELSE shim_id' = tree[cpu].id /\ Sev /\ todo' = "answer" /\ UNCHANGED refused
    /\ UNCHANGED <<given, cpu, spin, released, pc, asked>>
fdt_smp_spin_start == FdtRelease \/ FdtId

Boot == Count \/ Start \/ Answered \/ psci_smp_start \/ spin_smp_start \/ fdt_smp_spin_start

-----------------------------------------------------------------------------
(* The cores in spin_smp_init: a count under the exclusive monitor gives   *)
(* each its index.                                                         *)

Ldaxr(c) == /\ pc[c] = "ldaxr" /\ Become(c, "stlxr")
            /\ index' = [index EXCEPT ![c] = num] /\ excl' = excl \union {c}
            /\ UNCHANGED <<given, todo, cpu, num, counted, start_addr, fdt, ev, asked, refused>>
StrAlways(c) == /\ pc[c] = "stlxr" /\ num' = index[c] + 1 /\ Become(c, "wfe") /\ excl' = {}
                /\ UNCHANGED <<given, todo, cpu, counted, start_addr, index, fdt, ev, asked, refused>>
Stlxr(c) == /\ pc[c] = "stlxr"
            /\ IF c \in excl THEN num' = index[c] + 1 /\ Become(c, "wfe") /\ excl' = {}
               ELSE Become(c, "ldaxr") /\ UNCHANGED <<num, excl>>
            /\ UNCHANGED <<given, todo, cpu, counted, start_addr, index, fdt, ev, asked, refused>>
Sleeps(c) == /\ pc[c] = "wfe" /\ Wfe(c, "look")
             /\ UNCHANGED <<given, todo, cpu, spin, fdt, asked, refused>>
Looks(c) == /\ pc[c] = "look" /\ method = "spin"
            /\ Become(c, IF start_addr = index[c] THEN "ack" ELSE "wfe")
            /\ UNCHANGED <<given, todo, cpu, spin, fdt, ev, asked, refused>>
Acknowledges(c) == /\ pc[c] = "ack" /\ start_addr' = 0 /\ Become(c, "run")
                   /\ UNCHANGED <<given, todo, cpu, num, counted, index, excl, fdt, ev, asked, refused>>

\* External: the firmware's loop on the release address.
FwSleeps(c) == /\ pc[c] = "fw wfe" /\ Wfe(c, "fw look")
               /\ UNCHANGED <<given, todo, cpu, spin, fdt, asked, refused>>
FwLooks(c) == /\ pc[c] = "fw look" /\ Become(c, IF c \in released THEN "shim" ELSE "fw wfe")
              /\ UNCHANGED <<given, todo, cpu, spin, fdt, ev, asked, refused>>

\* sevl, so that the first wfe does not sleep: the signal for this core may
\* have come while it was still in the firmware's loop.
ShimAsleep(c) == /\ pc[c] = "shim" /\ Become(c, "wfe")
                 /\ UNCHANGED <<given, todo, cpu, spin, fdt, ev, asked, refused>>
spin_shim_rtn(c) == /\ pc[c] = "shim" /\ ev' = ev \union {c} /\ Become(c, "wfe")
                    /\ UNCHANGED <<given, todo, cpu, spin, fdt, asked, refused>>
ShimLooksAny(c) == /\ pc[c] = "look" /\ method = "fdt" /\ Become(c, "run")
                   /\ UNCHANGED <<given, todo, cpu, spin, fdt, ev, asked, refused>>
ShimLooks(c) == /\ pc[c] = "look" /\ method = "fdt"
                /\ Become(c, IF shim_id = IdOf[c] THEN "run" ELSE "wfe")
                /\ UNCHANGED <<given, todo, cpu, spin, fdt, ev, asked, refused>>

Core(c) == \/ Ldaxr(c) \/ Stlxr(c) \/ Sleeps(c) \/ Looks(c) \/ Acknowledges(c)
           \/ FwSleeps(c) \/ FwLooks(c) \/ spin_shim_rtn(c) \/ ShimLooks(c)

-----------------------------------------------------------------------------
Init == /\ method \in Methods /\ tree \in Trees /\ psci \in PsciNodes
        /\ shared \in (IF method = "fdt" THEN BOOLEAN ELSE {FALSE})
        /\ todo = "count" /\ cpu = 0 /\ num = 1 /\ counted = 0 /\ start_addr = 0
        /\ released = {} /\ shim_id = 0 /\ ev = {}
        /\ pc = [c \in Cores |-> CASE method = "psci" -> "off"
                                   [] method = "spin" -> "ldaxr"
                                   [] method = "fdt" -> "fw wfe"]
        /\ index = [c \in Cores |-> 0] /\ excl = {} /\ asked = {} /\ refused = FALSE
Next == Boot \/ \E c \in Cores : Core(c)

\* Every processor that can go on does; a store-exclusive that keeps losing
\* to another core ends once that core has counted itself.
Spec == Init /\ [][Next]_vars /\ WF_vars(Boot) /\ \A c \in Cores : WF_vars(Core(c))

-----------------------------------------------------------------------------
(* Properties.                                                             *)

\* A core runs smp_start() only when it is the one that was asked for, no
\* two are started for one request, and at most one is on its way.
StartsTheOneAsked ==
    /\ Running \subseteq UNION {Meant(i) : i \in asked}
    /\ Cardinality(Running) <= Cardinality(asked)
    /\ \A i \in asked : i # cpu => Meant(i) \intersect Running # {}

\* Every start that was asked for leads to a running core, unless it is
\* refused: no signal is lost to a core that is not asleep yet.
AskedRuns == \A i \in 1 .. Cardinality(Cores) : []<>(i \in asked => refused \/ Meant(i) \intersect Running # {})
=============================================================================
