----------------------------- MODULE BootProofs -----------------------------
(***************************************************************************)
(* The processors are handed to the kernel at one level and in one mode,   *)
(* whatever the machine has at each, whatever the command line says and    *)
(* however many processors are started; and a boot from UEFI takes only    *)
(* memory the firmware gave, and ends its services before the kernel, for  *)
(* memory maps of any length and any activity of the firmware between two  *)
(* reads of the map.  The system page built on the way stays whole, for    *)
(* any sections, callouts and order in which they are added.               *)
(***************************************************************************)
EXTENDS BootSequence, Uefi, Syspage, NaturalsInduction, WellFoundedInduction, TLAPS

El1Host == {"enabled", "el1-host"}
El2Host == {"enabled", "el2-host"}

\* The processor c as the firmware leaves it, and behind cstart or smp_start.
Off(c) == Processor(machine.el[c])
Entered(c) == Enter(Off(c), machine.has[c])

\* What hypervisor_init() makes of it, with flags that are its own too.
Handed(c) ==
    /\ required = arch_hypervisor_validate_flags(Entered(c), machine.has[c], settings.hyp)
    /\ required # Crash
    /\ cpu[c] = Readied(c, arch_hypervisor_init(Entered(c), required))

Early == {"_main", "main", "options", "hypervisor"}
Late == {"flags", "bootstraps", "late", "secondaries", "print", "kernel"}

BootPhase ==
    /\ phase \in {"entry", "crashed"} \union Early \union Late
    /\ phase = "entry" => cpu[0] = Off(0)
    /\ phase \in Early => cpu[0] = Entered(0)
    /\ phase \in Late => Handed(0)

OtherCpus ==
    /\ phase \in {"entry"} \union Early => \A c \in Cpus \ {0} : cpu[c] = Off(c)
    /\ phase \in Late => \A c \in Cpus \ {0} : cpu[c] = Off(c) \/ Handed(c)

Announced ==
    phase \in {"print", "kernel"} =>
        /\ Waiting = {}
        /\ hypinfo = IF "enabled" \in required THEN {"HYPINFO_ENABLED"} ELSE {}

IInv ==
    /\ machine \in Machines /\ cpu = [c \in Cpus |-> cpu[c]]
    /\ BootPhase /\ OtherCpus /\ Announced

-----------------------------------------------------------------------------
(* One processor.                                                          *)

\* The registers by the names of the model.
Names == {"mmu", "icache", "dcache", "sre", "nonsecure", "hce", "vectors", "hyp vectors",
          "table", "user"}
Processors ==
    [el : 1 .. 3, hcd : BOOLEAN, e2h : BOOLEAN, set : [1 .. 3 -> SUBSET Names],
     mode : {"off", "none", "el1-host", "el2-host"}]

LEMMA ModesDiffer ==
    /\ Crash # {} /\ Crash # El1Host /\ Crash # El2Host
    /\ El1Host # {} /\ El2Host # {} /\ El1Host # El2Host
    /\ "enabled" \in El1Host /\ "enabled" \in El2Host
<1>1. "crash" \in Crash /\ "crash" \notin El1Host /\ "crash" \notin El2Host
  BY DEF Crash, El1Host, El2Host
<1>2. "el1-host" \in El1Host /\ "el1-host" \notin El2Host
  BY DEF El1Host, El2Host
<1>3. "enabled" \in El1Host /\ "enabled" \in El2Host
  BY DEF El1Host, El2Host
<1> QED BY <1>1, <1>2, <1>3

LEMMA FlagsAreModes ==
    ASSUME NEW p, NEW has, NEW options, NEW flags,
           flags = arch_hypervisor_validate_flags(p, has, options)
    PROVE  /\ flags \in {Crash, {}, El1Host, El2Host}
           /\ flags = El2Host => "vhe" \in has
           /\ flags \in {El1Host, El2Host} => p.el # 1
<1>1. flags = IF options = {"invalid"} THEN Crash
              ELSE IF p.el = 1 THEN IF "enabled" \in options THEN Crash ELSE {}
              ELSE IF "enabled" \notin options THEN {}
              ELSE IF "el2-host" \in options /\ "vhe" \notin has THEN Crash
              ELSE IF "el1-host" \in options \/ "vhe" \notin has THEN El1Host
              ELSE El2Host
  BY Zenon DEF arch_hypervisor_validate_flags, El1Host, El2Host
<1> QED BY <1>1, ModesDiffer

LEMMA LevelsDiffer == 1 # 2
OBVIOUS

\* What is read back of registers that have one level's written.
LEMMA LevelWritten ==
    ASSUME NEW f \in [1 .. 3 -> SUBSET Names], NEW s
    PROVE  [f EXCEPT ![2] = s][1] = f[1] /\ [f EXCEPT ![2] = s][2] = s
<1>1. 1 \in DOMAIN f /\ 2 \in DOMAIN f
  OBVIOUS
<1> QED BY <1>1, LevelsDiffer

LEMMA ProcessorType == ASSUME NEW el \in 1 .. 3 PROVE Processor(el) \in Processors
<1>1. [level \in 1 .. 3 |-> {}] \in [1 .. 3 -> SUBSET Names]
  OBVIOUS
<1> QED BY <1>1 DEF Processor, Processors

\* A register of one level is written.
LEMMA SetType ==
    ASSUME NEW p \in Processors, NEW level \in 1 .. 3, NEW s \in SUBSET Names
    PROVE  [p EXCEPT !.set[level] = s] \in Processors
<1>1. [p.set EXCEPT ![level] = s] \in [1 .. 3 -> SUBSET Names]
  BY DEF Processors
<1> QED BY <1>1 DEF Processors

LEMMA MsrType ==
    ASSUME NEW p \in Processors, NEW what \in Names
    PROVE  /\ Msr(p, what) \in Processors
           /\ Msr(p, what).set[Reached(p)] = p.set[Reached(p)] \union {what}
           /\ \A level \in (1 .. 3) \ {Reached(p)} : Msr(p, what).set[level] = p.set[level]
           /\ Msr(p, what).el = p.el /\ Msr(p, what).hcd = p.hcd
           /\ Msr(p, what).e2h = p.e2h /\ Msr(p, what).mode = p.mode
           /\ Reached(Msr(p, what)) = Reached(p)
<1>1. Reached(p) \in 1 .. 3
  BY DEF Reached
<1>2. p.set \in [1 .. 3 -> SUBSET Names]
  BY DEF Processors
<1>3. Msr(p, what) \in Processors
  <2>1. p.set[Reached(p)] \union {what} \in SUBSET Names
    BY <1>1, <1>2
  <2> QED BY <1>1, <2>1, SetType DEF Msr
<1>4. Msr(p, what).set = [p.set EXCEPT ![Reached(p)] = @ \union {what}]
  BY DEF Msr, Processors
<1>5. /\ Msr(p, what).el = p.el /\ Msr(p, what).hcd = p.hcd
      /\ Msr(p, what).e2h = p.e2h /\ Msr(p, what).mode = p.mode
  BY DEF Msr, Processors
<1>6. Reached(Msr(p, what)) = Reached(p)
  BY <1>5 DEF Reached
<1> QED BY <1>1, <1>2, <1>3, <1>4, <1>5, <1>6

LEMMA El2Type ==
    ASSUME NEW p \in Processors, NEW has
    PROVE  /\ at_el2(p, has) \in Processors
           /\ at_el2(p, has).el = 2 /\ at_el2(p, has).e2h = FALSE /\ at_el2(p, has).hcd = TRUE
           /\ at_el2(p, has).mode = p.mode
           /\ at_el2(p, has).set[1] = p.set[1]
           /\ at_el2(p, has).set[2] = (p.set[2] \ {"mmu", "icache", "dcache"})
                                      \union (IF "gic" \in has THEN {"sre"} ELSE {})
<1>1. p.set \in [1 .. 3 -> SUBSET Names]
  BY DEF Processors
<1> DEFINE s == (p.set[2] \ {"mmu", "icache", "dcache"}) \union (IF "gic" \in has THEN {"sre"} ELSE {})
<1>2. s \in SUBSET Names
  <2>1. p.set[2] \in SUBSET Names
    BY <1>1
  <2>2. (p.set[2] \ {"mmu", "icache", "dcache"}) \in SUBSET Names
    BY <2>1
  <2>3. {"sre"} \in SUBSET Names
    BY DEF Names
  <2>4. (IF "gic" \in has THEN {"sre"} ELSE {}) \in SUBSET Names
    BY <2>3
  <2> QED BY <2>2, <2>4
<1>3. at_el2(p, has) = [p EXCEPT !.el = 2, !.e2h = FALSE, !.hcd = TRUE, !.set[2] = s]
  BY DEF at_el2
<1> HIDE DEF s
<1>4. [p.set EXCEPT ![2] = s] \in [1 .. 3 -> SUBSET Names]
  BY <1>1, <1>2
<1>5. at_el2(p, has) = [el |-> 2, hcd |-> TRUE, e2h |-> FALSE, set |-> [p.set EXCEPT ![2] = s],
                        mode |-> p.mode]
  BY <1>3 DEF Processors
<1> QED BY <1>1, <1>4, <1>5 DEF Processors, s

\* What cstart and smp_start leave, whatever level they were entered at: no
\* mode yet, no host mode, the MMU and the traps not yet set up, and HVC off
\* wherever the program has been at level 2.
Fresh(q, has, el) ==
    /\ q \in Processors /\ q.el \in {1, 2} /\ q.e2h = FALSE /\ q.mode = "off"
    /\ "mmu" \notin q.set[1] /\ "hyp vectors" \notin q.set[2]
    /\ q.el = 2 => "mmu" \notin q.set[2]
    /\ el # 1 /\ "el2" \in has => q.hcd = TRUE
    /\ q.el = 2 /\ "gic" \in has => "sre" \in q.set[2]

\* Level 2 as the firmware left it, taken over.
LEMMA El2Fresh ==
    ASSUME NEW p \in Processors, NEW has, NEW el \in {2, 3},
           p.mode = "off", p.set[1] = {}, p.set[2] = {}
    PROVE  Fresh(at_el2(p, has), has, el)
<1> DEFINE q == at_el2(p, has)
<1>1. /\ q \in Processors /\ q.el = 2 /\ q.e2h = FALSE /\ q.hcd = TRUE /\ q.mode = "off"
      /\ q.set[1] = {} /\ q.set[2] = IF "gic" \in has THEN {"sre"} ELSE {}
  <2>1. ({} \ {"mmu", "icache", "dcache"}) \union (IF "gic" \in has THEN {"sre"} ELSE {})
            = IF "gic" \in has THEN {"sre"} ELSE {}
    OBVIOUS
  <2>2. q.set[2] = (p.set[2] \ {"mmu", "icache", "dcache"})
                   \union (IF "gic" \in has THEN {"sre"} ELSE {})
    BY El2Type, Zenon
  <2>3. q.set[2] = IF "gic" \in has THEN {"sre"} ELSE {}
    BY <2>1, <2>2
  <2>4. /\ q \in Processors /\ q.el = 2 /\ q.e2h = FALSE /\ q.hcd = TRUE /\ q.mode = p.mode
        /\ q.set[1] = p.set[1]
    BY El2Type, ZenonT(40)
  <2> HIDE DEF q
  <2> QED BY <2>3, <2>4
<1> HIDE DEF q
<1>2. "mmu" \notin q.set[1] /\ "mmu" \notin q.set[2] /\ "hyp vectors" \notin q.set[2]
  BY <1>1
<1>3. "gic" \in has => "sre" \in q.set[2]
  BY <1>1
<1>4. el # 1
  OBVIOUS
<1>5. Fresh(q, has, el)
  BY <1>1, <1>2, <1>3, <1>4 DEF Fresh
<1> QED BY <1>5 DEF q

LEMMA EnteredFacts ==
    ASSUME NEW el \in 1 .. 3, NEW has
    PROVE  Fresh(Enter(Processor(el), has), has, el)
<1> DEFINE p == Processor(el)
           q == start_el2_or_el1(p, has)
<1>1. /\ p \in Processors /\ p.el = el /\ p.e2h = FALSE /\ p.mode = "off" /\ p.hcd = FALSE
      /\ \A level \in 1 .. 3 : p.set[level] = {}
  BY ProcessorType DEF Processor
<1> HIDE DEF p
<1>2. Fresh(q, has, el)
  <2>1. CASE el = 1
    <3>1. q = p
      BY <1>1, <2>1 DEF start_el2_or_el1
    <3>2. p.set[1] = {} /\ p.set[2] = {}
      BY <1>1
    <3> HIDE DEF q
    <3>3. "mmu" \notin q.set[1] /\ "hyp vectors" \notin q.set[2] /\ q.el = 1
      BY <1>1, <2>1, <3>1, <3>2
    <3>4. q \in Processors /\ q.e2h = FALSE /\ q.mode = "off"
      BY <1>1, <3>1
    <3>5. q.el \in {1, 2} /\ q.el # 2
      <4>1. 1 \in {1, 2} /\ 1 # 2
        OBVIOUS
      <4>2. q.el = 1
        BY <3>3
      <4> QED BY <4>1, <4>2, Zenon
    <3> QED BY <2>1, <3>3, <3>4, <3>5 DEF Fresh
  <2>2. CASE el = 2
    <3>1. q = at_el2(p, has)
      BY <1>1, <2>2 DEF start_el2_or_el1
    <3> QED BY <1>1, <2>2, <3>1, El2Fresh
  <2>3. CASE el = 3
    <3> DEFINE s == p.set[3] \union {"nonsecure", "hce"} \union
                    (IF "gic" \in has THEN {"sre"} ELSE {})
               r == [p EXCEPT !.set[3] = s]
    <3>1. q = IF "el2" \in has THEN at_el2(r, has) ELSE [r EXCEPT !.el = 1]
      BY <1>1, <2>3 DEF start_el2_or_el1, at_el3
    <3>2. s \in SUBSET Names
      <4>1. {"nonsecure", "hce"} \in SUBSET Names /\ {"sre"} \in SUBSET Names
        BY DEF Names
      <4>2. (IF "gic" \in has THEN {"sre"} ELSE {}) \in SUBSET Names
        BY <4>1
      <4> QED BY <1>1, <4>1, <4>2
    <3> HIDE DEF s
    <3>3. r \in Processors
      BY <1>1, <3>2, SetType
    <3>4. /\ r.el = 3 /\ r.e2h = FALSE /\ r.mode = "off" /\ r.hcd = FALSE
          /\ r.set[1] = {} /\ r.set[2] = {}
      BY <1>1, <2>3 DEF Processors
    <3> HIDE DEF r
    <3>5. CASE "el2" \in has
      BY <2>3, <3>1, <3>3, <3>4, <3>5, El2Fresh
    <3>6. CASE "el2" \notin has
      <4>1. q = [r EXCEPT !.el = 1]
        BY <3>1, <3>6
      <4>2. /\ q \in Processors /\ q.el = 1 /\ q.e2h = FALSE /\ q.mode = "off"
            /\ q.set[1] = {} /\ q.set[2] = {}
        BY <3>3, <3>4, <4>1 DEF Processors
      <4> QED BY <2>3, <3>6, <4>2 DEF Fresh
    <3> QED BY <3>5, <3>6
  <2> QED BY <2>1, <2>2, <2>3
<1>3. Enter(p, has) = Msr(q, "vectors")
  BY DEF Enter, DefaultVectors
<1> HIDE DEF q
<1>4. "vectors" \in Names
  BY DEF Names
<1>5. q.set \in [1 .. 3 -> SUBSET Names] /\ Reached(q) = 1
  BY <1>2 DEF Fresh, Processors, Reached
<1>6. q \in Processors
  BY <1>2 DEF Fresh
<1> DEFINE e == Msr(q, "vectors")
<1>7. /\ e \in Processors /\ e.el = q.el /\ e.hcd = q.hcd /\ e.e2h = q.e2h /\ e.mode = q.mode
      /\ e.set[1] = q.set[1] \union {"vectors"} /\ e.set[2] = q.set[2]
  <2>1. 2 \in (1 .. 3) \ {1}
    OBVIOUS
  <2> QED BY <1>4, <1>5, <1>6, <2>1, MsrType
<1> HIDE DEF e
<1>8. Fresh(e, has, el)
  BY <1>2, <1>7 DEF Fresh
<1> QED BY <1>3, <1>8 DEF p, e

\* Registers of the level in force are written, and nothing else changes.
OwnRegisters == {"table", "mmu", "icache", "dcache", "user"}
Grows(p, q) ==
    /\ p \in Processors /\ q \in Processors
    /\ q.el = p.el /\ q.hcd = p.hcd /\ q.e2h = p.e2h /\ q.mode = p.mode
    /\ \A level \in 1 .. 3 : /\ p.set[level] \subseteq q.set[level]
                             /\ q.set[level] \subseteq p.set[level] \union OwnRegisters

LEMMA MsrGrows ==
    ASSUME NEW p \in Processors, NEW what \in OwnRegisters
    PROVE  /\ Grows(p, Msr(p, what))
           /\ Reached(Msr(p, what)) = Reached(p) /\ Reached(p) \in 1 .. 3
           /\ what \in Msr(p, what).set[Reached(p)]
<1>1. what \in Names
  BY DEF OwnRegisters, Names
<1>2. Reached(p) \in 1 .. 3
  BY DEF Reached
<1> DEFINE q == Msr(p, what)
<1>3. /\ q \in Processors /\ Reached(q) = Reached(p)
      /\ q.el = p.el /\ q.hcd = p.hcd /\ q.e2h = p.e2h /\ q.mode = p.mode
      /\ q.set[Reached(p)] = p.set[Reached(p)] \union {what}
      /\ \A level \in (1 .. 3) \ {Reached(p)} : q.set[level] = p.set[level]
  BY <1>1, MsrType, Zenon
<1> HIDE DEF q
<1>4. ASSUME NEW level \in 1 .. 3
      PROVE  /\ p.set[level] \subseteq q.set[level]
             /\ q.set[level] \subseteq p.set[level] \union OwnRegisters
  <2>1. CASE level = Reached(p)
    BY <1>3, <2>1
  <2>2. CASE level # Reached(p)
    BY <1>3, <2>2
  <2> QED BY <2>1, <2>2
<1>5. Grows(p, q)
  BY <1>3, <1>4 DEF Grows
<1>6. what \in q.set[Reached(p)]
  BY <1>3
<1> QED BY <1>2, <1>3, <1>5, <1>6 DEF q

LEMMA GrowsOn ==
    ASSUME NEW p, NEW q, NEW s, Grows(p, q), Grows(q, s)
    PROVE  Grows(p, s) /\ Reached(q) = Reached(p)
<1>1. ASSUME NEW level \in 1 .. 3
      PROVE  /\ p.set[level] \subseteq s.set[level]
             /\ s.set[level] \subseteq p.set[level] \union OwnRegisters
  <2>1. /\ p.set[level] \subseteq q.set[level] /\ q.set[level] \subseteq s.set[level]
        /\ q.set[level] \subseteq p.set[level] \union OwnRegisters
        /\ s.set[level] \subseteq q.set[level] \union OwnRegisters
    BY DEF Grows
  <2> QED BY <2>1
<1> QED BY <1>1 DEF Grows, Reached

\* board_mmu_enable() on a level whose MMU is off.
LEMMA MmuComesOn ==
    ASSUME NEW p \in Processors, "mmu" \notin p.set[Reached(p)]
    PROVE  /\ Grows(p, board_mmu_enable(p))
           /\ Reached(p) \in 1 .. 3
           /\ {"table", "mmu", "dcache"} \subseteq board_mmu_enable(p).set[Reached(p)]
<1> DEFINE t == Msr(p, "table")
           m == Msr(t, "mmu")
           i == Msr(m, "icache")
           d == Msr(i, "dcache")
           l == Reached(p)
<1>1. board_mmu_enable(p) = d
  BY DEF board_mmu_enable, aarch64_enable_mmu, aarch64_icache_enable, aarch64_dcache_enable
<1>2. {"table", "mmu", "icache", "dcache"} \subseteq OwnRegisters
  BY DEF OwnRegisters
<1>3. Grows(p, t) /\ Reached(t) = l /\ "table" \in t.set[l] /\ l \in 1 .. 3
  BY <1>2, MsrGrows
<1> HIDE DEF t
<1>4. Grows(t, m) /\ Reached(m) = l /\ "mmu" \in m.set[l]
  <2>1. t \in Processors
    BY <1>3 DEF Grows
  <2> HIDE DEF l
  <2> QED BY <1>2, <1>3, <2>1, MsrGrows
<1> HIDE DEF m
<1>5. Grows(m, i) /\ Reached(i) = l
  <2>1. m \in Processors
    BY <1>4 DEF Grows
  <2> HIDE DEF l
  <2> QED BY <1>2, <1>4, <2>1, MsrGrows
<1> HIDE DEF i
<1>6. Grows(i, d) /\ "dcache" \in d.set[l]
  <2>1. i \in Processors
    BY <1>5 DEF Grows
  <2> HIDE DEF l
  <2> QED BY <1>2, <1>5, <2>1, MsrGrows
<1> HIDE DEF d, l
<1>7. Grows(t, d) /\ Grows(m, d)
  BY <1>4, <1>5, <1>6, GrowsOn
<1>8. "table" \in d.set[l] /\ "mmu" \in d.set[l]
  BY <1>3, <1>4, <1>7 DEF Grows
<1>9. Grows(p, d)
  BY <1>3, <1>7, GrowsOn
<1> QED BY <1>1, <1>3, <1>6, <1>8, <1>9 DEF l

LEMMA ReadiedFacts ==
    ASSUME NEW p \in Processors, NEW c, "mmu" \notin p.set[Reached(p)]
    PROVE  /\ Grows(p, Readied(c, p))
           /\ Reached(p) \in 1 .. 3
           /\ "user" \in Readied(c, p).set[Reached(p)]
           /\ c = 0 => {"table", "mmu", "dcache"} \subseteq Readied(c, p).set[Reached(p)]
<1> DEFINE b == IF c = 0 THEN board_mmu_enable(p) ELSE p
           u == Msr(b, "user")
           l == Reached(p)
<1>1. Grows(p, p)
  BY DEF Grows
<1>2. /\ Grows(p, b) /\ l \in 1 .. 3
      /\ c = 0 => {"table", "mmu", "dcache"} \subseteq b.set[l]
  BY <1>1, MmuComesOn
<1> HIDE DEF b, l
<1>3. b \in Processors /\ Reached(b) = l
  BY <1>2 DEF Grows, Reached, l
<1>4. "user" \in OwnRegisters
  BY DEF OwnRegisters
<1>5. Grows(b, u) /\ "user" \in u.set[l]
  BY <1>3, <1>4, MsrGrows
<1>6. Readied(c, p) = u
  BY DEF Readied, UserAccess, b
<1> HIDE DEF u
<1>7. Grows(p, u)
  BY <1>2, <1>5, GrowsOn
<1>8. b.set[l] \subseteq u.set[l]
  BY <1>2, <1>5 DEF Grows
<1> QED BY <1>2, <1>5, <1>6, <1>7, <1>8 DEF l

\* A processor as the flags have it.
ModeOf(h, has, el, flags) ==
    /\ h \in Processors
    /\ h.el = IF flags = El2Host THEN 2 ELSE 1
    /\ h.e2h = (flags = El2Host)
    /\ h.mode # "off" /\ (h.mode \in {"el1-host", "el2-host"} <=> flags # {})
    /\ el # 1 /\ "el2" \in has /\ h.el = 1 => (~h.hcd <=> "hyp vectors" \in h.set[2])
    /\ h.el = 2 /\ "gic" \in has => "sre" \in h.set[2]

LEMMA ModeFacts ==
    ASSUME NEW q, NEW has, NEW el, NEW flags \in {{}, El1Host, El2Host},
           Fresh(q, has, el), flags # {} => q.el # 1
    PROVE  /\ ModeOf(arch_hypervisor_init(q, flags), has, el, flags)
           /\ LET h == arch_hypervisor_init(q, flags) IN "mmu" \notin h.set[Reached(h)]
<1> DEFINE h == arch_hypervisor_init(q, flags)
<1>1. /\ q \in Processors /\ q.el \in {1, 2} /\ q.e2h = FALSE
      /\ q.set \in [1 .. 3 -> SUBSET Names]
  BY DEF Fresh, Processors
<1>2. h = CASE flags = {} -> [(IF q.el # 1 THEN drop_to_el1(q) ELSE q) EXCEPT !.mode = "none"]
            [] flags = El2Host -> [hyp_enable_el2_host(q) EXCEPT !.mode = "el2-host"]
            [] flags = El1Host -> [drop_to_el1(hyp_enable_el1_host(q)) EXCEPT !.mode = "el1-host"]
  BY Zenon DEF arch_hypervisor_init, El1Host, El2Host
<1>3. CASE flags = {}
  <2>1. h = [(IF q.el # 1 THEN drop_to_el1(q) ELSE q) EXCEPT !.mode = "none"]
    BY <1>2, <1>3, ModesDiffer
  <2> HIDE DEF h
  <2>2. /\ h \in Processors /\ h.el = 1 /\ h.e2h = FALSE /\ h.mode = "none"
        /\ h.hcd = q.hcd /\ h.set = q.set
    BY <1>1, <2>1 DEF drop_to_el1, Processors
  <2>3. flags # El2Host
    BY <1>3, ModesDiffer
  <2>4. Reached(h) = 1
    BY <2>2 DEF Reached
  <2>5. ModeOf(h, has, el, flags)
    <3>1. h.el # 2
      BY <2>2, LevelsDiffer
    <3>2. el # 1 /\ "el2" \in has => (~h.hcd <=> "hyp vectors" \in h.set[2])
      BY <2>2 DEF Fresh
    <3>3. h.mode # "off" /\ (h.mode \in {"el1-host", "el2-host"} <=> flags # {})
      BY <1>3, <2>2
    <3> QED BY <2>2, <2>3, <3>1, <3>2, <3>3 DEF ModeOf
  <2> QED BY <2>2, <2>4, <2>5 DEF Fresh, h
<1>4. CASE flags = El2Host
  <2>1. h = [hyp_enable_el2_host(q) EXCEPT !.mode = "el2-host"]
    BY <1>2, <1>4, ModesDiffer
  <2> HIDE DEF h
  <2>2. q.el = 2
    BY <1>1, <1>4, ModesDiffer
  <2>3. /\ h \in Processors /\ h.el = 2 /\ h.e2h = TRUE /\ h.mode = "el2-host"
        /\ h.set = q.set
    BY <1>1, <2>1, <2>2 DEF hyp_enable_el2_host, Processors
  <2>4. Reached(h) = 2
    BY <2>3 DEF Reached
  <2>5. ModeOf(h, has, el, flags)
    <3>1. h.el # 1 /\ flags # {}
      BY <1>4, <2>3, ModesDiffer
    <3>2. "gic" \in has => "sre" \in h.set[2]
      BY <2>2, <2>3 DEF Fresh
    <3> QED BY <1>4, <2>3, <3>1, <3>2 DEF ModeOf
  <2> QED BY <2>2, <2>3, <2>4, <2>5 DEF Fresh, h
<1>5. CASE flags = El1Host
  <2>1. h = [drop_to_el1(hyp_enable_el1_host(q)) EXCEPT !.mode = "el1-host"]
    BY <1>2, <1>5, ModesDiffer
  <2> HIDE DEF h
  <2> DEFINE s == q.set[2] \union {"hyp vectors"}
  <2>2. [q.set EXCEPT ![2] = s] \in [1 .. 3 -> SUBSET Names]
    <3>1. s \in SUBSET Names
      <4>1. "hyp vectors" \in Names
        BY DEF Names
      <4>2. q.set[2] \in SUBSET Names
        BY <1>1
      <4> QED BY <4>1, <4>2
    <3> HIDE DEF s
    <3> QED BY <1>1, <3>1
  <2>3. h = [el |-> 1, hcd |-> FALSE, e2h |-> FALSE, set |-> [q.set EXCEPT ![2] = s],
             mode |-> "el1-host"]
    BY <1>1, <2>1 DEF drop_to_el1, hyp_enable_el1_host, Processors
  <2>4. /\ h \in Processors /\ h.el = 1 /\ h.e2h = FALSE /\ h.mode = "el1-host" /\ h.hcd = FALSE
        /\ h.set[1] = q.set[1] /\ "hyp vectors" \in h.set[2]
    <3>1. [q.set EXCEPT ![2] = s][1] = q.set[1] /\ [q.set EXCEPT ![2] = s][2] = s
      <4> HIDE DEF s
      <4> QED BY <1>1, LevelWritten
    <3>2. "hyp vectors" \in s
      OBVIOUS
    <3>3. h \in Processors
      <4> HIDE DEF s
      <4> QED BY <2>2, <2>3 DEF Processors
    <3>4. /\ h.el = 1 /\ h.hcd = FALSE /\ h.e2h = FALSE /\ h.mode = "el1-host"
          /\ h.set = [q.set EXCEPT ![2] = s]
      <4> HIDE DEF s
      <4> QED BY <2>3
    <3>5. h.set[1] = q.set[1] /\ "hyp vectors" \in h.set[2]
      <4> HIDE DEF s
      <4> QED BY <3>1, <3>2, <3>4
    <3> QED BY <3>3, <3>4, <3>5
  <2>5. Reached(h) = 1
    BY <2>4 DEF Reached
  <2>6. ModeOf(h, has, el, flags)
    <3>1. h.el # 2
      BY <2>4, LevelsDiffer
    <3>2. flags # El2Host /\ flags # {}
      BY <1>5, ModesDiffer
    <3>3. ~h.hcd <=> "hyp vectors" \in h.set[2]
      BY <2>4
    <3> QED BY <2>4, <3>1, <3>2, <3>3 DEF ModeOf
  <2> QED BY <2>4, <2>5, <2>6 DEF Fresh, h
<1> QED BY <1>3, <1>4, <1>5

\* What the kernel needs of a processor.
Ready(c, q, has, el, flags) ==
    /\ ModeOf(q, has, el, flags)
    /\ InForce(q, "user")
    /\ c = 0 => InForce(q, "mmu") /\ InForce(q, "table") /\ InForce(q, "dcache")

LEMMA ReadyFacts ==
    ASSUME NEW h, NEW c, NEW has, NEW el, NEW flags, ModeOf(h, has, el, flags),
           "mmu" \notin h.set[Reached(h)]
    PROVE  Ready(c, Readied(c, h), has, el, flags)
<1> DEFINE q == Readied(c, h)
           l == Reached(h)
<1>1. h \in Processors
  BY DEF ModeOf
<1>2. /\ Grows(h, q) /\ l \in 1 .. 3 /\ "user" \in q.set[l]
      /\ c = 0 => {"table", "mmu", "dcache"} \subseteq q.set[l]
  BY <1>1, ReadiedFacts
<1> HIDE DEF q
<1>3. /\ q \in Processors /\ q.el = h.el /\ q.hcd = h.hcd /\ q.e2h = h.e2h /\ q.mode = h.mode
      /\ h.set[2] \subseteq q.set[2] /\ q.set[2] \subseteq h.set[2] \union OwnRegisters
  BY <1>2 DEF Grows
<1>4. "hyp vectors" \in q.set[2] <=> "hyp vectors" \in h.set[2]
  <2>1. "hyp vectors" \notin OwnRegisters
    BY DEF OwnRegisters
  <2> QED BY <1>3, <2>1
<1>5. ModeOf(q, has, el, flags)
  BY <1>3, <1>4 DEF ModeOf
<1>6. l = IF q.el = 2 THEN 2 ELSE 1
  <2>1. CASE flags = El2Host
    BY <1>3, <2>1 DEF ModeOf, Reached
  <2>2. CASE flags # El2Host
    BY <1>3, <2>2 DEF ModeOf, Reached
  <2> QED BY <2>1, <2>2
<1> HIDE DEF l
<1>7. InForce(q, "user")
  BY <1>2, <1>6 DEF InForce
<1>8. c = 0 => InForce(q, "mmu") /\ InForce(q, "table") /\ InForce(q, "dcache")
  BY <1>2, <1>6 DEF InForce
<1>9. Ready(c, q, has, el, flags)
  BY <1>5, <1>7, <1>8 DEF Ready
<1> QED BY <1>9 DEF q

LEMMA HandedIsReady ==
    ASSUME BootAssumption, machine \in Machines, NEW c \in Cpus, Handed(c)
    PROVE  /\ Ready(c, cpu[c], machine.has[c], machine.el[c], required)
           /\ required \in {{}, El1Host, El2Host}
           /\ required = El2Host => "vhe" \in machine.has[c]
<1> DEFINE has == machine.has[c]
           el == machine.el[c]
           p == Entered(c)
           h == arch_hypervisor_init(p, required)
<1>1. el \in 1 .. 3
  BY DEF BootAssumption
<1>2. Fresh(p, has, el)
  BY <1>1, EnteredFacts DEF Entered, Off
<1> HIDE DEF p, has, el
<1>3. required = arch_hypervisor_validate_flags(p, has, settings.hyp) /\ required # Crash
  BY DEF Handed, p, has
<1>4. /\ required \in {{}, El1Host, El2Host}
      /\ required = El2Host => "vhe" \in has
      /\ required # {} => p.el # 1
  BY <1>3, FlagsAreModes
<1>5. ModeOf(h, has, el, required) /\ "mmu" \notin h.set[Reached(h)]
  BY <1>2, <1>4, ModeFacts
<1>6. cpu[c] = Readied(c, h)
  BY DEF Handed, p
<1> HIDE DEF h
<1>7. Ready(c, cpu[c], has, el, required)
  BY <1>5, <1>6, ReadyFacts
<1> QED BY <1>4, <1>7 DEF has, el

LEMMA HandedHasMode ==
    ASSUME BootAssumption, machine \in Machines, NEW c \in Cpus, Handed(c)
    PROVE  cpu[c].mode # "off"
BY HandedIsReady DEF Ready, ModeOf

LEMMA OffIsOff == ASSUME NEW c PROVE Off(c).mode = "off"
BY DEF Off, Processor

-----------------------------------------------------------------------------
(* The boot.                                                               *)

LEMMA LeastNat ==
    ASSUME NEW S, S \subseteq Nat, S # {}
    PROVE  \E n \in S : \A m \in S : n <= m
<1>1. IsWellFoundedOn(OpToRel(<, Nat), Nat)
  BY NatLessThanWellFounded
<1>2. PICK n \in S : \A m \in S : ~(<<m, n>> \in OpToRel(<, Nat))
  BY <1>1, WFMin
<1>3. ASSUME NEW m \in S PROVE n <= m
  <2>1. m \in Nat /\ n \in Nat
    OBVIOUS
  <2>2. <<m, n>> \in Nat \X Nat
    BY <2>1
  <2>3. ~(m < n)
    BY <1>2, <2>2 DEF OpToRel
  <2> QED BY <2>1, <2>3
<1> QED BY <1>3

\* hypervisor_init() on a processor that has entered.
LEMMA HypervisorStep ==
    ASSUME NEW c \in Cpus, NEW next, cpu = [d \in Cpus |-> cpu[d]],
           hypervisor_init(c, Entered(c), next)
    PROVE  /\ machine' = machine /\ settings' = settings /\ hypinfo' = hypinfo
           /\ cpu' = [d \in Cpus |-> cpu'[d]]
           /\ \A d \in Cpus \ {c} : cpu'[d] = cpu[d]
           /\ c # 0 => required' = required
           /\ \/ phase' = "crashed"
              \/ phase' = next /\ Handed(c)'
<1> DEFINE valid == arch_hypervisor_validate_flags(Entered(c), machine.has[c], settings.hyp)
           flags == Selected(Entered(c), machine.has[c], settings.hyp, c, required)
<1>1. /\ required' = IF c = 0 /\ flags # Crash THEN flags ELSE required
      /\ cpu' = IF flags = Crash THEN cpu
                ELSE [cpu EXCEPT ![c] = Readied(c, arch_hypervisor_init(Entered(c), required'))]
      /\ phase' = IF flags = Crash THEN "crashed" ELSE next
      /\ machine' = machine /\ settings' = settings /\ hypinfo' = hypinfo
  BY Zenon DEF hypervisor_init
<1>2. flags = IF c # 0 /\ valid # required THEN Crash ELSE valid
  BY Zenon DEF Selected
<1> HIDE DEF valid, flags
<1>3. c # 0 => required' = required
  BY <1>1
<1>4. CASE flags = Crash
  BY <1>1, <1>3, <1>4
<1>5. CASE flags # Crash
  <2>1. required' = valid /\ required' # Crash
    BY <1>1, <1>2, <1>5
  <2>2. cpu' = [cpu EXCEPT ![c] = Readied(c, arch_hypervisor_init(Entered(c), required'))]
    BY <1>1, <1>5
  <2>3. /\ cpu'[c] = Readied(c, arch_hypervisor_init(Entered(c), required'))
        /\ cpu' = [d \in Cpus |-> cpu'[d]]
        /\ \A d \in Cpus \ {c} : cpu'[d] = cpu[d]
    <3> DEFINE r == Readied(c, arch_hypervisor_init(Entered(c), required'))
    <3> HIDE DEF r
    <3>1. cpu' = [cpu EXCEPT ![c] = r]
      BY <2>2 DEF r
    <3>2. cpu'[c] = r /\ cpu' = [d \in Cpus |-> cpu'[d]] /\ \A d \in Cpus \ {c} : cpu'[d] = cpu[d]
      BY <3>1
    <3> QED BY <3>2 DEF r
  <2>4. Entered(c)' = Entered(c)
    BY <1>1, Zenon DEF Entered, Off
  <2>5. valid = arch_hypervisor_validate_flags(Entered(c)', machine'.has[c], settings'.hyp)
    BY <1>1, <2>4, Zenon DEF valid
  <2>6. Handed(c)'
    BY <2>1, <2>3, <2>4, <2>5, Zenon DEF Handed
  <2> QED BY <1>1, <1>3, <1>5, <2>3, <2>6
<1> QED BY <1>4, <1>5

LEMMA HandedStays ==
    ASSUME NEW c, machine' = machine, settings' = settings, required' = required,
           cpu'[c] = cpu[c], Handed(c)
    PROVE  Handed(c)'
<1>1. Entered(c)' = Entered(c)
  BY Zenon DEF Entered, Off
<1> QED BY <1>1, Zenon DEF Handed

\* Steps that leave the processors alone, before hypervisor_init() ...
LEMMA EarlyStep ==
    ASSUME IInv, phase \in Early, phase' \in Early, machine' = machine, cpu' = cpu
    PROVE  IInv'
<1>1. \A c : Off(c)' = Off(c) /\ Entered(c)' = Entered(c)
  BY Zenon DEF Off, Entered
<1>2. /\ phase' # "entry" /\ phase' \notin Late /\ phase' \notin {"print", "kernel"}
      /\ phase' \in {"entry", "crashed"} \union Early \union Late
  BY DEF Early, Late
<1>3. machine' \in Machines /\ cpu' = [c \in Cpus |-> cpu'[c]]
  BY DEF IInv
<1>4. BootPhase'
  BY <1>1, <1>2 DEF IInv, BootPhase
<1>5. OtherCpus'
  BY <1>1, <1>2 DEF IInv, OtherCpus
<1>6. Announced'
  BY <1>2 DEF Announced
<1> QED BY <1>3, <1>4, <1>5, <1>6 DEF IInv

\* ... and behind it.
LEMMA LateStep ==
    ASSUME IInv, phase \in Late, phase' \in Late, machine' = machine, cpu' = cpu,
           settings' = settings, required' = required,
           phase' \in {"print", "kernel"} =>
               /\ Waiting = {}
               /\ hypinfo' = IF "enabled" \in required THEN {"HYPINFO_ENABLED"} ELSE {}
    PROVE  IInv'
<1>1. \A c : Off(c)' = Off(c)
  BY Zenon DEF Off
<1>2. \A c : Handed(c) => Handed(c)'
  BY HandedStays
<1>3. /\ phase' \notin {"entry"} \union Early
      /\ phase' \in {"entry", "crashed"} \union Early \union Late
  BY DEF Early, Late
<1>4. machine' \in Machines /\ cpu' = [c \in Cpus |-> cpu'[c]]
  BY DEF IInv
<1>5. BootPhase'
  BY <1>2, <1>3 DEF IInv, BootPhase
<1>6. OtherCpus'
  BY <1>1, <1>2, <1>3 DEF IInv, OtherCpus
<1>7. Waiting' = Waiting
  BY DEF Waiting, Started
<1>8. Announced'
  BY <1>7 DEF Announced
<1> QED BY <1>4, <1>5, <1>6, <1>8 DEF IInv

LEMMA InitStep == ASSUME BootAssumption, Init PROVE IInv
<1>1. \A c \in Cpus : cpu[c] = Off(c)
  BY Zenon DEF Init, Off
<1>2. 0 \in Cpus
  BY DEF BootAssumption
<1>3. machine \in Machines /\ cpu = [c \in Cpus |-> cpu[c]]
  BY DEF Init
<1>4. phase = "entry"
  BY DEF Init
<1>5. phase \notin Early /\ phase \notin Late /\ phase \notin {"print", "kernel"}
  BY <1>4 DEF Early, Late
<1> QED BY <1>1, <1>2, <1>3, <1>4, <1>5 DEF IInv, BootPhase, OtherCpus, Announced

LEMMA EntryStep == ASSUME BootAssumption, IInv, cstart PROVE IInv'
<1>1. /\ phase = "entry" /\ phase' = "_main" /\ machine' = machine
      /\ cpu' = [cpu EXCEPT ![0] = Enter(cpu[0], machine.has[0])]
  BY DEF cstart
<1>2. cpu[0] = Off(0) /\ \A c \in Cpus \ {0} : cpu[c] = Off(c)
  BY <1>1 DEF IInv, BootPhase, OtherCpus
<1>3. \A c : Off(c)' = Off(c) /\ Entered(c)' = Entered(c)
  BY <1>1, Zenon DEF Off, Entered
<1> DEFINE e == Enter(cpu[0], machine.has[0])
<1>4. e = Entered(0)'
  BY <1>2, <1>3, Zenon DEF Entered
<1> HIDE DEF e
<1>5. 0 \in Cpus /\ cpu = [c \in Cpus |-> cpu[c]] /\ machine \in Machines
  BY DEF IInv, BootAssumption
<1>6. cpu' = [cpu EXCEPT ![0] = e]
  BY <1>1 DEF e
<1>7. /\ cpu'[0] = Entered(0)' /\ cpu' = [c \in Cpus |-> cpu'[c]]
      /\ \A c \in Cpus \ {0} : cpu'[c] = Off(c)'
  <2>1. cpu'[0] = e /\ cpu' = [c \in Cpus |-> cpu'[c]] /\ \A c \in Cpus \ {0} : cpu'[c] = cpu[c]
    BY <1>5, <1>6
  <2> QED BY <1>2, <1>3, <1>4, <2>1
<1>8. /\ phase' # "entry" /\ phase' \in Early /\ phase' \notin Late /\ phase' \notin {"print", "kernel"}
  BY <1>1 DEF Early, Late
<1>9. BootPhase' /\ OtherCpus' /\ Announced'
  BY <1>7, <1>8 DEF BootPhase, OtherCpus, Announced
<1> QED BY <1>1, <1>5, <1>7, <1>9 DEF IInv

LEMMA BootCpuStep == ASSUME BootAssumption, IInv, InitBootCpu PROVE IInv'
<1>1. phase = "hypervisor" /\ hypervisor_init(0, cpu[0], "flags")
  BY DEF InitBootCpu
<1>2. /\ cpu[0] = Entered(0) /\ \A c \in Cpus \ {0} : cpu[c] = Off(c)
      /\ 0 \in Cpus /\ cpu = [c \in Cpus |-> cpu[c]] /\ machine \in Machines
  BY <1>1 DEF IInv, BootPhase, OtherCpus, Early, BootAssumption
<1>3. hypervisor_init(0, Entered(0), "flags")
  BY <1>1, <1>2
<1>4. /\ machine' = machine /\ cpu' = [d \in Cpus |-> cpu'[d]]
      /\ \A d \in Cpus \ {0} : cpu'[d] = cpu[d]
      /\ phase' = "crashed" \/ (phase' = "flags" /\ Handed(0)')
  BY <1>2, <1>3, HypervisorStep
<1>5. \A c \in Cpus \ {0} : cpu'[c] = Off(c)'
  BY <1>2, <1>4 DEF Off
<1>6. /\ phase' # "entry" /\ phase' \notin Early /\ phase' \notin {"print", "kernel"}
      /\ phase' \in {"crashed"} \union Late
  BY <1>4 DEF Early, Late
<1>7. phase' \in Late => Handed(0)'
  BY <1>4 DEF Late
<1>8. BootPhase' /\ OtherCpus' /\ Announced'
  BY <1>5, <1>6, <1>7 DEF BootPhase, OtherCpus, Announced
<1> QED BY <1>2, <1>4, <1>8 DEF IInv

LEMMA SecondaryStep == ASSUME BootAssumption, IInv, StartSecondary PROVE IInv'
<1>1. phase = "secondaries" /\ Waiting # {}
  BY DEF StartSecondary
<1>2. Waiting \subseteq Cpus /\ Cpus \subseteq Nat /\ \A d \in Waiting : cpu[d].mode = "off"
  BY DEF Waiting, Started, BootAssumption
<1>3. PICK c \in Waiting : hypervisor_init(c, Enter(cpu[c], machine.has[c]), "secondaries")
  <2> DEFINE first == CHOOSE d \in Waiting : \A e \in Waiting : d <= e
  <2>1. hypervisor_init(first, Enter(cpu[first], machine.has[first]), "secondaries")
    BY <1>1, Zenon DEF StartSecondary
  <2>2. \E d \in Waiting : \A e \in Waiting : d <= e
    <3>1. Waiting \subseteq Nat
      BY <1>2
    <3> QED BY <1>1, <3>1, LeastNat
  <2>3. first \in Waiting
    BY <2>2
  <2> HIDE DEF first
  <2> QED BY <2>1, <2>3
<1>5. c \in Cpus /\ cpu[c].mode = "off"
  BY <1>2
<1>6. /\ machine \in Machines /\ cpu = [d \in Cpus |-> cpu[d]] /\ 0 \in Cpus
      /\ Handed(0) /\ \A d \in Cpus \ {0} : cpu[d] = Off(d) \/ Handed(d)
  BY <1>1 DEF IInv, BootPhase, OtherCpus, Late, BootAssumption
<1>7. c # 0 /\ cpu[c] = Off(c)
  BY <1>5, <1>6, HandedHasMode
<1>8. hypervisor_init(c, Entered(c), "secondaries")
  BY <1>3, <1>7 DEF Entered
<1>9. /\ machine' = machine /\ settings' = settings /\ required' = required
      /\ cpu' = [d \in Cpus |-> cpu'[d]]
      /\ \A d \in Cpus \ {c} : cpu'[d] = cpu[d]
      /\ phase' = "crashed" \/ (phase' = "secondaries" /\ Handed(c)')
  BY <1>5, <1>6, <1>7, <1>8, HypervisorStep
<1>10. \A d \in Cpus \ {c} : (Handed(d) => Handed(d)') /\ (cpu[d] = Off(d) => cpu'[d] = Off(d)')
  <2> TAKE d \in Cpus \ {c}
  <2>1. Handed(d) => Handed(d)'
    BY <1>9, HandedStays
  <2>2. Off(d)' = Off(d)
    BY <1>9, Zenon DEF Off
  <2> QED BY <1>9, <2>1, <2>2
<1>11. Handed(0)'
  BY <1>6, <1>7, <1>10
<1>12. phase' # "crashed" => \A d \in Cpus \ {0} : cpu'[d] = Off(d)' \/ Handed(d)'
  BY <1>6, <1>9, <1>10
<1>13. /\ phase' # "entry" /\ phase' \notin Early /\ phase' \notin {"print", "kernel"}
       /\ phase' \in {"crashed"} \union Late /\ (phase' \in Late => phase' # "crashed")
  BY <1>9 DEF Early, Late
<1>14. BootPhase' /\ OtherCpus' /\ Announced'
  BY <1>11, <1>12, <1>13 DEF BootPhase, OtherCpus, Announced
<1> QED BY <1>6, <1>9, <1>14 DEF IInv

LEMMA NextStep == ASSUME BootAssumption, IInv, [Next]_vars PROVE IInv'
<1>1. CASE cstart
  BY <1>1, EntryStep
<1>2. CASE _main
  BY <1>2, EarlyStep DEF _main, Early
<1>3. CASE MainStart
  BY <1>3, EarlyStep DEF MainStart, Early
<1>4. CASE ReadOption
  <2>1. /\ phase = "options" /\ phase' \in {"hypervisor", phase}
        /\ machine' = machine /\ cpu' = cpu
    BY <1>4, Zenon DEF ReadOption
  <2> QED BY <2>1, EarlyStep DEF Early
<1>5. CASE InitBootCpu
  BY <1>5, BootCpuStep
<1>6. CASE ReadFlags
  <2>1. /\ phase = "flags" /\ phase' \in {"bootstraps", phase}
        /\ machine' = machine /\ cpu' = cpu /\ settings' = settings /\ required' = required
    BY <1>6, Zenon DEF ReadFlags, Scan
  <2> QED BY <2>1, LateStep DEF Late
<1>7. CASE load_bootstraps
  BY <1>7, LateStep DEF load_bootstraps, Late
<1>8. CASE ReadLate
  <2>1. /\ phase = "late" /\ phase' \in {"secondaries", phase}
        /\ machine' = machine /\ cpu' = cpu /\ settings' = settings /\ required' = required
    BY <1>8, Zenon DEF ReadLate, Scan
  <2> QED BY <2>1, LateStep DEF Late
<1>9. CASE StartSecondary
  BY <1>9, SecondaryStep
<1>10. CASE SyspageInit
  <2>1. /\ phase = "secondaries" /\ Waiting = {} /\ phase' \in {"print", "kernel"}
        /\ hypinfo' = IF "enabled" \in required THEN {"HYPINFO_ENABLED"} ELSE {}
        /\ machine' = machine /\ cpu' = cpu /\ settings' = settings /\ required' = required
    BY <1>10 DEF SyspageInit
  <2> QED BY <2>1, LateStep DEF Late
<1>11. CASE ReadPrint
  <2>1. /\ phase = "print" /\ phase' \in {"kernel", phase} /\ hypinfo' = hypinfo
        /\ machine' = machine /\ cpu' = cpu /\ settings' = settings /\ required' = required
    BY <1>11, Zenon DEF ReadPrint, Scan
  <2>2. /\ Waiting = {}
        /\ hypinfo = IF "enabled" \in required THEN {"HYPINFO_ENABLED"} ELSE {}
    BY <2>1 DEF IInv, Announced
  <2> QED BY <2>1, <2>2, LateStep DEF Late
<1>12. CASE UNCHANGED vars
  <2>1. /\ phase' = phase /\ machine' = machine /\ cpu' = cpu /\ settings' = settings
        /\ required' = required /\ hypinfo' = hypinfo
    BY <1>12 DEF vars
  <2>2. Waiting' = Waiting /\ \A d : Off(d)' = Off(d) /\ Entered(d)' = Entered(d) /\ Handed(d)' = Handed(d)
    BY <2>1, Zenon DEF Waiting, Started, Off, Entered, Handed
  <2> QED BY <2>1, <2>2 DEF IInv, BootPhase, OtherCpus, Announced
<1> QED BY <1>1, <1>2, <1>3, <1>4, <1>5, <1>6, <1>7, <1>8, <1>9, <1>10, <1>11, <1>12, Zenon DEF Next

LEMMA Agreement == ASSUME BootAssumption, IInv PROVE ModeIsCommon
<1> SUFFICES ASSUME phase = "kernel", NEW c \in Started
             PROVE  /\ cpu[c].el = cpu[0].el /\ cpu[c].e2h = cpu[0].e2h
                    /\ cpu[c].e2h => "vhe" \in machine.has[c]
                    /\ InForce(cpu[c], "user")
                    /\ c = 0 => InForce(cpu[c], "mmu") /\ InForce(cpu[c], "table") /\ InForce(cpu[c], "dcache")
                    /\ (cpu[c].el = 2) = (required = {"enabled", "el2-host"})
                    /\ (hypinfo # {}) = (cpu[c].mode \in {"el1-host", "el2-host"})
                    /\ machine.el[c] # 1 /\ "el2" \in machine.has[c] /\ cpu[c].el = 1 =>
                          ~cpu[c].hcd = ("hyp vectors" \in cpu[c].set[2])
                    /\ "gic" \in machine.has[c] /\ cpu[c].el = 2 => "sre" \in cpu[c].set[2]
  BY DEF ModeIsCommon
<1>1. c \in Cpus /\ 0 \in Cpus /\ machine \in Machines
  BY DEF Started, IInv, BootAssumption
<1>2. Handed(0) /\ Waiting = {} /\ hypinfo = IF "enabled" \in required THEN {"HYPINFO_ENABLED"} ELSE {}
  BY DEF IInv, BootPhase, Announced, Late
<1>3. Handed(c)
  <2>1. c # 0 => Handed(c) \/ cpu[c] = Off(c)
    BY <1>1 DEF IInv, OtherCpus, Late
  <2>2. cpu[c] # Off(c)
    BY <1>1, <1>2, OffIsOff DEF Waiting
  <2> QED BY <1>2, <2>1, <2>2
<1> DEFINE q == cpu[c]
           has == machine.has[c]
           el == machine.el[c]
<1>4. Ready(0, cpu[0], machine.has[0], machine.el[0], required)
  BY <1>1, <1>2, HandedIsReady
<1>5. /\ Ready(c, q, has, el, required)
      /\ required \in {{}, El1Host, El2Host}
      /\ required = El2Host => "vhe" \in has
  BY <1>1, <1>3, HandedIsReady
<1> HIDE DEF q, has, el
<1>6. q.el = cpu[0].el /\ q.e2h = cpu[0].e2h
  BY <1>4, <1>5 DEF Ready, ModeOf
<1>7. q.e2h => "vhe" \in has
  BY <1>5 DEF Ready, ModeOf
<1>8. /\ InForce(q, "user")
      /\ c = 0 => InForce(q, "mmu") /\ InForce(q, "table") /\ InForce(q, "dcache")
  BY <1>5 DEF Ready
<1>9. (q.el = 2) = (required = El2Host)
  <2>1. q.el = IF required = El2Host THEN 2 ELSE 1
    BY <1>5 DEF Ready, ModeOf
  <2> QED BY <2>1, LevelsDiffer
<1>10. (hypinfo # {}) = (q.mode \in {"el1-host", "el2-host"})
  <2>1. "enabled" \in required <=> required # {}
    BY <1>5, ModesDiffer
  <2>2. {"HYPINFO_ENABLED"} # {}
    OBVIOUS
  <2>3. hypinfo # {} <=> "enabled" \in required
    BY <1>2, <2>2
  <2>4. q.mode \in {"el1-host", "el2-host"} <=> required # {}
    BY <1>5 DEF Ready, ModeOf
  <2> QED BY <2>1, <2>3, <2>4
<1>11. el # 1 /\ "el2" \in has /\ q.el = 1 => ~q.hcd = ("hyp vectors" \in q.set[2])
  <2>1. q.hcd \in BOOLEAN
    BY <1>5 DEF Ready, ModeOf, Processors
  <2> QED BY <1>5, <2>1 DEF Ready, ModeOf
<1>12. "gic" \in has /\ q.el = 2 => "sre" \in q.set[2]
  BY <1>5 DEF Ready, ModeOf
<1> QED BY <1>6, <1>7, <1>8, <1>9, <1>10, <1>11, <1>12, Zenon DEF q, has, el, El2Host

\* Every processor is where the phase of the boot says it is: as the firmware
\* left it, entered, or handed over with the flags of cpu 0.
THEOREM Invariant == ASSUME BootAssumption PROVE Spec => []IInv
<1>1. Init => IInv
  BY InitStep
<1>2. IInv /\ [Next]_vars => IInv'
  BY NextStep
<1> QED BY <1>1, <1>2, PTL DEF Spec

\* The kernel is started with all processors at the level and in the mode
\* that hypervisor_init() settled on cpu 0, whatever their entry levels and
\* id registers, and with the registers that the mode needs.
THEOREM ModeHolds == ASSUME BootAssumption PROVE Spec => []ModeIsCommon
<1>1. IInv => ModeIsCommon
  BY Agreement
<1> QED BY <1>1, Invariant, PTL

-----------------------------------------------------------------------------
(* Booting from UEFI.                                                      *)

Steps == {"query", "alloc", "get", "use", "told", "raminfo", "startup", "next", "kernel",
          "returned", "crash"}
Reading == todo \in {"query", "alloc", "get", "use"}
DescType == [type : PageTypes, start : Nat \ {0}, n : Nat \ {0}]
Span(d) == d.start .. (d.start + d.n - 1)

\* A range of descriptors lies in the memory and says of each page what it is.
Describes(d, types) == \A p \in Span(d) : p \in 1 .. Len(types) /\ types[p] = d.type
Rising(descs) == \A i, j \in DOMAIN descs : i < j => descs[i].start < descs[j].start
Falling(descs) == \A i, j \in DOMAIN descs : i < j => descs[j].start < descs[i].start

Typed ==
    /\ way \in {"stub", "uefi"} /\ late \in BOOLEAN /\ io \in BOOLEAN
    /\ svc \in BOOLEAN /\ same \in BOOLEAN /\ con \in BOOLEAN /\ saved \in BOOLEAN
    /\ suspended \in BOOLEAN /\ irq \in BOOLEAN /\ hook \in BOOLEAN
    /\ cnt \in Nat /\ retry \in Nat /\ buf \in Nat
    /\ purpose \in {"raminfo", "stub", "exit", "last exit"} /\ todo \in Steps
    /\ pages \in Seq(PageTypes)

\* What was read of the map may be old, but neither the firmware's own memory
\* nor the image of startup moves.
ImageStays == own \subseteq Pages /\ \A p \in own : pages[p] = "loader"
BufferTaken == buf \in Pages => pages[buf] = "loader" /\ buf \notin own
MapHolds ==
    /\ map \in Seq(DescType) /\ (Rising(map) \/ Falling(map))
    /\ \A i \in DOMAIN map : \A p \in Span(map[i]) :
          /\ p \in Pages /\ (pages[p] \in Never => map[i].type = pages[p])
          /\ p \in own => map[i].type = "loader"
ToldHolds ==
    /\ \A p \in usable : p \in Pages /\ pages[p] \notin Never
    /\ (usable \ avoid) \intersect own = {}
    /\ mine \subseteq usable \ avoid

\* Which of the boot's reads of the map this is, and who still asks for the
\* exit.
ReadInOrder ==
    /\ todo = "told" \/ (Reading /\ purpose = "raminfo") =>
           purpose = "raminfo" /\ hook /\ cnt = (IF late THEN 2 ELSE 1) /\ mine = {}
    /\ todo = "raminfo" \/ (Reading /\ purpose = "stub") =>
           purpose = "stub" /\ ~hook /\ ~late /\ mine = {}
    /\ Reading /\ purpose = "exit" => hook /\ ~late /\ mine = {}
    /\ Reading /\ purpose = "last exit" => hook /\ late
    /\ todo \in {"startup", "next"} /\ hook => late /\ cnt = 1
    /\ todo = "kernel" => ~hook
    /\ mine # {} => late \/ todo \in {"startup", "next", "kernel"}

\* Once the exit was asked for and done, or given up, nothing brings the
\* console back.
LetGo ==
    /\ todo \in {"raminfo", "startup", "next", "kernel"} =>
           /\ ~irq
           /\ ~hook => ~con /\ (svc => Exhausted) /\ (suspended => ~saved)
    /\ con => svc
    /\ suspended => todo = "startup" /\ ~con /\ (saved => svc)

UefiInv == Typed /\ ImageStays /\ BufferTaken /\ MapHolds /\ ToldHolds /\ ReadInOrder /\ LetGo

-----------------------------------------------------------------------------
(* The memory map as descriptors.                                          *)

\* The descriptors of the first pages, one page more at a time.
Extended(before, types, p) ==
    IF p > 1 /\ types[p - 1] = types[p]
    THEN [before EXCEPT ![Len(before)].n = @ + 1]
    ELSE Append(before, [type |-> types[p], start |-> p, n |-> 1])
IsUpto(upto, types, N) ==
    upto = [p \in 0 .. N |-> IF p = 0 THEN <<>> ELSE Extended(upto[p - 1], types, p)]

LEMMA UptoExists ==
    ASSUME NEW types, NEW N \in Nat
    PROVE  \E upto : IsUpto(upto, types, N)
<1> DEFINE Bad == {n \in Nat : ~ \E upto : IsUpto(upto, types, n)}
<1> SUFFICES ASSUME Bad # {} PROVE FALSE
  OBVIOUS
<1>1. PICK n \in Bad : \A m \in Bad : n <= m
  BY LeastNat
<1>2. n \in Nat /\ ~ \E upto : IsUpto(upto, types, n)
  OBVIOUS
<1>3. n # 0
  <2>1. IsUpto([m \in 0 .. 0 |-> <<>>], types, 0)
    BY DEF IsUpto
  <2> QED BY <1>2, <2>1
<1>4. n - 1 \in Nat /\ n - 1 \notin Bad
  BY <1>1, <1>2, <1>3
<1>5. PICK upto : IsUpto(upto, types, n - 1)
  BY <1>4
<1> DEFINE last == Extended(upto[n - 1], types, n)
           more == [m \in 0 .. n |-> IF m = n THEN last ELSE upto[m]]
<1> HIDE DEF last
<1>6. \A m \in 0 .. n : more[m] = IF m = n THEN last ELSE upto[m]
  OBVIOUS
<1>7. ASSUME NEW m \in 0 .. n
      PROVE  more[m] = IF m = 0 THEN <<>> ELSE Extended(more[m - 1], types, m)
  <2>1. CASE m = n
    <3>1. n - 1 \in 0 .. n /\ n \in 0 .. n /\ n - 1 # n
      BY <1>2, <1>3
    <3>2. more[n] = last /\ more[n - 1] = upto[n - 1]
      BY <1>6, <3>1
    <3> QED BY <1>3, <2>1, <3>2 DEF last
  <2>2. CASE m # n
    <3>1. m \in 0 .. n - 1
      BY <1>2, <2>2
    <3>2. upto[m] = IF m = 0 THEN <<>> ELSE Extended(upto[m - 1], types, m)
      BY <1>5, <3>1 DEF IsUpto
    <3>3. m # 0 => m - 1 \in 0 .. n /\ m - 1 # n
      BY <1>2, <3>1
    <3>4. more[m] = upto[m] /\ (m # 0 => more[m - 1] = upto[m - 1])
      BY <1>6, <2>2, <3>3
    <3> QED BY <3>2, <3>4
  <2> QED BY <2>1, <2>2
<1>8. more = [m \in 0 .. n |-> more[m]]
  OBVIOUS
<1> HIDE DEF more
<1>9. IsUpto(more, types, n)
  BY <1>7, <1>8 DEF IsUpto
<1> QED BY <1>2, <1>9

LEMMA DescriptorsUpto ==
    ASSUME NEW types, Len(types) \in Nat
    PROVE  \E upto : IsUpto(upto, types, Len(types)) /\ Descriptors(types) = upto[Len(types)]
<1>1. \E upto : IsUpto(upto, types, Len(types))
  BY UptoExists
<1> DEFINE it == CHOOSE upto : IsUpto(upto, types, Len(types))
<1>2. IsUpto(it, types, Len(types))
  BY <1>1
<1>3. Descriptors(types) = it[Len(types)]
  BY DEF Descriptors, IsUpto, Extended
<1> HIDE DEF it
<1> QED BY <1>2, <1>3

\* The descriptors of the first p pages.
Covers(descs, types, p) ==
    /\ descs \in Seq(DescType) /\ Rising(descs)
    /\ \A i \in DOMAIN descs : Describes(descs[i], types) /\ descs[i].start + descs[i].n <= p + 1
    /\ p > 0 => Len(descs) > 0 /\ LET d == descs[Len(descs)]
                                  IN  d.start + d.n = p + 1 /\ d.n > 0

LEMMA ExtendedCovers ==
    ASSUME NEW types \in Seq(PageTypes), NEW p \in 1 .. Len(types), NEW descs,
           Covers(descs, types, p - 1)
    PROVE  Covers(Extended(descs, types, p), types, p)
<1>1. PICK n \in Nat : n = Len(descs)
  BY DEF Covers
<1>2. /\ DOMAIN descs = 1 .. n /\ descs \in Seq(DescType)
      /\ \A i \in 1 .. n : descs[i] \in DescType
  BY <1>1 DEF Covers
<1>3. \A i \in 1 .. n : descs[i].start + descs[i].n <= p
  BY <1>2 DEF Covers
<1>4. \A i \in 1 .. n : Describes(descs[i], types)
  BY <1>2 DEF Covers
<1>5. \A i, j \in 1 .. n : i < j => descs[i].start < descs[j].start
  BY <1>2 DEF Covers, Rising
<1>6. types[p] \in PageTypes /\ p \in Nat /\ p >= 1
  OBVIOUS
<1>7. CASE p > 1 /\ types[p - 1] = types[p]
  <2>1. n > 0 /\ descs[n].start + descs[n].n = p /\ descs[n].n > 0
    BY <1>1, <1>7 DEF Covers
  <2>2. PICK d \in DescType : d = descs[n]
    BY <1>2, <2>1
  <2> DEFINE e == [d EXCEPT !.n = @ + 1]
             new == [descs EXCEPT ![n] = e]
  <2>3. /\ e \in DescType /\ e.type = d.type /\ e.start = d.start /\ e.n = d.n + 1
        /\ d.start \in Nat /\ d.n \in Nat /\ d.start > 0
    BY <2>2 DEF DescType
  <2>4. Extended(descs, types, p) = new
    <3>1. Extended(descs, types, p) = [descs EXCEPT ![Len(descs)].n = @ + 1]
      BY <1>7 DEF Extended
    <3>2. Len(descs) = n /\ descs[n] = d
      BY <1>1, <2>2
    <3> QED BY <3>1, <3>2, Zenon
  <2> HIDE DEF e
  <2>5. /\ new \in Seq(DescType) /\ DOMAIN new = 1 .. n /\ Len(new) = n /\ new[n] = e
        /\ \A i \in 1 .. n : i # n => new[i] = descs[i]
    BY <1>1, <1>2, <2>1, <2>3
  <2> HIDE DEF new
  <2>6. types[p] = d.type
    <3>1. p - 1 \in Span(d)
      BY <2>1, <2>2, <2>3, <1>7 DEF Span
    <3>2. types[p - 1] = d.type
      BY <1>4, <2>1, <2>2, <3>1 DEF Describes
    <3> QED BY <3>2, <1>7
  <2>7. Describes(e, types)
    <3>1. ASSUME NEW q \in Span(e) PROVE q \in 1 .. Len(types) /\ types[q] = d.type
      <4>1. q \in Int /\ q >= d.start /\ q <= p
        BY <2>1, <2>2, <2>3, <3>1 DEF Span
      <4>2. CASE q = p
        BY <2>6, <4>2
      <4>3. CASE q # p
        <5>1. q \in Span(d)
          BY <2>1, <2>2, <2>3, <4>1, <4>3 DEF Span
        <5> QED BY <1>4, <2>1, <2>2, <5>1 DEF Describes
      <4> QED BY <4>2, <4>3
    <3> QED BY <3>1, <2>3 DEF Describes
  <2>8. Rising(new)
    <3>1. ASSUME NEW i \in 1 .. n, NEW j \in 1 .. n, i < j PROVE new[i].start < new[j].start
      <4>1. descs[i].start < descs[j].start
        BY <1>5, <3>1
      <4>2. new[i] = descs[i]
        BY <2>5, <3>1
      <4>3. new[j].start = descs[j].start
        BY <2>2, <2>3, <2>5
      <4> QED BY <4>1, <4>2, <4>3
    <3> QED BY <3>1, <2>5 DEF Rising
  <2>9. ASSUME NEW i \in 1 .. n PROVE Describes(new[i], types) /\ new[i].start + new[i].n <= p + 1
    <3>1. CASE i = n
      BY <2>1, <2>2, <2>3, <2>5, <2>7, <3>1
    <3>2. CASE i # n
      <4>1. new[i] = descs[i] /\ descs[i].start + descs[i].n <= p /\ descs[i] \in DescType
        BY <1>2, <1>3, <2>5, <3>2
      <4>2. descs[i].start \in Nat /\ descs[i].n \in Nat
        BY <4>1 DEF DescType
      <4> QED BY <1>4, <4>1, <4>2
    <3> QED BY <3>1, <3>2
  <2>10. e.start + e.n = p + 1 /\ e.n > 0
    <3>1. d.start + d.n = p
      BY <2>1, <2>2
    <3> QED BY <1>6, <2>3, <3>1
  <2> QED BY <2>1, <2>4, <2>5, <2>8, <2>9, <2>10 DEF Covers
<1>8. CASE ~(p > 1 /\ types[p - 1] = types[p])
  <2> DEFINE e == [type |-> types[p], start |-> p, n |-> 1]
             new == Append(descs, e)
  <2>1. e \in DescType /\ e.type = types[p] /\ e.start = p /\ e.n = 1
    BY <1>6 DEF DescType
  <2>2. Extended(descs, types, p) = new
    BY <1>8 DEF Extended
  <2> HIDE DEF e
  <2>3. /\ new \in Seq(DescType) /\ DOMAIN new = 1 .. n + 1 /\ Len(new) = n + 1
        /\ new[n + 1] = e /\ \A i \in 1 .. n : new[i] = descs[i]
    BY <1>1, <1>2, <2>1
  <2> HIDE DEF new
  <2>4. Describes(e, types)
    <3>1. \A q \in Span(e) : q = p
      BY <2>1 DEF Span
    <3> QED BY <2>1, <3>1 DEF Describes
  <2>5. \A i \in 1 .. n : descs[i].start \in Nat /\ descs[i].n \in Nat
    BY <1>2 DEF DescType
  <2>6. \A i \in 1 .. n : descs[i].start < p
    BY <1>2, <1>3, <1>6 DEF DescType
  <2>7. Rising(new)
    <3>1. ASSUME NEW i \in 1 .. n + 1, NEW j \in 1 .. n + 1, i < j PROVE new[i].start < new[j].start
      <4>1. i \in 1 .. n /\ new[i] = descs[i]
        BY <2>3, <3>1
      <4>2. CASE j = n + 1
        BY <2>1, <2>3, <2>6, <4>1, <4>2
      <4>3. CASE j # n + 1
        BY <1>5, <2>3, <3>1, <4>1, <4>3
      <4> QED BY <4>2, <4>3
    <3> QED BY <3>1, <2>3 DEF Rising
  <2>8. ASSUME NEW i \in 1 .. n + 1 PROVE Describes(new[i], types) /\ new[i].start + new[i].n <= p + 1
    <3>1. CASE i = n + 1
      BY <1>6, <2>1, <2>3, <2>4, <3>1
    <3>2. CASE i # n + 1
      <4>1. i \in 1 .. n /\ new[i] = descs[i]
        BY <2>3, <3>2
      <4>2. descs[i].start + descs[i].n <= p /\ descs[i].start \in Nat /\ descs[i].n \in Nat
        BY <1>3, <2>5, <4>1
      <4> QED BY <1>4, <1>6, <4>1, <4>2
    <3> QED BY <3>1, <3>2
  <2>9. e.start + e.n = p + 1 /\ e.n > 0
    BY <2>1
  <2> QED BY <2>2, <2>3, <2>7, <2>8, <2>9 DEF Covers
<1> QED BY <1>7, <1>8

LEMMA DescriptorsCover ==
    ASSUME NEW types \in Seq(PageTypes)
    PROVE  Covers(Descriptors(types), types, Len(types))
<1>1. PICK N \in Nat : N = Len(types)
  OBVIOUS
<1>2. PICK upto : IsUpto(upto, types, N) /\ Descriptors(types) = upto[N]
  BY <1>1, DescriptorsUpto
<1>3. upto[0] = <<>> /\ \A p \in 1 .. N : upto[p] = Extended(upto[p - 1], types, p)
  BY <1>2 DEF IsUpto
<1> DEFINE Bad == {p \in 0 .. N : ~Covers(upto[p], types, p)}
<1>4. Bad = {}
  <2> SUFFICES ASSUME Bad # {} PROVE FALSE
    OBVIOUS
  <2>1. PICK p \in Bad : \A q \in Bad : p <= q
    <3>1. Bad \subseteq Nat
      OBVIOUS
    <3> HIDE DEF Bad
    <3> QED BY <3>1, LeastNat
  <2>2. p \in 0 .. N /\ ~Covers(upto[p], types, p)
    OBVIOUS
  <2>3. CASE p = 0
    <3>1. Covers(<<>>, types, 0)
      BY DEF Covers, Rising
    <3> QED BY <1>3, <2>2, <2>3, <3>1
  <2>4. CASE p # 0
    <3>1. p \in 1 .. N /\ p - 1 \in 0 .. N /\ p - 1 \notin Bad
      BY <2>1, <2>2, <2>4
    <3>2. Covers(upto[p - 1], types, p - 1)
      BY <3>1
    <3>3. Covers(Extended(upto[p - 1], types, p), types, p)
      BY <1>1, <3>1, <3>2, ExtendedCovers
    <3> QED BY <1>3, <2>2, <3>1, <3>3
  <2> QED BY <2>3, <2>4
<1>5. Covers(upto[N], types, N)
  BY <1>4
<1> QED BY <1>1, <1>2, <1>5
-----------------------------------------------------------------------------
(* What the walks over a map find.                                         *)

LEMMA PagesOfIs ==
    ASSUME NEW descs, NEW types, NEW p
    PROVE  p \in PagesOf(descs, types) <=>
               \E i \in DOMAIN descs : descs[i].type \in types /\ p \in Span(descs[i])
BY DEF PagesOf, Range, Span

\* The range under way after each of the first N descriptors.
IsWalk(r, descs, N) ==
    r = [k \in 0 .. N |-> IF k = 0 THEN Start0
                          ELSE IF IsRam(descs[k]) THEN Merge(r[k - 1], descs[k]) ELSE r[k - 1]]

LEMMA WalkExists ==
    ASSUME NEW descs, NEW N \in Nat
    PROVE  \E r : IsWalk(r, descs, N)
<1> DEFINE Bad == {n \in Nat : ~ \E r : IsWalk(r, descs, n)}
<1> SUFFICES ASSUME Bad # {} PROVE FALSE
  OBVIOUS
<1>1. PICK n \in Bad : \A m \in Bad : n <= m
  BY LeastNat
<1>2. n \in Nat /\ ~ \E r : IsWalk(r, descs, n)
  OBVIOUS
<1>3. n # 0
  <2>1. IsWalk([m \in 0 .. 0 |-> Start0], descs, 0)
    BY DEF IsWalk
  <2> QED BY <1>2, <2>1
<1>4. n - 1 \in Nat /\ n - 1 \notin Bad
  BY <1>1, <1>2, <1>3
<1>5. PICK r : IsWalk(r, descs, n - 1)
  BY <1>4
<1> DEFINE last == IF IsRam(descs[n]) THEN Merge(r[n - 1], descs[n]) ELSE r[n - 1]
           more == [m \in 0 .. n |-> IF m = n THEN last ELSE r[m]]
<1> HIDE DEF last
<1>6. \A m \in 0 .. n : more[m] = IF m = n THEN last ELSE r[m]
  OBVIOUS
<1>7. ASSUME NEW m \in 0 .. n
      PROVE  more[m] = IF m = 0 THEN Start0
                       ELSE IF IsRam(descs[m]) THEN Merge(more[m - 1], descs[m]) ELSE more[m - 1]
  <2>1. CASE m = n
    <3>1. n - 1 \in 0 .. n /\ n \in 0 .. n /\ n - 1 # n
      BY <1>2, <1>3
    <3>2. more[n] = last /\ more[n - 1] = r[n - 1]
      BY <1>6, <3>1
    <3> QED BY <1>3, <2>1, <3>2 DEF last
  <2>2. CASE m # n
    <3>1. m \in 0 .. n - 1
      BY <1>2, <2>2
    <3>2. r[m] = IF m = 0 THEN Start0
                 ELSE IF IsRam(descs[m]) THEN Merge(r[m - 1], descs[m]) ELSE r[m - 1]
      BY <1>5, <3>1 DEF IsWalk
    <3>3. m # 0 => m - 1 \in 0 .. n /\ m - 1 # n
      BY <1>2, <3>1
    <3>4. more[m] = r[m] /\ (m # 0 => more[m - 1] = r[m - 1])
      BY <1>6, <2>2, <3>3
    <3> QED BY <3>2, <3>4
  <2> QED BY <2>1, <2>2
<1>8. more = [m \in 0 .. n |-> more[m]]
  OBVIOUS
<1> HIDE DEF more
<1>9. IsWalk(more, descs, n)
  BY <1>7, <1>8 DEF IsWalk
<1> QED BY <1>2, <1>9

LEMMA RamWalk ==
    ASSUME NEW descs, Len(descs) \in Nat
    PROVE  \E r : /\ IsWalk(r, descs, Len(descs))
                  /\ Ram(descs) = r[Len(descs)].closed
                         \union (r[Len(descs)].start .. (r[Len(descs)].end - 1))
<1>1. \E r : IsWalk(r, descs, Len(descs))
  BY WalkExists
<1> DEFINE it == CHOOSE r : IsWalk(r, descs, Len(descs))
<1>2. IsWalk(it, descs, Len(descs))
  BY <1>1
<1>3. Ram(descs) = it[Len(descs)].closed \union (it[Len(descs)].start .. (it[Len(descs)].end - 1))
  BY DEF Ram, IsWalk
<1> HIDE DEF it
<1> QED BY <1>2, <1>3

\* Joined or not, a range is of pages of descriptors that say RAM.
LEMMA RamIs ==
    ASSUME NEW descs \in Seq(DescType), NEW p \in Ram(descs)
    PROVE  \E i \in DOMAIN descs : IsRam(descs[i]) /\ p \in Span(descs[i])
<1>1. PICK N \in Nat : N = Len(descs) /\ DOMAIN descs = 1 .. N
  OBVIOUS
<1>2. PICK r : IsWalk(r, descs, N) /\ Ram(descs) = r[N].closed \union (r[N].start .. (r[N].end - 1))
  BY <1>1, RamWalk
<1>3. /\ r[0] = Start0
      /\ \A k \in 1 .. N : r[k] = IF IsRam(descs[k]) THEN Merge(r[k - 1], descs[k]) ELSE r[k - 1]
  BY <1>2 DEF IsWalk
<1> DEFINE Said == {q \in Int : \E i \in 1 .. N : IsRam(descs[i]) /\ q \in Span(descs[i])}
           Good(s) == /\ s \in [closed : SUBSET Said, start : Nat, end : Nat]
                      /\ \A q \in Int : s.start <= q /\ q < s.end => q \in Said
           Bad == {k \in 0 .. N : ~Good(r[k])}
<1>4. Bad = {}
  <2> SUFFICES ASSUME Bad # {} PROVE FALSE
    OBVIOUS
  <2>1. PICK k \in Bad : \A q \in Bad : k <= q
    <3>1. Bad \subseteq Nat
      OBVIOUS
    <3> HIDE DEF Bad
    <3> QED BY <3>1, LeastNat
  <2>2. k \in 0 .. N /\ ~Good(r[k])
    OBVIOUS
  <2> SUFFICES Good(r[k])
    BY <2>2
  <2>3. CASE k = 0
    <3>1. /\ Start0 \in [closed : SUBSET Said, start : Nat, end : Nat]
          /\ Start0.start = 0 /\ Start0.end = 0
      BY DEF Start0
    <3> QED BY <1>3, <2>3, <3>1
  <2>4. CASE k # 0
    <3>1. k \in 1 .. N /\ k - 1 \in 0 .. N /\ k - 1 < k
      BY <2>2, <2>4
    <3>2. Good(r[k - 1])
      <4> HIDE DEF Good
      <4>1. k - 1 \notin Bad
        BY <2>1, <3>1
      <4> QED BY <3>1, <4>1
    <3>3. PICK d \in DescType : d = descs[k]
      BY <1>1, <3>1
    <3>4. d.start \in Nat /\ d.n \in Nat
      BY DEF DescType
    <3>5. PICK s \in [closed : SUBSET Said, start : Nat, end : Nat] :
              s = r[k - 1] /\ \A q \in Int : s.start <= q /\ q < s.end => q \in Said
      BY <3>2, SMTT(30)
    <3>6. IsRam(d) => \A q \in Int : d.start <= q /\ q < d.start + d.n => q \in Said
      BY <3>1, <3>3, <3>4 DEF Span
    <3>7. r[k] = IF IsRam(d) THEN Merge(s, d) ELSE s
      BY <1>3, <3>1, <3>3, <3>5
    <3>8. CASE ~IsRam(d)
      BY <3>5, <3>7, <3>8
    <3>9. CASE IsRam(d) /\ d.start = s.end
      <4>1. r[k] = [s EXCEPT !.end = @ + d.n]
        BY <3>7, <3>9 DEF Merge
      <4> HIDE DEF Said
      <4>2. /\ r[k] \in [closed : SUBSET Said, start : Nat, end : Nat]
            /\ r[k].start = s.start /\ r[k].end = s.end + d.n
        BY <3>4, <4>1
      <4>3. \A q \in Int : s.start <= q /\ q < s.end + d.n => q \in Said
        BY <3>4, <3>5, <3>6, <3>9
      <4> QED BY <4>2, <4>3
    <3>10. CASE IsRam(d) /\ d.start # s.end
      <4>1. r[k] = [closed |-> s.closed \union s.start .. (s.end - 1),
                    start |-> d.start, end |-> d.start + d.n]
        BY <3>7, <3>10 DEF Merge
      <4> HIDE DEF Said
      <4>2. s.closed \union s.start .. (s.end - 1) \subseteq Said
        BY <3>5
      <4>3. /\ r[k] \in [closed : SUBSET Said, start : Nat, end : Nat]
            /\ r[k].start = d.start /\ r[k].end = d.start + d.n
        BY <3>4, <4>1, <4>2
      <4> QED BY <3>6, <3>10, <4>3
    <3> QED BY <3>8, <3>9, <3>10
  <2> QED BY <2>3, <2>4
<1>5. Good(r[N])
  BY <1>4
<1>6. p \in Said
  BY <1>2, <1>5
<1> QED BY <1>1, <1>6

LEMMA ReverseIs ==
    ASSUME NEW descs \in Seq(DescType)
    PROVE  /\ Reverse(descs) \in Seq(DescType) /\ DOMAIN Reverse(descs) = DOMAIN descs
           /\ \A i \in DOMAIN descs : Len(descs) - i + 1 \in DOMAIN descs
                                      /\ Reverse(descs)[i] = descs[Len(descs) - i + 1]
<1>1. PICK N \in Nat : N = Len(descs) /\ DOMAIN descs = 1 .. N
  OBVIOUS
<1>2. Reverse(descs) = [i \in 1 .. N |-> descs[(N - i) + 1]]
  BY <1>1 DEF Reverse
<1>3. \A i \in 1 .. N : (N - i) + 1 \in 1 .. N /\ descs[(N - i) + 1] \in DescType
  BY <1>1
<1> QED BY <1>1, <1>2, <1>3

LEMMA ReverseFalls ==
    ASSUME NEW descs \in Seq(DescType), Rising(descs)
    PROVE  Falling(Reverse(descs))
<1>1. PICK N \in Nat : N = Len(descs) /\ DOMAIN descs = 1 .. N
  OBVIOUS
<1>2. ASSUME NEW i \in 1 .. N, NEW j \in 1 .. N, i < j
      PROVE  Reverse(descs)[j].start < Reverse(descs)[i].start
  <2>1. N - j + 1 \in 1 .. N /\ N - i + 1 \in 1 .. N /\ N - j + 1 < N - i + 1
    BY <1>2
  <2>2. descs[N - j + 1].start < descs[N - i + 1].start
    BY <1>1, <2>1 DEF Rising
  <2> QED BY <1>1, <2>2, ReverseIs
<1> QED BY <1>1, <1>2, ReverseIs DEF Falling

\* A list that rises or falls can be sorted, so that the sort returns its
\* descriptors and no others.
LEMMA SortIs ==
    ASSUME NEW descs \in Seq(DescType), Rising(descs) \/ Falling(descs)
    PROVE  /\ efi_sort_map(descs) \in Seq(DescType)
           /\ \A i \in DOMAIN efi_sort_map(descs) :
                  \E j \in DOMAIN descs : efi_sort_map(descs)[i] = descs[j]
<1>1. PICK N \in Nat : N = Len(descs) /\ DOMAIN descs = 1 .. N
  OBVIOUS
<1> DEFINE Sorts(p) == \A i, j \in 1 .. N : i < j => descs[p[i]].start < descs[p[j]].start
<1>2. \E p \in [1 .. N -> 1 .. N] : Sorts(p)
  <2>1. CASE Rising(descs)
    <3> DEFINE p == [i \in 1 .. N |-> i]
    <3>1. p \in [1 .. N -> 1 .. N] /\ \A i \in 1 .. N : p[i] = i
      OBVIOUS
    <3>2. Sorts(p)
      BY <1>1, <2>1, <3>1 DEF Rising
    <3> QED BY <3>1, <3>2
  <2>2. CASE Falling(descs)
    <3> DEFINE p == [i \in 1 .. N |-> N - i + 1]
    <3>1. p \in [1 .. N -> 1 .. N] /\ \A i \in 1 .. N : p[i] = N - i + 1
      OBVIOUS
    <3> HIDE DEF p
    <3>2. ASSUME NEW i \in 1 .. N, NEW j \in 1 .. N, i < j
          PROVE  descs[p[i]].start < descs[p[j]].start
      <4>1. p[j] < p[i] /\ p[i] \in 1 .. N /\ p[j] \in 1 .. N
        BY <3>1, <3>2
      <4> QED BY <1>1, <2>2, <4>1 DEF Falling
    <3> QED BY <3>1, <3>2
  <2> QED BY <2>1, <2>2
<1>3. PICK q \in [1 .. N -> 1 .. N] : efi_sort_map(descs) = [i \in 1 .. N |-> descs[q[i]]]
  <2> DEFINE it == CHOOSE p \in [1 .. N -> 1 .. N] : Sorts(p)
  <2>1. it \in [1 .. N -> 1 .. N]
    <3> HIDE DEF Sorts
    <3> QED BY <1>2
  <2>2. efi_sort_map(descs) = [i \in 1 .. N |-> descs[it[i]]]
    BY <1>1 DEF efi_sort_map
  <2> HIDE DEF it
  <2> QED BY <2>1, <2>2
<1>4. \A i \in 1 .. N : q[i] \in 1 .. N /\ descs[q[i]] \in DescType
  BY <1>1, <1>3
<1>5. efi_sort_map(descs) \in Seq(DescType) /\ DOMAIN efi_sort_map(descs) = 1 .. N
  BY <1>3, <1>4
<1> QED BY <1>1, <1>3, <1>4, <1>5
-----------------------------------------------------------------------------
(* The invariant holds from the start.                                     *)

LEMMA InitInv == UefiInit => UefiInv
<1> SUFFICES ASSUME UefiInit PROVE UefiInv
  OBVIOUS
<1> USE DEF UefiInit
<1>1. pages \in Seq(PageTypes)
  BY MapsAssumption
<1>2. Typed
  BY <1>1 DEF Typed, Steps
<1>3. ImageStays
  BY DEF ImageStays
<1>4. BufferTaken
  BY <1>1 DEF BufferTaken, Pages
<1>5. MapHolds
  BY DEF MapHolds, Rising
<1>6. ToldHolds
  BY DEF ToldHolds
<1>7. ReadInOrder
  BY DEF ReadInOrder, Reading
<1>8. LetGo
  BY DEF LetGo
<1> QED BY <1>2, <1>3, <1>4, <1>5, <1>6, <1>7, <1>8 DEF UefiInv
-----------------------------------------------------------------------------
(* Every step keeps it.                                                    *)

\* The firmware or startup takes or gives back a page that is neither kept by
\* the firmware nor part of the image: what was read and told stays true.
LEMMA ClaimKeeps ==
    ASSUME pages \in Seq(PageTypes), ImageStays, MapHolds, ToldHolds,
           NEW p, NEW type \in {"free", "boot", "loader"}, Claim(p, type),
           p \in Pages => pages[p] \notin Never /\ p \notin own,
           UNCHANGED <<own, map, usable, avoid, mine>>
    PROVE  /\ pages' \in Seq(PageTypes) /\ Pages' = Pages
           /\ \A q \in Pages : pages'[q] = IF q = p THEN type ELSE pages[q]
           /\ ImageStays' /\ MapHolds' /\ ToldHolds'
<1>1. type \in PageTypes /\ type \notin Never
  BY DEF PageTypes, Never
<1>2. pages' = [pages EXCEPT ![p] = type]
  BY DEF Claim
<1>3. pages' \in Seq(PageTypes) /\ Pages' = Pages
  <2>1. PICK N \in Nat : pages \in [1 .. N -> PageTypes]
    OBVIOUS
  <2>2. pages' \in [1 .. N -> PageTypes]
    BY <1>1, <1>2, <2>1
  <2>3. pages' \in Seq(PageTypes)
    BY <2>2
  <2> QED BY <2>1, <2>2, <2>3 DEF Pages
<1>4. \A q \in Pages : pages'[q] = IF q = p THEN type ELSE pages[q]
  BY <1>2 DEF Pages
<1>5. \A q \in Pages : pages'[q] \in Never <=> pages[q] \in Never
  BY <1>1, <1>4
<1>6. \A q \in Pages : pages'[q] \in Never => pages'[q] = pages[q]
  BY <1>1, <1>4
<1>7. ImageStays'
  BY <1>3, <1>4 DEF ImageStays
<1>8. MapHolds'
  BY <1>3, <1>5, <1>6 DEF MapHolds
<1>9. ToldHolds'
  BY <1>3, <1>5 DEF ToldHolds
<1> QED BY <1>3, <1>4, <1>7, <1>8, <1>9

\* A step that leaves the memory and what was read and told of it alone.
LEMMA MemoryStays ==
    ASSUME ImageStays, BufferTaken, MapHolds, ToldHolds,
           UNCHANGED <<own, pages, buf, map, usable, avoid, mine>>
    PROVE  ImageStays' /\ BufferTaken' /\ MapHolds' /\ ToldHolds'
<1> USE DEF Pages
<1>1. ImageStays'
  BY DEF ImageStays
<1>2. BufferTaken'
  BY DEF BufferTaken
<1>3. MapHolds'
  BY DEF MapHolds
<1>4. ToldHolds'
  BY DEF ToldHolds
<1> QED BY <1>1, <1>2, <1>3, <1>4

LEMMA EventKeeps == UefiInv /\ Event => UefiInv'
<1> SUFFICES ASSUME UefiInv, Event PROVE UefiInv'
  OBVIOUS
<1> USE DEF boot, out, exit, look, told
<1>1. PICK p \in Pages, type \in {"free", "boot"} : Claim(p, type) /\ pages[p] \in {"free", "boot"}
  BY DEF Event
<1>2. UNCHANGED <<own, map, usable, avoid, mine, buf>>
  BY DEF Event
<1>3. pages[p] \notin Never /\ pages[p] # "loader"
  BY <1>1 DEF Never
<1>4. p \notin own
  BY <1>3 DEF UefiInv, ImageStays
<1>5. /\ pages' \in Seq(PageTypes) /\ Pages' = Pages
      /\ \A q \in Pages : pages'[q] = IF q = p THEN type ELSE pages[q]
      /\ ImageStays' /\ MapHolds' /\ ToldHolds'
  BY <1>1, <1>2, <1>3, <1>4, ClaimKeeps DEF UefiInv, Typed
<1>6. Typed'
  BY <1>1, <1>5 DEF UefiInv, Typed, Event, Claim
<1>7. BufferTaken'
  BY <1>2, <1>3, <1>5 DEF UefiInv, BufferTaken
<1>8. ReadInOrder'
  BY DEF UefiInv, ReadInOrder, Event, Reading
<1>9. LetGo'
  BY DEF UefiInv, LetGo, Event, Exhausted
<1> QED BY <1>5, <1>6, <1>7, <1>8, <1>9 DEF UefiInv

\* Steps that read the map change few variables.
LEMMA TypedStays ==
    ASSUME Typed, pages' \in Seq(PageTypes), same' \in BOOLEAN, buf' \in Nat, todo' \in Steps,
           UNCHANGED <<way, late, io, svc, con, saved, suspended, irq, hook, cnt, retry, purpose>>
    PROVE  Typed'
<1>1. way' \in {"stub", "uefi"} /\ late' \in BOOLEAN /\ io' \in BOOLEAN /\ svc' \in BOOLEAN
  BY Zenon DEF Typed
<1>2. con' \in BOOLEAN /\ saved' \in BOOLEAN /\ suspended' \in BOOLEAN /\ irq' \in BOOLEAN
  BY Zenon DEF Typed
<1>3. /\ hook' \in BOOLEAN /\ cnt' \in Nat /\ retry' \in Nat
      /\ purpose' \in {"raminfo", "stub", "exit", "last exit"}
  BY Zenon DEF Typed
<1> QED BY <1>1, <1>2, <1>3, Zenon DEF Typed

LEMMA QueryKeeps == UefiInv /\ Query => UefiInv'
<1> SUFFICES ASSUME UefiInv, Query PROVE UefiInv'
  OBVIOUS
<1> USE DEF boot, fw, out, exit, told, Query
<1>1. Typed'
  BY TypedStays DEF UefiInv, Typed, Steps
<1>2. ImageStays' /\ BufferTaken' /\ MapHolds' /\ ToldHolds'
  BY MemoryStays DEF UefiInv
<1>3. ReadInOrder'
  BY DEF UefiInv, ReadInOrder, Reading
<1>4. LetGo'
  BY DEF UefiInv, LetGo, Exhausted
<1> QED BY <1>1, <1>2, <1>3, <1>4 DEF UefiInv

LEMMA AllocKeeps == UefiInv /\ Alloc => UefiInv'
<1> SUFFICES ASSUME UefiInv, Alloc PROVE UefiInv'
  OBVIOUS
<1> USE DEF boot, out, exit, told
<1>1. /\ todo = "alloc" /\ todo' \in {"get", "returned", "crash"}
      /\ UNCHANGED <<way, late, io, own, svc, con, saved, suspended, irq, hook, cnt, retry,
                     purpose, map, usable, avoid, mine>>
  BY DEF Alloc
<1>2. ReadInOrder'
  <2>1. Reading
    BY <1>1 DEF Reading
  <2> QED BY <1>1, <2>1 DEF UefiInv, ReadInOrder
<1>3. LetGo'
  BY <1>1 DEF UefiInv, LetGo, Exhausted
<1>4. CASE \E p \in Pages : pages[p] = "free" /\ Claim(p, "loader") /\ buf' = p
  <2>1. PICK p \in Pages : pages[p] = "free" /\ Claim(p, "loader") /\ buf' = p
    BY <1>4
  <2>2. pages[p] \notin Never /\ p \notin own
    BY <2>1 DEF Never, UefiInv, ImageStays
  <2>3. p \in Nat
    <3>1. pages \in Seq(PageTypes)
      BY DEF UefiInv, Typed
    <3> QED BY <3>1 DEF Pages
  <2>4. /\ pages' \in Seq(PageTypes) /\ Pages' = Pages
        /\ \A q \in Pages : pages'[q] = IF q = p THEN "loader" ELSE pages[q]
        /\ ImageStays' /\ MapHolds' /\ ToldHolds'
    BY <1>1, <2>1, <2>2, ClaimKeeps DEF UefiInv, Typed
  <2>5. BufferTaken'
    BY <1>1, <2>1, <2>2, <2>4 DEF BufferTaken
  <2>6. same' \in BOOLEAN /\ buf' \in Nat
    BY <2>1, <2>3 DEF Claim
  <2>7. Typed'
    BY <1>1, <2>4, <2>6, TypedStays DEF UefiInv, Steps
  <2> QED BY <1>2, <1>3, <2>4, <2>5, <2>7 DEF UefiInv
<1>5. CASE UNCHANGED <<pages, same, buf, size>>
  <2>0. pages' \in Seq(PageTypes) /\ same' \in BOOLEAN /\ buf' \in Nat
    BY <1>5 DEF UefiInv, Typed
  <2>1. Typed'
    BY <1>1, <2>0, TypedStays DEF UefiInv, Steps
  <2>2. ImageStays' /\ BufferTaken' /\ MapHolds' /\ ToldHolds'
    BY <1>1, <1>5, MemoryStays DEF UefiInv
  <2> QED BY <1>2, <1>3, <2>1, <2>2 DEF UefiInv
<1> QED BY <1>4, <1>5 DEF Alloc

\* A map read now holds, whichever way the firmware lists it.
LEMMA ReadHolds ==
    ASSUME pages \in Seq(PageTypes), ImageStays, UNCHANGED <<pages, own>>,
           map' \in {Descriptors(pages), Reverse(Descriptors(pages))}
    PROVE  MapHolds'
<1> DEFINE descs == Descriptors(pages)
<1>1. Covers(descs, pages, Len(pages))
  BY DescriptorsCover
<1> HIDE DEF descs
<1>2. descs \in Seq(DescType) /\ Rising(descs) /\ \A i \in DOMAIN descs : Describes(descs[i], pages)
  BY <1>1 DEF Covers
<1>3. /\ map' \in Seq(DescType) /\ (Rising(map') \/ Falling(map'))
      /\ \A i \in DOMAIN map' : \E j \in DOMAIN descs : map'[i] = descs[j]
  <2>1. CASE map' = descs
    BY <1>2, <2>1
  <2>2. CASE map' = Reverse(descs)
    BY <1>2, <2>2, ReverseIs, ReverseFalls
  <2> QED BY <2>1, <2>2 DEF descs
<1>4. ASSUME NEW i \in DOMAIN map', NEW p \in Span(map'[i])
      PROVE  p \in Pages /\ pages[p] = map'[i].type
  <2>1. p \in 1 .. Len(pages) /\ pages[p] = map'[i].type
    BY <1>2, <1>3, <1>4 DEF Describes
  <2> QED BY <2>1 DEF Pages
<1>5. \A p \in own : pages[p] = "loader"
  BY DEF ImageStays
<1>6. \A i \in DOMAIN map' : \A p \in Span(map'[i]) :
          /\ p \in Pages' /\ (pages'[p] \in Never => map'[i].type = pages'[p])
          /\ p \in own' => map'[i].type = "loader"
  BY <1>4, <1>5 DEF Pages
<1>7. (Rising(map) \/ Falling(map))'
  BY <1>3 DEF Rising, Falling
<1> QED BY <1>3, <1>6, <1>7 DEF MapHolds, Span

LEMMA GetKeeps == UefiInv /\ Get => UefiInv'
<1> SUFFICES ASSUME UefiInv, Get PROVE UefiInv'
  OBVIOUS
<1> USE DEF boot, out, exit, told
<1>1. /\ todo = "get" /\ todo' \in {"use", "alloc"}
      /\ UNCHANGED <<way, late, io, own, svc, con, saved, suspended, hook, cnt, retry,
                     purpose, usable, avoid, mine>>
  BY DEF Get
<1>2. ReadInOrder'
  <2>1. Reading
    BY <1>1 DEF Reading
  <2> QED BY <1>1, <2>1 DEF UefiInv, ReadInOrder
<1>3. LetGo'
  BY <1>1 DEF UefiInv, LetGo, Exhausted
<1>4. pages \in Seq(PageTypes) /\ ImageStays
  BY DEF UefiInv, Typed
<1>5. CASE /\ map' \in {Descriptors(pages), Reverse(Descriptors(pages))} /\ same' = TRUE
           /\ irq' \in BOOLEAN /\ UNCHANGED <<size, buf, pages>>
  <2>1. MapHolds'
    BY <1>1, <1>4, <1>5, ReadHolds
  <2>2. Typed'
    <3>1. pages' \in Seq(PageTypes) /\ same' \in BOOLEAN /\ buf' \in Nat /\ irq' \in BOOLEAN
      BY <1>4, <1>5 DEF UefiInv, Typed
    <3>2. Typed
      BY DEF UefiInv
    <3>3. todo' \in Steps
      BY <1>1 DEF Steps
    <3> QED BY <1>1, <3>1, <3>2, <3>3, Zenon DEF Typed
  <2>3. ImageStays' /\ BufferTaken' /\ ToldHolds'
    BY <1>1, <1>5 DEF UefiInv, ImageStays, BufferTaken, ToldHolds, Pages
  <2> QED BY <1>2, <1>3, <2>1, <2>2, <2>3 DEF UefiInv
<1>6. CASE UNCHANGED <<map, irq>> /\ UNCHANGED <<buf, pages, same>>
  <2>1. Typed'
    <3>1. pages' \in Seq(PageTypes) /\ same' \in BOOLEAN /\ buf' \in Nat /\ irq' \in BOOLEAN
      BY <1>4, <1>6 DEF UefiInv, Typed
    <3>2. Typed
      BY DEF UefiInv
    <3>3. todo' \in Steps
      BY <1>1 DEF Steps
    <3> QED BY <1>1, <3>1, <3>2, <3>3, Zenon DEF Typed
  <2>2. ImageStays' /\ BufferTaken' /\ MapHolds' /\ ToldHolds'
    BY <1>1, <1>6, MemoryStays DEF UefiInv
  <2> QED BY <1>2, <1>3, <2>1, <2>2 DEF UefiInv
<1>7. CASE UNCHANGED <<map, irq>> /\ buf' = 0 /\ Claim(buf, "free")
  <2>1. buf \in Pages => pages[buf] \notin Never /\ buf \notin own
    BY DEF UefiInv, BufferTaken, Never
  <2>2. pages' \in Seq(PageTypes) /\ Pages' = Pages /\ ImageStays' /\ MapHolds' /\ ToldHolds'
    BY <1>1, <1>4, <1>7, <2>1, ClaimKeeps DEF UefiInv
  <2>3. BufferTaken'
    <3>1. 0 \notin Pages
      BY <1>4 DEF Pages
    <3> QED BY <1>7, <2>2, <3>1 DEF BufferTaken
  <2>4. Typed'
    <3>1. same' \in BOOLEAN /\ buf' \in Nat /\ irq' \in BOOLEAN
      BY <1>7 DEF UefiInv, Typed, Claim
    <3>2. Typed
      BY DEF UefiInv
    <3>3. todo' \in Steps
      BY <1>1 DEF Steps
    <3> QED BY <1>1, <2>2, <3>1, <3>2, <3>3, Zenon DEF Typed
  <2> QED BY <1>2, <1>3, <2>2, <2>3, <2>4 DEF UefiInv
<1> QED BY <1>5, <1>6, <1>7 DEF Get

\* What a walk over a map that holds finds.
LEMMA WalkHolds ==
    ASSUME MapHolds, NEW walk \in Seq(DescType),
           \A i \in DOMAIN walk : \E j \in DOMAIN map : walk[i] = map[j],
           NEW p \in Ram(walk)
    PROVE  \E i \in DOMAIN walk :
               /\ p \in Span(walk[i]) /\ walk[i].type \in Recorded \union {"free"}
               /\ p \in Pages /\ (pages[p] \in Never => walk[i].type = pages[p])
               /\ p \in own => walk[i].type = "loader"
<1>1. PICK i \in DOMAIN walk : IsRam(walk[i]) /\ p \in Span(walk[i])
  BY RamIs
<1>2. PICK j \in DOMAIN map : walk[i] = map[j]
  OBVIOUS
<1> QED BY <1>1, <1>2 DEF MapHolds, IsRam

LEMMA do_raminfoKeeps == UefiInv /\ do_raminfo => UefiInv'
<1> SUFFICES ASSUME UefiInv, do_raminfo PROVE UefiInv'
  OBVIOUS
<1> USE DEF boot, fw, out, exit, look, told
<1>1. /\ todo = "use" /\ purpose = "raminfo" /\ todo' \in {"crash", "told"}
      /\ UNCHANGED <<way, late, io, own, pages, same, svc, con, saved, suspended, irq, hook, cnt,
                     retry, purpose, buf, map, mine>>
  BY DEF do_raminfo, UefiCrash
<1>2. Typed'
  <2>1. pages' \in Seq(PageTypes)
    BY <1>1 DEF UefiInv, Typed
  <2> QED BY <1>1, <2>1 DEF UefiInv, Typed, Steps
<1>3. ImageStays' /\ BufferTaken' /\ MapHolds'
  BY <1>1 DEF UefiInv, ImageStays, BufferTaken, MapHolds, Pages
<1>4. mine = {} /\ hook /\ ReadInOrder'
  <2>1. Reading
    BY <1>1 DEF Reading
  <2> QED BY <1>1, <2>1 DEF UefiInv, ReadInOrder, Reading
<1>5. LetGo'
  BY <1>1 DEF UefiInv, LetGo, Exhausted
<1>6. ToldHolds'
  <2>1. CASE UNCHANGED <<usable, avoid>>
    BY <1>1, <2>1 DEF UefiInv, ToldHolds, Pages
  <2>2. CASE usable' = Ram(map) \ PagesOf(map, {"runtime", "acpi"}) /\ avoid' = Avoided(map)
    <3>1. ASSUME NEW p \in usable'
          PROVE  p \in Pages /\ pages[p] \notin Never /\ (p \in own => p \in avoid')
      <4>1. PICK i \in DOMAIN map :
                /\ p \in Span(map[i]) /\ map[i].type \in Recorded \union {"free"}
                /\ p \in Pages /\ (pages[p] \in Never => map[i].type = pages[p])
                /\ p \in own => map[i].type = "loader"
        BY <2>2, WalkHolds DEF UefiInv, MapHolds
      <4>2. map[i].type \notin {"runtime", "acpi"}
        BY <2>2, <4>1, PagesOfIs
      <4>3. pages[p] \notin Never
        BY <4>1, <4>2 DEF Recorded, Never
      <4>4. p \in own => p \in avoid'
        BY <2>2, <4>1, PagesOfIs DEF Avoided
      <4> QED BY <4>1, <4>3, <4>4
    <3> QED BY <1>1, <1>4, <3>1 DEF ToldHolds, Pages
  <2> QED BY <2>1, <2>2 DEF do_raminfo
<1> QED BY <1>2, <1>3, <1>4, <1>5, <1>6 DEF UefiInv

LEMMA init_raminfo_efiKeeps == UefiInv /\ init_raminfo_efi => UefiInv'
<1> SUFFICES ASSUME UefiInv, init_raminfo_efi PROVE UefiInv'
  OBVIOUS
<1> USE DEF boot, fw, out, exit, look, told
<1>1. /\ todo = "raminfo" /\ purpose = "stub" /\ todo' = "startup"
      /\ UNCHANGED <<way, late, io, own, pages, same, svc, con, saved, suspended, irq, hook, cnt,
                     retry, purpose, buf, map, mine>>
  BY DEF init_raminfo_efi
<1>2. Typed'
  <2>1. pages' \in Seq(PageTypes)
    BY <1>1 DEF UefiInv, Typed
  <2> QED BY <1>1, <2>1 DEF UefiInv, Typed, Steps
<1>3. ImageStays' /\ BufferTaken' /\ MapHolds'
  BY <1>1 DEF UefiInv, ImageStays, BufferTaken, MapHolds, Pages
<1>4. mine = {} /\ ~hook /\ ReadInOrder'
  BY <1>1 DEF UefiInv, ReadInOrder, Reading
<1>5. LetGo'
  BY <1>1, <1>4 DEF UefiInv, LetGo, Exhausted
<1>6. ToldHolds'
  <2> DEFINE walk == efi_sort_map(map)
  <2>1. /\ usable' = Ram(walk) \ PagesOf(walk, Recorded)
        /\ avoid' = PagesOf(walk, Recorded \union {"reserved", "other"})
    BY DEF init_raminfo_efi
  <2>2. /\ walk \in Seq(DescType)
        /\ \A i \in DOMAIN walk : \E j \in DOMAIN map : walk[i] = map[j]
    BY SortIs DEF UefiInv, MapHolds
  <2> HIDE DEF walk
  <2>3. ASSUME NEW p \in usable'
        PROVE  p \in Pages /\ pages[p] \notin Never /\ p \notin own
    <3>1. PICK i \in DOMAIN walk :
              /\ p \in Span(walk[i]) /\ walk[i].type \in Recorded \union {"free"}
              /\ p \in Pages /\ (pages[p] \in Never => walk[i].type = pages[p])
              /\ p \in own => walk[i].type = "loader"
      BY <2>1, <2>2, WalkHolds DEF UefiInv
    <3>2. walk[i].type \notin Recorded
      BY <2>1, <3>1, PagesOfIs
    <3> QED BY <3>1, <3>2 DEF Recorded, Never
  <2> QED BY <1>1, <1>4, <2>3 DEF ToldHolds, Pages
<1> QED BY <1>2, <1>3, <1>4, <1>5, <1>6 DEF UefiInv

\* The steps that change none of the memory.
LEMMA efi_entry_pointKeeps == UefiInv /\ efi_entry_point => UefiInv'
<1> SUFFICES ASSUME UefiInv, efi_entry_point PROVE UefiInv'
  OBVIOUS
<1> USE DEF boot, exit, look, told, efi_entry_point
<1>1. ImageStays' /\ BufferTaken' /\ MapHolds' /\ ToldHolds'
  BY MemoryStays DEF UefiInv
<1>2. ~hook /\ ~late /\ ~suspended /\ todo' \in {"raminfo", "returned"}
  BY DEF UefiInv, ReadInOrder, Reading, LetGo, Typed
<1>3. Typed'
  BY <1>2 DEF UefiInv, Typed, Steps
<1>4. ReadInOrder'
  BY <1>2 DEF UefiInv, ReadInOrder, Reading
<1>5. LetGo'
  BY <1>2 DEF UefiInv, LetGo, Exhausted
<1> QED BY <1>1, <1>3, <1>4, <1>5 DEF UefiInv

LEMMA uefi_exit_boot_servicesKeeps == UefiInv /\ uefi_exit_boot_services => UefiInv'
<1> SUFFICES ASSUME UefiInv, uefi_exit_boot_services PROVE UefiInv'
  OBVIOUS
<1> USE DEF boot, fw, look, told, uefi_exit_boot_services
<1>1. ImageStays' /\ BufferTaken' /\ MapHolds' /\ ToldHolds'
  BY MemoryStays DEF UefiInv
<1>2. CASE todo = "told"
  <2>1. hook /\ cnt = (IF late THEN 2 ELSE 1) /\ mine = {} /\ ~suspended
    BY <1>2 DEF UefiInv, ReadInOrder, LetGo, Typed
  <2>2. CASE late
    <3>1. /\ todo' = "startup" /\ cnt' = 1 /\ irq' = FALSE
          /\ UNCHANGED <<purpose, retry, hook, late>>
      BY <1>2, <2>1, <2>2
    <3>2. Typed'
      <4>1. Typed
        BY DEF UefiInv
      <4>2. todo' \in Steps /\ cnt' \in Nat /\ irq' \in BOOLEAN
        BY <3>1 DEF Steps
      <4> QED BY <3>1, <4>1, <4>2 DEF Typed
    <3>3. ReadInOrder'
      BY <2>1, <2>2, <3>1 DEF ReadInOrder, Reading
    <3>4. LetGo'
      BY <2>1, <3>1 DEF UefiInv, LetGo, Exhausted
    <3> QED BY <1>1, <3>2, <3>3, <3>4 DEF UefiInv
  <2>3. CASE ~late
    <3>1. /\ todo' = "query" /\ cnt' = 0 /\ purpose' = "exit" /\ retry' = 0
          /\ UNCHANGED <<irq, hook, late>>
      BY <1>2, <2>1, <2>3
    <3>2. Typed'
      BY <3>1 DEF UefiInv, Typed, Steps
    <3>3. ReadInOrder'
      BY <2>1, <2>3, <3>1 DEF ReadInOrder, Reading
    <3>4. LetGo'
      BY <2>1, <3>1 DEF UefiInv, LetGo, Exhausted
    <3> QED BY <1>1, <3>2, <3>3, <3>4 DEF UefiInv
  <2> QED BY <2>2, <2>3
<1>3. CASE todo = "next"
  <2>1. ~suspended /\ ~irq /\ (hook => late /\ cnt = 1) /\ (~hook => ~con /\ (svc => Exhausted))
    BY <1>3 DEF UefiInv, ReadInOrder, LetGo, Typed
  <2>2. CASE hook
    <3>0. hook = TRUE /\ late = TRUE /\ cnt = 1
      BY <2>1, <2>2 DEF UefiInv, Typed
    <3>1. /\ todo' = "query" /\ cnt' = 0 /\ purpose' = "last exit" /\ retry' = 0
          /\ irq' = irq /\ hook' = TRUE /\ late' = TRUE
      <4>1. hook /\ todo # "told"
        BY <1>3, <3>0
      <4>2. todo' = "query" /\ retry' = 0
        BY <3>0, <4>1
      <4>3. cnt' = cnt - 1
        BY <4>1
      <4>4. cnt' = 0
        <5> HIDE DEF uefi_exit_boot_services
        <5> QED BY <3>0, <4>3
      <4>5. irq' = irq /\ purpose' = "last exit"
        BY <3>0, <4>1
      <4>6. hook' = TRUE /\ late' = TRUE
        BY <3>0
      <4> QED BY <4>2, <4>4, <4>5, <4>6
    <3>2. Typed'
      BY <3>1 DEF UefiInv, Typed, Steps
    <3>3. ReadInOrder'
      BY <3>0, <3>1 DEF ReadInOrder, Reading
    <3>4. LetGo'
      BY <2>1, <3>1 DEF UefiInv, LetGo, Exhausted
    <3> QED BY <1>1, <3>2, <3>3, <3>4 DEF UefiInv
  <2>3. CASE ~hook
    <3>1. todo' = "kernel" /\ UNCHANGED <<cnt, purpose, retry, irq, hook, late>>
      BY <1>3, <2>3
    <3>2. Typed'
      BY <3>1, TypedStays DEF UefiInv, Typed, Steps
    <3>3. ReadInOrder'
      BY <2>3, <3>1 DEF ReadInOrder, Reading
    <3>4. LetGo'
      BY <2>1, <2>3, <3>1 DEF UefiInv, LetGo, Exhausted
    <3> QED BY <1>1, <3>2, <3>3, <3>4 DEF UefiInv
  <2> QED BY <2>2, <2>3
<1> QED BY <1>2, <1>3

\* The exit: done, tried again with the buffer given back, or given up.
LEMMA UseKeeps == UefiInv /\ Use => UefiInv'
<1> SUFFICES ASSUME UefiInv, Use PROVE UefiInv'
  OBVIOUS
<1> USE DEF boot, told
<1>1. /\ todo = "use" /\ purpose \in {"exit", "last exit"}
      /\ UNCHANGED <<way, late, io, own, saved, suspended, cnt, purpose, map, usable, avoid, mine>>
  BY DEF Use
<1>2. /\ hook /\ (purpose = "exit" => ~late /\ mine = {}) /\ (purpose = "last exit" => late)
      /\ ~suspended
  BY <1>1 DEF UefiInv, ReadInOrder, Reading, LetGo, Typed
<1>3. CASE ExitBootServices
  <2>1. /\ svc' = FALSE /\ con' = FALSE /\ hook' = FALSE /\ irq' = FALSE
        /\ todo' \in {"startup", "kernel"} /\ (purpose = "exit" => todo' = "startup")
        /\ UNCHANGED <<pages, same, buf, retry>>
    BY <1>1, <1>3 DEF Use, Ended
  <2>2. ImageStays' /\ BufferTaken' /\ MapHolds' /\ ToldHolds'
    BY <1>1, <2>1, MemoryStays DEF UefiInv
  <2>3. Typed'
    <3>1. pages' \in Seq(PageTypes)
      BY <2>1 DEF UefiInv, Typed
    <3> QED BY <1>1, <2>1, <3>1 DEF UefiInv, Typed, Steps
  <2>4. ReadInOrder'
    BY <1>1, <1>2, <2>1 DEF ReadInOrder, Reading
  <2>5. LetGo'
    BY <1>1, <1>2, <2>1 DEF LetGo
  <2> QED BY <2>2, <2>3, <2>4, <2>5 DEF UefiInv
<1>4. CASE ~ExitBootServices
  <2>1. Claim(buf, "free") /\ buf' = 0 /\ retry' = retry + 1 /\ UNCHANGED svc
    BY <1>4 DEF Use
  <2>2. \/ todo' = "query" /\ UNCHANGED <<con, hook, irq>>
        \/ /\ con' = FALSE /\ hook' = FALSE /\ irq' = FALSE /\ Exhausted'
           /\ todo' \in {"startup", "kernel"} /\ (purpose = "exit" => todo' = "startup")
    <3>0. retry \in Nat
      BY DEF UefiInv, Typed
    <3>1. retry' \in Nat
      BY <2>1, <3>0
    <3>2. CASE retry' <= UEFI_EXIT_RETRY_MAX
      BY <1>4, <3>2 DEF Use
    <3>3. CASE ~(retry' <= UEFI_EXIT_RETRY_MAX)
      <4>1. Exhausted'
        BY <3>1, <3>3 DEF Exhausted, UEFI_EXIT_RETRY_MAX
      <4> QED BY <1>1, <1>4, <3>3, <4>1 DEF Use, Ended
    <3> QED BY <3>2, <3>3
  <2>3. buf \in Pages => pages[buf] \notin Never /\ buf \notin own
    BY DEF UefiInv, BufferTaken, Never
  <2>4. pages' \in Seq(PageTypes) /\ Pages' = Pages /\ ImageStays' /\ MapHolds' /\ ToldHolds'
    BY <1>1, <2>1, <2>3, ClaimKeeps DEF UefiInv, Typed
  <2>5. BufferTaken'
    <3>0. pages \in Seq(PageTypes)
      BY DEF UefiInv, Typed
    <3>1. 0 \notin Pages
      BY <3>0 DEF Pages
    <3> QED BY <2>1, <2>4, <3>1 DEF BufferTaken
  <2>6. Typed'
    <3>0. retry \in Nat
      BY DEF UefiInv, Typed
    <3>1. same' \in BOOLEAN /\ buf' \in Nat /\ retry' \in Nat
      <4>1. same' \in BOOLEAN
        BY <2>1, Zenon DEF Claim
      <4> QED BY <2>1, <3>0, <4>1
    <3>2. Typed
      BY DEF UefiInv
    <3>3. todo' \in Steps
      BY <1>1, <2>1, <2>2 DEF Steps
    <3> QED BY <1>1, <2>1, <2>2, <2>4, <3>1, <3>2, <3>3 DEF Typed
  <2>7. ReadInOrder'
    BY <1>1, <1>2, <2>2 DEF ReadInOrder, Reading
  <2>8. LetGo'
    <3>1. con => svc
      BY DEF UefiInv, LetGo
    <3>2. CASE todo' = "query" /\ UNCHANGED <<con, hook, irq>>
      BY <1>1, <1>2, <2>1, <3>1, <3>2 DEF LetGo
    <3>3. CASE /\ con' = FALSE /\ hook' = FALSE /\ irq' = FALSE /\ Exhausted'
               /\ todo' \in {"startup", "kernel"}
      BY <1>1, <1>2, <2>1, <3>3 DEF LetGo
    <3> QED BY <2>2, <3>2, <3>3
  <2> QED BY <2>4, <2>5, <2>6, <2>7, <2>8 DEF UefiInv
<1> QED BY <1>3, <1>4

\* The console, its hand-over around start_aps(), an allocation.
LEMMA StartupKeeps ==
    ASSUME UefiInv, uefi_print_char \/ alloc_ram \/ uefi_io_suspend \/ uefi_io_resume \/ startnext
    PROVE  UefiInv'
<1> USE DEF boot, fw, out, exit, look, told
<1>1. /\ todo = "startup" /\ todo' \in {"startup", "next"}
      /\ UNCHANGED <<way, late, io, own, pages, same, svc, hook, cnt, retry, purpose, buf, map,
                     usable, avoid>>
  BY DEF uefi_print_char, alloc_ram, uefi_io_suspend, uefi_io_resume, startnext
<1>2. ImageStays' /\ BufferTaken' /\ MapHolds'
  BY <1>1 DEF UefiInv, ImageStays, BufferTaken, MapHolds, Pages
<1>3. mine' = mine \/ mine' \subseteq usable \ avoid
  BY DEF uefi_print_char, alloc_ram, uefi_io_suspend, uefi_io_resume, startnext
<1>4. ToldHolds'
  BY <1>1, <1>3 DEF UefiInv, ToldHolds, Pages
<1>5. Typed'
  <2>1. pages' \in Seq(PageTypes)
    BY <1>1 DEF UefiInv, Typed
  <2>2. irq' \in BOOLEAN /\ con' \in BOOLEAN /\ saved' \in BOOLEAN /\ suspended' \in BOOLEAN
    BY DEF UefiInv, Typed, uefi_print_char, alloc_ram, uefi_io_suspend, uefi_io_resume, startnext
  <2> QED BY <1>1, <2>1, <2>2 DEF UefiInv, Typed, Steps
<1>6. ReadInOrder'
  BY <1>1 DEF UefiInv, ReadInOrder, Reading
<1>7. /\ ~irq /\ (~hook => ~con /\ (svc => Exhausted) /\ (suspended => ~saved))
      /\ (con => svc) /\ (suspended => ~con /\ (saved => svc))
  BY <1>1 DEF UefiInv, LetGo
<1>8. Exhausted' <=> Exhausted
  BY <1>1 DEF Exhausted
<1>9. LetGo'
  <2>1. CASE uefi_print_char
    BY <1>1, <1>7, <1>8, <2>1 DEF uefi_print_char, LetGo, UefiInv
  <2>2. CASE alloc_ram
    BY <1>1, <1>7, <1>8, <2>2 DEF alloc_ram, LetGo, UefiInv
  <2>3. CASE uefi_io_suspend
    BY <1>1, <1>7, <1>8, <2>3 DEF uefi_io_suspend, LetGo, UefiInv
  <2>4. CASE uefi_io_resume
    BY <1>1, <1>7, <1>8, <2>4 DEF uefi_io_resume, LetGo, UefiInv
  <2>5. CASE startnext
    BY <1>1, <1>7, <1>8, <2>5 DEF startnext, LetGo, UefiInv
  <2> QED BY <2>1, <2>2, <2>3, <2>4, <2>5
<1> QED BY <1>2, <1>4, <1>5, <1>6, <1>9 DEF UefiInv

LEMMA StutterKeeps == UefiInv /\ UNCHANGED uefiVars => UefiInv'
<1> SUFFICES ASSUME UefiInv, UNCHANGED uefiVars PROVE UefiInv'
  OBVIOUS
<1> USE DEF uefiVars, boot, fw, out, exit, look, told
<1>1. ImageStays' /\ BufferTaken' /\ MapHolds' /\ ToldHolds'
  BY MemoryStays DEF UefiInv
<1>2. Typed'
  <2>1. pages' \in Seq(PageTypes)
    BY DEF UefiInv, Typed
  <2> QED BY <2>1, TypedStays DEF UefiInv, Typed
<1>3. ReadInOrder' /\ LetGo'
  BY DEF UefiInv, ReadInOrder, Reading, LetGo, Exhausted
<1> QED BY <1>1, <1>2, <1>3 DEF UefiInv

\* What a boot from UEFI keeps at every step: the type of its state, startup's
\* image and the map's buffer are the firmware's pages given for them, a map
\* that was read describes the pages as they are, what was told is free is,
\* the map is read in the order of its calls, and when nobody is left to ask
\* for the exit the services are at an end or the exit was given up (uefi.c,
\* init_raminfo_uefi.c).
THEOREM UefiInvariant == UefiSpec => []UefiInv
<1>1. UefiInv /\ [UefiNext]_uefiVars => UefiInv'
  <2> SUFFICES ASSUME UefiInv, [UefiNext]_uefiVars PROVE UefiInv'
    OBVIOUS
  <2> QED
    BY EventKeeps, QueryKeeps, AllocKeeps, GetKeeps, do_raminfoKeeps, init_raminfo_efiKeeps,
       efi_entry_pointKeeps, uefi_exit_boot_servicesKeeps, UseKeeps, StartupKeeps, StutterKeeps
    DEF UefiNext
<1> QED BY InitInv, <1>1, PTL DEF UefiSpec
-----------------------------------------------------------------------------
(* What it gives.                                                          *)

LEMMA InvGivesLetGo == UefiInv => FirmwareLetGo
<1> SUFFICES ASSUME UefiInv PROVE FirmwareLetGo
  OBVIOUS
<1>1. \A p \in Used : pages[p] \notin Never
  BY DEF UefiInv, ToldHolds, Used
<1>2. todo # "kernel" => mine \intersect own = {}
  BY DEF UefiInv, ToldHolds
<1>3. svc /\ ~late /\ ~Exhausted => Used = {}
  <2> SUFFICES ASSUME svc, ~late, ~Exhausted PROVE Used = {}
    OBVIOUS
  <2>1. todo \in {"startup", "next"} => ~hook
    BY DEF UefiInv, ReadInOrder
  <2>2. todo \notin {"startup", "next", "kernel"}
    BY <2>1 DEF UefiInv, ReadInOrder, LetGo
  <2>3. mine = {}
    BY <2>2 DEF UefiInv, ReadInOrder
  <2> QED BY <2>2, <2>3 DEF Used
<1>4. todo = "kernel" => ~irq /\ ~con /\ (svc => Exhausted)
  BY DEF UefiInv, ReadInOrder, LetGo
<1>5. con => svc
  BY DEF UefiInv, LetGo
<1> QED BY <1>1, <1>2, <1>3, <1>4, <1>5 DEF FirmwareLetGo, MemoryIsOurs, ServicesEnded

\* For every memory map, whatever the firmware takes and gives back while it is
\* read and in whichever order it lists it: what startup uses and leaves to the
\* kernel is never memory the firmware keeps or startup's own image, and the
\* kernel starts behind the end of the boot services unless the exit gave up
\* (init_raminfo_uefi.c, init_raminfo_efi.c, uefi.c).
THEOREM FirmwareIsLetGo == UefiSpec => []FirmwareLetGo
<1> QED BY UefiInvariant, InvGivesLetGo, PTL

-----------------------------------------------------------------------------
(* Recursion over the cells of a section, the callouts of a list, ...      *)

\* A function that takes each value from the one before it.
Recurs(f, n, base, step) == f = [k \in 0 .. n |-> IF k = 0 THEN base ELSE step[k][f[k - 1]]]

LEMMA RecursExists ==
    ASSUME NEW D, NEW n \in Nat, NEW base \in D, NEW step \in [1 .. n -> [D -> D]]
    PROVE  \E f \in [0 .. n -> D] : Recurs(f, n, base, step)
<1> DEFINE Bad == {m \in Nat : m <= n /\ ~ \E f \in [0 .. m -> D] : Recurs(f, m, base, step)}
<1> SUFFICES ASSUME Bad # {} PROVE FALSE
  OBVIOUS
<1>1. PICK m \in Bad : \A j \in Bad : m <= j
  BY LeastNat
<1>2. m \in Nat /\ m <= n /\ ~ \E f \in [0 .. m -> D] : Recurs(f, m, base, step)
  OBVIOUS
<1>3. m # 0
  <2>1. [k \in 0 .. 0 |-> base] \in [0 .. 0 -> D]
    OBVIOUS
  <2>2. Recurs([k \in 0 .. 0 |-> base], 0, base, step)
    BY DEF Recurs
  <2> QED BY <1>2, <2>1, <2>2
<1>4. m - 1 \in Nat /\ m - 1 <= n /\ m - 1 \notin Bad
  BY <1>1, <1>2, <1>3
<1>5. PICK f \in [0 .. m - 1 -> D] : Recurs(f, m - 1, base, step)
  BY <1>4
<1> DEFINE last == step[m][f[m - 1]]
           more == [k \in 0 .. m |-> IF k = m THEN last ELSE f[k]]
<1>6. last \in D
  <2>1. m \in 1 .. n /\ m - 1 \in 0 .. m - 1
    BY <1>2, <1>3
  <2> QED BY <2>1
<1> HIDE DEF last
<1>7. \A k \in 0 .. m : more[k] = IF k = m THEN last ELSE f[k]
  OBVIOUS
<1>8. more \in [0 .. m -> D]
  <2>1. ASSUME NEW k \in 0 .. m, k # m PROVE f[k] \in D
    <3>1. k \in 0 .. m - 1
      BY <1>2, <2>1
    <3> QED BY <3>1
  <2> QED BY <1>6, <2>1
<1>9. ASSUME NEW k \in 0 .. m
      PROVE  more[k] = IF k = 0 THEN base ELSE step[k][more[k - 1]]
  <2>1. CASE k = m
    <3>1. m - 1 \in 0 .. m /\ m \in 0 .. m /\ m - 1 # m
      BY <1>2, <1>3
    <3>2. more[m] = last /\ more[m - 1] = f[m - 1]
      BY <1>7, <3>1
    <3> QED BY <1>3, <2>1, <3>2 DEF last
  <2>2. CASE k # m
    <3>1. k \in 0 .. m - 1
      BY <1>2, <2>2
    <3>2. f[k] = IF k = 0 THEN base ELSE step[k][f[k - 1]]
      BY <1>5, <3>1 DEF Recurs
    <3>3. k # 0 => k - 1 \in 0 .. m /\ k - 1 # m
      BY <1>2, <3>1
    <3>4. more[k] = f[k] /\ (k # 0 => more[k - 1] = f[k - 1])
      BY <1>7, <2>2, <3>3
    <3> QED BY <3>2, <3>4
  <2> QED BY <2>1, <2>2
<1>10. more = [k \in 0 .. m |-> more[k]]
  OBVIOUS
<1> HIDE DEF more
<1>11. Recurs(more, m, base, step)
  BY <1>9, <1>10 DEF Recurs
<1> QED BY <1>2, <1>8, <1>11

-----------------------------------------------------------------------------
(* Sums.                                                                   *)

IsSum(sum, seq, n) == sum = [k \in 0 .. n |-> IF k = 0 THEN 0 ELSE sum[k - 1] + seq[k]]

LEMMA SumIs ==
    ASSUME NEW n \in Nat, NEW seq \in [1 .. n -> Nat]
    PROVE  \E sum \in [0 .. n -> Nat] : IsSum(sum, seq, n) /\ SumOf(seq, n) = sum[n]
<1> DEFINE step == [k \in 1 .. n |-> [d \in Nat |-> d + seq[k]]]
<1>1. step \in [1 .. n -> [Nat -> Nat]]
  OBVIOUS
<1>2. \A k \in 1 .. n, d \in Nat : step[k][d] = d + seq[k]
  OBVIOUS
<1> HIDE DEF step
<1>3. PICK f \in [0 .. n -> Nat] : Recurs(f, n, 0, step)
  BY <1>1, RecursExists
<1>4. ASSUME NEW k \in 0 .. n PROVE f[k] = IF k = 0 THEN 0 ELSE f[k - 1] + seq[k]
  <2>1. f[k] = IF k = 0 THEN 0 ELSE step[k][f[k - 1]]
    BY <1>3 DEF Recurs
  <2>2. k # 0 => k \in 1 .. n /\ k - 1 \in 0 .. n
    OBVIOUS
  <2> QED BY <1>2, <2>1, <2>2
<1>5. f = [k \in 0 .. n |-> f[k]]
  OBVIOUS
<1>6. IsSum(f, seq, n)
  BY <1>4, <1>5 DEF IsSum
<1> DEFINE sum == CHOOSE h : IsSum(h, seq, n)
<1>7. IsSum(sum, seq, n)
  BY <1>6
<1>8. SumOf(seq, n) = sum[n]
  BY DEF SumOf, IsSum
<1> HIDE DEF sum
<1>9. sum \in [0 .. n -> Nat]
  <2> DEFINE Bad == {k \in 0 .. n : sum[k] \notin Nat}
  <2>1. Bad = {}
    <3> SUFFICES ASSUME Bad # {} PROVE FALSE
      OBVIOUS
    <3>1. Bad \subseteq Nat
      OBVIOUS
    <3>2. PICK k \in Bad : \A j \in Bad : k <= j
      BY <3>1, LeastNat
    <3>3. k \in 0 .. n /\ sum[k] \notin Nat
      OBVIOUS
    <3>4. sum[k] = IF k = 0 THEN 0 ELSE sum[k - 1] + seq[k]
      BY <1>7, <3>3 DEF IsSum
    <3>5. k # 0 /\ k - 1 \in 0 .. n /\ k - 1 \notin Bad
      BY <3>2, <3>3, <3>4
    <3>6. k \in 1 .. n /\ sum[k - 1] \in Nat /\ seq[k] \in Nat
      BY <3>3, <3>5
    <3>7. sum[k] = sum[k - 1] + seq[k]
      BY <3>4, <3>5
    <3> QED BY <3>3, <3>6, <3>7
  <2>2. sum = [k \in 0 .. n |-> sum[k]]
    BY <1>7 DEF IsSum
  <2> QED BY <2>1, <2>2
<1> QED BY <1>7, <1>8, <1>9

\* Two sums agree as far as both reach.
LEMMA SumsAgree ==
    ASSUME NEW n \in Nat, NEW m \in 0 .. n, NEW seq, NEW f, NEW h, IsSum(f, seq, n), IsSum(h, seq, m)
    PROVE  \A k \in 0 .. m : f[k] = h[k]
<1> DEFINE Bad == {k \in 0 .. m : f[k] # h[k]}
<1> SUFFICES ASSUME Bad # {} PROVE FALSE
  OBVIOUS
<1>1. Bad \subseteq Nat
  OBVIOUS
<1>2. PICK k \in Bad : \A j \in Bad : k <= j
  BY <1>1, LeastNat
<1>3. k \in 0 .. n /\ k \in 0 .. m /\ f[k] # h[k]
  OBVIOUS
<1>4. /\ f[k] = IF k = 0 THEN 0 ELSE f[k - 1] + seq[k]
      /\ h[k] = IF k = 0 THEN 0 ELSE h[k - 1] + seq[k]
  BY <1>3 DEF IsSum
<1>5. k # 0 /\ k - 1 \in 0 .. m /\ k - 1 \notin Bad
  BY <1>2, <1>3, <1>4
<1> QED BY <1>3, <1>4, <1>5

\* One more element; and the sum of fewer is no more.
LEMMA SumSteps ==
    ASSUME NEW seq, NEW n \in Nat, seq \in [1 .. n -> Nat]
    PROVE  /\ \A k \in 0 .. n : SumOf(seq, k) \in Nat
           /\ \A k \in 1 .. n : SumOf(seq, k) = SumOf(seq, k - 1) + seq[k]
           /\ \A j, k \in 0 .. n : j <= k => SumOf(seq, j) <= SumOf(seq, k)
<1>1. PICK sum \in [0 .. n -> Nat] : IsSum(sum, seq, n)
  BY SumIs
<1>2. ASSUME NEW k \in 0 .. n PROVE SumOf(seq, k) = sum[k]
  <2> DEFINE some == [i \in 1 .. k |-> seq[i]]
  <2>1. k \in Nat /\ some \in [1 .. k -> Nat] /\ \A i \in 1 .. k : some[i] = seq[i]
    OBVIOUS
  <2> HIDE DEF some
  <2>2. PICK f \in [0 .. k -> Nat] : IsSum(f, some, k)
    BY <2>1, SumIs
  <2>3. IsSum(f, seq, k)
    <3>1. ASSUME NEW i \in 0 .. k PROVE f[i] = IF i = 0 THEN 0 ELSE f[i - 1] + seq[i]
      <4>1. f[i] = IF i = 0 THEN 0 ELSE f[i - 1] + some[i]
        BY <2>2 DEF IsSum
      <4>2. i # 0 => i \in 1 .. k
        OBVIOUS
      <4> QED BY <2>1, <4>1, <4>2
    <3>2. f = [i \in 0 .. k |-> f[i]]
      OBVIOUS
    <3> QED BY <3>1, <3>2 DEF IsSum
  <2> DEFINE it == CHOOSE h : IsSum(h, seq, k)
  <2>4. IsSum(it, seq, k)
    BY <2>3
  <2>5. SumOf(seq, k) = it[k]
    BY DEF SumOf, IsSum
  <2> HIDE DEF it
  <2>6. sum[k] = it[k]
    <3>1. k \in 0 .. k
      OBVIOUS
    <3> QED BY <1>1, <2>4, <3>1, SumsAgree
  <2> QED BY <2>5, <2>6
<1>3. \A k \in 1 .. n : sum[k] = sum[k - 1] + seq[k]
  BY <1>1 DEF IsSum
<1>4. ASSUME NEW k \in 1 .. n PROVE SumOf(seq, k) = SumOf(seq, k - 1) + seq[k]
  <2>1. k \in 0 .. n /\ k - 1 \in 0 .. n
    OBVIOUS
  <2> QED BY <1>2, <1>3, <2>1
<1>5. ASSUME NEW j \in 0 .. n, NEW k \in 0 .. n, j <= k PROVE sum[j] <= sum[k]
  <2> DEFINE Bad == {i \in j .. n : sum[i] < sum[j]}
  <2>1. Bad = {}
    <3> SUFFICES ASSUME Bad # {} PROVE FALSE
      OBVIOUS
    <3>1. Bad \subseteq Nat
      OBVIOUS
    <3>2. PICK i \in Bad : \A h \in Bad : i <= h
      BY <3>1, LeastNat
    <3>3. i \in j .. n /\ sum[i] < sum[j] /\ i # j
      OBVIOUS
    <3>4. i - 1 \in j .. n /\ i - 1 \notin Bad /\ i \in 1 .. n
      BY <3>2, <3>3
    <3>5. sum[i] = sum[i - 1] + seq[i] /\ seq[i] \in Nat /\ sum[i - 1] >= sum[j] /\ sum[i - 1] \in Nat
      BY <1>3, <3>4
    <3>6. PICK a \in Nat, b \in Nat, c \in Nat : a = sum[i - 1] /\ b = seq[i] /\ c = sum[j]
      BY <1>1, <3>5
    <3>7. sum[i] = a + b /\ a >= c /\ sum[i] < c
      BY <3>3, <3>5, <3>6, Zenon
    <3> QED BY <3>7
  <2>2. k \in j .. n
    BY <1>5
  <2>3. ~(sum[k] < sum[j])
    BY <2>1, <2>2, Zenon
  <2>4. PICK a \in Nat, b \in Nat : a = sum[j] /\ b = sum[k]
    BY <1>1
  <2> QED BY <2>3, <2>4
<1>6. \A j, k \in 0 .. n : j <= k => SumOf(seq, j) <= SumOf(seq, k)
  BY <1>2, <1>5
<1>7. \A k \in 0 .. n : SumOf(seq, k) \in Nat
  BY <1>2
<1> QED BY <1>4, <1>6, <1>7

-----------------------------------------------------------------------------
(* Rounding up to pages.                                                   *)

LEMMA RoundUp ==
    ASSUME NEW n \in Nat, PageAssumption
    PROVE  RoundPg(n) \in Nat /\ RoundPg(n) >= n /\ RoundPg(n) % PageCells = 0
<1> DEFINE q == (n + PageCells - 1) \div PageCells
<1>1. PageCells \in Nat /\ PageCells > 0
  BY DEF PageAssumption
<1>2. /\ q \in Int
      /\ PageCells * q <= n + PageCells - 1 /\ n + PageCells - 1 < PageCells * q + PageCells
  <2>1. n + PageCells - 1 \in Nat
    BY <1>1
  <2> QED BY <1>1, <2>1
<1> HIDE DEF q
<1>3. PageCells * q \in Int
  BY <1>1, <1>2
<1>4. RoundPg(n) = PageCells * q
  BY DEF RoundPg, q
<1>5. PageCells * q >= n
  BY <1>1, <1>2, <1>3
<1>6. (PageCells * q) % PageCells = 0
  BY <1>1, <1>2, Z3
<1> QED BY <1>3, <1>4, <1>5, <1>6

LEMMA RoundUpMonotone ==
    ASSUME NEW n \in Nat, NEW m \in Nat, n <= m, PageAssumption
    PROVE  RoundPg(n) <= RoundPg(m)
<1> DEFINE a == (n + PageCells - 1) \div PageCells
           b == (m + PageCells - 1) \div PageCells
<1>1. PageCells \in Nat /\ PageCells > 0
  BY DEF PageAssumption
<1>2. /\ a \in Int /\ b \in Int
      /\ PageCells * a <= n + PageCells - 1 /\ m + PageCells - 1 < PageCells * b + PageCells
  <2>1. n + PageCells - 1 \in Nat /\ m + PageCells - 1 \in Nat
    BY <1>1
  <2> QED BY <1>1, <2>1
<1> HIDE DEF a, b
<1>3. PageCells * a < PageCells * (b + 1)
  <2>1. PageCells * (b + 1) = PageCells * b + PageCells /\ PageCells * a \in Int /\ PageCells * b \in Int
    BY <1>1, <1>2
  <2> QED BY <1>1, <1>2, <2>1
<1>4. a < b + 1
  BY <1>1, <1>2, <1>3
<1>5. PageCells * a <= PageCells * b
  BY <1>1, <1>2, <1>4
<1> QED BY <1>5 DEF RoundPg, a, b

-----------------------------------------------------------------------------
(* Moving cells up.                                                        *)

Cell == [sec : Sections \union {"header"}, i : Nat, fn : DOMAIN Callouts \union {NoFn}]

\* From the first cell to the last.
LEMMA MemcpyMoves ==
    ASSUME NEW lo \in Nat, NEW hi \in Nat, NEW m \in [lo .. hi -> Cell],
           NEW from \in Nat, NEW to \in Nat, NEW n \in Nat,
           lo <= from, from + n <= to, to + n <= hi + 1
    PROVE  memcpy(m, to, from, n) = [a \in lo .. hi |->
               IF a \in to .. to + n - 1 THEN m[a - to + from] ELSE m[a]]
<1> DEFINE M == [lo .. hi -> Cell]
           step == [k \in 1 .. n |-> [d \in M |-> [d EXCEPT ![to + k - 1] = d[from + k - 1]]]]
           Is(f) == f = [k \in 0 .. n |->
               IF k = 0 THEN m ELSE [f[k - 1] EXCEPT ![to + k - 1] = f[k - 1][from + k - 1]]]
<1>1. \A k \in 1 .. n : from + k - 1 \in lo .. hi /\ to + k - 1 \in lo .. hi
  OBVIOUS
<1>2. ASSUME NEW k \in 1 .. n, NEW d \in M
      PROVE  [d EXCEPT ![to + k - 1] = d[from + k - 1]] \in M
  <2>1. d[from + k - 1] \in Cell
    BY <1>1
  <2> QED BY <2>1
<1>3. step \in [1 .. n -> [M -> M]]
  BY <1>2
<1>4. \A k \in 1 .. n, d \in M : step[k][d] = [d EXCEPT ![to + k - 1] = d[from + k - 1]]
  OBVIOUS
<1> HIDE DEF step
<1>5. m \in M
  OBVIOUS
<1> HIDE DEF M
<1>6. PICK f \in [0 .. n -> M] : Recurs(f, n, m, step)
  BY <1>3, <1>5, RecursExists
<1>7. ASSUME NEW k \in 0 .. n
      PROVE  f[k] = IF k = 0 THEN m ELSE [f[k - 1] EXCEPT ![to + k - 1] = f[k - 1][from + k - 1]]
  <2>1. f[k] = IF k = 0 THEN m ELSE step[k][f[k - 1]]
    BY <1>6 DEF Recurs
  <2>2. k # 0 => k \in 1 .. n /\ k - 1 \in 0 .. n /\ f[k - 1] \in M
    BY <1>6
  <2>3. k # 0 => step[k][f[k - 1]] = [f[k - 1] EXCEPT ![to + k - 1] = f[k - 1][from + k - 1]]
    BY <1>4, <2>2
  <2> QED BY <2>1, <2>3
<1>8. f = [k \in 0 .. n |-> f[k]]
  BY <1>6
<1>9. \E h : Is(h)
  <2>1. Is(f)
    BY <1>7, <1>8
  <2> HIDE DEF Is
  <2> QED BY <2>1
<1> DEFINE after == CHOOSE h : Is(h)
<1>10. Is(after)
  BY <1>9
<1>11. memcpy(m, to, from, n) = after[n]
  BY DEF memcpy
<1> HIDE DEF after
<1> DEFINE Copied(k) == [a \in lo .. hi |->
               IF a \in to .. to + k - 1 THEN m[a - to + from] ELSE m[a]]
           Bad == {k \in 0 .. n : after[k] # Copied(k)}
<1>12. Bad = {}
  <2> SUFFICES ASSUME Bad # {} PROVE FALSE
    OBVIOUS
  <2>1. Bad \subseteq Nat
    OBVIOUS
  <2>2. PICK k \in Bad : \A j \in Bad : k <= j
    BY <2>1, LeastNat
  <2>3. k \in 0 .. n /\ after[k] # Copied(k)
    OBVIOUS
  <2> HIDE DEF Is
  <2>4. after[k] = IF k = 0 THEN m ELSE [after[k - 1] EXCEPT ![to + k - 1] = after[k - 1][from + k - 1]]
    BY <1>10, <2>3 DEF Is
  <2>5. k # 0
    <3>1. Copied(0) = m
      <4>1. \A a \in lo .. hi : ~(a \in to .. to + 0 - 1)
        OBVIOUS
      <4>2. m = [a \in lo .. hi |-> m[a]]
        OBVIOUS
      <4> QED BY <4>1, <4>2
    <3> QED BY <2>3, <2>4, <3>1
  <2>6. k - 1 \in 0 .. n /\ k - 1 \notin Bad /\ k \in 1 .. n
    BY <2>2, <2>3, <2>5
  <2>7. after[k - 1] = Copied(k - 1)
    BY <2>6
  <2>8. \A a \in lo .. hi : Copied(k - 1)[a] = IF a \in to .. to + (k - 1) - 1 THEN m[a - to + from] ELSE m[a]
    OBVIOUS
  <2>9. Copied(k - 1)[from + k - 1] = m[from + k - 1]
    <3>1. from + k - 1 \in lo .. hi /\ ~(from + k - 1 \in to .. to + (k - 1) - 1)
      BY <1>1, <2>6
    <3> QED BY <2>8, <3>1
  <2>10. after[k] = [Copied(k - 1) EXCEPT ![to + k - 1] = m[from + k - 1]]
    BY <2>4, <2>5, <2>7, <2>9
  <2>11. after[k] = [a \in lo .. hi |-> IF a = to + k - 1 THEN m[from + k - 1] ELSE Copied(k - 1)[a]]
    BY <2>10
  <2>12. ASSUME NEW a \in lo .. hi
         PROVE  (IF a = to + k - 1 THEN m[from + k - 1] ELSE Copied(k - 1)[a])
                = IF a \in to .. to + k - 1 THEN m[a - to + from] ELSE m[a]
    <3>1. CASE a = to + k - 1
      <4>1. k \in 1 .. n
        BY <2>6, Zenon
      <4>2. a \in to .. to + k - 1 /\ a - to + from = from + k - 1
        BY <3>1, <4>1
      <4> QED BY <3>1, <4>2
    <3>2. CASE a # to + k - 1
      <4>1. a \in to .. to + k - 1 <=> a \in to .. to + (k - 1) - 1
        <5>1. k \in 1 .. n
          BY <2>6, Zenon
        <5> QED BY <3>2, <5>1
      <4> QED BY <2>8, <3>2, <4>1
    <3> QED BY <3>1, <3>2
  <2> HIDE DEF Bad
  <2>13. after[k] = Copied(k)
    BY <2>11, <2>12
  <2> QED BY <2>3, <2>13
<1>13. after[n] = Copied(n)
  <2>1. n \in 0 .. n
    OBVIOUS
  <2>2. n \in 0 .. n /\ after[n] # Copied(n) => n \in Bad
    OBVIOUS
  <2> HIDE DEF Bad, Copied
  <2> QED BY <1>12, <2>1, <2>2
<1> QED BY <1>11, <1>13

\* From the last cell to the first.
Shifted(r, m, lo, hi, to, from, n) ==
    r = [a \in lo .. hi |-> IF a \in to .. to + n - 1 THEN m[a - to + from] ELSE m[a]]

LEMMA MemmoveMoves ==
    ASSUME NEW lo \in Nat, NEW hi \in Nat, NEW m \in [lo .. hi -> Cell],
           NEW from \in Nat, NEW to \in Nat, NEW n \in Nat,
           lo <= from, from < to, to + n <= hi + 1
    PROVE  Shifted(memmove(m, to, from, n), m, lo, hi, to, from, n)
<1>1. CASE from + n <= to
  <2>1. ~(from < to /\ from + n > to)
    BY <1>1
  <2>2. memmove(m, to, from, n) = memcpy(m, to, from, n)
    BY <2>1 DEF memmove
  <2>3. memcpy(m, to, from, n) = [a \in lo .. hi |->
               IF a \in to .. to + n - 1 THEN m[a - to + from] ELSE m[a]]
    BY <1>1, MemcpyMoves
  <2> QED BY <2>2, <2>3 DEF Shifted
<1>2. CASE from + n > to
<2> DEFINE M == [lo .. hi -> Cell]
           step == [k \in 1 .. n |-> [d \in M |-> [d EXCEPT ![to + n - k] = d[from + n - k]]]]
           Is(f) == f = [k \in 0 .. n |->
               IF k = 0 THEN m ELSE [f[k - 1] EXCEPT ![to + n - k] = f[k - 1][from + n - k]]]
<2>1. \A k \in 1 .. n : from + n - k \in lo .. hi /\ to + n - k \in lo .. hi
  OBVIOUS
<2>2. ASSUME NEW k \in 1 .. n, NEW d \in M
      PROVE  [d EXCEPT ![to + n - k] = d[from + n - k]] \in M
  <3>1. d[from + n - k] \in Cell
    BY <2>1
  <3> QED BY <3>1
<2>3. step \in [1 .. n -> [M -> M]]
  BY <2>2
<2>4. \A k \in 1 .. n, d \in M : step[k][d] = [d EXCEPT ![to + n - k] = d[from + n - k]]
  OBVIOUS
<2> HIDE DEF step
<2>5. m \in M
  OBVIOUS
<2> HIDE DEF M
<2>6. PICK f \in [0 .. n -> M] : Recurs(f, n, m, step)
  BY <2>3, <2>5, RecursExists
<2>7. ASSUME NEW k \in 0 .. n
      PROVE  f[k] = IF k = 0 THEN m ELSE [f[k - 1] EXCEPT ![to + n - k] = f[k - 1][from + n - k]]
  <3>1. f[k] = IF k = 0 THEN m ELSE step[k][f[k - 1]]
    BY <2>6 DEF Recurs
  <3>2. k # 0 => k \in 1 .. n /\ k - 1 \in 0 .. n /\ f[k - 1] \in M
    BY <2>6
  <3>3. k # 0 => step[k][f[k - 1]] = [f[k - 1] EXCEPT ![to + n - k] = f[k - 1][from + n - k]]
    BY <2>4, <3>2
  <3> QED BY <3>1, <3>3
<2>8. f = [k \in 0 .. n |-> f[k]]
  BY <2>6
<2>9. \E h : Is(h)
  <3>1. Is(f)
    BY <2>7, <2>8
  <3> HIDE DEF Is
  <3> QED BY <3>1
<2> DEFINE after == CHOOSE h : Is(h)
<2>10. Is(after)
  BY <2>9
<2>11. memmove(m, to, from, n) = after[n]
  BY <1>2 DEF memmove
<2> HIDE DEF after
<2> DEFINE Moved(k) == [a \in lo .. hi |->
               IF a \in to + n - k .. to + n - 1 THEN m[a - to + from] ELSE m[a]]
           Bad == {k \in 0 .. n : after[k] # Moved(k)}
<2>12. Bad = {}
  <3> SUFFICES ASSUME Bad # {} PROVE FALSE
    OBVIOUS
  <3>1. Bad \subseteq Nat
    OBVIOUS
  <3>2. PICK k \in Bad : \A j \in Bad : k <= j
    BY <3>1, LeastNat
  <3>3. k \in 0 .. n /\ after[k] # Moved(k)
    OBVIOUS
  <3> HIDE DEF Is
  <3>4. after[k] = IF k = 0 THEN m ELSE [after[k - 1] EXCEPT ![to + n - k] = after[k - 1][from + n - k]]
    BY <2>10, <3>3 DEF Is
  <3>5. k # 0
    <4>1. Moved(0) = m
      <5>1. \A a \in lo .. hi : ~(a \in to + n - 0 .. to + n - 1)
        OBVIOUS
      <5>2. m = [a \in lo .. hi |-> m[a]]
        OBVIOUS
      <5> QED BY <5>1, <5>2
    <4> QED BY <3>3, <3>4, <4>1
  <3>6. k - 1 \in 0 .. n /\ k - 1 \notin Bad /\ k \in 1 .. n
    <4>1. k - 1 \in 0 .. n /\ k \in 1 .. n /\ ~(k <= k - 1)
      BY <3>3, <3>5
    <4> HIDE DEF Bad
    <4> QED BY <3>2, <4>1
  <3>7. after[k - 1] = Moved(k - 1)
    BY <3>6
  <3>8. \A a \in lo .. hi : Moved(k - 1)[a] = IF a \in to + n - (k - 1) .. to + n - 1 THEN m[a - to + from] ELSE m[a]
    OBVIOUS
  <3>9. Moved(k - 1)[from + n - k] = m[from + n - k]
    <4>1. ~(from + n - k \in to + n - (k - 1) .. to + n - 1)
      <5>1. k \in 1 .. n
        BY <3>6, Zenon
      <5> QED BY <5>1
    <4>2. from + n - k \in lo .. hi
      BY <2>1, <3>6
    <4> QED BY <3>8, <4>1, <4>2
  <3>10. after[k] = [Moved(k - 1) EXCEPT ![to + n - k] = m[from + n - k]]
    BY <3>4, <3>5, <3>7, <3>9
  <3>11. after[k] = [a \in lo .. hi |-> IF a = to + n - k THEN m[from + n - k] ELSE Moved(k - 1)[a]]
    BY <3>10
  <3>12. ASSUME NEW a \in lo .. hi
         PROVE  (IF a = to + n - k THEN m[from + n - k] ELSE Moved(k - 1)[a])
                = IF a \in to + n - k .. to + n - 1 THEN m[a - to + from] ELSE m[a]
    <4>1. CASE a = to + n - k
      <5>1. a \in to + n - k .. to + n - 1 /\ a - to + from = from + n - k
        BY <3>6, <4>1
      <5> QED BY <4>1, <5>1
    <4>2. CASE a # to + n - k
      <5>1. a \in to + n - k .. to + n - 1 <=> a \in to + n - (k - 1) .. to + n - 1
        <6>1. a \in Int /\ k \in Int
          BY <3>6
        <6> QED BY <4>2, <6>1
      <5> QED BY <3>8, <4>2, <5>1
    <4> QED BY <4>1, <4>2
  <3> HIDE DEF Bad
  <3>13. after[k] = Moved(k)
    BY <3>11, <3>12
  <3> QED BY <3>3, <3>13
<2>13. after[n] = Moved(n)
  <3>1. n \in 0 .. n
    OBVIOUS
  <3>2. n \in 0 .. n /\ after[n] # Moved(n) => n \in Bad
    OBVIOUS
  <3> HIDE DEF Bad, Moved
  <3> QED BY <2>12, <3>1, <3>2
<2>14. to + n - n = to
  OBVIOUS
<2> QED BY <2>11, <2>13, <2>14 DEF Shifted
<1> QED BY <1>1, <1>2

-----------------------------------------------------------------------------
(* Sections in the page.                                                   *)

InPage(l) == l.base .. l.base + l.total - 1

PageTyped(l) ==
    l \in [base : Nat, max : Nat, fixed : Nat, total : Nat,
           p : [Sections -> Nat], size : [Sections -> Nat], cell : [InPage(l) -> Cell]]

\* Each section is whole, in the page, and no other begins within it; each
\* cell is the header's or that of a section.
SectionWhole(l, s) ==
    \A k \in 0 .. l.size[s] - 1 : l.cell[l.p[s] + k].sec = s /\ l.cell[l.p[s] + k].i = k
OwnedCell(l, a) ==
    LET c == l.cell[a] IN
    IF c.sec = "header" THEN a = l.base + c.i /\ c.i \in 0 .. Header - 1
    ELSE c.sec \in Sections /\ c.i \in 0 .. l.size[c.sec] - 1 /\ a = l.p[c.sec] + c.i
Whole(l) ==
    /\ \A s \in Sections : SectionWhole(l, s)
    /\ \A s \in Sections : l.base + Header <= l.p[s] /\ Bottom(l, s) <= l.base + l.total
    /\ \A a \in InPage(l) : OwnedCell(l, a)
    /\ \A s, t \in Sections : ~(l.p[s] < l.p[t] /\ l.p[t] < Bottom(l, s))

\* grow_syspage_section() as a relation.
Grew(pg, l, s, content) ==
    LET add == Len(content)
        bottom == Bottom(l, s)
    IN  /\ PageTyped(pg)
        /\ pg.base = l.base /\ pg.max = l.max /\ pg.fixed = l.fixed /\ pg.total = l.total + add
        /\ \A t \in Sections : pg.p[t] = IF Above(l, s, t) THEN l.p[t] + add ELSE l.p[t]
        /\ \A t \in Sections : pg.size[t] = IF t = s THEN l.size[t] + add ELSE l.size[t]
        /\ \A a \in InPage(pg) :
              pg.cell[a] = IF a < bottom THEN l.cell[a]
                          ELSE IF a < bottom + add THEN content[a - bottom + 1] ELSE l.cell[a - add]

LEMMA PageNumbers ==
    ASSUME NEW l, PageTyped(l)
    PROVE  /\ l.base \in Nat /\ l.total \in Nat /\ l.fixed \in Nat /\ l.max \in Nat
           /\ \A t \in Sections : /\ l.p[t] \in Nat /\ l.size[t] \in Nat
                                  /\ Bottom(l, t) \in Nat /\ Bottom(l, t) = l.p[t] + l.size[t]
BY DEF PageTyped, Bottom

LEMMA SectionNames ==
    ASSUME PageAssumption
    PROVE  /\ "callout" \in Sections /\ "asinfo" \in Sections /\ "intrinfo" \in Sections
           /\ "header" \notin Sections /\ Header \in Nat
           /\ \A s \in DOMAIN Fixed : s \in Sections /\ s \notin DOMAIN Grown /\ Fixed[s] \in Nat /\ Fixed[s] > 0
           /\ \A s \in DOMAIN Grown : s \in Sections /\ Grown[s] \in Nat /\ Grown[s] > 0
BY DEF PageAssumption, Sections

LEMMA GrowIs ==
    ASSUME PageAssumption, NEW l, PageTyped(l), NEW s \in Sections,
           l.base <= l.p[s], Bottom(l, s) <= l.base + l.total, NEW n \in Nat \ {0}, NEW content \in [1 .. n -> Cell]
    PROVE  Grew(Grow(l, s, content), l, s, content)
<1>1. Len(content) = n /\ n # 0 /\ n \in Nat /\ n > 0
  OBVIOUS
<1>2. PICK lo \in Nat : lo = l.base
  BY DEF PageTyped
<1>3. PICK bottom \in Nat : bottom = Bottom(l, s)
  BY DEF PageTyped, Bottom
<1>4. PICK top \in Nat : top = l.base + l.total
  BY DEF PageTyped
<1>5. /\ lo <= bottom /\ bottom <= top
      /\ l.p[s] \in Nat /\ l.size[s] \in Nat /\ l.total \in Nat /\ top = lo + l.total
  BY <1>2, <1>3, <1>4 DEF PageTyped, Bottom
<1> DEFINE room == [a \in lo .. top + n - 1 |-> IF a \in DOMAIN l.cell THEN l.cell[a] ELSE content[1]]
           moved == memmove(room, bottom + n, bottom, top - bottom)
           p == [t \in Sections |-> IF Above(l, s, t) THEN l.p[t] + n ELSE l.p[t]]
           sizes == [l.size EXCEPT ![s] = l.size[s] + n]
           cell == [a \in DOMAIN room |->
                     IF a \in bottom .. bottom + n - 1 THEN content[a - bottom + 1] ELSE moved[a]]
           pg == [base |-> l.base, max |-> l.max, fixed |-> l.fixed,
                 p |-> p, size |-> sizes, cell |-> cell, total |-> l.total + n]
<1>6. Grow(l, s, content) = pg
  <2> DEFINE space == [a \in l.base .. l.base + l.total + n - 1 |-> IF a \in DOMAIN l.cell THEN l.cell[a] ELSE content[1]]
  <2>1. space = room
    BY <1>2, <1>4
  <2> HIDE DEF room, space
  <2>2. Grow(l, s, content) =
        IF n = 0 THEN l ELSE
        [base |-> l.base, max |-> l.max, fixed |-> l.fixed, p |-> p, size |-> sizes,
         cell |-> [a \in DOMAIN space |->
                     IF a \in bottom .. bottom + n - 1 THEN content[a - bottom + 1]
                     ELSE memmove(space, bottom + n, bottom, l.base + l.total - bottom)[a]],
         total |-> l.total + n]
    BY <1>1, <1>3, Zenon DEF Grow, space
  <2>3. ~(n = 0)
    BY <1>1
  <2>4. memmove(space, bottom + n, bottom, l.base + l.total - bottom) = moved
    <3>1. l.base + l.total - bottom = top - bottom
      BY <1>2, <1>5
    <3> QED BY <2>1, <3>1, Zenon
  <2> HIDE DEF moved
  <2>5. [a \in DOMAIN space |->
                     IF a \in bottom .. bottom + n - 1 THEN content[a - bottom + 1]
                     ELSE memmove(space, bottom + n, bottom, l.base + l.total - bottom)[a]] = cell
    BY <2>1, <2>4
  <2> HIDE DEF p, sizes, cell
  <2> QED BY <2>2, <2>3, <2>5, Zenon
<1> SUFFICES Grew(pg, l, s, content)
  BY <1>6
<1>7. p \in [Sections -> Nat] /\ \A t \in Sections : p[t] = IF Above(l, s, t) THEN l.p[t] + n ELSE l.p[t]
  BY DEF PageTyped
<1>8. /\ sizes \in [Sections -> Nat]
      /\ \A t \in Sections : sizes[t] = IF t = s THEN l.size[t] + n ELSE l.size[t]
  <2>1. l.size \in [Sections -> Nat]
    BY DEF PageTyped
  <2>2. l.size[s] + n \in Nat
    BY <1>1, <1>5
  <2> QED BY <2>1, <2>2
<1>9. /\ \A a \in lo .. top - 1 : a \in DOMAIN l.cell /\ l.cell[a] \in Cell
      /\ \A a \in top .. top + n - 1 : a \notin DOMAIN l.cell
      /\ content[1] \in Cell
  <2>1. InPage(l) = lo .. top - 1
    <3>1. PICK total \in Nat : total = l.total /\ top = lo + total
      BY <1>5
    <3>2. InPage(l) = lo .. lo + total - 1
      BY <1>2, <3>1, Zenon DEF InPage
    <3> QED BY <3>1, <3>2
  <2>2. l.cell \in [lo .. top - 1 -> Cell]
    BY <2>1 DEF PageTyped
  <2>3. \A a \in top .. top + n - 1 : a \notin lo .. top - 1
    BY <1>1
  <2> QED BY <1>1, <2>2, <2>3
<1>10. /\ room \in [lo .. top + n - 1 -> Cell]
      /\ \A a \in lo .. top - 1 : room[a] = l.cell[a]
  <2>1. ASSUME NEW a \in lo .. top + n - 1 PROVE (IF a \in DOMAIN l.cell THEN l.cell[a] ELSE content[1]) \in Cell
    <3>1. a \in lo .. top - 1 \/ a \in top .. top + n - 1
      BY <1>1, <1>5
    <3> QED BY <1>9, <3>1
  <2>2. \A a \in lo .. top - 1 : a \in lo .. top + n - 1
    BY <1>1, <1>5
  <2> QED BY <1>9, <2>1, <2>2
<1> HIDE DEF room
<1>11. moved = [a \in lo .. top + n - 1 |->
             IF a \in bottom + n .. bottom + n + (top - bottom) - 1 THEN room[a - (bottom + n) + bottom] ELSE room[a]]
  <2>1. top - bottom \in Nat /\ bottom < bottom + n /\ bottom + n + (top - bottom) <= (top + n - 1) + 1
        /\ top + n - 1 \in Nat /\ bottom + n \in Nat
    <3>1. n >= 1 /\ bottom <= top
      BY <1>1, <1>5
    <3> QED BY <3>1
  <2>2. PICK hi \in Nat, to \in Nat, rest \in Nat : hi = top + n - 1 /\ to = bottom + n /\ rest = top - bottom
    BY <2>1
  <2>3. room \in [lo .. hi -> Cell]
    BY <1>10, <2>2
  <2>4. bottom < to /\ to + rest <= hi + 1
    BY <2>1, <2>2
  <2>5. Shifted(memmove(room, to, bottom, rest), room, lo, hi, to, bottom, rest)
    BY <1>5, <2>3, <2>4, MemmoveMoves
  <2> QED BY <2>2, <2>5, Zenon DEF Shifted
<1> HIDE DEF moved
<1>12. DOMAIN room = lo .. top + n - 1
  BY <1>10
<1>13. ASSUME NEW a \in lo .. top + n - 1
      PROVE  /\ cell[a] \in Cell
             /\ cell[a] = IF a < bottom THEN l.cell[a]
                          ELSE IF a < bottom + n THEN content[a - bottom + 1] ELSE l.cell[a - n]
  <2>1. n > 0 /\ n \in Nat /\ lo <= bottom /\ bottom <= top /\ a \in Int /\ lo <= a /\ a <= top + n - 1
    BY <1>1, <1>5
  <2>2. cell[a] = IF a \in bottom .. bottom + n - 1 THEN content[a - bottom + 1] ELSE moved[a]
    BY <1>12
  <2>3. moved[a] = IF a \in bottom + n .. bottom + n + (top - bottom) - 1 THEN room[a - (bottom + n) + bottom] ELSE room[a]
    BY <1>11
  <2> HIDE DEF cell
  <2>4. CASE a < bottom
    <3>1. a \in lo .. top - 1 /\ ~(a \in bottom .. bottom + n - 1)
          /\ ~(a \in bottom + n .. bottom + n + (top - bottom) - 1)
      BY <2>4, <2>1
    <3> QED BY <1>9, <1>10, <2>2, <2>3, <2>4, <3>1
  <2>5. CASE bottom <= a /\ a < bottom + n
    <3>1. a \in bottom .. bottom + n - 1 /\ ~(a < bottom) /\ a - bottom + 1 \in 1 .. n
      BY <2>5, <2>1
    <3> QED BY <2>2, <2>5, <3>1
  <2>6. CASE bottom + n <= a
    <3>1. /\ a \in bottom + n .. bottom + n + (top - bottom) - 1 /\ ~(a \in bottom .. bottom + n - 1)
          /\ a - (bottom + n) + bottom = a - n /\ a - n \in lo .. top - 1
          /\ ~(a < bottom) /\ ~(a < bottom + n)
      <4>1. lo <= a - n /\ a - n <= top - 1 /\ a - n \in Int
        BY <2>6, <2>1
      <4>2. a <= bottom + n + (top - bottom) - 1 /\ a > bottom + n - 1
        BY <2>6, <2>1
      <4>3. a - (bottom + n) + bottom = a - n
        BY <2>1
      <4>4. ~(a < bottom) /\ ~(a < bottom + n) /\ ~(a \in bottom .. bottom + n - 1)
        BY <2>6, <2>1
      <4>5. a - n \in lo .. top - 1
        BY <4>1
      <4>6. a \in bottom + n .. bottom + n + (top - bottom) - 1
        BY <2>6, <2>1, <4>2
      <4> QED BY <4>3, <4>4, <4>5, <4>6
    <3> QED BY <1>9, <1>10, <2>2, <2>3, <3>1
  <2> QED BY <1>1, <1>5, <2>4, <2>5, <2>6
<1>14. cell \in [lo .. top + n - 1 -> Cell]
  <2>1. cell = [a \in lo .. top + n - 1 |-> cell[a]]
    BY <1>12
  <2> HIDE DEF cell
  <2> QED BY <1>13, <2>1
<1> HIDE DEF cell, p, sizes
<1>15. lo .. top + n - 1 = InPage(pg)
  <2>1. pg.base = l.base /\ pg.total = l.total + n
    OBVIOUS
  <2>2. l.base + (l.total + n) - 1 = top + n - 1
    BY <1>1, <1>2, <1>5
  <2> QED BY <1>2, <2>1, <2>2 DEF InPage
<1>16. PageTyped(pg)
  <2>1. pg.base \in Nat /\ pg.max \in Nat /\ pg.fixed \in Nat /\ pg.total \in Nat
    BY DEF PageTyped
  <2>2. pg.cell \in [InPage(pg) -> Cell]
    BY <1>14, <1>15
  <2> QED BY <1>7, <1>8, <2>1, <2>2 DEF PageTyped
<1>17. \A a \in InPage(pg) :
            pg.cell[a] = IF a < bottom THEN l.cell[a]
                        ELSE IF a < bottom + n THEN content[a - bottom + 1] ELSE l.cell[a - n]
  BY <1>13, <1>15
<1>18. pg.base = l.base /\ pg.max = l.max /\ pg.fixed = l.fixed /\ pg.total = l.total + n /\ pg.p = p /\ pg.size = sizes
  OBVIOUS
<1> HIDE DEF pg
<1> QED BY <1>1, <1>5, <1>7, <1>8, <1>16, <1>17, <1>3, <1>18 DEF Grew

\* n cells of a section, from one on.
CellsFrom(content, s, from, n) ==
    /\ content \in [1 .. n -> Cell] /\ Len(content) = n
    /\ \A k \in 1 .. n : content[k].sec = s /\ content[k].i = from + k - 1

LEMMA CellsAre ==
    ASSUME NEW s \in Sections, NEW from \in Nat, NEW n \in Nat \ {0}, NEW fn \in DOMAIN Callouts \union {NoFn},
           NEW content, content = Cells(s, from, n, fn)
    PROVE  CellsFrom(content, s, from, n)
<1> DEFINE it == [k \in 1 .. n |-> [sec |-> s, i |-> from + k - 1, fn |-> fn]]
<1>1. Cells(s, from, n, fn) = it
  BY DEF Cells
<1>2. \A k \in 1 .. n : from + k - 1 \in Nat
  OBVIOUS
<1>3. \A k \in 1 .. n : [sec |-> s, i |-> from + k - 1, fn |-> fn] \in Cell
  BY <1>2 DEF Cell
<1>4. it \in [1 .. n -> Cell]
  BY <1>3
<1>5. \A k \in 1 .. n : it[k].sec = s /\ it[k].i = from + k - 1 /\ it[k].fn = fn
  OBVIOUS
<1> HIDE DEF it
<1>6. Len(it) = n
  BY <1>4
<1> QED BY <1>1, <1>4, <1>5, <1>6 DEF CellsFrom

\* No section lies across the place where one grows.
LEMMA NothingAcross ==
    ASSUME PageAssumption, NEW l, PageTyped(l), Whole(l), NEW s \in Sections, NEW t \in Sections, t # s
    PROVE  l.p[t] >= Bottom(l, s) \/ Bottom(l, t) <= Bottom(l, s)
<1> SUFFICES ASSUME l.p[t] < Bottom(l, s), Bottom(l, s) < Bottom(l, t) PROVE FALSE
  BY DEF PageTyped, Bottom
<1>1. /\ l.p[s] \in Nat /\ l.size[s] \in Nat /\ l.p[t] \in Nat /\ l.size[t] \in Nat
      /\ Bottom(l, s) = l.p[s] + l.size[s] /\ Bottom(l, t) = l.p[t] + l.size[t]
  BY DEF PageTyped, Bottom
<1>2. CASE l.size[s] = 0
  BY <1>1, <1>2 DEF Whole
<1>3. CASE l.size[s] # 0
  <2> DEFINE j == l.size[s] - 1
             k == l.p[s] + j - l.p[t]
  <2>1. j \in 0 .. l.size[s] - 1 /\ k \in 0 .. l.size[t] - 1 /\ l.p[s] + j = l.p[t] + k
    BY <1>1, <1>3
  <2> HIDE DEF j, k
  <2>2. l.cell[l.p[s] + j].sec = s /\ l.cell[l.p[t] + k].sec = t
    BY <2>1 DEF Whole, SectionWhole
  <2> QED BY <2>1, <2>2
<1> QED BY <1>2, <1>3

LEMMA GrewWhole ==
    ASSUME PageAssumption, NEW l, NEW pg, PageTyped(l), Whole(l), NEW s \in Sections,
           NEW n \in Nat \ {0}, NEW content, Len(content) = n, Grew(pg, l, s, content),
           \A k \in 1 .. n : content[k].sec = s /\ content[k].i = l.size[s] + k - 1
    PROVE  Whole(pg)
<1>1. /\ \A t \in Sections : l.p[t] \in Nat /\ l.size[t] \in Nat /\ Bottom(l, t) = l.p[t] + l.size[t]
      /\ l.base \in Nat /\ l.total \in Nat /\ Header \in Nat
      /\ "header" \notin Sections
  BY SectionNames, PageNumbers, Zenon
<1>2. PICK bottom \in Nat : bottom = Bottom(l, s)
  BY PageNumbers, Zenon
<1>3. /\ n \in Nat /\ n > 0 /\ bottom = l.p[s] + l.size[s] /\ l.p[s] <= bottom
      /\ l.base + Header <= l.p[s] /\ bottom <= l.base + l.total
  <2>1. l.base + Header <= l.p[s] /\ bottom <= l.base + l.total
    BY <1>2, Zenon DEF Whole
  <2>2. PICK ps \in Nat, zs \in Nat : ps = l.p[s] /\ zs = l.size[s]
    BY <1>1, Zenon
  <2>3. bottom = ps + zs
    BY <1>1, <1>2, <2>2, Zenon
  <2> QED BY <2>1, <2>2, <2>3
<1>4. /\ pg.base = l.base /\ pg.total = l.total + n
      /\ \A t \in Sections : pg.size[t] = IF t = s THEN l.size[t] + n ELSE l.size[t]
      /\ \A a \in InPage(pg) :
            pg.cell[a] = IF a < bottom THEN l.cell[a]
                        ELSE IF a < bottom + n THEN content[a - bottom + 1] ELSE l.cell[a - n]
  BY <1>2 DEF Grew
<1>5. /\ \A t \in Sections : pg.p[t] = IF Above(l, s, t) THEN l.p[t] + n ELSE l.p[t]
      /\ \A t \in Sections : Above(l, s, t) <=> t # s /\ l.p[t] >= bottom
  BY <1>2 DEF Grew, Above
<1>6. \A t \in Sections \ {s} : l.p[t] >= bottom \/ l.p[t] + l.size[t] <= bottom
  BY <1>1, <1>2, NothingAcross
<1>7. /\ \A t \in Sections : l.base + Header <= l.p[t] /\ l.p[t] + l.size[t] <= l.base + l.total
      /\ \A t, u \in Sections : ~(l.p[t] < l.p[u] /\ l.p[u] < l.p[t] + l.size[t])
  BY <1>1 DEF Whole
<1>8. \A t \in Sections :
        \/ t = s /\ pg.p[t] = l.p[t] /\ pg.size[t] = l.size[t] + n
        \/ t # s /\ l.p[t] >= bottom /\ pg.p[t] = l.p[t] + n /\ pg.size[t] = l.size[t]
        \/ t # s /\ l.p[t] < bottom /\ l.p[t] + l.size[t] <= bottom /\ pg.p[t] = l.p[t] /\ pg.size[t] = l.size[t]
  <2> TAKE t \in Sections
  <2>1. l.p[t] \in Nat /\ l.size[t] \in Nat
    BY <1>1
  <2>2. t = s \/ (t # s /\ l.p[t] >= bottom) \/ (t # s /\ l.p[t] < bottom /\ l.p[t] + l.size[t] <= bottom)
    BY <1>6, <2>1
  <2>3. pg.size[t] = IF t = s THEN l.size[t] + n ELSE l.size[t]
    BY <1>4
  <2>4. pg.p[t] = IF t # s /\ l.p[t] >= bottom THEN l.p[t] + n ELSE l.p[t]
    BY <1>5
  <2>5. l.p[t] < bottom => ~(l.p[t] >= bottom)
    BY <2>1
  <2> QED BY <2>2, <2>3, <2>4, <2>5
<1>9. \A t \in Sections : pg.p[t] \in Nat /\ pg.size[t] \in Nat /\ Bottom(pg, t) = pg.p[t] + pg.size[t]
  <2>1. PageTyped(pg)
    BY DEF Grew
  <2> QED BY <2>1 DEF PageTyped, Bottom
<1>10. /\ \A t \in Sections : pg.base + Header <= pg.p[t] /\ Bottom(pg, t) <= pg.base + pg.total
       /\ \A t, u \in Sections : ~(pg.p[t] < pg.p[u] /\ pg.p[u] < Bottom(pg, t))
       /\ \A t \in Sections, k \in Nat : k < pg.size[t] => pg.p[t] + k \in InPage(pg)
  <2> SUFFICES ASSUME NEW t \in Sections, NEW u \in Sections
               PROVE  /\ pg.base + Header <= pg.p[t] /\ Bottom(pg, t) <= pg.base + pg.total
                      /\ ~(pg.p[t] < pg.p[u] /\ pg.p[u] < Bottom(pg, t))
                      /\ \A k \in Nat : k < pg.size[t] => pg.p[t] + k \in InPage(pg)
    OBVIOUS
  <2>1. PICK ps \in Nat, zs \in Nat, pt \in Nat, zt \in Nat, pu \in Nat, zu \in Nat :
          ps = l.p[s] /\ zs = l.size[s] /\ pt = l.p[t] /\ zt = l.size[t] /\ pu = l.p[u] /\ zu = l.size[u]
    BY <1>1
  <2>2. PICK qt \in Nat, yt \in Nat, qu \in Nat : qt = pg.p[t] /\ yt = pg.size[t] /\ qu = pg.p[u]
    BY <1>9
  <2>3. PICK lo \in Nat, total \in Nat : lo = l.base /\ total = l.total
    BY <1>1
  <2>4. /\ ~(pt < pu /\ pu < pt + zt) /\ ~(ps < pu /\ pu < ps + zs)
        /\ lo + Header <= pt /\ pt + zt <= lo + total
        /\ lo + Header <= ps /\ ps <= bottom /\ bottom = ps + zs
        /\ t = s => pt = ps /\ zt = zs
        /\ u = s => pu = ps
    BY <1>3, <1>7, <2>1, <2>3
  <2>5. /\ \/ t = s /\ qt = pt /\ yt = zt + n
           \/ t # s /\ pt >= bottom /\ qt = pt + n /\ yt = zt
           \/ t # s /\ pt < bottom /\ pt + zt <= bottom /\ qt = pt /\ yt = zt
        /\ \/ u = s /\ qu = pu
           \/ u # s /\ pu >= bottom /\ qu = pu + n
           \/ u # s /\ pu < bottom /\ pu + zu <= bottom /\ qu = pu
    BY <1>8, <2>1, <2>2
  <2>6. pg.base = lo /\ pg.total = total + n /\ Bottom(pg, t) = qt + yt
    BY <1>4, <1>9, <2>2, <2>3
  <2>7. ~(qt < qu /\ qu < qt + yt)
    BY <1>3, <2>4, <2>5
  <2>8. lo + Header <= qt /\ qt + yt <= lo + (total + n)
    BY <1>1, <1>3, <2>4, <2>5
  <2>9. ASSUME NEW k \in Nat, k < yt PROVE qt + k \in InPage(pg)
    <3>1. InPage(pg) = lo .. (lo + ((total + n) - 1))
      BY <2>6 DEF InPage
    <3>2. lo <= qt + k /\ qt + k <= lo + ((total + n) - 1) /\ qt + k \in Int
      <4>1. lo <= qt /\ qt + yt <= lo + (total + n)
        BY <1>1, <2>8
      <4> QED BY <2>9, <4>1
    <3> QED BY <3>1, <3>2
  <2> QED BY <2>2, <2>6, <2>7, <2>8, <2>9
<1>11. ASSUME NEW t \in Sections, NEW k \in 0 .. pg.size[t] - 1
       PROVE  pg.cell[pg.p[t] + k].sec = t /\ pg.cell[pg.p[t] + k].i = k
  <2>1. PICK p \in Nat, z \in Nat, q \in Nat, y \in Nat :
          p = l.p[t] /\ z = l.size[t] /\ q = pg.p[t] /\ y = pg.size[t]
    BY <1>1, <1>9
  <2>2. k \in Nat /\ k < y
    BY <2>1
  <2>3. PICK a \in Nat : a = q + k
    BY <2>2
  <2>4. a \in InPage(pg)
    BY <1>10, <2>1, <2>2, <2>3
  <2>5. pg.cell[a] = IF a < bottom THEN l.cell[a]
                    ELSE IF a < bottom + n THEN content[a - bottom + 1] ELSE l.cell[a - n]
    BY <1>4, <2>4
  <2>6. k < z => l.cell[p + k].sec = t /\ l.cell[p + k].i = k
    <3>1. k < z => k \in 0 .. z - 1
      BY <2>2
    <3> QED BY <2>1, <3>1 DEF Whole, SectionWhole
  <2>7. \/ t = s /\ q = p /\ y = z + n
        \/ t # s /\ p >= bottom /\ q = p + n /\ y = z
        \/ t # s /\ p < bottom /\ p + z <= bottom /\ q = p /\ y = z
    BY <1>8, <2>1
  <2>8. t = s => bottom = p + z
    BY <1>3, <2>1
  <2>9. CASE k < z /\ q = p /\ p + z <= bottom
    <3>1. a < bottom /\ a = p + k
      BY <2>2, <2>3, <2>9
    <3> QED BY <2>1, <2>3, <2>5, <2>6, <2>9, <3>1
  <2>10. CASE k < z /\ p >= bottom /\ q = p + n
    <3>1. ~(a < bottom) /\ ~(a < bottom + n) /\ a - n = p + k
      BY <1>3, <2>2, <2>3, <2>10
    <3> QED BY <2>1, <2>3, <2>5, <2>6, <2>10, <3>1
  <2>11. CASE t = s /\ q = p /\ k >= z
    <3>1. ~(a < bottom) /\ a < bottom + n /\ a - bottom + 1 \in 1 .. n /\ z + ((a - bottom) + 1) - 1 = k
      <4>1. bottom = p + z /\ a = p + k /\ k < z + n /\ k >= z
        BY <2>2, <2>3, <2>7, <2>8, <2>11
      <4>2. a - bottom = k - z /\ k - z \in 0 .. n - 1
        BY <2>2, <4>1
      <4>3. ~(a < bottom) /\ a < bottom + n
        BY <4>2
      <4>4. (k - z) + 1 \in 1 .. n /\ z + ((k - z) + 1) - 1 = k
        BY <2>2, <4>2
      <4> QED BY <4>2, <4>3, <4>4
    <3>2. content[a - bottom + 1].sec = s /\ content[a - bottom + 1].i = z + ((a - bottom) + 1) - 1
      BY <2>1, <2>11, <3>1
    <3> QED BY <2>1, <2>3, <2>5, <2>11, <3>1, <3>2
  <2> QED BY <1>3, <2>2, <2>7, <2>8, <2>9, <2>10, <2>11
<1>12. ASSUME NEW a \in InPage(pg) PROVE OwnedCell(pg, a)
  <2>1. a \in Int /\ l.base <= a /\ a < l.base + l.total + n /\ l.base \in Nat /\ l.total \in Nat
    BY <1>1, <1>3, <1>4 DEF InPage
  <2>2. ASSUME NEW b \in InPage(l), pg.cell[a] = l.cell[b],
               \/ b < bottom /\ a = b
               \/ b >= bottom /\ a = b + n
        PROVE  OwnedCell(pg, a)
    <3>1. OwnedCell(l, b) /\ b \in Int
      BY <1>1 DEF Whole, InPage
    <3>2. CASE l.cell[b].sec = "header"
      <4>1. b = l.base + l.cell[b].i /\ l.cell[b].i \in 0 .. Header - 1
        BY <3>1, <3>2 DEF OwnedCell
      <4>2. b < bottom
        <5>1. PICK h \in 0 .. Header - 1 : h = l.cell[b].i
          BY <4>1, Zenon
        <5>2. b = l.base + h
          BY <4>1, <5>1, Zenon
        <5>3. PICK lo \in Nat, ps \in Nat : lo = l.base /\ ps = l.p[s]
          BY <1>1, Zenon
        <5>4. b = lo + h /\ lo + Header <= ps /\ ps <= bottom
          BY <1>3, <5>2, <5>3, Zenon
        <5> QED BY <1>1, <5>4
      <4>3. a = b
        BY <1>3, <2>1, <2>2, <3>1, <4>2
      <4> QED BY <1>4, <2>2, <3>2, <4>1, <4>3 DEF OwnedCell
    <3>3. CASE l.cell[b].sec # "header"
      <4>1. PICK t \in Sections : t = l.cell[b].sec
        BY <3>1, <3>3 DEF OwnedCell
      <4>2. PICK i \in 0 .. l.size[t] - 1 : i = l.cell[b].i /\ b = l.p[t] + i
        BY <3>1, <3>3, <4>1 DEF OwnedCell
      <4>3. /\ l.p[t] \in Nat /\ l.size[t] \in Nat /\ i \in Nat /\ i < l.size[t]
            /\ l.p[s] \in Nat /\ l.size[s] \in Nat
        BY <1>1, <4>2
      <4>4. PICK p \in Nat, z \in Nat, q \in Nat, y \in Nat :
              p = l.p[t] /\ z = l.size[t] /\ q = pg.p[t] /\ y = pg.size[t]
        BY <1>1, <1>9
      <4>5. /\ b = p + i /\ i < z /\ (t = s => bottom = p + z)
            /\ \/ t = s /\ q = p /\ y = z + n
               \/ t # s /\ p >= bottom /\ q = p + n /\ y = z
               \/ t # s /\ p < bottom /\ p + z <= bottom /\ q = p /\ y = z
        BY <1>3, <1>8, <4>2, <4>3, <4>4
      <4>6. a = q + i /\ i \in 0 .. y - 1
        <5>1. (b < bottom /\ a = b) \/ (b >= bottom /\ a = b + n)
          BY <2>2, Zenon
        <5>2. i \in Nat /\ i < z /\ n > 0 /\ n \in Nat
          BY <1>3, <4>3, <4>5, Zenon
        <5>3. b \in Int
          BY <3>1, Zenon
        <5>4. CASE t = s
          <6>1. b < bottom
            BY <4>5, <5>2, <5>4
          <6> QED BY <4>5, <5>1, <5>2, <5>3, <5>4, <6>1
        <5>5. CASE t # s /\ p >= bottom
          <6>1. b >= bottom /\ q = p + n /\ y = z
            BY <4>5, <5>2, <5>5
          <6> QED BY <4>5, <5>1, <5>2, <5>3, <6>1
        <5>6. CASE t # s /\ p < bottom
          <6>1. b < bottom /\ q = p /\ y = z
            BY <4>5, <5>2, <5>6
          <6> QED BY <4>5, <5>1, <5>2, <5>3, <6>1
        <5> QED BY <5>4, <5>5, <5>6
      <4> QED BY <2>2, <3>3, <4>1, <4>2, <4>4, <4>6 DEF OwnedCell
    <3> QED BY <3>2, <3>3
  <2>3. CASE a < bottom
    <3>1. a \in InPage(l)
      BY <1>1, <1>3, <2>1, <2>3 DEF InPage
    <3>2. pg.cell[a] = l.cell[a]
      BY <1>4, <2>3
    <3> QED BY <2>2, <2>3, <3>1, <3>2
  <2>4. CASE bottom <= a /\ a < bottom + n
    <3>1. a - bottom + 1 \in 1 .. n /\ ~(a < bottom)
      BY <1>3, <2>1, <2>4
    <3>2. pg.cell[a] = content[a - bottom + 1]
      BY <1>4, <2>4, <3>1
    <3>3. /\ pg.cell[a].sec = s /\ pg.cell[a].i = l.size[s] + (a - bottom + 1) - 1
          /\ s # "header"
      BY <1>1, <3>1, <3>2
    <3>4. PICK p \in Nat, z \in Nat, i \in Int : p = l.p[s] /\ z = l.size[s] /\ i = z + (a - bottom + 1) - 1
      <4>1. l.p[s] \in Nat /\ l.size[s] \in Nat
        BY <1>1
      <4> QED BY <2>1, <4>1
    <3>5. pg.p[s] = p /\ pg.size[s] = z + n /\ bottom = p + z /\ pg.cell[a].i = i
      BY <1>3, <1>8, <3>3, <3>4
    <3>6. i \in 0 .. (z + n) - 1 /\ a = p + i
      <4>1. i = z + (a - bottom)
        BY <2>1, <3>4
      <4>2. bottom = p + z /\ a \in Int /\ bottom <= a /\ a < bottom + n
        BY <2>1, <2>4, <3>5
      <4>3. i >= z /\ i < z + n /\ a = p + i
        BY <4>1, <4>2
      <4> QED BY <1>3, <4>3
    <3>7. pg.cell[a].i \in 0 .. pg.size[s] - 1 /\ a = pg.p[s] + pg.cell[a].i
      BY <3>5, <3>6
    <3> QED BY <3>3, <3>7 DEF OwnedCell
  <2>5. CASE bottom + n <= a
    <3>1. PICK b \in Int : b = a - n
      BY <1>3, <2>1
    <3>2. b >= bottom /\ a = b + n /\ ~(a < bottom) /\ ~(a < bottom + n)
      BY <1>3, <2>1, <2>5, <3>1
    <3>3. b \in InPage(l)
      <4>1. PICK lo \in Nat, total \in Nat : lo = l.base /\ total = l.total
        BY <1>1
      <4>2. lo <= b /\ b <= lo + (total - 1)
        <5>1. a < lo + total + n /\ lo <= bottom
          <6>1. PICK ps \in Nat : ps = l.p[s]
            BY <1>1, Zenon
          <6>2. lo + Header <= ps /\ ps <= bottom /\ a < lo + total + n
            BY <1>3, <2>1, <4>1, <6>1, Zenon
          <6> QED BY <1>1, <6>2
        <5> QED BY <1>3, <2>1, <3>2, <5>1
      <4> QED BY <4>1, <4>2 DEF InPage
    <3>4. pg.cell[a] = l.cell[b]
      BY <1>4, <3>1, <3>2
    <3> QED BY <2>2, <3>2, <3>3, <3>4
  <2> QED BY <1>3, <2>1, <2>3, <2>4, <2>5
<1>13. \A t \in Sections : SectionWhole(pg, t)
  BY <1>11 DEF SectionWhole
<1> QED BY <1>10, <1>12, <1>13 DEF Whole

\* The sections set once come first, and the others behind them.
FixedFirst(l) ==
    /\ Header <= l.fixed /\ l.fixed <= l.total
    /\ \A t \in Sections : l.p[t] >= l.base + l.fixed \/ Bottom(l, t) <= l.base + l.fixed
    /\ \A t \in DOMAIN Grown : l.p[t] >= l.base + l.fixed
PageSound(l) == PageTyped(l) /\ Whole(l) /\ FixedFirst(l)

\* A section that grows is behind the fixed ones.
LEMMA GrowKeepsFixed ==
    ASSUME PageAssumption, NEW l, NEW pg, PageSound(l), NEW s \in DOMAIN Grown, NEW content,
           NEW n \in Nat \ {0}, Len(content) = n, Grew(pg, l, s, content)
    PROVE  FixedFirst(pg)
<1>1. s \in Sections /\ \A t \in DOMAIN Grown : t \in Sections
  BY DEF Sections
<1>2. PageTyped(pg) /\ PageTyped(l)
  BY DEF Grew, PageSound
<1>3. PICK lo \in Nat, total \in Nat, fixed \in Nat : lo = l.base /\ total = l.total /\ fixed = l.fixed
  BY <1>2, PageNumbers
<1>4. n \in Nat /\ n > 0 /\ Header \in Nat
  BY SectionNames
<1>5. /\ pg.base = l.base /\ pg.fixed = l.fixed /\ pg.total = l.total + n
      /\ \A t \in Sections : /\ pg.p[t] = IF t # s /\ l.p[t] >= Bottom(l, s) THEN l.p[t] + n ELSE l.p[t]
                             /\ pg.size[t] = IF t = s THEN l.size[t] + n ELSE l.size[t]
      /\ Header <= fixed /\ fixed <= total
  <2>1. Header <= fixed /\ fixed <= total
    BY <1>3 DEF PageSound, FixedFirst
  <2> QED BY <2>1 DEF Grew, Above
<1>6. PICK ps \in Nat, zs \in Nat : ps = l.p[s] /\ zs = l.size[s] /\ Bottom(l, s) = ps + zs
  BY <1>1, <1>2, PageNumbers
<1>7. ps >= lo + fixed
  BY <1>3, <1>6 DEF PageSound, FixedFirst
<1>8. ASSUME NEW t \in Sections
      PROVE  /\ l.p[t] >= lo + fixed => pg.p[t] >= lo + fixed
             /\ ~(l.p[t] >= lo + fixed) => Bottom(pg, t) <= lo + fixed
  <2>1. PICK pt \in Nat, zt \in Nat : pt = l.p[t] /\ zt = l.size[t] /\ Bottom(l, t) = pt + zt
    BY <1>2, PageNumbers
  <2>2. PICK qt \in Nat, yt \in Nat : qt = pg.p[t] /\ yt = pg.size[t] /\ Bottom(pg, t) = qt + yt
    BY <1>2, PageNumbers
  <2>3. /\ qt = IF t # s /\ pt >= ps + zs THEN pt + n ELSE pt
        /\ yt = IF t = s THEN zt + n ELSE zt
    BY <1>5, <1>6, <2>1, <2>2
  <2>4. pt >= lo + fixed \/ pt + zt <= lo + fixed
    BY <1>3, <2>1 DEF PageSound, FixedFirst
  <2>5. t = s => pt = ps
    BY <1>6, <2>1
  <2>6. pt >= lo + fixed => qt >= lo + fixed
    BY <1>4, <2>3
  <2>7. ~(pt >= lo + fixed) => qt + yt <= lo + fixed
    BY <1>4, <1>7, <2>3, <2>4, <2>5
  <2> QED BY <2>1, <2>2, <2>6, <2>7
<1>9. \A t \in DOMAIN Grown : pg.p[t] >= lo + fixed
  BY <1>1, <1>3, <1>8 DEF PageSound, FixedFirst
<1>10. Header <= pg.fixed /\ pg.fixed <= pg.total
  BY <1>3, <1>4, <1>5
<1> QED BY <1>3, <1>5, <1>8, <1>9, <1>10 DEF FixedFirst

\* The place of a section that is set.
Placed(m, l, s) ==
    /\ PageTyped(m) /\ m.base = l.base /\ m.total = l.total /\ m.max = l.max
    /\ m.cell = l.cell /\ m.size = l.size /\ m.fixed = l.fixed + Fixed[s]
    /\ \A t \in Sections : m.p[t] = IF t = s THEN l.base + l.fixed ELSE l.p[t]

LEMMA PlaceIs ==
    ASSUME PageAssumption, NEW l, PageTyped(l), NEW s \in DOMAIN Fixed
    PROVE  Placed(Place(l, s), l, s)
<1> DEFINE p == [l.p EXCEPT ![s] = l.base + l.fixed]
<1>1. s \in Sections /\ Fixed[s] \in Nat
  BY SectionNames
<1>2. /\ l.base \in Nat /\ l.fixed \in Nat /\ l.p \in [Sections -> Nat]
      /\ l \in [base : Nat, max : Nat, fixed : Nat, total : Nat,
                p : [Sections -> Nat], size : [Sections -> Nat], cell : [InPage(l) -> Cell]]
  BY DEF PageTyped
<1>3. /\ p \in [Sections -> Nat] /\ \A t \in Sections : p[t] = IF t = s THEN l.base + l.fixed ELSE l.p[t]
      /\ l.fixed + Fixed[s] \in Nat
  BY <1>1, <1>2
<1> HIDE DEF p
<1> DEFINE m == [l EXCEPT !.p = p, !.fixed = l.fixed + Fixed[s]]
<1>4. Place(l, s) = m
  BY DEF Place, p
<1>5. /\ m.base = l.base /\ m.max = l.max /\ m.total = l.total /\ m.size = l.size /\ m.cell = l.cell
      /\ m.p = p /\ m.fixed = l.fixed + Fixed[s]
      /\ m \in [base : Nat, max : Nat, fixed : Nat, total : Nat,
                p : [Sections -> Nat], size : [Sections -> Nat], cell : [InPage(l) -> Cell]]
  BY <1>2, <1>3
<1> HIDE DEF m
<1>6. InPage(m) = InPage(l)
  BY <1>5 DEF InPage
<1>7. PageTyped(m)
  BY <1>5, <1>6 DEF PageTyped
<1> QED BY <1>3, <1>4, <1>5, <1>7 DEF Placed

\* A section set behind those set before it, which has no cells yet.
LEMMA PlacedWhole ==
    ASSUME PageAssumption, NEW l, PageSound(l), NEW s \in DOMAIN Fixed, l.size[s] = 0,
           NEW m, Placed(m, l, s)
    PROVE  Whole(m)
<1>1. s \in Sections /\ "header" \notin Sections /\ Header \in Nat
  BY SectionNames
<1>2. /\ m.base = l.base /\ m.total = l.total /\ m.cell = l.cell /\ m.size = l.size
      /\ \A t \in Sections : m.p[t] = IF t = s THEN l.base + l.fixed ELSE l.p[t]
  BY DEF Placed
<1>3. PageTyped(l) /\ PageTyped(m)
  BY DEF PageSound, Placed
<1>4. ASSUME NEW t \in Sections PROVE SectionWhole(m, t)
  <2>1. CASE t = s
    <3>1. 0 .. m.size[t] - 1 = {}
      BY <1>2, <2>1
    <3> QED BY <3>1 DEF SectionWhole
  <2>2. CASE t # s
    BY <1>2, <2>2 DEF SectionWhole, PageSound, Whole
  <2> QED BY <2>1, <2>2
<1>5. ASSUME NEW a \in InPage(m) PROVE OwnedCell(m, a)
  <2>1. a \in InPage(l)
    BY <1>2 DEF InPage
  <2>2. OwnedCell(l, a)
    BY <2>1 DEF PageSound, Whole
  <2>3. CASE l.cell[a].sec = "header"
    BY <1>2, <2>2, <2>3 DEF OwnedCell
  <2>4. CASE l.cell[a].sec # "header"
    <3>1. PICK t \in Sections : t = l.cell[a].sec
      BY <2>2, <2>4 DEF OwnedCell
    <3>2. l.cell[a].i \in 0 .. l.size[t] - 1 /\ a = l.p[t] + l.cell[a].i
      BY <2>2, <2>4, <3>1 DEF OwnedCell
    <3>3. t # s
      BY <3>2
    <3> QED BY <1>2, <2>4, <3>1, <3>2, <3>3 DEF OwnedCell
  <2> QED BY <2>3, <2>4
<1>6. ASSUME NEW t \in Sections, NEW u \in Sections
      PROVE  /\ m.base + Header <= m.p[t] /\ Bottom(m, t) <= m.base + m.total
             /\ ~(m.p[t] < m.p[u] /\ m.p[u] < Bottom(m, t))
  <2>1. PICK lo \in Nat, total \in Nat, fixed \in Nat : lo = l.base /\ total = l.total /\ fixed = l.fixed
    BY <1>3, PageNumbers
  <2>2. PICK pt \in Nat, zt \in Nat, pu \in Nat :
          pt = l.p[t] /\ zt = l.size[t] /\ pu = l.p[u] /\ Bottom(l, t) = pt + zt
    BY <1>3, PageNumbers
  <2>3. PICK qt \in Nat, yt \in Nat, qu \in Nat :
          qt = m.p[t] /\ yt = m.size[t] /\ qu = m.p[u] /\ Bottom(m, t) = qt + yt
    BY <1>3, PageNumbers
  <2>4. /\ lo + Header <= pt /\ pt + zt <= lo + total /\ ~(pt < pu /\ pu < pt + zt)
        /\ Header <= fixed /\ fixed <= total
        /\ pt >= lo + fixed \/ pt + zt <= lo + fixed
    BY <2>1, <2>2 DEF PageSound, Whole, FixedFirst
  <2>5. /\ qt = IF t = s THEN lo + fixed ELSE pt
        /\ qu = IF u = s THEN lo + fixed ELSE pu
        /\ yt = zt /\ (t = s => zt = 0)
    BY <1>2, <2>1, <2>2, <2>3
  <2>6. lo + Header <= qt /\ qt + yt <= lo + total
    <3>1. CASE t = s
      <4>1. qt = lo + fixed /\ yt = 0
        BY <2>5, <3>1
      <4> QED BY <1>1, <2>4, <4>1
    <3>2. CASE t # s
      <4>1. qt = pt /\ yt = zt
        BY <2>5, <3>2
      <4> QED BY <2>4, <4>1
    <3> QED BY <3>1, <3>2
  <2>7. ~(qt < qu /\ qu < qt + yt)
    BY <2>4, <2>5
  <2> QED BY <1>2, <2>1, <2>3, <2>6, <2>7
<1> QED BY <1>4, <1>5, <1>6 DEF Whole

LEMMA SetKeepsFixed ==
    ASSUME PageAssumption, NEW l, PageSound(l), NEW s \in DOMAIN Fixed, l.size[s] = 0,
           NEW m, Placed(m, l, s), NEW content, Len(content) = Fixed[s],
           NEW pg, Grew(pg, m, s, content)
    PROVE  FixedFirst(pg)
<1>1. /\ s \in Sections /\ s \notin DOMAIN Grown /\ Header \in Nat
      /\ \A t \in DOMAIN Grown : t \in Sections
  BY SectionNames
<1>2. PICK n \in Nat : n = Fixed[s] /\ n > 0
  BY SectionNames
<1>3. PageTyped(l) /\ PageTyped(m) /\ PageTyped(pg)
  BY DEF Grew, PageSound, Placed
<1>4. PICK lo \in Nat, total \in Nat, fixed \in Nat : lo = l.base /\ total = l.total /\ fixed = l.fixed
  BY <1>3, PageNumbers
<1>5. /\ m.base = lo /\ m.fixed = fixed + n /\ m.total = total
      /\ \A t \in Sections : m.size[t] = l.size[t] /\ m.p[t] = IF t = s THEN lo + fixed ELSE l.p[t]
  BY <1>2, <1>4 DEF Placed
<1>6. /\ pg.base = lo /\ pg.fixed = fixed + n /\ pg.total = total + n
      /\ Header <= fixed /\ fixed <= total
      /\ \A t \in Sections : /\ pg.p[t] = IF t # s /\ m.p[t] >= Bottom(m, s) THEN m.p[t] + n ELSE m.p[t]
                             /\ pg.size[t] = IF t = s THEN m.size[t] + n ELSE m.size[t]
  <2>1. Len(content) = n
    BY <1>2
  <2>2. /\ pg.base = m.base /\ pg.fixed = m.fixed /\ pg.total = m.total + n
        /\ \A t \in Sections : /\ pg.p[t] = IF t # s /\ m.p[t] >= Bottom(m, s) THEN m.p[t] + n ELSE m.p[t]
                               /\ pg.size[t] = IF t = s THEN m.size[t] + n ELSE m.size[t]
    BY <2>1 DEF Grew, Above
  <2> QED BY <1>4, <1>5, <2>2 DEF PageSound, FixedFirst
<1>7. Bottom(m, s) = lo + fixed
  BY <1>1, <1>4, <1>5 DEF Bottom
<1>8. ASSUME NEW t \in Sections
      PROVE  /\ t # s /\ l.p[t] >= lo + fixed => pg.p[t] >= lo + fixed + n
             /\ t = s \/ ~(l.p[t] >= lo + fixed) => Bottom(pg, t) <= lo + fixed + n
  <2>1. PICK pt \in Nat, zt \in Nat : pt = l.p[t] /\ zt = l.size[t] /\ Bottom(l, t) = pt + zt
    BY <1>3, PageNumbers
  <2>2. PICK qt \in Nat, yt \in Nat : qt = pg.p[t] /\ yt = pg.size[t] /\ Bottom(pg, t) = qt + yt
    BY <1>3, PageNumbers
  <2>3. /\ pg.p[t] = IF t # s /\ m.p[t] >= lo + fixed THEN m.p[t] + n ELSE m.p[t]
        /\ pg.size[t] = IF t = s THEN m.size[t] + n ELSE m.size[t]
    BY <1>6, <1>7
  <2>4. /\ qt = IF t = s THEN lo + fixed ELSE IF pt >= lo + fixed THEN pt + n ELSE pt
        /\ yt = IF t = s THEN n ELSE zt
    <3>1. m.size[t] = zt /\ m.p[t] = IF t = s THEN lo + fixed ELSE pt
      BY <1>5, <2>1
    <3>2. t = s => zt = 0
      BY <2>1
    <3> QED BY <2>2, <2>3, <3>1, <3>2
  <2>5. pt >= lo + fixed \/ pt + zt <= lo + fixed
    BY <1>4, <2>1 DEF PageSound, FixedFirst
  <2>6. t # s /\ pt >= lo + fixed => qt >= lo + fixed + n
    BY <2>4
  <2>7. t = s \/ ~(pt >= lo + fixed) => qt + yt <= lo + fixed + n
    BY <2>4, <2>5
  <2> QED BY <2>1, <2>2, <2>6, <2>7
<1>9. lo + (fixed + n) = lo + fixed + n /\ Header <= fixed + n /\ fixed + n <= total + n
  BY <1>1, <1>6
<1>10. \A t \in DOMAIN Grown : pg.p[t] >= lo + fixed + n
  BY <1>1, <1>4, <1>8 DEF PageSound, FixedFirst
<1> QED BY <1>6, <1>8, <1>9, <1>10 DEF FixedFirst

\* The page at another address.
MovedTo(l, base, max) ==
    [l EXCEPT !.base = base, !.p = [s \in Sections |-> l.p[s] + base - l.base],
              !.cell = [a \in base .. base + l.total - 1 |-> l.cell[a - base + l.base]], !.max = max]

LEMMA PageMoves ==
    ASSUME PageAssumption, NEW l, PageSound(l), NEW base \in Nat, NEW max \in Nat,
           NEW pg, pg = MovedTo(l, base, max)
    PROVE  /\ PageSound(pg) /\ pg.size = l.size
           /\ \A a \in InPage(l) : a + (base - l.base) \in InPage(pg) /\ pg.cell[a + (base - l.base)] = l.cell[a]
<1> DEFINE p == [s \in Sections |-> l.p[s] + base - l.base]
           cell == [a \in base .. base + l.total - 1 |-> l.cell[a - base + l.base]]
<1>1. PageTyped(l) /\ Whole(l) /\ FixedFirst(l) /\ Header \in Nat
  BY SectionNames DEF PageSound
<1>2. PICK lo \in Nat, total \in Nat, fixed \in Nat : lo = l.base /\ total = l.total /\ fixed = l.fixed
  BY <1>1, PageNumbers
<1>3. PICK d \in Int : d = base - lo
  OBVIOUS
<1>4. \A s \in Sections : p[s] \in Nat /\ p[s] = l.p[s] + d
  <2> TAKE s \in Sections
  <2>1. PICK ps \in Nat : ps = l.p[s]
    BY <1>1, PageNumbers
  <2>2. lo + Header <= ps
    BY <1>1, <1>2, <2>1 DEF Whole
  <2>3. p[s] = ps + (base - lo)
    BY <1>2, <2>1
  <2> QED BY <1>1, <1>3, <2>1, <2>2, <2>3
<1>5. l.cell \in [lo .. lo + total - 1 -> Cell]
  BY <1>1, <1>2 DEF PageTyped, InPage
<1>6. \A a \in lo .. lo + total - 1 : a + d \in base .. base + total - 1 /\ cell[a + d] = l.cell[a]
  <2> TAKE a \in lo .. lo + total - 1
  <2>1. a + d \in base .. base + total - 1 /\ (a + d) - base + lo = a
    BY <1>3
  <2> QED BY <1>2, <2>1
<1>7. \A b \in base .. base + total - 1 : b - d \in lo .. lo + total - 1 /\ cell[b] = l.cell[b - d]
  <2> TAKE b \in base .. base + total - 1
  <2>1. b - d \in lo .. lo + total - 1 /\ b - base + lo = b - d
    BY <1>3
  <2> QED BY <1>2, <2>1
<1>8. cell \in [base .. base + total - 1 -> Cell]
  <2>1. cell = [b \in base .. base + total - 1 |-> cell[b]]
    BY <1>2
  <2> HIDE DEF cell
  <2>2. \A b \in base .. base + total - 1 : cell[b] \in Cell
    BY <1>5, <1>7
  <2> QED BY <2>1, <2>2
<1>9. p \in [Sections -> Nat]
  BY <1>4
<1> HIDE DEF p, cell
<1>10. pg = [l EXCEPT !.base = base, !.p = p, !.cell = cell, !.max = max]
  BY DEF p, cell, MovedTo
<1>11. /\ pg.base = base /\ pg.max = max /\ pg.fixed = fixed /\ pg.total = total
       /\ pg.size = l.size /\ pg.p = p /\ pg.cell = cell
       /\ pg \in [base : Nat, max : Nat, fixed : Nat, total : Nat, p : [Sections -> Nat],
                 size : [Sections -> Nat], cell : [base .. base + total - 1 -> Cell]]
  BY <1>1, <1>2, <1>8, <1>9, <1>10 DEF PageTyped
<1>12. InPage(pg) = base .. base + total - 1 /\ InPage(l) = lo .. lo + total - 1
  BY <1>2, <1>11 DEF InPage
<1>13. PageTyped(pg)
  BY <1>11, <1>12 DEF PageTyped
<1>14. ASSUME NEW s \in Sections
       PROVE  \E q, z \in Nat : /\ q = l.p[s] /\ z = l.size[s] /\ Bottom(l, s) = q + z
                                /\ pg.p[s] = q + d /\ pg.size[s] = z /\ Bottom(pg, s) = (q + d) + z
  <2>1. l.p[s] \in Nat /\ l.size[s] \in Nat /\ Bottom(l, s) = l.p[s] + l.size[s]
    BY <1>1, PageNumbers
  <2>2. pg.p[s] = l.p[s] + d /\ pg.size[s] = l.size[s]
    BY <1>4, <1>11
  <2> QED BY <2>1, <2>2 DEF Bottom
<1>15. ASSUME NEW s \in Sections, NEW t \in Sections
       PROVE  /\ base + Header <= pg.p[s] /\ Bottom(pg, s) <= base + total
              /\ ~(pg.p[s] < pg.p[t] /\ pg.p[t] < Bottom(pg, s))
              /\ pg.p[s] >= base + fixed \/ Bottom(pg, s) <= base + fixed
  <2>1. PICK q \in Nat, z \in Nat : /\ q = l.p[s] /\ z = l.size[s] /\ Bottom(l, s) = q + z
                                    /\ pg.p[s] = q + d /\ pg.size[s] = z /\ Bottom(pg, s) = (q + d) + z
    BY <1>14
  <2>2. PICK r \in Nat : r = l.p[t] /\ pg.p[t] = r + d
    BY <1>14
  <2>3. /\ lo + Header <= q /\ q + z <= lo + total /\ ~(q < r /\ r < q + z)
        /\ q >= lo + fixed \/ q + z <= lo + fixed
    BY <1>1, <1>2, <2>1, <2>2 DEF Whole, FixedFirst
  <2>4. /\ base + Header <= q + d /\ (q + d) + z <= base + total
        /\ ~(q + d < r + d /\ r + d < (q + d) + z)
        /\ q + d >= base + fixed \/ (q + d) + z <= base + fixed
    BY <1>1, <1>3, <2>3
  <2> QED BY <2>1, <2>2, <2>4
<1>16. ASSUME NEW s \in Sections PROVE SectionWhole(pg, s)
  <2> SUFFICES ASSUME NEW k \in 0 .. pg.size[s] - 1
               PROVE  pg.cell[pg.p[s] + k].sec = s /\ pg.cell[pg.p[s] + k].i = k
    BY DEF SectionWhole
  <2>1. PICK q \in Nat, z \in Nat : /\ q = l.p[s] /\ z = l.size[s] /\ Bottom(l, s) = q + z
                                    /\ pg.p[s] = q + d /\ pg.size[s] = z /\ Bottom(pg, s) = (q + d) + z
    BY <1>14
  <2>2. k \in 0 .. z - 1
    BY <2>1
  <2>3. lo + Header <= q /\ q + z <= lo + total
    BY <1>1, <1>2, <2>1 DEF Whole
  <2>4. q + k \in lo .. lo + total - 1 /\ (q + k) + d = (q + d) + k
    BY <1>1, <2>2, <2>3
  <2>5. pg.cell[(q + d) + k] = l.cell[q + k]
    BY <1>6, <1>11, <2>4
  <2>6. l.cell[q + k].sec = s /\ l.cell[q + k].i = k
    BY <1>1, <2>1, <2>2 DEF Whole, SectionWhole
  <2> QED BY <2>1, <2>5, <2>6
<1>17. ASSUME NEW b \in InPage(pg) PROVE OwnedCell(pg, b)
  <2>1. b - d \in InPage(l) /\ pg.cell[b] = l.cell[b - d] /\ b \in Int
    <3>1. b \in base .. base + total - 1
      BY <1>12
    <3>2. b - d \in lo .. lo + total - 1 /\ cell[b] = l.cell[b - d]
      BY <1>7, <3>1
    <3>3. b \in Int
      BY <3>1
    <3> QED BY <1>11, <1>12, <3>2, <3>3
  <2>2. OwnedCell(l, b - d)
    BY <1>1, <2>1 DEF Whole
  <2>3. CASE l.cell[b - d].sec = "header"
    <3>1. PICK i \in 0 .. Header - 1 : i = l.cell[b - d].i /\ b - d = lo + i
      BY <1>2, <2>2, <2>3 DEF OwnedCell
    <3>2. b = base + i
      <4>1. i \in Int /\ b \in Int /\ d \in Int /\ lo \in Int /\ base \in Int
        BY <1>1, <2>1
      <4>2. b - d = lo + i /\ d = base - lo
        BY <1>3, <3>1
      <4> QED BY <4>1, <4>2
    <3> QED BY <1>11, <2>1, <2>3, <3>1, <3>2 DEF OwnedCell
  <2>4. CASE l.cell[b - d].sec # "header"
    <3>1. PICK s \in Sections : s = l.cell[b - d].sec
      BY <2>2, <2>4 DEF OwnedCell
    <3>2. PICK i \in 0 .. l.size[s] - 1 : i = l.cell[b - d].i /\ b - d = l.p[s] + i
      BY <2>2, <2>4, <3>1 DEF OwnedCell
    <3>3. PICK q \in Nat, z \in Nat : q = l.p[s] /\ z = l.size[s] /\ pg.p[s] = q + d /\ pg.size[s] = z
      BY <1>14
    <3>4. b = (q + d) + i /\ i \in 0 .. z - 1
      <4>1. i \in 0 .. z - 1 /\ i \in Int /\ b - d = q + i /\ b \in Int /\ d \in Int /\ q \in Int
        BY <2>1, <3>2, <3>3
      <4> QED BY <4>1
    <3> QED BY <2>1, <2>4, <3>1, <3>2, <3>3, <3>4 DEF OwnedCell
  <2> QED BY <2>3, <2>4
<1>18. Whole(pg)
  BY <1>11, <1>15, <1>16, <1>17 DEF Whole
<1>19. FixedFirst(pg)
  <2>1. ASSUME NEW t \in DOMAIN Grown PROVE pg.p[t] >= base + fixed
    <3>1. t \in Sections
      BY DEF Sections
    <3>2. PICK q \in Nat : q = l.p[t] /\ pg.p[t] = q + d
      BY <1>14, <3>1
    <3>3. q >= lo + fixed
      BY <1>1, <1>2, <2>1, <3>2 DEF FixedFirst
    <3> QED BY <1>3, <3>2, <3>3
  <2>2. Header <= fixed /\ fixed <= total
    BY <1>1, <1>2 DEF FixedFirst
  <2> QED BY <1>11, <1>15, <2>1, <2>2 DEF FixedFirst
<1>20. \A a \in InPage(l) : a + d \in InPage(pg) /\ pg.cell[a + d] = l.cell[a]
  BY <1>6, <1>11, <1>12
<1> QED BY <1>2, <1>3, <1>11, <1>13, <1>18, <1>19, <1>20 DEF PageSound

-----------------------------------------------------------------------------
(* Owners of patch_data.                                                   *)

Patch == [owner : Nat, data : Data \union {"dbg0", "dbg1"}, of : Sections \X Nat]
Owns(l, e) == e.owner \in InPage(l) /\ <<l.cell[e.owner].sec, l.cell[e.owner].i>> = e.of
OwnersHold(l, pd) == pd \in Seq(Patch) /\ \A k \in DOMAIN pd : Owns(l, pd[k])

\* What the owners of cells that move are told.
CellsFollow(l, pg, from, len, diff) ==
    \A a \in InPage(l) : LET b == IF from <= a /\ a < from + len THEN a + diff ELSE a
                         IN  b \in InPage(pg) /\ pg.cell[b].sec = l.cell[a].sec /\ pg.cell[b].i = l.cell[a].i

LEMMA OwnersFollow ==
    ASSUME NEW l, NEW pg, PageTyped(l), PageTyped(pg), OwnersHold(l, patch_data),
           NEW from \in Nat, NEW len \in Int, NEW diff \in Int, CellsFollow(l, pg, from, len, diff)
    PROVE  OwnersHold(pg, reloc_data(from, len, diff))
<1> DEFINE new == reloc_data(from, len, diff)
<1>1. PICK n \in Nat : patch_data \in [1 .. n -> Patch] /\ DOMAIN patch_data = 1 .. n
  BY DEF OwnersHold
<1>2. DOMAIN new = 1 .. n
  BY <1>1 DEF reloc_data
<1>3. ASSUME NEW k \in 1 .. n PROVE new[k] \in Patch /\ Owns(pg, new[k])
  <2>1. PICK e \in Patch : e = patch_data[k]
    BY <1>1
  <2>2. Owns(l, e)
    BY <1>1, <2>1 DEF OwnersHold
  <2>3. PICK b : b = IF from <= e.owner /\ e.owner < from + len THEN e.owner + diff ELSE e.owner
    OBVIOUS
  <2>4. b \in InPage(pg) /\ pg.cell[b].sec = l.cell[e.owner].sec /\ pg.cell[b].i = l.cell[e.owner].i
    BY <2>2, <2>3 DEF Owns, CellsFollow
  <2>5. b \in Nat
    <3>1. b \in Int /\ pg.base \in Nat /\ pg.total \in Nat /\ b >= pg.base
      BY <2>4, PageNumbers DEF InPage
    <3> QED BY <3>1
  <2>6. new[k] = IF from <= e.owner /\ e.owner < from + len THEN [e EXCEPT !.owner = e.owner + diff] ELSE e
    BY <1>1, <2>1 DEF reloc_data
  <2>7. /\ [e EXCEPT !.owner = b] \in Patch
        /\ [e EXCEPT !.owner = b].owner = b /\ [e EXCEPT !.owner = b].of = e.of
    BY <2>5 DEF Patch
  <2>8. new[k] \in Patch /\ new[k].owner = b /\ new[k].of = e.of
    BY <2>3, <2>6, <2>7
  <2>9. <<pg.cell[b].sec, pg.cell[b].i>> = e.of
    BY <2>2, <2>4 DEF Owns
  <2> QED BY <2>4, <2>8, <2>9 DEF Owns
<1>4. new = [k \in 1 .. n |-> new[k]]
  BY <1>1 DEF reloc_data
<1> HIDE DEF new
<1>5. new \in [1 .. n -> Patch]
  BY <1>3, <1>4
<1>6. new \in Seq(Patch)
  BY <1>5
<1> QED BY <1>2, <1>3, <1>6 DEF OwnersHold, new

LEMMA RegisteredHolds ==
    ASSUME NEW l, NEW pd, OwnersHold(l, pd), NEW owner \in Nat, NEW data \in Data \union {"dbg0", "dbg1"},
           NEW of \in Sections \X Nat, owner \in InPage(l), <<l.cell[owner].sec, l.cell[owner].i>> = of
    PROVE  OwnersHold(l, Registered(pd, owner, data, of))
<1> DEFINE e == [owner |-> owner, data |-> data, of |-> of]
           new == <<e>> \o pd
<1>1. e \in Patch /\ Owns(l, e)
  BY DEF Patch, Owns
<1> HIDE DEF e
<1>2. PICK n \in Nat : pd \in [1 .. n -> Patch] /\ Len(pd) = n /\ DOMAIN pd = 1 .. n
  BY DEF OwnersHold
<1>3. new \in Seq(Patch)
  BY <1>1 DEF OwnersHold
<1>4. /\ DOMAIN new = 1 .. n + 1 /\ new[1] = e
      /\ \A k \in 2 .. n + 1 : new[k] = pd[k - 1] /\ k - 1 \in 1 .. n
  BY <1>1, <1>2
<1>5. \A k \in DOMAIN new : Owns(l, new[k])
  <2> TAKE k \in DOMAIN new
  <2>1. CASE k = 1
    BY <1>1, <1>4, <2>1
  <2>2. CASE k # 1
    <3>1. k \in 2 .. n + 1
      BY <1>4, <2>2
    <3> QED BY <1>2, <1>4, <3>1 DEF OwnersHold
  <2> QED BY <2>1, <2>2
<1> QED BY <1>3, <1>5 DEF OwnersHold, Registered, e

-----------------------------------------------------------------------------
(* The callouts that are output.                                           *)

\* Two functions that take each value from the one before it in one way.
StepAlike(n, f, e) == f[0] = e[0] /\ \A k \in 1 .. n : f[k - 1] = e[k - 1] => f[k] = e[k]

LEMMA SameByStep ==
    ASSUME NEW n \in Nat, NEW f, NEW e, StepAlike(n, f, e)
    PROVE  \A k \in 0 .. n : f[k] = e[k]
<1> DEFINE Bad == {k \in 0 .. n : f[k] # e[k]}
<1> SUFFICES ASSUME Bad # {} PROVE FALSE
  OBVIOUS
<1>1. Bad \subseteq Nat
  OBVIOUS
<1>2. PICK k \in Bad : \A j \in Bad : k <= j
  BY <1>1, LeastNat
<1>3. k \in 0 .. n /\ f[k] # e[k] /\ k # 0
  BY DEF StepAlike
<1>4. k - 1 \in 0 .. n /\ k - 1 \notin Bad /\ k \in 1 .. n
  BY <1>2, <1>3
<1> QED BY <1>3, <1>4 DEF StepAlike

CellsOf(l, s) == [k \in 1 .. l.size[s] |-> l.p[s] + k - 1]
CandidatesOf(l, h) == (IF h THEN CellsOf(l, "intrinfo") ELSE << >>) \o CellsOf(l, "callout")
Picked(f, l, cand) ==
    f = [k \in 0 .. Len(cand) |->
            IF k = 0 THEN << >>
            ELSE IF l.cell[cand[k]].fn = NoFn THEN f[k - 1] ELSE Append(f[k - 1], cand[k])]
OutputOf(l, h) ==
    LET upto[k \in 0 .. Len(CandidatesOf(l, h))] ==
            IF k = 0 THEN << >>
            ELSE IF l.cell[CandidatesOf(l, h)[k]].fn = NoFn THEN upto[k - 1]
            ELSE Append(upto[k - 1], CandidatesOf(l, h)[k])
    IN  upto[Len(CandidatesOf(l, h))]
FnsOf(l, h) == [k \in DOMAIN OutputOf(l, h) |-> l.cell[OutputOf(l, h)[k]].fn]

LEMMA OutputNow ==
    /\ ToOutput = OutputOf(lsp, hooked) /\ Fns = FnsOf(lsp, hooked)
    /\ (ToOutput)' = OutputOf(lsp', hooked') /\ (Fns)' = FnsOf(lsp', hooked')
<1>1. Candidates = CandidatesOf(lsp, hooked) /\ (Candidates)' = CandidatesOf(lsp', hooked')
  BY DEF Candidates, CandidatesOf, IntrCells, SectionCells, CellsOf
<1>2. ToOutput = OutputOf(lsp, hooked) /\ (ToOutput)' = OutputOf(lsp', hooked')
  BY <1>1 DEF ToOutput, OutputOf
<1> QED BY <1>2 DEF Fns, FnsOf

\* The slots that hold a callout.
Slots(l) == {a \in InPage(l) : l.cell[a].fn # NoFn}

LEMMA SectionCellsAre ==
    ASSUME PageAssumption, NEW l, PageSound(l), NEW s \in Sections
    PROVE  /\ CellsOf(l, s) \in [1 .. l.size[s] -> InPage(l)] /\ l.size[s] \in Nat
           /\ \A k \in 1 .. l.size[s] : CellsOf(l, s)[k] = l.p[s] + k - 1
<1>1. PICK lo \in Nat, total \in Nat : lo = l.base /\ total = l.total
  BY PageNumbers DEF PageSound
<1>2. PICK p \in Nat, z \in Nat : p = l.p[s] /\ z = l.size[s] /\ Bottom(l, s) = p + z
  BY PageNumbers DEF PageSound
<1>3. lo + Header <= p /\ p + z <= lo + total /\ Header \in Nat
  BY <1>1, <1>2, SectionNames DEF PageSound, Whole
<1>4. ASSUME NEW k \in 1 .. z PROVE p + k - 1 \in InPage(l)
  <2>1. p + k - 1 \in lo .. lo + total - 1
    BY <1>3
  <2> QED BY <1>1, <2>1 DEF InPage
<1> QED BY <1>2, <1>4 DEF CellsOf

LEMMA CandidatesAre ==
    ASSUME PageAssumption, NEW l, PageSound(l), NEW h
    PROVE  /\ CandidatesOf(l, h) \in Seq(InPage(l))
           /\ Len(CandidatesOf(l, h)) = (IF h THEN l.size["intrinfo"] ELSE 0) + l.size["callout"]
           /\ \A k \in 1 .. Len(CandidatesOf(l, h)) :
                CandidatesOf(l, h)[k] = IF h /\ k <= l.size["intrinfo"] THEN l.p["intrinfo"] + k - 1
                                        ELSE l.p["callout"] + (k - (IF h THEN l.size["intrinfo"] ELSE 0)) - 1
<1> DEFINE a == IF h THEN CellsOf(l, "intrinfo") ELSE << >>
           b == CellsOf(l, "callout")
<1>1. "intrinfo" \in Sections /\ "callout" \in Sections
  BY SectionNames
<1>2. PICK na \in Nat : na = (IF h THEN l.size["intrinfo"] ELSE 0)
  BY <1>1, SectionCellsAre
<1>3. PICK nb \in Nat : nb = l.size["callout"]
  BY <1>1, SectionCellsAre
<1>4. /\ a \in [1 .. na -> InPage(l)] /\ (h => na = l.size["intrinfo"])
      /\ \A k \in 1 .. na : a[k] = l.p["intrinfo"] + k - 1
  BY <1>1, <1>2, SectionCellsAre
<1>5. b \in [1 .. nb -> InPage(l)] /\ \A k \in 1 .. nb : b[k] = l.p["callout"] + k - 1
  BY <1>1, <1>3, SectionCellsAre
<1>6. CandidatesOf(l, h) = a \o b
  BY DEF CandidatesOf
<1>7. h \/ na = 0
  BY <1>2
<1> HIDE DEF a, b
<1>8. a \in Seq(InPage(l)) /\ b \in Seq(InPage(l)) /\ Len(a) = na /\ Len(b) = nb
  BY <1>4, <1>5
<1>9. /\ a \o b \in Seq(InPage(l)) /\ Len(a \o b) = na + nb
      /\ \A k \in 1 .. na + nb : (a \o b)[k] = IF k <= na THEN a[k] ELSE b[k - na]
  BY <1>8
<1>10. ASSUME NEW k \in 1 .. na + nb
       PROVE  (a \o b)[k] = IF h /\ k <= l.size["intrinfo"] THEN l.p["intrinfo"] + k - 1
                            ELSE l.p["callout"] + (k - na) - 1
  <2>1. CASE k <= na
    <3>1. h /\ k <= l.size["intrinfo"] /\ k \in 1 .. na
      BY <1>4, <1>7, <2>1
    <3> QED BY <1>4, <1>9, <2>1, <3>1
  <2>2. CASE ~(k <= na)
    <3>1. ~(h /\ k <= l.size["intrinfo"]) /\ k - na \in 1 .. nb
      BY <1>4, <2>2
    <3> QED BY <1>5, <1>9, <2>2, <3>1
  <2> QED BY <2>1, <2>2
<1> QED BY <1>2, <1>3, <1>6, <1>9, <1>10

LEMMA OutputIs ==
    ASSUME PageAssumption, NEW l, PageSound(l), NEW h
    PROVE  \E f \in [0 .. Len(CandidatesOf(l, h)) -> Seq(Slots(l))] :
              Picked(f, l, CandidatesOf(l, h)) /\ OutputOf(l, h) = f[Len(CandidatesOf(l, h))]
<1> DEFINE cand == CandidatesOf(l, h)
           D == Seq(Slots(l))
<1>1. PICK n \in Nat : n = Len(cand)
  BY CandidatesAre
<1>2. \A k \in 1 .. n : cand[k] \in InPage(l)
  BY <1>1, CandidatesAre
<1> HIDE DEF cand
<1> DEFINE step == [k \in 1 .. n |-> [d \in D |-> IF l.cell[cand[k]].fn = NoFn THEN d ELSE Append(d, cand[k])]]
<1>3. ASSUME NEW k \in 1 .. n, NEW d \in D
      PROVE  (IF l.cell[cand[k]].fn = NoFn THEN d ELSE Append(d, cand[k])) \in D
  <2>1. l.cell[cand[k]].fn # NoFn => cand[k] \in Slots(l)
    BY <1>2 DEF Slots
  <2> QED BY <2>1
<1>4. step \in [1 .. n -> [D -> D]]
  BY <1>3
<1>5. \A k \in 1 .. n, d \in D : step[k][d] = IF l.cell[cand[k]].fn = NoFn THEN d ELSE Append(d, cand[k])
  OBVIOUS
<1>6. << >> \in D
  OBVIOUS
<1> HIDE DEF step, D
<1>7. PICK f \in [0 .. n -> D] : Recurs(f, n, << >>, step)
  BY <1>4, <1>6, RecursExists
<1>8. ASSUME NEW k \in 0 .. n
      PROVE  f[k] = IF k = 0 THEN << >>
                    ELSE IF l.cell[cand[k]].fn = NoFn THEN f[k - 1] ELSE Append(f[k - 1], cand[k])
  <2>1. f[k] = IF k = 0 THEN << >> ELSE step[k][f[k - 1]]
    BY <1>7 DEF Recurs
  <2>2. k # 0 => k \in 1 .. n /\ f[k - 1] \in D
    BY <1>7
  <2> QED BY <1>5, <2>1, <2>2
<1>9. Picked(f, l, cand)
  <2>1. f = [k \in 0 .. n |-> f[k]]
    BY <1>7
  <2> QED BY <1>1, <1>8, <2>1 DEF Picked
<1> DEFINE it == CHOOSE e : Picked(e, l, cand)
<1>10. Picked(it, l, cand)
  BY <1>9
<1>11. OutputOf(l, h) = it[Len(cand)]
  BY DEF OutputOf, Picked, cand
<1> HIDE DEF it
<1>12. \A k \in 0 .. n : it[k] = f[k]
  <2>1. it[0] = f[0]
    BY <1>1, <1>9, <1>10 DEF Picked
  <2>2. ASSUME NEW k \in 1 .. n, it[k - 1] = f[k - 1] PROVE it[k] = f[k]
    <3>1. k \in 0 .. Len(cand) /\ k # 0
      BY <1>1
    <3> QED BY <1>9, <1>10, <2>2, <3>1 DEF Picked
  <2>3. StepAlike(n, it, f)
    BY <2>1, <2>2 DEF StepAlike
  <2> QED BY <2>3, SameByStep
<1>13. it[n] = f[n]
  BY <1>12
<1> QED BY <1>1, <1>7, <1>9, <1>11, <1>13 DEF cand, D

LEMMA AppendIs ==
    ASSUME NEW S, NEW a \in Seq(S), NEW x, NEW n, n = Len(a), NEW b, b = Append(a, x)
    PROVE  n \in Nat /\ Len(b) = n + 1 /\ b[n + 1] = x /\ \A i \in 1 .. n : b[i] = a[i]
<1>1. a \in Seq(S \union {x})
  OBVIOUS
<1> QED BY <1>1

\* The callouts are the same where slots have moved with what they hold.
SameFns(l, a, m, b) == Len(b) = Len(a) /\ \A i \in 1 .. Len(a) : m.cell[b[i]].fn = l.cell[a[i]].fn

LEMMA PickedAgree ==
    ASSUME NEW l, NEW m, NEW c, NEW d, NEW n \in Nat, Len(c) = n, Len(d) = n,
           NEW S, NEW T, NEW f \in [0 .. n -> Seq(S)], NEW e \in [0 .. n -> Seq(T)],
           SameFns(l, c, m, d), Picked(f, l, c), Picked(e, m, d)
    PROVE  SameFns(l, f[n], m, e[n])
<1> DEFINE Alike(k) == SameFns(l, f[k], m, e[k])
           Bad == {k \in 0 .. n : ~Alike(k)}
<1> SUFFICES ASSUME Bad # {} PROVE FALSE
  <2>1. n \in 0 .. n
    OBVIOUS
  <2> QED BY <2>1
<1>10. \A k \in 1 .. n : l.cell[c[k]].fn = m.cell[d[k]].fn
  BY DEF SameFns
<1>1. Bad \subseteq Nat
  OBVIOUS
<1>2. PICK k \in Bad : \A j \in Bad : k <= j
  BY <1>1, LeastNat
<1>3. k \in 0 .. n /\ ~Alike(k)
  OBVIOUS
<1>4. k # 0
  <2>1. f[0] = << >> /\ e[0] = << >>
    <3>1. 0 \in 0 .. Len(c) /\ 0 \in 0 .. Len(d)
      OBVIOUS
    <3> QED BY <3>1 DEF Picked
  <2>2. Alike(0)
    BY <2>1 DEF SameFns
  <2> HIDE DEF Alike
  <2> QED BY <1>3, <2>2
<1>5. k - 1 \in 0 .. n /\ k \in 1 .. n /\ k - 1 \notin Bad
  <2>1. k - 1 \in 0 .. n /\ k \in 1 .. n /\ ~(k <= k - 1)
    BY <1>3, <1>4
  <2> HIDE DEF Bad
  <2> QED BY <1>2, <2>1
<1>6. Alike(k - 1)
  BY <1>5
<1> HIDE DEF Bad
<1>7. /\ f[k] = IF l.cell[c[k]].fn = NoFn THEN f[k - 1] ELSE Append(f[k - 1], c[k])
      /\ e[k] = IF l.cell[c[k]].fn = NoFn THEN e[k - 1] ELSE Append(e[k - 1], d[k])
  BY <1>3, <1>4, <1>5, <1>10 DEF Picked
<1>8. CASE l.cell[c[k]].fn = NoFn
  <2>1. f[k] = f[k - 1] /\ e[k] = e[k - 1]
    BY <1>7, <1>8
  <2> QED BY <1>3, <1>6, <2>1
<1>9. CASE l.cell[c[k]].fn # NoFn
  <2>1. PICK a : a = f[k - 1] /\ a \in Seq(S)
    BY <1>5
  <2>2. PICK b : b = e[k - 1] /\ b \in Seq(T)
    BY <1>5
  <2>3. PICK h \in Nat : h = Len(a) /\ h = Len(b)
    BY <1>6, <2>1, <2>2 DEF SameFns
  <2>4. f[k] = Append(a, c[k]) /\ e[k] = Append(b, d[k])
    BY <1>7, <1>9, <2>1, <2>2
  <2>5. /\ Len(f[k]) = h + 1 /\ f[k][h + 1] = c[k] /\ \A i \in 1 .. h : f[k][i] = a[i]
        /\ Len(e[k]) = h + 1 /\ e[k][h + 1] = d[k] /\ \A i \in 1 .. h : e[k][i] = b[i]
    <3>1. Len(f[k]) = h + 1 /\ f[k][h + 1] = c[k] /\ \A i \in 1 .. h : f[k][i] = a[i]
      <4>1. a \in Seq(S) /\ h = Len(a) /\ f[k] = Append(a, c[k])
        BY <2>1, <2>3, <2>4
      <4> QED BY <4>1, AppendIs
    <3>2. Len(e[k]) = h + 1 /\ e[k][h + 1] = d[k] /\ \A i \in 1 .. h : e[k][i] = b[i]
      <4>1. b \in Seq(T) /\ h = Len(b) /\ e[k] = Append(b, d[k])
        BY <2>2, <2>3, <2>4
      <4> QED BY <4>1, AppendIs
    <3> QED BY <3>1, <3>2
  <2>6. ASSUME NEW i \in 1 .. h + 1 PROVE m.cell[e[k][i]].fn = l.cell[f[k][i]].fn
    <3>1. CASE i = h + 1
      BY <1>10, <1>5, <2>5, <3>1
    <3>2. CASE i # h + 1
      <4>1. i \in 1 .. h
        BY <3>2
      <4> QED BY <1>6, <2>1, <2>2, <2>3, <2>5, <4>1 DEF SameFns
    <3> QED BY <3>1, <3>2
  <2>7. Alike(k)
    BY <2>5, <2>6 DEF SameFns
  <2> HIDE DEF Alike
  <2> QED BY <1>3, <2>7
<1> QED BY <1>8, <1>9

\* Cells that are added for "asinfo" leave the callouts as they are.
LEMMA FnsStay ==
    ASSUME PageAssumption, NEW l, NEW pg, PageSound(l), PageSound(pg), NEW content,
           Grew(pg, l, "asinfo", content), NEW n \in Nat \ {0}, Len(content) = n, NEW h
    PROVE  FnsOf(pg, h) = FnsOf(l, h)
<1>1. /\ "callout" \in Sections /\ "intrinfo" \in Sections /\ "asinfo" \in Sections
      /\ "callout" # "asinfo" /\ "intrinfo" # "asinfo"
  <2>1. "callout" \in Sections /\ "intrinfo" \in Sections /\ "asinfo" \in Sections
    BY SectionNames, Zenon
  <2>2. "callout" # "asinfo" /\ "intrinfo" # "asinfo"
    BY Zenon
  <2> QED BY <2>1, <2>2, Zenon
<1>2. PICK bottom \in Nat : bottom = Bottom(l, "asinfo")
  BY <1>1, PageNumbers, Zenon DEF PageSound
<1>3. /\ \A t \in Sections \ {"asinfo"} :
             pg.size[t] = l.size[t] /\ pg.p[t] = IF l.p[t] >= bottom THEN l.p[t] + n ELSE l.p[t]
      /\ \A a \in InPage(pg) : pg.cell[a] = IF a < bottom THEN l.cell[a]
                                          ELSE IF a < bottom + n THEN content[a - bottom + 1] ELSE l.cell[a - n]
  BY <1>2 DEF Grew, Above
<1>4. ASSUME NEW s \in {"callout", "intrinfo"}, NEW k \in 1 .. l.size[s]
      PROVE  /\ l.p[s] + k - 1 \in InPage(l) /\ pg.p[s] + k - 1 \in InPage(pg)
             /\ pg.cell[pg.p[s] + k - 1].fn = l.cell[l.p[s] + k - 1].fn
  <2>1. s \in Sections /\ s # "asinfo"
    BY <1>1
  <2>2. PICK p \in Nat, z \in Nat : p = l.p[s] /\ z = l.size[s] /\ Bottom(l, s) = p + z
    BY <2>1, PageNumbers DEF PageSound
  <2>3. p >= bottom \/ p + z <= bottom
    BY <1>1, <1>2, <2>1, <2>2, NothingAcross DEF PageSound
  <2>4. PICK q \in Nat : q = pg.p[s] /\ pg.size[s] = z
    BY <1>3, <2>1, <2>2, PageNumbers DEF PageSound
  <2>5. q = IF p >= bottom THEN p + n ELSE p
    BY <1>3, <2>1, <2>2, <2>4
  <2>6. k \in Nat /\ k >= 1 /\ k <= z
    BY <2>2
  <2>7. p + k - 1 \in InPage(l) /\ q + k - 1 \in InPage(pg)
    <3>1. k \in 1 .. l.size[s] /\ k \in 1 .. pg.size[s]
      BY <2>2, <2>4, <2>6
    <3>2. CellsOf(l, s)[k] \in InPage(l) /\ CellsOf(l, s)[k] = l.p[s] + k - 1
      BY <2>1, <3>1, SectionCellsAre
    <3>3. CellsOf(pg, s)[k] \in InPage(pg) /\ CellsOf(pg, s)[k] = pg.p[s] + k - 1
      <4>1. /\ CellsOf(pg, s) \in [1 .. pg.size[s] -> InPage(pg)]
            /\ \A j \in 1 .. pg.size[s] : CellsOf(pg, s)[j] = pg.p[s] + j - 1
        BY <2>1, SectionCellsAre, Zenon
      <4> QED BY <3>1, <4>1
    <3>4. CellsOf(l, s)[k] = p + k - 1 /\ CellsOf(pg, s)[k] = q + k - 1
      BY <2>2, <2>4, <3>2, <3>3, Zenon
    <3> QED BY <3>2, <3>3, <3>4, Zenon
  <2>8. pg.cell[q + k - 1] = l.cell[p + k - 1]
    <3>1. CASE p >= bottom
      <4>1. ~(q + k - 1 < bottom) /\ ~(q + k - 1 < bottom + n) /\ q + k - 1 - n = p + k - 1
        <5>1. q = p + n /\ n \in Nat
          BY <2>5, <3>1
        <5> QED BY <2>6, <3>1, <5>1
      <4>2. PICK a \in InPage(pg) : a = q + k - 1 /\ ~(a < bottom) /\ ~(a < bottom + n) /\ a - n = p + k - 1
        <5>1. (q + k - 1) - n = p + k - 1
          <6>1. q = p + n /\ n \in Nat
            BY <2>5, <3>1
          <6> QED BY <2>6, <6>1
        <5> QED BY <2>7, <4>1, <5>1
      <4> QED BY <1>3, <4>2
    <3>2. CASE ~(p >= bottom)
      <4>1. q + k - 1 < bottom /\ q = p
        BY <2>3, <2>5, <2>6, <3>2
      <4> QED BY <1>3, <2>7, <4>1
    <3> QED BY <3>1, <3>2
  <2> QED BY <2>2, <2>4, <2>7, <2>8
<1> DEFINE c == CandidatesOf(l, h)
           d == CandidatesOf(pg, h)
<1>5. PICK n1 \in Nat : n1 = Len(c)
  BY CandidatesAre
<1>6. pg.size["callout"] = l.size["callout"] /\ pg.size["intrinfo"] = l.size["intrinfo"]
  BY <1>1, <1>3
<1>7. Len(d) = n1
  <2>1. Len(d) = (IF h THEN pg.size["intrinfo"] ELSE 0) + pg.size["callout"]
    BY CandidatesAre, Zenon
  <2>2. Len(c) = (IF h THEN l.size["intrinfo"] ELSE 0) + l.size["callout"]
    BY CandidatesAre, Zenon
  <2> QED BY <1>5, <1>6, <2>1, <2>2, Zenon
<1>8. ASSUME NEW k \in 1 .. n1
      PROVE  l.cell[c[k]].fn = pg.cell[d[k]].fn
  <2>1. PICK zi \in Nat, zc \in Nat : zi = l.size["intrinfo"] /\ zc = l.size["callout"]
    BY <1>1, PageNumbers DEF PageSound
  <2>2. n1 = (IF h THEN zi ELSE 0) + zc
    BY <1>5, <2>1, CandidatesAre
  <2>3. /\ c[k] = IF h /\ k <= zi THEN l.p["intrinfo"] + k - 1
                  ELSE l.p["callout"] + (k - (IF h THEN zi ELSE 0)) - 1
        /\ d[k] = IF h /\ k <= zi THEN pg.p["intrinfo"] + k - 1
                  ELSE pg.p["callout"] + (k - (IF h THEN zi ELSE 0)) - 1
    BY <1>5, <1>6, <1>7, <2>1, CandidatesAre
  <2> HIDE DEF c, d
  <2>5. CASE h /\ k <= zi
    <3>1. c[k] = l.p["intrinfo"] + k - 1 /\ d[k] = pg.p["intrinfo"] + k - 1 /\ k \in 1 .. l.size["intrinfo"]
      BY <2>1, <2>3, <2>5
    <3> QED BY <1>4, <3>1
  <2>6. CASE ~(h /\ k <= zi)
    <3>1. PICK j : j = k - (IF h THEN zi ELSE 0)
      OBVIOUS
    <3>2. j \in 1 .. l.size["callout"]
      <4>1. CASE h
        BY <2>1, <2>2, <2>6, <3>1, <4>1
      <4>2. CASE ~h
        BY <2>1, <2>2, <3>1, <4>2
      <4> QED BY <4>1, <4>2
    <3>3. c[k] = l.p["callout"] + j - 1 /\ d[k] = pg.p["callout"] + j - 1
      BY <2>3, <2>6, <3>1
    <3> QED BY <1>4, <3>2, <3>3
  <2> QED BY <2>5, <2>6
<1> HIDE DEF c, d
<1>14. SameFns(l, c, pg, d)
  BY <1>5, <1>7, <1>8 DEF SameFns
<1>9. PICK f \in [0 .. n1 -> Seq(Slots(l))] : Picked(f, l, c) /\ OutputOf(l, h) = f[n1]
  BY <1>5, OutputIs DEF c
<1>10. PICK e \in [0 .. n1 -> Seq(Slots(pg))] : Picked(e, pg, d) /\ OutputOf(pg, h) = e[n1]
  BY <1>7, OutputIs DEF d
<1>11. SameFns(l, f[n1], pg, e[n1])
  BY <1>5, <1>7, <1>9, <1>10, <1>14, PickedAgree
<1>12. f[n1] \in Seq(Slots(l)) /\ e[n1] \in Seq(Slots(pg))
  BY <1>9, <1>10
<1>13. DOMAIN f[n1] = 1 .. Len(f[n1]) /\ DOMAIN e[n1] = 1 .. Len(f[n1])
  BY <1>11, <1>12 DEF SameFns
<1> QED BY <1>9, <1>10, <1>11, <1>13 DEF FnsOf, SameFns

\* What is output is in the page, and has a callout.
LEMMA FnsAre ==
    ASSUME PageAssumption, NEW l, PageSound(l), NEW h
    PROVE  \E n \in Nat : /\ OutputOf(l, h) \in [1 .. n -> Slots(l)] /\ DOMAIN OutputOf(l, h) = 1 .. n
                          /\ FnsOf(l, h) \in [1 .. n -> DOMAIN Callouts] /\ Len(FnsOf(l, h)) = n
<1>1. OutputOf(l, h) \in Seq(Slots(l))
  <2>1. PICK f \in [0 .. Len(CandidatesOf(l, h)) -> Seq(Slots(l))] :
              OutputOf(l, h) = f[Len(CandidatesOf(l, h))]
    BY OutputIs
  <2>2. Len(CandidatesOf(l, h)) \in Nat
    BY CandidatesAre
  <2> QED BY <2>1, <2>2
<1>2. PICK n \in Nat : n = Len(OutputOf(l, h)) /\ DOMAIN OutputOf(l, h) = 1 .. n
  BY <1>1
<1>3. OutputOf(l, h) \in [1 .. n -> Slots(l)]
  BY <1>1, <1>2
<1>4. ASSUME NEW k \in 1 .. n PROVE l.cell[OutputOf(l, h)[k]].fn \in DOMAIN Callouts
  <2>1. PICK a \in Slots(l) : a = OutputOf(l, h)[k]
    BY <1>3
  <2>2. a \in InPage(l) /\ l.cell[a].fn # NoFn
    BY DEF Slots
  <2>3. l.cell[a] \in Cell
    BY <2>2 DEF PageSound, PageTyped
  <2> QED BY <2>1, <2>2, <2>3 DEF Cell
<1>5. FnsOf(l, h) \in [1 .. n -> DOMAIN Callouts]
  BY <1>2, <1>4 DEF FnsOf
<1>6. Len(FnsOf(l, h)) = n
  BY <1>5
<1> QED BY <1>2, <1>3, <1>5, <1>6

-----------------------------------------------------------------------------
(* Read/write data, which callouts share by name.                          *)

Once(list) == \A i, j \in DOMAIN list : i # j => list[i] # list[j]
HasName(list, rw) == \E i \in DOMAIN list : list[i] = rw
NamesMet(seen, fns) ==
    seen = [k \in 0 .. Len(fns) |->
            IF k = 0 THEN << >>
            ELSE LET rw == Callouts[fns[k]].rw IN
                 IF rw = NoFn \/ \E i \in DOMAIN seen[k - 1] : seen[k - 1][i] = rw
                 THEN seen[k - 1] ELSE Append(seen[k - 1], rw)]
RwLists == {list \in Seq(DOMAIN RwSize) : Once(list)}

LEMMA OneMoreName ==
    ASSUME NEW list \in RwLists, NEW rw \in DOMAIN RwSize, ~HasName(list, rw)
    PROVE  /\ Append(list, rw) \in RwLists /\ HasName(Append(list, rw), rw)
           /\ \A other : HasName(list, other) => HasName(Append(list, rw), other)
<1> DEFINE new == Append(list, rw)
<1>1. PICK n \in Nat : n = Len(list) /\ list \in Seq(DOMAIN RwSize) /\ DOMAIN list = 1 .. n
  BY DEF RwLists
<1>2. /\ new \in Seq(DOMAIN RwSize) /\ DOMAIN new = 1 .. n + 1
      /\ new[n + 1] = rw /\ \A i \in 1 .. n : new[i] = list[i]
  BY <1>1
<1> HIDE DEF new
<1>3. \A i, j \in 1 .. n : i # j => list[i] # list[j]
  BY <1>1 DEF RwLists, Once
<1>4. \A i \in 1 .. n : list[i] # rw
  BY <1>1 DEF HasName
<1>5. Once(new)
  <2>1. ASSUME NEW i \in 1 .. n + 1, NEW j \in 1 .. n + 1, i # j PROVE new[i] # new[j]
    <3>1. i \in 1 .. n \/ i = n + 1
      OBVIOUS
    <3>2. j \in 1 .. n \/ j = n + 1
      OBVIOUS
    <3> QED BY <1>2, <1>3, <1>4, <2>1, <3>1, <3>2
  <2> QED BY <1>2, <2>1 DEF Once
<1>6. HasName(new, rw)
  <2>1. n + 1 \in 1 .. n + 1
    OBVIOUS
  <2> QED BY <1>2, <2>1 DEF HasName
<1>7. ASSUME NEW other, HasName(list, other) PROVE HasName(new, other)
  <2>1. PICK i \in 1 .. n : list[i] = other
    BY <1>1, <1>7 DEF HasName
  <2>2. i \in 1 .. n + 1
    OBVIOUS
  <2> QED BY <1>2, <2>1, <2>2 DEF HasName
<1> QED BY <1>2, <1>5, <1>6, <1>7 DEF RwLists, new

LEMMA RwListIs ==
    ASSUME PageAssumption, NEW n \in Nat, NEW fns \in [1 .. n -> DOMAIN Callouts], Len(fns) = n
    PROVE  /\ RwList(fns) \in RwLists
           /\ \A k \in 1 .. n : Callouts[fns[k]].rw = NoFn \/ HasName(RwList(fns), Callouts[fns[k]].rw)
<1> DEFINE Rw(k) == Callouts[fns[k]].rw
           D == RwLists
           Next1(k, d) == IF Rw(k) = NoFn \/ HasName(d, Rw(k)) THEN d ELSE Append(d, Rw(k))
           step == [k \in 1 .. n |-> [d \in D |-> Next1(k, d)]]
<1>1. \A k \in 1 .. n : Rw(k) \in DOMAIN RwSize \union {NoFn}
  BY DEF PageAssumption
<1>2. ASSUME NEW k \in 1 .. n, NEW d \in D PROVE Next1(k, d) \in D
  BY <1>1, OneMoreName
<1>3. << >> \in D
  BY DEF RwLists, Once
<1> HIDE DEF D, Rw
<1>4. ASSUME NEW k \in 1 .. n, NEW d \in D
      PROVE  /\ Rw(k) = NoFn \/ HasName(Next1(k, d), Rw(k))
             /\ \A rw : HasName(d, rw) => HasName(Next1(k, d), rw)
  BY <1>1, OneMoreName DEF D
<1> HIDE DEF Next1
<1>5. step \in [1 .. n -> [D -> D]] /\ \A k \in 1 .. n, d \in D : step[k][d] = Next1(k, d)
  BY <1>2
<1> HIDE DEF step
<1>6. PICK f \in [0 .. n -> D] : Recurs(f, n, << >>, step)
  BY <1>3, <1>5, RecursExists
<1>7. ASSUME NEW k \in 0 .. n PROVE f[k] = IF k = 0 THEN << >> ELSE Next1(k, f[k - 1])
  <2>1. f[k] = IF k = 0 THEN << >> ELSE step[k][f[k - 1]]
    BY <1>6 DEF Recurs
  <2>2. k # 0 => k \in 1 .. n /\ f[k - 1] \in D
    BY <1>6
  <2> QED BY <1>5, <2>1, <2>2
<1>8. NamesMet(f, fns)
  <2>1. f = [k \in 0 .. n |-> f[k]]
    BY <1>6
  <2> QED BY <1>7, <2>1 DEF NamesMet, Next1, HasName, Rw
<1> DEFINE it == CHOOSE seen : NamesMet(seen, fns)
<1>9. NamesMet(it, fns)
  BY <1>8
<1>10. RwList(fns) = it[n]
  BY DEF RwList, NamesMet
<1> HIDE DEF it
<1>11. \A k \in 0 .. n : it[k] = f[k]
  <2>1. it[0] = f[0]
    BY <1>8, <1>9 DEF NamesMet
  <2>2. ASSUME NEW k \in 1 .. n, it[k - 1] = f[k - 1] PROVE it[k] = f[k]
    <3>1. k \in 0 .. Len(fns) /\ k # 0
      OBVIOUS
    <3>2. it[k] = Next1(k, it[k - 1])
      BY <1>9, <3>1 DEF NamesMet, Next1, HasName, Rw
    <3>3. f[k] = Next1(k, f[k - 1])
      BY <1>7, <3>1
    <3> QED BY <2>2, <3>2, <3>3
  <2>3. StepAlike(n, it, f)
    BY <2>1, <2>2 DEF StepAlike
  <2> QED BY <2>3, SameByStep
<1>12. RwList(fns) = f[n] /\ f[n] \in D
  BY <1>6, <1>10, <1>11
<1>13. ASSUME NEW k \in 1 .. n, Rw(k) # NoFn PROVE HasName(f[n], Rw(k))
  <2> DEFINE Bad == {j \in k .. n : ~HasName(f[j], Rw(k))}
  <2>1. Bad = {}
    <3> SUFFICES ASSUME Bad # {} PROVE FALSE
      OBVIOUS
    <3>1. Bad \subseteq Nat
      OBVIOUS
    <3>2. PICK j \in Bad : \A i \in Bad : j <= i
      BY <3>1, LeastNat
    <3>3. j \in k .. n /\ ~HasName(f[j], Rw(k))
      OBVIOUS
    <3> HIDE DEF Bad
    <3>4. j \in 1 .. n /\ j - 1 \in 0 .. n /\ j # 0 /\ j \in 0 .. n
      BY <3>3
    <3>5. f[j] = Next1(j, f[j - 1]) /\ f[j - 1] \in D
      BY <1>6, <1>7, <3>4
    <3>6. CASE j = k
      BY <1>4, <1>13, <3>3, <3>4, <3>5, <3>6
    <3>7. CASE j # k
      <4>1. j - 1 \in k .. n /\ ~(j <= j - 1)
        BY <3>3, <3>7
      <4>2. HasName(f[j - 1], Rw(k))
        BY <3>2, <4>1 DEF Bad
      <4> QED BY <1>4, <3>3, <3>4, <3>5, <4>2
    <3> QED BY <3>6, <3>7
  <2>2. n \in k .. n
    OBVIOUS
  <2> QED BY <2>1, <2>2
<1> QED BY <1>12, <1>13 DEF D, Rw

\* Where the data of a name lies in the list.
LEMMA RwBeforeIs ==
    ASSUME PageAssumption, NEW list \in RwLists, NEW rw, HasName(list, rw), NEW n, n = Len(list)
    PROVE  \E i \in 1 .. n : /\ n \in Nat /\ RwSizes(list) \in [1 .. n -> Nat] /\ RwSizes(list)[i] = RwSize[rw]
                             /\ list[i] = rw /\ rw \in DOMAIN RwSize /\ RwBefore(list, rw) = SumOf(RwSizes(list), i - 1)
<1>1. n \in Nat /\ list \in Seq(DOMAIN RwSize) /\ DOMAIN list = 1 .. n
  BY DEF RwLists
<1> DEFINE i == CHOOSE k \in DOMAIN list : list[k] = rw
<1>2. i \in 1 .. n /\ list[i] = rw
  BY <1>1 DEF HasName
<1>3. RwBefore(list, rw) = SumOf(RwSizes(list), i - 1)
  BY DEF RwBefore
<1> HIDE DEF i
<1>4. \A k \in 1 .. n : list[k] \in DOMAIN RwSize /\ RwSize[list[k]] \in Nat
  BY <1>1 DEF PageAssumption
<1>5. RwSizes(list) \in [1 .. n -> Nat] /\ RwSizes(list)[i] = RwSize[rw]
  BY <1>1, <1>2, <1>4 DEF RwSizes
<1> QED BY <1>1, <1>2, <1>3, <1>4, <1>5

-----------------------------------------------------------------------------
(* The steps, on the page.                                                 *)

LEMMA GrowSound ==
    ASSUME PageAssumption, NEW l, PageSound(l), NEW s \in DOMAIN Grown,
           NEW fn \in DOMAIN Callouts \union {NoFn}, NEW content, content = Cells(s, l.size[s], Grown[s], fn),
           NEW pg, pg = Grow(l, s, content)
    PROVE  PageSound(pg) /\ Grew(pg, l, s, content) /\ Len(content) = Grown[s]
<1>1. s \in Sections
  BY SectionNames
<1>2. PICK n \in Nat \ {0} : n = Grown[s]
  BY SectionNames
<1>3. l.size[s] \in Nat /\ l.base <= l.p[s] /\ Bottom(l, s) <= l.base + l.total
  <2>1. PICK lo \in Nat, ps \in Nat : lo = l.base /\ ps = l.p[s] /\ l.size[s] \in Nat
    BY <1>1, PageNumbers DEF PageSound
  <2>2. l.base + Header <= l.p[s] /\ Header \in Nat /\ Bottom(l, s) <= l.base + l.total
    BY <1>1, SectionNames, Zenon DEF PageSound, Whole
  <2> QED BY <2>1, <2>2
<1>4. /\ content \in [1 .. n -> Cell] /\ Len(content) = n
      /\ \A k \in 1 .. n : content[k].sec = s /\ content[k].i = l.size[s] + k - 1
  <2>1. PICK from \in Nat : from = l.size[s] /\ content = Cells(s, from, n, fn)
    BY <1>2, <1>3
  <2>2. CellsFrom(content, s, from, n)
    BY <1>1, <2>1, CellsAre
  <2> QED BY <2>1, <2>2, Zenon DEF CellsFrom
<1>5. Grew(pg, l, s, content)
  BY <1>1, <1>3, <1>4, GrowIs DEF PageSound
<1>6. PageTyped(pg)
  BY <1>5 DEF Grew
<1>7. Whole(pg)
  BY <1>1, <1>4, <1>5, GrewWhole DEF PageSound
<1>8. FixedFirst(pg)
  BY <1>4, <1>5, GrowKeepsFixed
<1> QED BY <1>2, <1>4, <1>5, <1>6, <1>7, <1>8 DEF PageSound

LEMMA SetSound ==
    ASSUME PageAssumption, NEW l, PageSound(l), NEW s \in DOMAIN Fixed, l.size[s] = 0,
           NEW content, content = Cells(s, 0, Fixed[s], NoFn),
           NEW pg, pg = Grow(Place(l, s), s, content)
    PROVE  /\ PageSound(pg) /\ Grew(pg, Place(l, s), s, content) /\ Len(content) = Fixed[s]
           /\ Placed(Place(l, s), l, s) /\ Whole(Place(l, s)) /\ PageTyped(Place(l, s))
<1>1. s \in Sections
  BY SectionNames
<1>2. PICK n \in Nat \ {0} : n = Fixed[s]
  BY SectionNames
<1>3. PICK m : m = Place(l, s)
  OBVIOUS
<1>4. Placed(m, l, s)
  BY <1>3, PlaceIs DEF PageSound
<1>5. Whole(m) /\ PageTyped(m)
  BY <1>4, PlacedWhole DEF Placed
<1>6. m.size[s] = 0 /\ m.base <= m.p[s] /\ Bottom(m, s) <= m.base + m.total
  <2>1. PICK lo \in Nat, ps \in Nat : lo = m.base /\ ps = m.p[s]
    BY <1>1, <1>5, PageNumbers
  <2>2. lo + Header <= ps /\ Header \in Nat /\ Bottom(m, s) <= m.base + m.total
    BY <1>1, <1>5, <2>1, SectionNames DEF Whole
  <2>3. m.size[s] = 0
    BY <1>4 DEF Placed
  <2> QED BY <2>1, <2>2, <2>3
<1>7. /\ content \in [1 .. n -> Cell] /\ Len(content) = n
      /\ \A k \in 1 .. n : content[k].sec = s /\ content[k].i = 0 + k - 1
  <2>1. CellsFrom(content, s, 0, n)
    BY <1>1, <1>2, CellsAre
  <2> QED BY <2>1, Zenon DEF CellsFrom
<1>8. Grew(pg, m, s, content)
  BY <1>1, <1>3, <1>5, <1>6, <1>7, GrowIs
<1>9. PageTyped(pg)
  BY <1>8 DEF Grew
<1>10. Whole(pg)
  BY <1>1, <1>5, <1>6, <1>7, <1>8, GrewWhole
<1>11. FixedFirst(pg)
  BY <1>2, <1>4, <1>7, <1>8, SetKeepsFixed
<1> QED BY <1>2, <1>3, <1>4, <1>5, <1>7, <1>8, <1>9, <1>10, <1>11 DEF PageSound

\* reloc_data() with what has moved when a section grew.
LEMMA OwnersGrow ==
    ASSUME PageAssumption, NEW l, PageTyped(l), Whole(l), NEW s \in Sections, NEW pg, NEW content,
           NEW n \in Nat \ {0}, Len(content) = n, Grew(pg, l, s, content), OwnersHold(l, patch_data)
    PROVE  OwnersHold(pg, RelocGrown(l, s, n))
<1>1. PICK lo \in Nat, total \in Nat : lo = l.base /\ total = l.total
  BY PageNumbers
<1>2. PICK bottom \in Nat : bottom = Bottom(l, s)
  BY PageNumbers
<1>3. bottom <= lo + total
  BY <1>1, <1>2 DEF Whole
<1>4. /\ PageTyped(pg) /\ pg.base = lo /\ pg.total = total + n
      /\ \A a \in InPage(pg) : pg.cell[a] = IF a < bottom THEN l.cell[a]
                                          ELSE IF a < bottom + n THEN content[a - bottom + 1] ELSE l.cell[a - n]
  BY <1>1, <1>2 DEF Grew
<1>5. PICK len \in Int : len = lo + total - bottom
  OBVIOUS
<1>6. ASSUME NEW a \in InPage(l), NEW b, b = IF bottom <= a /\ a < bottom + len THEN a + n ELSE a
      PROVE  b \in InPage(pg) /\ pg.cell[b] = l.cell[a]
  <2>1. a \in Int /\ lo <= a /\ a < lo + total
    BY <1>1 DEF InPage
  <2>2. n \in Nat /\ n > 0 /\ bottom + len = lo + total
    BY <1>5
  <2>3. InPage(pg) = lo .. lo + (total + n) - 1
    BY <1>4 DEF InPage
  <2>4. CASE bottom <= a
    <3>1. b = a + n
      BY <1>6, <2>1, <2>2, <2>4
    <3>2. b \in Int /\ lo <= b /\ b < lo + (total + n) /\ ~(b < bottom) /\ ~(b < bottom + n) /\ b - n = a
      BY <2>1, <2>2, <2>4, <3>1
    <3>3. b \in InPage(pg)
      BY <2>2, <2>3, <3>2
    <3> QED BY <1>4, <3>2, <3>3
  <2>5. CASE ~(bottom <= a)
    <3>1. b = a /\ a < bottom
      BY <1>6, <2>1, <2>5
    <3>2. b \in InPage(pg)
      BY <2>1, <2>2, <2>3, <3>1
    <3> QED BY <1>4, <3>1, <3>2
  <2> QED BY <2>4, <2>5
<1>7. RelocGrown(l, s, n) = reloc_data(bottom, len, n)
  <2>1. l.base + l.total - Bottom(l, s) = len
    BY <1>1, <1>2, <1>5
  <2> QED BY <1>2, <2>1, Zenon DEF RelocGrown
<1>8. OwnersHold(pg, reloc_data(bottom, len, n))
  <2>1. n \in Int
    OBVIOUS
  <2>2. CellsFollow(l, pg, bottom, len, n)
    BY <1>6 DEF CellsFollow
  <2> QED BY <1>4, <2>1, <2>2, OwnersFollow
<1> QED BY <1>7, <1>8

\* A slot that gets its callout.
LEMMA CalloutPut ==
    ASSUME PageAssumption, NEW l, PageSound(l), NEW at \in InPage(l), NEW fn \in DOMAIN Callouts,
           NEW pg, pg = [l EXCEPT !.cell[at].fn = fn]
    PROVE  /\ PageSound(pg) /\ pg.size = l.size /\ pg.p = l.p /\ InPage(pg) = InPage(l)
           /\ \A a \in InPage(l) : pg.cell[a].sec = l.cell[a].sec /\ pg.cell[a].i = l.cell[a].i
<1> DEFINE c == [l.cell EXCEPT ![at] = [l.cell[at] EXCEPT !.fn = fn]]
<1>1. PageTyped(l)
  BY DEF PageSound
<1>2. l.cell \in [InPage(l) -> Cell] /\ l.cell[at] \in Cell
  BY <1>1 DEF PageTyped
<1>3. PICK e \in Cell : e = [l.cell[at] EXCEPT !.fn = fn] /\ e.sec = l.cell[at].sec /\ e.i = l.cell[at].i
  <2>1. PICK d \in Cell : d = l.cell[at]
    BY <1>2
  <2>2. PICK f \in DOMAIN Callouts \union {NoFn} : f = fn
    OBVIOUS
  <2>3. /\ [d EXCEPT !.fn = f] \in Cell
        /\ [d EXCEPT !.fn = f].sec = d.sec /\ [d EXCEPT !.fn = f].i = d.i
    BY DEF Cell
  <2> QED BY <2>1, <2>2, <2>3
<1>4. /\ c \in [InPage(l) -> Cell]
      /\ \A a \in InPage(l) : c[a].sec = l.cell[a].sec /\ c[a].i = l.cell[a].i
  <2>1. c = [l.cell EXCEPT ![at] = e]
    BY <1>3
  <2> QED BY <1>2, <1>3, <2>1
<1>5. pg = [l EXCEPT !.cell = c]
  BY <1>1 DEF PageTyped
<1> HIDE DEF c
<1>6. /\ pg.base = l.base /\ pg.total = l.total /\ pg.fixed = l.fixed /\ pg.max = l.max
      /\ pg.p = l.p /\ pg.size = l.size /\ pg.cell = c
      /\ pg \in [base : Nat, max : Nat, fixed : Nat, total : Nat, p : [Sections -> Nat],
                size : [Sections -> Nat], cell : [InPage(l) -> Cell]]
  BY <1>1, <1>4, <1>5 DEF PageTyped
<1>7. InPage(pg) = InPage(l)
  BY <1>6 DEF InPage
<1>8. PageTyped(pg)
  BY <1>6, <1>7 DEF PageTyped
<1>9. \A s \in Sections : Bottom(pg, s) = Bottom(l, s)
  BY <1>6 DEF Bottom
<1>10. FixedFirst(pg)
  BY <1>6, <1>9 DEF PageSound, FixedFirst
<1>11. ASSUME NEW s \in Sections PROVE SectionWhole(pg, s)
  <2> SUFFICES ASSUME NEW k \in 0 .. l.size[s] - 1
               PROVE  pg.cell[l.p[s] + k].sec = s /\ pg.cell[l.p[s] + k].i = k
    BY <1>6 DEF SectionWhole
  <2>1. l.cell[l.p[s] + k].sec = s /\ l.cell[l.p[s] + k].i = k
    BY DEF PageSound, Whole, SectionWhole
  <2>2. l.p[s] + k \in InPage(l)
    <3>1. PICK lo \in Nat, total \in Nat, p \in Nat, z \in Nat :
            lo = l.base /\ total = l.total /\ p = l.p[s] /\ z = l.size[s] /\ Bottom(l, s) = p + z
      BY <1>1, PageNumbers
    <3>2. lo + Header <= p /\ p + z <= lo + total /\ Header \in Nat
      BY <3>1, SectionNames DEF PageSound, Whole
    <3>3. p + k \in lo .. lo + total - 1
      <4>1. k \in Nat /\ k < z
        BY <3>1
      <4> QED BY <3>2, <4>1
    <3> QED BY <3>1, <3>3 DEF InPage
  <2> QED BY <1>4, <1>6, <2>1, <2>2
<1>12. ASSUME NEW a \in InPage(l) PROVE OwnedCell(pg, a)
  <2>1. OwnedCell(l, a)
    BY DEF PageSound, Whole
  <2>2. pg.cell[a].sec = l.cell[a].sec /\ pg.cell[a].i = l.cell[a].i
    BY <1>4, <1>6
  <2> QED BY <1>6, <2>1, <2>2 DEF OwnedCell
<1>13. Whole(pg)
  BY <1>6, <1>7, <1>9, <1>11, <1>12 DEF PageSound, Whole
<1> QED BY <1>4, <1>6, <1>7, <1>8, <1>10, <1>13 DEF PageSound

-----------------------------------------------------------------------------
(* The invariant.                                                          *)

\* What the sizing pass counted is what the callouts still come to, and the
\* page is longer by no more than the entries it was sized with in reserve.
Counted ==
    /\ grown \in 0 .. MaxSplits
    /\ sized.list = RwList(Fns)
    /\ sized.rw = SumOf(RwSizes(sized.list), Len(sized.list))
    /\ sized.code = SumOf(Codes(Fns), Len(Fns))
    /\ \E before \in 0 .. lsp.total :
          /\ lsp.total = before + grown * Grown["asinfo"]
          /\ sized.spsize = RoundPg(before + sized.rw + Reserve * Grown["asinfo"]) + RoundPg(sized.code)

PageInv ==
    /\ progress \in {"build", "sized", "written", "crashed"}
    /\ PageSound(lsp) /\ lsp.size["callout"] = Fixed.callout
    /\ OwnersHold(lsp, patch_data)
    /\ progress # "written" => written = << >>
    /\ progress \in {"sized", "written"} => Counted
    /\ progress = "written" => written = [k \in DOMAIN ToOutput |-> callout_output_one(k)]

LEMMA FirstPage ==
    ASSUME PageAssumption, PageInit
    PROVE  PageInv
<1> DEFINE bare == [base |-> 0, p |-> [s \in Sections |-> Header], size |-> [s \in Sections |-> 0],
                    cell |-> [a \in 0 .. Header - 1 |-> [sec |-> "header", i |-> a, fn |-> NoFn]],
                    total |-> Header, max |-> Blocks[1], fixed |-> Header]
           cell == [a \in 0 .. Header - 1 |-> [sec |-> "header", i |-> a, fn |-> NoFn]]
<1>1. Header \in Nat /\ Blocks[1] \in Nat
  BY DEF PageAssumption
<1>2. cell \in [0 .. Header - 1 -> Cell]
  <2> SUFFICES ASSUME NEW a \in 0 .. Header - 1
               PROVE  [sec |-> "header", i |-> a, fn |-> NoFn] \in Cell
    OBVIOUS
  <2>1. a \in Nat
    BY <1>1
  <2> QED BY <2>1 DEF Cell
<1>3. /\ \A a \in 0 .. Header - 1 : cell[a].sec = "header" /\ cell[a].i = a
      /\ [s \in Sections |-> Header] \in [Sections -> Nat] /\ [s \in Sections |-> 0] \in [Sections -> Nat]
  BY <1>1
<1> HIDE DEF cell
<1>4. PICK l : l = bare
  OBVIOUS
<1>5. /\ l.base = 0 /\ l.total = Header /\ l.max = Blocks[1] /\ l.fixed = Header /\ l.cell = cell
      /\ \A s \in Sections : l.p[s] = Header /\ l.size[s] = 0
  BY <1>4 DEF cell
<1>6. InPage(l) = 0 .. Header - 1
  BY <1>1, <1>5 DEF InPage
<1>7. PageTyped(l)
  <2>1. l \in [base : Nat, max : Nat, fixed : Nat, total : Nat, p : [Sections -> Nat],
               size : [Sections -> Nat], cell : [0 .. Header - 1 -> Cell]]
    BY <1>1, <1>2, <1>3, <1>4 DEF cell
  <2> QED BY <1>6, <2>1 DEF PageTyped
<1>8. \A s \in Sections : Bottom(l, s) = Header
  BY <1>1, <1>5 DEF Bottom
<1>9. \A s \in Sections : SectionWhole(l, s)
  <2> SUFFICES ASSUME NEW s \in Sections PROVE 0 .. l.size[s] - 1 = {}
    BY DEF SectionWhole
  <2> QED BY <1>5
<1>10. \A a \in InPage(l) : OwnedCell(l, a)
  BY <1>1, <1>3, <1>5, <1>6 DEF OwnedCell
<1>11. Whole(l)
  BY <1>1, <1>5, <1>8, <1>9, <1>10 DEF Whole
<1>12. PageSound(l)
  <2>1. \A s \in DOMAIN Grown : s \in Sections
    BY DEF Sections
  <2>2. FixedFirst(l)
    BY <1>1, <1>5, <1>8, <2>1 DEF FixedFirst
  <2> QED BY <1>7, <1>11, <2>2 DEF PageSound
<1>13. "callout" \in DOMAIN Fixed /\ "callout" \in Sections /\ Fixed.callout = Fixed["callout"] /\ Fixed["callout"] \in Nat
  BY SectionNames DEF PageAssumption
<1>14. PICK content : content = Cells("callout", 0, Fixed["callout"], NoFn)
  OBVIOUS
<1>15. lsp = Grow(Place(l, "callout"), "callout", content)
  BY <1>4, <1>14 DEF PageInit
<1>16. PageSound(lsp) /\ Grew(lsp, Place(l, "callout"), "callout", content)
       /\ Len(content) = Fixed["callout"] /\ Placed(Place(l, "callout"), l, "callout")
  BY <1>5, <1>12, <1>13, <1>14, <1>15, SetSound
<1>17. lsp.size["callout"] = Fixed.callout
  <2>1. lsp.size["callout"] = Place(l, "callout").size["callout"] + Fixed["callout"]
    BY <1>13, <1>16 DEF Grew
  <2>2. Place(l, "callout").size["callout"] = 0
    BY <1>5, <1>13, <1>16 DEF Placed
  <2> QED BY <1>13, <2>1, <2>2
<1>18. OwnersHold(lsp, patch_data)
  BY DEF PageInit, OwnersHold
<1> QED BY <1>16, <1>17, <1>18 DEF PageInit, PageInv

\* Every step but the two that size and write leaves the counts to build.
LEMMA BuildStep ==
    ASSUME PageInv, PageSound(lsp'), lsp'.size["callout"] = Fixed.callout, OwnersHold(lsp', patch_data'),
           progress' \in {"build", "crashed"}, written' = written, progress # "written"
    PROVE  PageInv'
BY DEF PageInv

\* A request the page has no room for.
LEMMA CrashStep ==
    ASSUME PageInv, UNCHANGED <<lsp, patch_data, written>>, progress' = "crashed", progress # "written"
    PROVE  PageInv'
<1>1. PageSound(lsp') /\ lsp'.size["callout"] = Fixed.callout /\ OwnersHold(lsp', patch_data')
  BY DEF PageInv
<1> QED BY <1>1, BuildStep

\* The callout section stays as long as it is.
LEMMA CalloutsKept ==
    ASSUME PageAssumption, NEW l, NEW pg, NEW s, NEW content, Grew(pg, l, s, content), s # "callout"
    PROVE  pg.size["callout"] = l.size["callout"]
BY SectionNames DEF Grew

LEMMA SetSectionKeeps ==
    ASSUME PageAssumption, PageInv, NEW s \in DOMAIN Fixed, SetSection(s)
    PROVE  PageInv'
<1>1. PICK content : content = Cells(s, 0, Fixed[s], NoFn)
  OBVIOUS
<1>2. PICK m : m = Place(lsp, s)
  OBVIOUS
<1>3. /\ progress = "build" /\ s # "callout" /\ lsp.size[s] = 0
      /\ GrowTo(m, s, content) /\ UNCHANGED written
  BY <1>1, <1>2 DEF SetSection
<1>4. CASE Overflows(m, Len(content))
  BY <1>3, <1>4, CrashStep DEF GrowTo
<1>5. CASE ~Overflows(m, Len(content))
  <2>1. lsp' = Grow(m, s, content) /\ patch_data' = RelocGrown(m, s, Len(content)) /\ progress' = progress
    BY <1>3, <1>5 DEF GrowTo
  <2>2. PICK l : l = lsp
    OBVIOUS
  <2>3. PICK pg : pg = lsp'
    OBVIOUS
  <2>4. PageSound(l) /\ l.size[s] = 0 /\ m = Place(l, s) /\ pg = Grow(Place(l, s), s, content)
    BY <1>2, <1>3, <2>1, <2>2, <2>3 DEF PageInv
  <2>5. /\ PageSound(pg) /\ Grew(pg, m, s, content) /\ Len(content) = Fixed[s]
        /\ Placed(m, l, s) /\ Whole(m) /\ PageTyped(m)
    BY <1>1, <2>4, SetSound
  <2>6. OwnersHold(m, patch_data)
    <3>1. InPage(m) = InPage(l) /\ m.cell = l.cell
      BY <2>5 DEF Placed, InPage
    <3>2. OwnersHold(l, patch_data)
      BY <2>2 DEF PageInv
    <3> QED BY <3>1, <3>2 DEF OwnersHold, Owns
  <2>7. PICK n \in Nat \ {0} : n = Fixed[s]
    BY SectionNames
  <2>8. OwnersHold(pg, RelocGrown(m, s, n))
    BY <2>5, <2>6, <2>7, SectionNames, OwnersGrow
  <2>9. pg.size["callout"] = Fixed.callout
    <3>1. pg.size["callout"] = m.size["callout"] /\ m.size = l.size
      BY <1>3, <2>5, CalloutsKept DEF Placed
    <3> QED BY <2>2, <3>1 DEF PageInv
  <2>10. PageSound(lsp') /\ lsp'.size["callout"] = Fixed.callout /\ OwnersHold(lsp', patch_data')
    BY <2>1, <2>3, <2>5, <2>7, <2>8, <2>9
  <2> QED BY <1>3, <2>1, <2>10, BuildStep
<1> QED BY <1>4, <1>5

\* What grow_syspage_section() does to a page that is sound.
LEMMA GrowthKeeps ==
    ASSUME PageAssumption, PageInv, NEW s \in DOMAIN Grown, NEW fn \in DOMAIN Callouts \union {NoFn},
           NEW content, content = Cells(s, lsp.size[s], Grown[s], fn), lsp' = Grow(lsp, s, content)
    PROVE  /\ PageSound(lsp') /\ Grew(lsp', lsp, s, content) /\ Len(content) = Grown[s]
           /\ lsp'.size["callout"] = Fixed.callout
           /\ OwnersHold(lsp', RelocGrown(lsp, s, Len(content)))
<1>1. PICK l : l = lsp
  OBVIOUS
<1>2. PICK pg : pg = lsp'
  OBVIOUS
<1>3. PageSound(l) /\ content = Cells(s, l.size[s], Grown[s], fn) /\ pg = Grow(l, s, content)
  BY <1>1, <1>2 DEF PageInv
<1>4. PageSound(pg) /\ Grew(pg, l, s, content) /\ Len(content) = Grown[s]
  BY <1>3, GrowSound
<1>5. PICK n \in Nat \ {0} : n = Grown[s] /\ s \in Sections /\ s # "callout"
  BY SectionNames DEF PageAssumption
<1>6. pg.size["callout"] = l.size["callout"]
  BY <1>4, <1>5, CalloutsKept
<1>7. OwnersHold(pg, RelocGrown(l, s, n))
  <2>1. PageTyped(l) /\ Whole(l) /\ OwnersHold(l, patch_data)
    BY <1>1, <1>3 DEF PageInv, PageSound
  <2> QED BY <1>4, <1>5, <2>1, OwnersGrow
<1>8. l.size["callout"] = Fixed.callout
  BY <1>1 DEF PageInv
<1> QED BY <1>1, <1>2, <1>4, <1>5, <1>6, <1>7, <1>8

LEMMA GrowSectionKeeps ==
    ASSUME PageAssumption, PageInv, NEW s \in DOMAIN Grown, GrowSection(s)
    PROVE  PageInv'
<1>1. PICK content : content = Cells(s, lsp.size[s], Grown[s], NoFn)
  OBVIOUS
<1>2. progress = "build" /\ GrowTo(lsp, s, content) /\ UNCHANGED written
  BY <1>1 DEF GrowSection
<1>3. CASE Overflows(lsp, Len(content))
  BY <1>2, <1>3, CrashStep DEF GrowTo
<1>4. CASE ~Overflows(lsp, Len(content))
  <2>1. lsp' = Grow(lsp, s, content) /\ patch_data' = RelocGrown(lsp, s, Len(content)) /\ progress' = progress
    BY <1>2, <1>4 DEF GrowTo
  <2>2. PageSound(lsp') /\ lsp'.size["callout"] = Fixed.callout /\ OwnersHold(lsp', patch_data')
    BY <1>1, <2>1, GrowthKeeps
  <2> QED BY <1>2, <2>1, <2>2, BuildStep
<1> QED BY <1>3, <1>4

LEMMA AddInterruptKeeps ==
    ASSUME PageAssumption, PageInv, NEW fn \in DOMAIN Callouts, NEW data \in Data, AddInterrupt(fn, data)
    PROVE  PageInv'
<1>1. PICK n \in Nat : n = lsp.size["intrinfo"]
  BY SectionNames, PageNumbers DEF PageInv, PageSound
<1>2. PICK content : content = Cells("intrinfo", n, Grown["intrinfo"], fn)
  OBVIOUS
<1>3. progress = "build" /\ UNCHANGED written
  BY DEF AddInterrupt
<1>4. CASE Overflows(lsp, Len(content))
  <2>1. UNCHANGED <<lsp, patch_data>> /\ progress' = "crashed"
    BY <1>1, <1>2, <1>4 DEF AddInterrupt
  <2> QED BY <1>3, <2>1, CrashStep
<1>5. CASE ~Overflows(lsp, Len(content))
  <2>1. /\ lsp' = Grow(lsp, "intrinfo", content) /\ progress' = progress
        /\ patch_data' = Registered(RelocGrown(lsp, "intrinfo", Len(content)),
                                    lsp'.p["intrinfo"] + n, data, <<"intrinfo", n>>)
    BY <1>1, <1>2, <1>5 DEF AddInterrupt
  <2>2. "intrinfo" \in DOMAIN Grown /\ "intrinfo" \in Sections
    BY SectionNames DEF PageAssumption
  <2>3. /\ PageSound(lsp') /\ Grew(lsp', lsp, "intrinfo", content) /\ Len(content) = Grown["intrinfo"]
        /\ lsp'.size["callout"] = Fixed.callout /\ OwnersHold(lsp', RelocGrown(lsp, "intrinfo", Len(content)))
    BY <1>1, <1>2, <2>1, <2>2, GrowthKeeps
  <2>4. PICK pg : pg = lsp'
    OBVIOUS
  <2>5. PICK pd : pd = RelocGrown(lsp, "intrinfo", Len(content))
    OBVIOUS
  <2>6. PageSound(pg) /\ OwnersHold(pg, pd)
    BY <2>3, <2>4, <2>5
  <2>7. PICK add \in Nat : add = Grown["intrinfo"] /\ add > 0
    BY <2>2, SectionNames
  <2>8. pg.size["intrinfo"] = n + add
    BY <1>1, <2>2, <2>3, <2>4, <2>7 DEF Grew
  <2>9. n + 1 \in 1 .. pg.size["intrinfo"]
    BY <2>7, <2>8
  <2>10. PICK p \in Nat : p = pg.p["intrinfo"]
    BY <2>2, <2>6, PageNumbers DEF PageSound
  <2>11. p + n \in InPage(pg)
    <3>1. CellsOf(pg, "intrinfo")[n + 1] \in InPage(pg) /\ CellsOf(pg, "intrinfo")[n + 1] = p + (n + 1) - 1
      BY <2>2, <2>6, <2>9, <2>10, SectionCellsAre
    <3> QED BY <3>1
  <2>12. <<pg.cell[p + n].sec, pg.cell[p + n].i>> = <<"intrinfo", n>>
    <3>1. n \in 0 .. pg.size["intrinfo"] - 1
      BY <2>7, <2>8
    <3> QED BY <2>2, <2>6, <2>10, <3>1 DEF PageSound, Whole, SectionWhole
  <2>13. OwnersHold(pg, Registered(pd, p + n, data, <<"intrinfo", n>>))
    <3>1. p + n \in Nat /\ <<"intrinfo", n>> \in Sections \X Nat /\ data \in Data \union {"dbg0", "dbg1"}
      BY <2>2
    <3> QED BY <2>6, <2>11, <2>12, <3>1, RegisteredHolds
  <2>14. OwnersHold(lsp', patch_data')
    BY <2>1, <2>4, <2>5, <2>10, <2>13
  <2> QED BY <1>3, <2>1, <2>3, <2>14, BuildStep
<1> QED BY <1>4, <1>5


LEMMA AddCalloutKeeps ==
    ASSUME PageAssumption, PageInv, NEW i \in 0 .. Fixed.callout - 1, NEW fn \in DOMAIN Callouts, AddCallout(i, fn)
    PROVE  PageInv'
<1>1. PICK l : l = lsp
  OBVIOUS
<1>2. PICK pg : pg = lsp'
  OBVIOUS
<1>3. PageSound(l) /\ OwnersHold(l, patch_data) /\ l.size["callout"] = Fixed.callout
  BY <1>1 DEF PageInv
<1>4. "callout" \in Sections
  BY SectionNames
<1>5. PICK p \in Nat, z \in Nat : p = l.p["callout"] /\ z = l.size["callout"] /\ i \in Nat /\ i < z
  BY <1>3, <1>4, PageNumbers DEF PageSound
<1>6. PICK at \in Nat : at = p + i
  BY <1>5
<1>7. at \in InPage(l)
  <2>1. i + 1 \in 1 .. l.size["callout"]
    BY <1>5
  <2>2. CellsOf(l, "callout")[i + 1] \in InPage(l) /\ CellsOf(l, "callout")[i + 1] = p + (i + 1) - 1
    BY <1>3, <1>4, <1>5, <2>1, SectionCellsAre
  <2> QED BY <1>5, <1>6, <2>2
<1>8. /\ progress = "build" /\ progress' = progress /\ written' = written
      /\ pg = [l EXCEPT !.cell[at].fn = fn]
      /\ patch_data' = Registered(patch_data, at, DebugDevice(i), <<"callout", i>>)
  BY <1>1, <1>2, <1>5, <1>6 DEF AddCallout
<1>9. /\ PageSound(pg) /\ pg.size = l.size /\ pg.p = l.p /\ InPage(pg) = InPage(l)
      /\ \A a \in InPage(l) : pg.cell[a].sec = l.cell[a].sec /\ pg.cell[a].i = l.cell[a].i
  BY <1>3, <1>7, <1>8, CalloutPut
<1>10. OwnersHold(pg, patch_data)
  BY <1>3, <1>9 DEF OwnersHold, Owns
<1>11. <<pg.cell[at].sec, pg.cell[at].i>> = <<"callout", i>>
  <2>1. i \in 0 .. pg.size["callout"] - 1
    BY <1>5, <1>9
  <2> QED BY <1>4, <1>5, <1>6, <1>9, <2>1 DEF PageSound, Whole, SectionWhole
<1>12. OwnersHold(pg, patch_data')
  <2>1. /\ DebugDevice(i) \in Data \union {"dbg0", "dbg1"}
        /\ <<"callout", i>> \in Sections \X Nat /\ at \in InPage(pg)
    BY <1>4, <1>5, <1>7, <1>9 DEF DebugDevice
  <2>2. OwnersHold(pg, Registered(patch_data, at, DebugDevice(i), <<"callout", i>>))
    BY <1>10, <1>11, <2>1, RegisteredHolds
  <2> QED BY <1>8, <2>2
<1>13. PageSound(lsp') /\ lsp'.size["callout"] = Fixed.callout /\ OwnersHold(lsp', patch_data')
  BY <1>2, <1>3, <1>9, <1>12
<1> QED BY <1>8, <1>13, BuildStep

LEMMA RelocKeeps ==
    ASSUME PageAssumption, PageInv, RelocSyspage
    PROVE  PageInv'
<1>1. PICK l : l = lsp
  OBVIOUS
<1>2. PICK pg : pg = lsp'
  OBVIOUS
<1>3. PageSound(l) /\ OwnersHold(l, patch_data) /\ l.size["callout"] = Fixed.callout
  BY <1>1 DEF PageInv
<1>4. PICK base \in Nat : base = Blocks[1]
  BY DEF PageAssumption
<1>5. PICK max \in Nat : max = Blocks[2]
  BY DEF PageAssumption
<1>6. /\ progress = "build" /\ progress' = progress /\ written' = written
      /\ pg = MovedTo(l, base, max)
      /\ patch_data' = reloc_data(l.base, l.total, base - l.base)
  BY <1>1, <1>2, <1>4, <1>5 DEF RelocSyspage, Reloc, MovedTo
<1>7. /\ PageSound(pg) /\ pg.size = l.size
      /\ \A a \in InPage(l) : a + (base - l.base) \in InPage(pg) /\ pg.cell[a + (base - l.base)] = l.cell[a]
  BY <1>3, <1>6, PageMoves
<1>8. PICK lo \in Nat, total \in Nat : lo = l.base /\ total = l.total
  BY <1>3, PageNumbers DEF PageSound
<1>9. \A a \in InPage(l) : lo <= a /\ a < lo + total
  BY <1>8 DEF InPage
<1>10. OwnersHold(pg, reloc_data(lo, total, base - lo))
  <2>1. PICK d \in Int : d = base - lo
    OBVIOUS
  <2>2. CellsFollow(l, pg, lo, total, d)
    BY <1>7, <1>8, <1>9, <2>1 DEF CellsFollow
  <2>3. PageTyped(l) /\ PageTyped(pg)
    BY <1>3, <1>7 DEF PageSound
  <2>4. total \in Int
    OBVIOUS
  <2>5. OwnersHold(pg, reloc_data(lo, total, d))
    BY <1>3, <2>2, <2>3, <2>4, OwnersFollow
  <2> QED BY <2>1, <2>5
<1>11. PageSound(lsp') /\ lsp'.size["callout"] = Fixed.callout /\ OwnersHold(lsp', patch_data')
  BY <1>2, <1>3, <1>6, <1>7, <1>8, <1>10
<1> QED BY <1>6, <1>11, BuildStep

LEMMA AllocSyspageKeeps ==
    ASSUME PageAssumption, PageInv, AllocSyspage
    PROVE  PageInv'
<1>1. /\ progress = "build" /\ progress' = "sized" /\ grown' = 0
      /\ UNCHANGED <<lsp, patch_data, hooked, written>>
  BY DEF AllocSyspage
<1>2. PICK list : list = RwList(Fns)
  OBVIOUS
<1>3. PICK rw : rw = SumOf(RwSizes(list), Len(list))
  OBVIOUS
<1>4. PICK code : code = SumOf(Codes(Fns), Len(Fns))
  OBVIOUS
<1>5. sized' = [rw |-> rw, list |-> list, code |-> code, spsize |-> Size(rw, code)]
  BY <1>2, <1>3, <1>4 DEF AllocSyspage
<1>6. (Fns)' = Fns
  BY <1>1, OutputNow
<1>7. PICK total \in Nat : total = lsp.total
  BY PageNumbers DEF PageInv, PageSound
<1>8. PICK add \in Nat : add = Grown["asinfo"]
  BY SectionNames DEF PageAssumption
<1>9. sized'.rw = rw /\ sized'.list = list /\ sized'.code = code /\ sized'.spsize = Size(rw, code)
  BY <1>5
<1>10. Size(rw, code) = RoundPg(total + rw + Reserve * add) + RoundPg(code)
  BY <1>7, <1>8 DEF Size
<1>11. total \in 0 .. lsp'.total /\ lsp'.total = total + grown' * Grown["asinfo"] /\ grown' \in 0 .. MaxSplits
  <2>1. 0 * add = 0 /\ 0 \in 0 .. MaxSplits
    BY DEF PageAssumption, Reserve
  <2> QED BY <1>1, <1>7, <1>8, <2>1
<1>12. \E before \in 0 .. lsp'.total :
          /\ lsp'.total = before + grown' * Grown["asinfo"]
          /\ sized'.spsize = RoundPg(before + sized'.rw + Reserve * Grown["asinfo"]) + RoundPg(sized'.code)
  BY <1>8, <1>9, <1>10, <1>11, Zenon
<1>13. Counted'
  BY <1>2, <1>3, <1>4, <1>6, <1>9, <1>11, <1>12 DEF Counted
<1>14. PageSound(lsp') /\ lsp'.size["callout"] = Fixed.callout /\ OwnersHold(lsp', patch_data') /\ written' = << >>
  BY <1>1 DEF PageInv
<1> QED BY <1>1, <1>13, <1>14 DEF PageInv

LEMMA SplitKeeps ==
    ASSUME PageAssumption, PageInv, Split
    PROVE  PageInv'
<1>1. "asinfo" \in DOMAIN Grown
  BY DEF PageAssumption
<1>2. PICK content : content = Cells("asinfo", lsp.size["asinfo"], Grown["asinfo"], NoFn)
  OBVIOUS
<1>3. /\ progress = "sized" /\ grown < MaxSplits /\ grown' = grown + 1
      /\ GrowTo(lsp, "asinfo", content) /\ UNCHANGED <<hooked, sized, written>>
  BY <1>2 DEF Split
<1>4. CASE Overflows(lsp, Len(content))
  BY <1>3, <1>4, CrashStep DEF GrowTo
<1>5. CASE ~Overflows(lsp, Len(content))
  <2>1. lsp' = Grow(lsp, "asinfo", content) /\ patch_data' = RelocGrown(lsp, "asinfo", Len(content)) /\ progress' = progress
    BY <1>3, <1>5 DEF GrowTo
  <2>2. PageSound(lsp') /\ Grew(lsp', lsp, "asinfo", content) /\ Len(content) = Grown["asinfo"]
        /\ lsp'.size["callout"] = Fixed.callout /\ OwnersHold(lsp', patch_data')
    BY <1>1, <1>2, <2>1, GrowthKeeps
  <2>3. PICK n \in Nat \ {0} : n = Grown["asinfo"]
    BY <1>1, SectionNames
  <2>4. (Fns)' = Fns
    <3>1. PICK l : l = lsp
      OBVIOUS
    <3>2. PICK pg : pg = lsp'
      OBVIOUS
    <3>3. PageSound(l) /\ PageSound(pg) /\ Grew(pg, l, "asinfo", content) /\ Len(content) = n
      BY <2>2, <2>3, <3>1, <3>2 DEF PageInv
    <3>4. FnsOf(pg, hooked) = FnsOf(l, hooked)
      BY <3>3, FnsStay
    <3> QED BY <1>3, <3>1, <3>2, <3>4, OutputNow
  <2>5. Counted
    BY <1>3 DEF PageInv
  <2>6. PICK before \in 0 .. lsp.total :
          /\ lsp.total = before + grown * n
          /\ sized.spsize = RoundPg(before + sized.rw + Reserve * n) + RoundPg(sized.code)
    BY <2>3, <2>5 DEF Counted
  <2>7. PICK k \in Nat : k = grown /\ k + 1 \in 0 .. MaxSplits
    <3>1. grown \in 0 .. MaxSplits
      BY <2>5 DEF Counted
    <3>2. PICK most \in Nat : most = MaxSplits
      BY DEF PageAssumption, Reserve
    <3> QED BY <1>3, <3>1, <3>2
  <2>8. PICK total \in Nat : total = lsp.total /\ lsp'.total = total + n
    BY <2>2, <2>3, PageNumbers DEF PageInv, PageSound, Grew
  <2>9. total = before + k * n
    BY <2>6, <2>7, <2>8
  <2>10. (k + 1) * n = k * n + n /\ k * n \in Nat
    BY <2>7
  <2>11. before \in 0 .. total + n /\ total + n = before + (k + 1) * n
    <3>1. before \in 0 .. total
      BY <2>8
    <3> QED BY <2>3, <2>9, <2>10, <3>1
  <2>12. \E b \in 0 .. lsp'.total :
          /\ lsp'.total = b + grown' * Grown["asinfo"]
          /\ sized'.spsize = RoundPg(b + sized'.rw + Reserve * Grown["asinfo"]) + RoundPg(sized'.code)
    <3>1. sized' = sized /\ grown' = k + 1 /\ lsp'.total = total + n
      BY <1>3, <2>7, <2>8
    <3> QED BY <2>3, <2>6, <2>11, <3>1, Zenon
  <2>13. Counted'
    <3>1. /\ sized.list = RwList(Fns) /\ sized.rw = SumOf(RwSizes(sized.list), Len(sized.list))
          /\ sized.code = SumOf(Codes(Fns), Len(Fns))
      BY <2>5 DEF Counted
    <3>2. sized' = sized /\ grown' \in 0 .. MaxSplits
      BY <1>3, <2>7
    <3> QED BY <2>4, <2>12, <3>1, <3>2 DEF Counted
  <2>14. progress' = "sized" /\ written' = << >>
    BY <1>3, <2>1 DEF PageInv
  <2> QED BY <2>2, <2>13, <2>14 DEF PageInv
<1> QED BY <1>4, <1>5

LEMMA OutputKeeps ==
    ASSUME PageInv, OutputCallouts
    PROVE  PageInv'
<1>1. /\ progress = "sized" /\ progress' = "written"
      /\ UNCHANGED <<lsp, patch_data, hooked, grown, sized>>
      /\ written' = [k \in DOMAIN ToOutput |-> callout_output_one(k)]
  BY DEF OutputCallouts
<1>2. (ToOutput)' = ToOutput /\ (Fns)' = Fns
  BY <1>1, OutputNow
<1>3. Counted'
  <2>1. Counted
    BY <1>1 DEF PageInv
  <2> QED BY <1>1, <1>2, <2>1 DEF Counted
<1>4. written' = ([k \in DOMAIN ToOutput |-> callout_output_one(k)])'
  <2>1. \A k : (PatchData(k))' = PatchData(k)
    BY <1>1 DEF PatchData
  <2>2. (CodeStart)' = CodeStart
    BY <1>1 DEF CodeStart
  <2> QED BY <1>1, <1>2, <2>1, <2>2 DEF callout_output_one
<1>5. PageSound(lsp') /\ lsp'.size["callout"] = Fixed.callout /\ OwnersHold(lsp', patch_data')
  BY <1>1 DEF PageInv
<1> QED BY <1>1, <1>3, <1>4, <1>5 DEF PageInv

LEMMA PageStutter ==
    ASSUME PageInv, UNCHANGED pageVars
    PROVE  PageInv'
<1>1. UNCHANGED <<lsp, patch_data, hooked, grown, progress, sized, written>>
  BY DEF pageVars
<1>2. (ToOutput)' = ToOutput /\ (Fns)' = Fns
  BY <1>1, OutputNow
<1>3. Counted => Counted'
  BY <1>1, <1>2 DEF Counted
<1>4. ([k \in DOMAIN ToOutput |-> callout_output_one(k)])' = [k \in DOMAIN ToOutput |-> callout_output_one(k)]
  <2>1. \A k : (PatchData(k))' = PatchData(k)
    BY <1>1 DEF PatchData
  <2>2. (CodeStart)' = CodeStart
    BY <1>1 DEF CodeStart
  <2> QED BY <1>1, <1>2, <2>1, <2>2 DEF callout_output_one
<1>5. PageSound(lsp') /\ lsp'.size["callout"] = Fixed.callout /\ OwnersHold(lsp', patch_data')
  BY <1>1 DEF PageInv
<1> QED BY <1>1, <1>3, <1>4, <1>5 DEF PageInv

\* The page and what was counted for its callouts stay as PageInv says.
THEOREM PageInvariant == PageSpec => []PageInv
<1>1. PageInit => PageInv
  BY PageAssumption, FirstPage
<1>2. PageInv /\ [PageNext]_pageVars => PageInv'
  <2> SUFFICES ASSUME PageInv, [PageNext]_pageVars PROVE PageInv'
    OBVIOUS
  <2>1. CASE \E s \in DOMAIN Fixed : SetSection(s)
    BY <2>1, PageAssumption, SetSectionKeeps
  <2>2. CASE \E s \in DOMAIN Grown : GrowSection(s)
    BY <2>2, PageAssumption, GrowSectionKeeps
  <2>3. CASE \E fn \in DOMAIN Callouts, data \in Data : AddInterrupt(fn, data)
    BY <2>3, PageAssumption, AddInterruptKeeps
  <2>4. CASE \E fn \in DOMAIN Callouts, i \in 0 .. Fixed.callout - 1 : AddCallout(i, fn)
    BY <2>4, PageAssumption, AddCalloutKeeps
  <2>5. CASE RelocSyspage
    BY <2>5, PageAssumption, RelocKeeps
  <2>6. CASE AllocSyspage
    BY <2>6, PageAssumption, AllocSyspageKeeps
  <2>7. CASE Split
    BY <2>7, PageAssumption, SplitKeeps
  <2>8. CASE OutputCallouts
    BY <2>8, OutputKeeps
  <2>9. CASE UNCHANGED pageVars
    BY <2>9, PageStutter
  <2> QED BY <2>1, <2>2, <2>3, <2>4, <2>5, <2>6, <2>7, <2>8, <2>9 DEF PageNext
<1> QED BY <1>1, <1>2, PTL DEF PageSpec


-----------------------------------------------------------------------------
(* What the invariant says of the page that is built.                      *)

LEMMA IntactHere ==
    ASSUME PageAssumption, PageInv
    PROVE  SectionsIntact
<1>1. PageTyped(lsp) /\ Whole(lsp)
  BY DEF PageInv, PageSound
<1>2. \A s \in Sections : \A k \in 0 .. lsp.size[s] - 1 :
          LET c == lsp.cell[lsp.p[s] + k] IN c.sec = s /\ c.i = k
  BY <1>1 DEF Whole, SectionWhole
<1>3. ASSUME NEW s \in Sections PROVE lsp.p[s] \in lsp.base + Header .. lsp.base + lsp.total
  <2>1. PICK lo \in Nat, total \in Nat : lo = lsp.base /\ total = lsp.total
    BY <1>1, PageNumbers
  <2>2. PICK p \in Nat, z \in Nat : p = lsp.p[s] /\ z = lsp.size[s] /\ Bottom(lsp, s) = p + z
    BY <1>1, PageNumbers
  <2>3. lo + Header <= p /\ p + z <= lo + total /\ Header \in Nat
    BY <1>1, <2>1, <2>2, SectionNames DEF Whole
  <2>4. p \in lo + Header .. lo + total
    BY <2>3
  <2> QED BY <2>1, <2>2, <2>4
<1>4. \A a \in lsp.base .. lsp.base + lsp.total - 1 :
          LET c == lsp.cell[a] IN
          IF c.sec = "header" THEN a = lsp.base + c.i /\ c.i \in 0 .. Header - 1
          ELSE c.sec \in Sections /\ c.i \in 0 .. lsp.size[c.sec] - 1 /\ a = lsp.p[c.sec] + c.i
  BY <1>1 DEF Whole, OwnedCell, InPage
<1> QED BY <1>2, <1>3, <1>4 DEF SectionsIntact

\* No other cell of the page is the ofIt cell of the ofIt section.
LEMMA CellOnce ==
    ASSUME NEW l, Whole(l), NEW a \in InPage(l), NEW b \in InPage(l),
           l.cell[a].sec = l.cell[b].sec, l.cell[a].i = l.cell[b].i
    PROVE  a = b
<1>1. OwnedCell(l, a) /\ OwnedCell(l, b)
  BY DEF Whole
<1> QED BY <1>1 DEF OwnedCell

LEMMA PatchedHere ==
    ASSUME PageAssumption, PageInv
    PROVE  PatchedWithOwn
<1>1. PICK l : l = lsp
  OBVIOUS
<1>2. PageSound(l) /\ Whole(l) /\ OwnersHold(l, patch_data)
  BY <1>1 DEF PageInv, PageSound
<1>3. PICK np \in Nat : patch_data \in [1 .. np -> Patch] /\ DOMAIN patch_data = 1 .. np
  BY <1>2 DEF OwnersHold
<1>4. \A k \in DOMAIN patch_data : Owns(l, patch_data[k])
  BY <1>2 DEF OwnersHold
<1>5. \A k \in DOMAIN patch_data : LET c == lsp.cell[patch_data[k].owner] IN <<c.sec, c.i>> = patch_data[k].of
  BY <1>1, <1>4 DEF Owns
<1>6. ASSUME NEW k \in DOMAIN written
      PROVE  LET ofIt == {j \in DOMAIN patch_data : patch_data[j].of = written[k].of}
             IN  written[k].data \in {patch_data[j].data : j \in ofIt} \union (IF ofIt = {} THEN {NoFn} ELSE {})
  <2>1. progress = "written"
    BY <1>6 DEF PageInv
  <2>2. k \in DOMAIN ToOutput /\ written[k] = callout_output_one(k)
    BY <2>1 DEF PageInv
  <2>3. PICK a \in InPage(l) : a = ToOutput[k]
    <3>1. ToOutput = OutputOf(l, hooked)
      BY <1>1, OutputNow
    <3>2. PICK n \in Nat : OutputOf(l, hooked) \in [1 .. n -> Slots(l)]
      BY <1>2, FnsAre
    <3> QED BY <2>2, <3>1, <3>2 DEF Slots
  <2>4. written[k].of = <<l.cell[a].sec, l.cell[a].i>> /\ written[k].data = PatchData(a)
    BY <1>1, <2>2, <2>3 DEF callout_output_one
  <2> DEFINE ofIt == {j \in DOMAIN patch_data : patch_data[j].of = written[k].of}
             there == {j \in DOMAIN patch_data : patch_data[j].owner = a}
  <2>5. \A j \in DOMAIN patch_data : patch_data[j].of = written[k].of <=> patch_data[j].owner = a
    <3> TAKE j \in DOMAIN patch_data
    <3>1. PICK b : b = patch_data[j].owner
      OBVIOUS
    <3>2. b \in InPage(l) /\ <<l.cell[b].sec, l.cell[b].i>> = patch_data[j].of
      BY <1>4, <3>1 DEF Owns
    <3>3. patch_data[j].of = written[k].of => b = a
      BY <1>2, <2>4, <3>2, CellOnce
    <3>4. b = a => patch_data[j].of = written[k].of
      BY <2>4, <3>2
    <3> QED BY <3>1, <3>3, <3>4
  <2>6. ofIt = there
    BY <2>5
  <2>7. written[k].data = IF there = {} THEN NoFn
                          ELSE patch_data[CHOOSE j \in there : \A i \in there : j <= i].data
    BY <2>4 DEF PatchData
  <2>8. there \subseteq Nat
    BY <1>3
  <2> HIDE DEF there, ofIt
  <2>9. CASE there = {}
    BY <2>6, <2>7, <2>9 DEF ofIt
  <2>10. CASE there # {}
    <3>1. \E j \in there : \A i \in there : j <= i
      BY <2>8, <2>10, LeastNat
    <3>2. PICK j \in there : j = CHOOSE h \in there : \A i \in there : h <= i
      BY <3>1
    <3>3. j \in ofIt /\ written[k].data = patch_data[j].data
      BY <2>6, <2>7, <2>10, <3>2
    <3> QED BY <3>3 DEF ofIt
  <2> QED BY <2>9, <2>10
<1> QED BY <1>5, <1>6 DEF PatchedWithOwn

\* The code and the data of the callouts lie where they were counted.
CodeFits(k) ==
    /\ written[k].code \in Nat
    /\ written[k].from = CodeStart + SumOf(Codes(Fns), k - 1)
    /\ SumOf(Codes(Fns), k - 1) \in Nat
    /\ SumOf(Codes(Fns), k - 1) + written[k].code = SumOf(Codes(Fns), k)
    /\ SumOf(Codes(Fns), k) <= sized.code

DataFits(k) ==
    \/ written[k].rw = -1 /\ written[k].rwsize = 0
    \/ \E i \in DOMAIN sized.list, before \in Nat, len \in Nat :
          /\ before = SumOf(RwSizes(sized.list), i - 1) /\ len = RwSizes(sized.list)[i]
          /\ written[k].rw = lsp.total + before /\ written[k].rwsize = len
          /\ before + len = SumOf(RwSizes(sized.list), i) /\ before + len <= sized.rw

LEMMA WrittenAre ==
    ASSUME PageAssumption, PageInv, progress = "written"
    PROVE  \E n \in Nat, m \in Nat :
             /\ DOMAIN written = 1 .. n /\ \A k \in 1 .. n : CodeFits(k) /\ DataFits(k)
             /\ Codes(Fns) \in [1 .. n -> Nat]
             /\ RwSizes(sized.list) \in [1 .. m -> Nat] /\ DOMAIN sized.list = 1 .. m
             /\ sized.rw \in Nat /\ sized.code \in Nat
<1>1. PICK l : l = lsp
  OBVIOUS
<1>2. PageSound(l) /\ Counted /\ written = [k \in DOMAIN ToOutput |-> callout_output_one(k)]
  BY <1>1 DEF PageInv
<1>3. ToOutput = OutputOf(l, hooked) /\ Fns = FnsOf(l, hooked)
  BY <1>1, OutputNow
<1>4. PICK n \in Nat : DOMAIN ToOutput = 1 .. n /\ Fns \in [1 .. n -> DOMAIN Callouts] /\ Len(Fns) = n
  BY <1>2, <1>3, FnsAre
<1>5. PICK fns : fns = Fns
  OBVIOUS
<1>6. PICK list : list = sized.list
  OBVIOUS
<1>7. /\ list \in RwLists /\ list = RwList(fns)
      /\ \A k \in 1 .. n : Callouts[fns[k]].rw = NoFn \/ HasName(list, Callouts[fns[k]].rw)
  BY <1>2, <1>4, <1>5, <1>6, RwListIs DEF Counted
<1>8. PICK m \in Nat : m = Len(list) /\ DOMAIN list = 1 .. m /\ list \in [1 .. m -> DOMAIN RwSize]
  BY <1>7 DEF RwLists
<1>9. RwSizes(list) \in [1 .. m -> Nat]
  BY <1>8 DEF RwSizes, PageAssumption
<1>10. Codes(fns) \in [1 .. n -> Nat] /\ \A k \in 1 .. n : Codes(fns)[k] = Callouts[fns[k]].code
  BY <1>4, <1>5 DEF Codes, PageAssumption
<1>11. PICK codes : codes = Codes(fns)
  OBVIOUS
<1>12. PICK sizes : sizes = RwSizes(list)
  OBVIOUS
<1>13. /\ \A k \in 0 .. n : SumOf(codes, k) \in Nat /\ SumOf(codes, k) <= SumOf(codes, n)
       /\ \A k \in 1 .. n : SumOf(codes, k) = SumOf(codes, k - 1) + codes[k]
  <2>1. n \in 0 .. n /\ codes \in [1 .. n -> Nat]
    BY <1>10, <1>11
  <2>2. /\ \A k \in 0 .. n : SumOf(codes, k) \in Nat
        /\ \A k \in 1 .. n : SumOf(codes, k) = SumOf(codes, k - 1) + codes[k]
        /\ \A j, k \in 0 .. n : j <= k => SumOf(codes, j) <= SumOf(codes, k)
    BY <2>1, SumSteps
  <2>3. \A k \in 0 .. n : k <= n
    OBVIOUS
  <2> QED BY <2>1, <2>2, <2>3
<1>14. /\ \A k \in 0 .. m : SumOf(sizes, k) \in Nat /\ SumOf(sizes, k) <= SumOf(sizes, m)
       /\ \A k \in 1 .. m : SumOf(sizes, k) = SumOf(sizes, k - 1) + sizes[k]
  <2>1. m \in 0 .. m /\ sizes \in [1 .. m -> Nat]
    BY <1>9, <1>12
  <2>2. /\ \A k \in 0 .. m : SumOf(sizes, k) \in Nat
        /\ \A k \in 1 .. m : SumOf(sizes, k) = SumOf(sizes, k - 1) + sizes[k]
        /\ \A j, k \in 0 .. m : j <= k => SumOf(sizes, j) <= SumOf(sizes, k)
    BY <2>1, SumSteps
  <2>3. \A k \in 0 .. m : k <= m
    OBVIOUS
  <2> QED BY <2>1, <2>2, <2>3
<1>15. sized.code = SumOf(codes, n) /\ sized.rw = SumOf(sizes, m)
  BY <1>2, <1>4, <1>5, <1>6, <1>8, <1>11, <1>12 DEF Counted
<1>16. ASSUME NEW k \in 1 .. n PROVE CodeFits(k)
  <2>1. /\ written[k].code = codes[k] /\ codes[k] \in Nat
        /\ written[k].from = CodeStart + SumOf(Codes(Fns), k - 1)
    BY <1>2, <1>4, <1>5, <1>10, <1>11 DEF callout_output_one
  <2>2. k - 1 \in 0 .. n /\ k \in 0 .. n
    OBVIOUS
  <2> QED BY <1>5, <1>11, <1>13, <1>15, <2>1, <2>2 DEF CodeFits
<1>17. ASSUME NEW k \in 1 .. n PROVE DataFits(k)
  <2>1. PICK rw : rw = Callouts[fns[k]].rw
    OBVIOUS
  <2>2. /\ written[k].rw = (IF rw = NoFn THEN -1 ELSE lsp.total + RwBefore(list, rw))
        /\ written[k].rwsize = (IF rw = NoFn THEN 0 ELSE RwSize[rw])
    BY <1>2, <1>4, <1>5, <1>6, <2>1 DEF callout_output_one
  <2>3. CASE rw = NoFn
    BY <2>2, <2>3 DEF DataFits
  <2>4. CASE rw # NoFn
    <3>1. HasName(list, rw)
      BY <1>7, <2>1, <2>4
    <3>2. PICK i \in 1 .. m : RwSizes(list)[i] = RwSize[rw] /\ RwBefore(list, rw) = SumOf(RwSizes(list), i - 1)
      BY <1>7, <1>8, <3>1, RwBeforeIs
    <3>3. i - 1 \in 0 .. m /\ i \in 0 .. m
      OBVIOUS
    <3>4. PICK before \in Nat : before = SumOf(sizes, i - 1)
      BY <1>14, <3>3
    <3>5. PICK len \in Nat : len = sizes[i]
      BY <1>9, <1>12
    <3>6. before + len = SumOf(sizes, i) /\ SumOf(sizes, i) <= sized.rw
      BY <1>14, <1>15, <3>3, <3>4, <3>5
    <3>7. written[k].rw = lsp.total + before /\ written[k].rwsize = len
      BY <1>12, <2>2, <2>4, <3>2, <3>4, <3>5
    <3> QED BY <1>6, <1>8, <1>12, <3>4, <3>5, <3>6, <3>7 DEF DataFits
  <2> QED BY <2>3, <2>4
<1>18. DOMAIN written = 1 .. n
  BY <1>2, <1>4
<1>19. sized.rw \in Nat /\ sized.code \in Nat
  <2>1. n \in 0 .. n /\ m \in 0 .. m
    OBVIOUS
  <2> QED BY <1>13, <1>14, <1>15, <2>1
<1> QED BY <1>5, <1>6, <1>8, <1>9, <1>10, <1>16, <1>17, <1>18, <1>19


LEMMA SizedHere ==
    ASSUME PageAssumption, PageInv
    PROVE  SizedRight
<1> SUFFICES ASSUME progress = "written" PROVE SizedRight
  BY DEF SizedRight
<1>1. PICK n \in Nat, m \in Nat :
             /\ DOMAIN written = 1 .. n /\ \A k \in 1 .. n : CodeFits(k) /\ DataFits(k)
             /\ Codes(Fns) \in [1 .. n -> Nat]
             /\ RwSizes(sized.list) \in [1 .. m -> Nat] /\ DOMAIN sized.list = 1 .. m
             /\ sized.rw \in Nat /\ sized.code \in Nat
  BY WrittenAre
<1>2. PICK total \in Nat : total = lsp.total
  BY PageNumbers DEF PageInv, PageSound
<1>3. PICK rw \in Nat, code \in Nat : rw = sized.rw /\ code = sized.code
  BY <1>1
<1>4. PICK start \in Nat : start = CodeStart /\ start = RoundPg(total + rw) /\ start >= total + rw /\ start % PageCells = 0
  <2>1. total + rw \in Nat
    OBVIOUS
  <2>2. RoundPg(total + rw) \in Nat /\ RoundPg(total + rw) >= total + rw /\ RoundPg(total + rw) % PageCells = 0
    BY <2>1, RoundUp
  <2> QED BY <1>2, <1>3, <2>2 DEF CodeStart
<1>5. PICK spsize \in Nat : spsize = sized.spsize /\ start + code <= spsize
  <2>1. PICK add \in Nat : add = Grown["asinfo"]
    BY SectionNames DEF PageAssumption
  <2>2. PICK split \in Nat : split = grown /\ split <= Reserve
    <3>1. Counted
      BY DEF PageInv
    <3>2. grown \in 0 .. MaxSplits
      BY <3>1 DEF Counted
    <3>3. MaxSplits \in 0 .. Reserve
      BY DEF PageAssumption
    <3> QED BY <3>2, <3>3 DEF Reserve
  <2>3. PICK before \in Nat : /\ total = before + split * add
                              /\ sized.spsize = RoundPg(before + rw + Reserve * add) + RoundPg(code)
    <3>1. PICK b \in 0 .. total : /\ total = b + split * add
                                  /\ sized.spsize = RoundPg(b + rw + Reserve * add) + RoundPg(code)
      BY <1>2, <1>3, <2>1, <2>2 DEF PageInv, Counted
    <3> QED BY <3>1
  <2>4. Reserve \in Nat /\ split * add \in Nat /\ Reserve * add \in Nat /\ split * add <= Reserve * add
    <3>1. split \in 0 .. 4
      BY <2>2 DEF Reserve
    <3>2. split = 0 \/ split = 1 \/ split = 2 \/ split = 3 \/ split = 4
      BY <3>1
    <3> QED BY <3>2 DEF Reserve
  <2>5. PICK lim \in Nat : lim = before + rw + Reserve * add /\ total + rw <= lim
    BY <2>3, <2>4
  <2>6. RoundPg(lim) \in Nat /\ RoundPg(total + rw) <= RoundPg(lim) /\ RoundPg(code) \in Nat /\ code <= RoundPg(code)
    <3>1. total + rw \in Nat
      OBVIOUS
    <3> QED BY <2>5, <3>1, RoundUp, RoundUpMonotone
  <2> QED BY <1>4, <2>3, <2>5, <2>6
<1>6. PICK codes : codes = Codes(Fns)
  OBVIOUS
<1>7. PICK sizes : sizes = RwSizes(sized.list)
  OBVIOUS
<1>8. \A j, k \in 0 .. n : j <= k => SumOf(codes, j) <= SumOf(codes, k)
  BY <1>1, <1>6, SumSteps
<1>9. \A j, k \in 0 .. m : j <= k => SumOf(sizes, j) <= SumOf(sizes, k)
  BY <1>1, <1>7, SumSteps
<1>10. \A k \in 0 .. m : SumOf(sizes, k) \in Nat
  BY <1>1, <1>7, SumSteps
\* The code of a callout, and the data of one.
<1>11. ASSUME NEW k \in 1 .. n
       PROVE  \E from \in Nat, len \in Nat :
                /\ from = SumOf(codes, k - 1) /\ from + len = SumOf(codes, k) /\ from + len <= code
                /\ written[k].from = start + from /\ written[k].code = len
  <2>1. CodeFits(k)
    BY <1>1
  <2>2. PICK from \in Nat, len \in Nat : from = SumOf(codes, k - 1) /\ len = written[k].code
    BY <1>6, <2>1 DEF CodeFits
  <2>3. from + len = SumOf(codes, k) /\ SumOf(codes, k) <= code /\ written[k].from = start + from
    BY <1>3, <1>4, <1>6, <2>1, <2>2 DEF CodeFits
  <2>4. from + len <= code
    BY <2>3
  <2> QED BY <2>2, <2>3, <2>4
<1>12. ASSUME NEW k \in 1 .. n
       PROVE  \/ written[k].rw = -1 /\ written[k].rwsize = 0
              \/ \E i \in 1 .. m, before \in Nat, len \in Nat :
                    /\ before = SumOf(sizes, i - 1) /\ before + len = SumOf(sizes, i) /\ before + len <= rw
                    /\ written[k].rw = total + before /\ written[k].rwsize = len
  BY <1>1, <1>2, <1>3, <1>7 DEF DataFits
<1>13. ASSUME NEW k \in 1 .. n
       PROVE  /\ Extent(written[k].from, written[k].code) \subseteq start .. spsize - 1
              /\ Extent(written[k].rw, written[k].rwsize) \subseteq total .. start - 1
  <2>1. Extent(written[k].from, written[k].code) \subseteq start .. spsize - 1
    <3>1. PICK from \in Nat, len \in Nat :
             from + len <= code /\ written[k].from = start + from /\ written[k].code = len
      BY <1>11
    <3>2. (start + from) .. (start + from) + len - 1 \subseteq start .. spsize - 1
      BY <1>5, <3>1
    <3> QED BY <3>1, <3>2 DEF Extent
  <2>2. CASE written[k].rw = -1 /\ written[k].rwsize = 0
    <3>1. -1 .. (-1) + 0 - 1 = {}
      OBVIOUS
    <3> QED BY <2>1, <2>2, <3>1 DEF Extent
  <2>3. CASE ~(written[k].rw = -1 /\ written[k].rwsize = 0)
    <3>1. PICK before \in Nat, len \in Nat :
             before + len <= rw /\ written[k].rw = total + before /\ written[k].rwsize = len
      BY <1>12, <2>3
    <3>2. (total + before) .. (total + before) + len - 1 \subseteq total .. start - 1
      BY <1>4, <3>1
    <3> QED BY <2>1, <3>1, <3>2 DEF Extent
  <2> QED BY <2>2, <2>3
<1>14. ASSUME NEW j \in 1 .. n, NEW k \in 1 .. n, j < k
       PROVE  Extent(written[j].from, written[j].code) \intersect Extent(written[k].from, written[k].code) = {}
  <2>1. PICK f \in Nat, l \in Nat : /\ f + l = SumOf(codes, j) /\ written[j].from = start + f /\ written[j].code = l
    BY <1>11
  <2>2. PICK d \in Nat, h \in Nat : /\ d = SumOf(codes, k - 1) /\ written[k].from = start + d /\ written[k].code = h
    BY <1>11
  <2>3. f + l <= d
    <3>1. j \in 0 .. n /\ k - 1 \in 0 .. n /\ j <= k - 1
      BY <1>14
    <3> QED BY <1>8, <2>1, <2>2, <3>1
  <2>4. ((start + f) .. (start + f) + l - 1) \intersect ((start + d) .. (start + d) + h - 1) = {}
    BY <2>3
  <2> QED BY <2>1, <2>2, <2>4 DEF Extent
<1>15. ASSUME NEW j \in 1 .. n, NEW k \in 1 .. n
       PROVE  \/ written[j].rw = written[k].rw
              \/ Extent(written[j].rw, written[j].rwsize) \intersect Extent(written[k].rw, written[k].rwsize) = {}
  <2>1. ASSUME NEW i \in {j, k}, written[i].rw = -1, written[i].rwsize = 0
        PROVE  Extent(written[i].rw, written[i].rwsize) = {}
    <3>1. -1 .. (-1) + 0 - 1 = {}
      OBVIOUS
    <3> QED BY <2>1, <3>1 DEF Extent
  <2>2. CASE \E i \in {j, k} : written[i].rw = -1 /\ written[i].rwsize = 0
    <3>1. Extent(written[j].rw, written[j].rwsize) = {} \/ Extent(written[k].rw, written[k].rwsize) = {}
      BY <2>1, <2>2
    <3> QED BY <3>1
  <2>3. CASE ~ \E i \in {j, k} : written[i].rw = -1 /\ written[i].rwsize = 0
    <3>1. PICK i \in 1 .. m, f \in Nat, l \in Nat :
             /\ f = SumOf(sizes, i - 1) /\ f + l = SumOf(sizes, i)
             /\ written[j].rw = total + f /\ written[j].rwsize = l
      BY <1>12, <2>3
    <3>2. PICK h \in 1 .. m, d \in Nat, z \in Nat :
             /\ d = SumOf(sizes, h - 1) /\ d + z = SumOf(sizes, h)
             /\ written[k].rw = total + d /\ written[k].rwsize = z
      BY <1>12, <2>3
    <3>3. i = h \/ f + l <= d \/ d + z <= f
      <4>1. i - 1 \in 0 .. m /\ i \in 0 .. m /\ h - 1 \in 0 .. m /\ h \in 0 .. m
        OBVIOUS
      <4>2. i <= h - 1 => f + l <= d
        BY <1>9, <3>1, <3>2, <4>1
      <4>3. h <= i - 1 => d + z <= f
        BY <1>9, <3>1, <3>2, <4>1
      <4>4. i = h \/ i <= h - 1 \/ h <= i - 1
        OBVIOUS
      <4> QED BY <4>2, <4>3, <4>4
    <3>4. CASE i = h
      BY <3>1, <3>2, <3>4
    <3>5. CASE f + l <= d \/ d + z <= f
      <4>1. ((total + f) .. (total + f) + l - 1) \intersect ((total + d) .. (total + d) + z - 1) = {}
        BY <3>5
      <4> QED BY <3>1, <3>2, <4>1 DEF Extent
    <3> QED BY <3>3, <3>4, <3>5
  <2> QED BY <2>2, <2>3
<1>16. \A j, k \in 1 .. n : j # k =>
          Extent(written[j].from, written[j].code) \intersect Extent(written[k].from, written[k].code) = {}
  <2> TAKE j \in 1 .. n, k \in 1 .. n
  <2>1. j # k => j < k \/ k < j
    OBVIOUS
  <2> QED BY <1>14, <2>1
<1> QED BY <1>1, <1>2, <1>4, <1>5, <1>13, <1>15, <1>16 DEF SizedRight

\* Whatever grew and moved, each section of the system page is whole where its
\* pointer says, the callouts fit what was counted for them, and each is
\* patched with the data registered for it (syspage_memory.c, callouts.c).
THEOREM SyspageIsBuilt == PageSpec => []SyspageBuilt
<1>1. PageInv => SyspageBuilt
  BY PageAssumption, IntactHere, SizedHere, PatchedHere DEF SyspageBuilt
<1> QED BY <1>1, PageInvariant, PTL
=============================================================================
