---------------------------- MODULE BootSequence ----------------------------
(***************************************************************************)
(* The startup program from its entry to the kernel's (cstart, _main.c,    *)
(* the board's main.c, init_system_private.c), as far as the command line  *)
(* and the exception levels go: where the words of the command line end    *)
(* up, what the four scans of argv see, and the level and registers each   *)
(* processor is handed to the kernel with.                                 *)
(***************************************************************************)
EXTENDS Options

CONSTANTS
    Cpus,        \* 0 .. board_smp_num_cpu() - 1
    Machines,    \* [has, el]: id registers and entry level of each cpu
    Images,      \* [startup, kernel]: the bootargs mkifs hid in the programs
    Lines,       \* the command line, as words
    Tweaks,      \* which tweak_cmdline() the board has: none, fdt or efi
    MainOptions, \* COMMON_OPTIONS_STRING "W"
    LateOptions, \* the letters init_system_private() acts on
    Devices      \* debug_devices

\* Stated here, assumed where the module is instantiated.
BootAssumption ==
    /\ Cpus \subseteq Nat /\ 0 \in Cpus
    /\ \A m \in Machines : m.has \in [Cpus -> SUBSET STRING] /\ m.el \in [Cpus -> 1 .. 3]

-----------------------------------------------------------------------------
(* A processor: the level it runs at and the registers its set-up touches  *)
(* (_start_el1.S, hypervisor.c, hypervisor_enable.S, aarch64_sysctl.S).    *)
(* Most registers exist once per level; in host mode (E2H) the EL1 names   *)
(* reach the EL2 ones.                                                     *)

\* A processor: its level, HCR_EL2's HCD and E2H, and what has been set in
\* the registers of levels 1 and 2.
Processor(el) ==
    [el |-> el, hcd |-> FALSE, e2h |-> FALSE, set |-> [level \in 1 .. 3 |-> {}],
     mode |-> "off"]

\* The level whose register an access to <register>_el1 reaches.
Reached(p) == IF p.el = 2 /\ p.e2h THEN 2 ELSE 1
Msr(p, what) == [p EXCEPT !.set[Reached(p)] = @ \union {what}]

\* What is in force: by name, at the level the processor runs at.
InForce(p, what) == what \in p.set[IF p.el = 2 THEN 2 ELSE 1]

-----------------------------------------------------------------------------
(* _start_el2_or_el1.  has: what the id registers say the hardware has.    *)

\* The firmware's caches and MMU at EL2 go off, host mode and HVC with them.
at_el2(p, has) ==
    [p EXCEPT !.el = 2, !.e2h = FALSE, !.hcd = TRUE,
              !.set[2] = (@ \ {"mmu", "icache", "dcache"})
                         \union (IF "gic" \in has THEN {"sre"} ELSE {})]

at_el3(p, has) ==
    LET q == [p EXCEPT !.set[3] = @ \union {"nonsecure", "hce"} \union
                                  (IF "gic" \in has THEN {"sre"} ELSE {})]
    IN  IF "el2" \in has THEN at_el2(q, has) ELSE [q EXCEPT !.el = 1]

start_el2_or_el1(p, has) ==
    CASE p.el = 3 -> at_el3(p, has)
      [] p.el = 2 -> at_el2(p, has)
      [] p.el = 1 -> p

\* drop_to_el1: the EL2 registers stay as they are behind it.
drop_to_el1(p) == [p EXCEPT !.el = 1]

\* cstart and smp_start: vectors first, then the caches are cleaned.
DefaultVectors(p) == Msr(p, "vectors")
Enter(p, has) == DefaultVectors(start_el2_or_el1(p, has))

-----------------------------------------------------------------------------
(* hypervisor_init().                                                      *)

Crash == {"crash"}

arch_hypervisor_validate_flags(p, has, options) ==
    IF options = {"invalid"} THEN Crash
    ELSE IF p.el = 1 THEN IF "enabled" \in options THEN Crash ELSE {}
    ELSE IF "enabled" \notin options THEN {}
    ELSE IF "el2-host" \in options /\ "vhe" \notin has THEN Crash
    ELSE IF "el1-host" \in options \/ "vhe" \notin has THEN {"enabled", "el1-host"}
    ELSE {"enabled", "el2-host"}

SelectedOwn(p, has, options, cpunum, required) ==
    arch_hypervisor_validate_flags(p, has, options)
\* The flags of cpu 0 are those every other processor must come to.
Selected(p, has, options, cpunum, required) ==
    LET flags == arch_hypervisor_validate_flags(p, has, options)
    IN  IF cpunum # 0 /\ flags # required THEN Crash ELSE flags

hyp_enable_el2_host(p) == [p EXCEPT !.e2h = TRUE]
hyp_enable_el1_host(p) == [p EXCEPT !.set[2] = @ \union {"hyp vectors"}, !.hcd = FALSE]

arch_hypervisor_init(p, flags) ==
    CASE flags = {} -> [(IF p.el # 1 THEN drop_to_el1(p) ELSE p) EXCEPT !.mode = "none"]
      [] flags = {"enabled", "el2-host"} -> [hyp_enable_el2_host(p) EXCEPT !.mode = "el2-host"]
      [] flags = {"enabled", "el1-host"} ->
            [drop_to_el1(hyp_enable_el1_host(p)) EXCEPT !.mode = "el1-host"]

-----------------------------------------------------------------------------
(* aarch64_sysctl.S, through the board's board_sysctl.c.                   *)

\* An MMU already on keeps the table it has.
aarch64_enable_mmu(p) == IF "mmu" \in p.set[Reached(p)] THEN p ELSE Msr(Msr(p, "table"), "mmu")
aarch64_icache_enable(p) == Msr(p, "icache")
aarch64_dcache_enable(p) == Msr(p, "dcache")
board_mmu_enable(p) == aarch64_dcache_enable(aarch64_icache_enable(aarch64_enable_mmu(p)))

\* init_one_cpuinfo(): CNTVCT_EL0 for everyone, no FPU, SVE or EVT traps taken.
UserAccess(p) == Msr(p, "user")

-----------------------------------------------------------------------------
PrintOptions == [valued |-> {"S"}, plain |-> {}]

VARIABLES
    phase, machine, built, line, tweak,
    next_arg,    \* the words not yet handed out
    args,        \* the bootargs of the two programs, as adjusted
    argv, g, opts_str,
    passes,      \* history: what each scan of argv has returned
    settings, console,
    required, cpu, hypinfo

vars == <<phase, machine, built, line, tweak, next_arg, args, argv, g, opts_str, passes,
          settings, console, required, cpu, hypinfo>>

Init ==
    /\ phase = "entry"
    /\ machine \in Machines /\ built \in Images /\ line \in Lines /\ tweak \in Tweaks
    /\ next_arg = line
    /\ args = built
    /\ argv = <<>> /\ g = Restart /\ opts_str = MainOptions
    /\ passes = [p \in {"main", "flags", "late", "print"} |-> <<>>]
    /\ settings = Defaults /\ console = 0
    /\ required = HypDisabled
    /\ cpu = [c \in Cpus |-> Processor(machine.el[c])]
    /\ hypinfo = {}

TweakOf(b, words) ==
    CASE tweak = "none" -> [args |-> b, next_arg |-> words]
      [] tweak = "fdt" -> fdt_tweak_cmdline(b, words)
      [] tweak = "efi" -> efi_tweak_cmdline(b, words, words = line)

\* cstart: the level, the vectors, the caches; the stack is the boot cpu's.
cstart ==
    /\ phase = "entry"
    /\ cpu' = [cpu EXCEPT ![0] = Enter(@, machine.has[0])]
    /\ phase' = "_main"
    /\ UNCHANGED <<machine, built, line, tweak, next_arg, args, argv, g, opts_str, passes,
                   settings, console, required, hypinfo>>

\* _main(): setup_cmdline() before anything else of the library.
_main ==
    /\ phase = "_main"
    /\ args' = [args EXCEPT !.startup = TweakOf(@, next_arg).args]
    /\ next_arg' = TweakOf(args.startup, next_arg).next_arg
    /\ argv' = Argv(args'.startup)
    /\ phase' = "main"
    /\ UNCHANGED <<machine, built, line, tweak, g, opts_str, passes, settings, console,
                   required, cpu, hypinfo>>

\* main() up to its getopt() loop: EL2 is asked for unless -Q says otherwise.
MainStart ==
    /\ phase = "main"
    /\ settings' = [settings EXCEPT !.hyp = required \union {"enabled"}]
    /\ console' = select_one(Devices, settings.debug_opt[1], 1)
    /\ opts_str' = MainOptions
    /\ phase' = "options"
    /\ UNCHANGED <<machine, built, line, tweak, next_arg, args, argv, g, passes, required,
                   cpu, hypinfo>>

\* One call of getopt() in a scan; the next scan starts with optind = 0.
Scan(pass, opts, then) ==
    LET r == getopt(g, argv, opts)
    IN  /\ phase = pass
        /\ passes' = IF r.opt = Done THEN passes
                     ELSE [passes EXCEPT ![pass] = Append(@, <<r.opt, r.optarg>>)]
        /\ g' = IF r.opt = Done THEN Restart ELSE r.g
        /\ phase' = IF r.opt = Done THEN then ELSE phase
        /\ UNCHANGED <<machine, built, line, tweak, next_arg, args, console, required, cpu,
                       hypinfo>>

\* main()'s loop.
ReadOption ==
    LET r == getopt(g, argv, opts_str)
    IN  /\ phase = "options"
        /\ passes' = IF r.opt = Done THEN passes
                     ELSE [passes EXCEPT !["main"] = Append(@, <<r.opt, r.optarg>>)]
        /\ g' = IF r.opt = Done THEN Restart ELSE r.g
        /\ settings' = CASE r.opt = Done -> settings
                         [] r.opt = "W" -> [settings EXCEPT !.flags = @ \union {"wdt"}]
                         [] OTHER -> handle_common_option(settings, r.opt, r.optarg)
        /\ argv' = IF r.opt = Done THEN argv ELSE Marked(argv, r.opt, r.g.optind)
        /\ phase' = IF r.opt = Done THEN "hypervisor" ELSE phase
        /\ UNCHANGED <<machine, built, line, tweak, next_arg, args, opts_str, console, required,
                       cpu, hypinfo>>

\* hypervisor_init() and what follows it on that processor: the flags of
\* cpu 0 are kept for the others to match.
Readied(c, p) == UserAccess(IF c = 0 THEN board_mmu_enable(p) ELSE p)
hypervisor_init(c, p, next) ==
    LET flags == Selected(p, machine.has[c], settings.hyp, c, required)
    IN  /\ required' = IF c = 0 /\ flags # Crash THEN flags ELSE required
        /\ cpu' = IF flags = Crash THEN cpu
                  ELSE [cpu EXCEPT ![c] = Readied(c, arch_hypervisor_init(p, required'))]
        /\ phase' = IF flags = Crash THEN "crashed" ELSE next
        /\ UNCHANGED <<machine, built, line, tweak, next_arg, args, argv, g, opts_str, passes,
                       settings, console, hypinfo>>

\* The boot processor: hypervisor_init(0), the MMU, its cpuinfo.
InitBootCpu ==
    /\ phase = "hypervisor"
    /\ hypervisor_init(0, cpu[0], "flags")

\* init_system_private() first looks for -F.
ReadFlags == Scan("flags", opts_str, "bootstraps") /\ UNCHANGED <<argv, opts_str, settings>>

\* load_bootstraps() gives the next program its words.
load_bootstraps ==
    /\ phase = "bootstraps"
    /\ args' = [args EXCEPT !.kernel = TweakOf(@, next_arg).args]
    /\ next_arg' = TweakOf(args.kernel, next_arg).next_arg
    /\ phase' = "late"
    /\ UNCHANGED <<machine, built, line, tweak, argv, g, opts_str, passes, settings, console,
                   required, cpu, hypinfo>>

\* Then for -A, -M, -r, -j and -Z.
ReadLate == Scan("late", opts_str, "secondaries") /\ UNCHANGED <<argv, opts_str, settings>>

\* smp_start on the next processor, from its entry to its cpuinfo.
Started == {c \in Cpus : c < settings.max_cpus}
Waiting == {c \in Started : cpu[c].mode = "off"}
StartSecondary ==
    /\ phase = "secondaries" /\ Waiting # {}
    /\ LET c == CHOOSE d \in Waiting : \A e \in Waiting : d <= e
       IN  hypervisor_init(c, Enter(cpu[c], machine.has[c]), phase)

\* hypervisor_syspage_init(), the last use of the mode.
SyspageInit ==
    /\ phase = "secondaries" /\ Waiting = {}
    /\ hypinfo' = IF "enabled" \in required THEN {"HYPINFO_ENABLED"} ELSE {}
    /\ phase' = IF settings.debug_flag > 1 THEN "print" ELSE "kernel"
    /\ opts_str' = IF settings.debug_flag > 1 THEN PrintOptions ELSE opts_str
    /\ UNCHANGED <<machine, built, line, tweak, next_arg, args, argv, g, passes, settings,
                   console, required, cpu>>

\* print_syspage() scans for -S with an option list of its own.
ReadPrint == Scan("print", opts_str, "kernel") /\ UNCHANGED <<argv, opts_str, settings>>

Next ==
    \/ cstart \/ _main \/ MainStart \/ ReadOption \/ InitBootCpu \/ ReadFlags \/ load_bootstraps \/ ReadLate
    \/ StartSecondary \/ SyspageInit \/ ReadPrint

Spec == Init /\ [][Next]_vars

-----------------------------------------------------------------------------
Letters(pass) == [k \in DOMAIN passes[pass] |-> passes[pass][k][1]]

\* Every scan of argv sees the options the first one saw, in their order,
\* and with their values where init_system_private() acts on them, though
\* the handlers have written into the strings since.
PassesAgree ==
    \A pass \in {"flags", "late"} :
        /\ IsPrefix(Letters(pass), Letters("main"))
        /\ \A k \in DOMAIN passes[pass] :
              passes[pass][k][1] \in LateOptions => passes[pass][k] = passes["main"][k]
        /\ phase \in {"secondaries", "print", "kernel"} => Letters(pass) = Letters("main")

Strs(b) == [argc |-> SubSeq(b.strs, 1, b.argc), env |-> SubSeq(b.strs, b.argc + 1, Len(b.strs))]
Extra(b, old) == SubSeq(Strs(b).argc, old.argc + 1, b.argc)

\* Each program keeps the arguments and the environment mkifs gave it, and
\* what it gains is its own part of the command line: startup's up to the
\* first "--", the kernel's from there to the next.
WordsReachTheirProgram ==
    phase = "kernel" =>
        LET gained == [p \in {"startup", "kernel"} |-> Extra(args[p], built[p])]
            words == IF tweak = "efi" THEN SkipImage(line) ELSE line
            cuts == SelectSeq([k \in DOMAIN words |-> k], LAMBDA k : words[k] = Separator)
            first == IF cuts = <<>> THEN Len(words) + 1 ELSE cuts[1]
        IN  /\ \A p \in {"startup", "kernel"} :
                 /\ Strs(args[p]).env = Strs(built[p]).env
                 /\ IsPrefix(Strs(built[p]).argc, Strs(args[p]).argc)
                 /\ Separator \notin ToSet(gained[p])
            /\ tweak = "none" => gained["startup"] = <<>> /\ gained["kernel"] = <<>>
            /\ tweak # "none" => /\ gained["startup"] = SubSeq(words, 1, first - 1)
                                 /\ IsPrefix(gained["kernel"], SubSeq(words, first + 1, Len(words)))

\* The kernel starts on processors that are all at the level and in the mode
\* cpu 0 settled on and the system page announces, with what startup set by
\* the EL1 names in force there, and can call EL2 only when EL2 has vectors.
ModeIsCommon ==
    phase = "kernel" =>
        \A c \in Started :
            /\ cpu[c].el = cpu[0].el /\ cpu[c].e2h = cpu[0].e2h
            /\ cpu[c].e2h => "vhe" \in machine.has[c]
            /\ InForce(cpu[c], "user")
            /\ c = 0 => InForce(cpu[c], "mmu") /\ InForce(cpu[c], "table") /\ InForce(cpu[c], "dcache")
            /\ (cpu[c].el = 2) = (required = {"enabled", "el2-host"})
            /\ (hypinfo # {}) = (cpu[c].mode \in {"el1-host", "el2-host"})
            /\ machine.el[c] # 1 /\ "el2" \in machine.has[c] /\ cpu[c].el = 1 =>
                  ~cpu[c].hcd = ("hyp vectors" \in cpu[c].set[2])
            /\ "gic" \in machine.has[c] /\ cpu[c].el = 2 => "sre" \in cpu[c].set[2]

\* -S, which is "handled later", is found when print_syspage() looks for it.
PrintOptionFound ==
    phase = "kernel" /\ settings.debug_flag > 1 =>
        \A k \in DOMAIN passes["main"] :
            passes["main"][k][1] = "S" => passes["main"][k] \in ToSet(passes["print"])

\* cstart.S: exceptions of the startup program go to the vectors it installs.
VectorsInstalled ==
    phase \in {"main", "options", "hypervisor"} => InForce(cpu[0], "vectors")
=============================================================================
