------------------------------- MODULE MCBoot -------------------------------
(***************************************************************************)
(* From the firmware to the kernel's executable: the command line and its  *)
(* options, the boot services of UEFI, the tables of the firmware, the     *)
(* image file systems kept over a loss of power, the system page, and the  *)
(* load of the executable behind the MMU.  The six parts share no state,   *)
(* so a behaviour is one of one part, in which the others stand still; the *)
(* firmware's tables and the load take turns in the same variables.         *)
(***************************************************************************)
EXTENDS BootSequence, Uefi, RestoreIfs, Syspage, SequencesExt, FiniteSets, TLC

CONSTANTS Parts,         \* those to check
          RestorePlaces  \* where an installation that restores IFS2 wants it

VARIABLES
    part, s1, s2, s3, s4, s5, s6, s7, s8, s9, s10, s11,
    s12, s13, s14, s15, s16, s17, s18, s19, s20, s21, s22

-----------------------------------------------------------------------------
(* Command lines of up to three words, with options in clusters, values    *)
(* attached and apart, "--" and a word that is no option; machines entered *)
(* at each level, with and without EL2 and its host extension.             *)

BootCpus == {0, 1}
MCMainOptions == [valued |-> {"Q", "E", "X", "u", "e", "c", "D", "F", "f", "I", "i", "K", "M",
                              "N", "o", "P", "R", "S", "r", "j"},
                  plain |-> {"U", "A", "C", "T", "v", "Z", "H", "W"}]
MCLateOptions == {"F", "A", "M", "j", "Z"}
MCValueOf == [n \in {"1", "2"} |-> IF n = "1" THEN 1 ELSE 2]
MCDevices == <<[name |-> "uart0", defaults |-> <<<<>>, <<"">>>>],
               [name |-> "qrb2210_uart4", defaults |-> <<<<"0x4a90000">>, <<>>>>]>>

Words == {<<"-", "v", "v", "F", "~", "2">>, <<"-", "P">>, <<"1">>, <<"-", "-">>,
          <<"-", "c", "big", ":", "2", ",", "little", ":", "1">>,
          <<"-", "Q", "enable", ",", "el1-host">>, <<"-", "x", "v">>}
MCLines == {l \in BoundedSeq(Words, 3) : TRUE}

Program(name, more) == [argc |-> 1 + Len(more), envc |-> 1,
                        strs |-> <<<<name>>>> \o more \o <<<<"PATH">>>>]
MCImages == {[startup |-> Program("startup", more), kernel |-> Program("procnto", <<>>)] :
    more \in {<<>>, <<<<"-", "P">>, <<"2">>, <<"-", "S">>, <<"hwinfo">>>>, <<<<"-", "Q">>, <<"disable">>>>}}

Each(a, b) == [c \in BootCpus |-> IF c = 0 THEN a ELSE b]
Vhe == {"el2", "vhe", "gic"}
MCMachines == {[has |-> Each(Vhe, Vhe), el |-> Each(2, 2)],
               [has |-> Each(Vhe, Vhe \ {"vhe"}), el |-> Each(2, 2)],
               [has |-> Each({"el2", "gic"}, {"el2", "gic"}), el |-> Each(3, 3)],
               [has |-> Each({"el2", "vhe"}, {"el2", "vhe"}), el |-> Each(2, 1)],
               [has |-> Each({}, {}), el |-> Each(3, 1)]}

ASSUME BootAssumption

-----------------------------------------------------------------------------
\* Startup's image among memory of the firmware, and holes of what is not
\* RAM; a map with a type the UEFI specification added later.
MCMaps == {<<"free", "loader", "runtime", "free", "reserved", "free">>,
            <<"loader", "free", "free", "acpi", "boot">>,
            <<"free", "loader", "other", "free">>}

-----------------------------------------------------------------------------
\* Nodes: root; controllers, one under the other; a nexus without cells that
\* names one of them; devices that name a controller, the nexus, or nothing;
\* memory.  "meant" is the controller of the node.
Node(parent, phandle, meant, props) ==
    [parent |-> parent, phandle |-> phandle, name |-> "", unit |-> -1, meant |-> meant, props |-> props]
Text(w) == <<w, "">>
Controller(n, ph, cells) == Node(1, ph, n, ("interrupt-controller" :> <<>>) @@ ("#interrupt-cells" :> <<cells>>))
Device(parent, ip, len, meant) ==
    Node(parent, 0, meant, ("interrupts" :> [k \in 1 .. len |-> k % 2])
                           @@ (IF ip = 0 THEN <<>> ELSE "interrupt-parent" :> <<ip>>))
Nexus(ph, ip, meant) == Node(1, ph, meant, "interrupt-parent" :> <<ip>>)
Memory(reg) == Node(1, 0, 0, ("device_type" :> Text("memory")) @@ ("reg" :> reg))
Bus(parent, ac, sc, ip) == Node(parent, 0, 0, ("#address-cells" :> <<ac>>) @@ ("#size-cells" :> <<sc>>)
                                              @@ (IF ip = 0 THEN <<>> ELSE "interrupt-parent" :> <<ip>>))
Root(ac, sc, ip) == Bus(0, ac, sc, ip)
\* Processors by type and compatible strings, one type in capitals and one
\* that is no text; the first interrupts of a timer.
Cpu(unit, type, props) ==
    [Node(3, 0, 0, ("device_type" :> type) @@ ("compatible" :> Text("arm,cortex-a53")) @@ props)
        EXCEPT !.name = "cpu", !.unit = unit]
Timer(irqs, props) ==
    Node(1, 0, 2, ("compatible" :> Text("arm,armv7-timer") \o Text("arm,armv8-timer")) @@ ("interrupts" :> irqs) @@ props)
Irqs == <<1, 2, 0, 1, 3, 0>>
Board(third, clock) ==
    [nodes |-> <<Root(1, 1, 11), Controller(2, 11, 3), Bus(1, 1, 0, 0),
                 Cpu(0, Text("cpu"), ("reg" :> <<1>>) @@ clock), Cpu(1, Text("CPU"), "reg" :> <<3>>),
                 Cpu(2, <<"cpu">>, <<>>), Cpu(5, Text("cpu"), "cpu-frequency" :> <<1, 2>>),
                 Timer(Irqs \o third, clock)>>,
     rsv |-> <<>>]
Reservations == <<<<1, 1>>, <<6, 2>>>>
PlainTree == [nodes |-> <<Root(1, 1, 0), Memory(<<0, 1>>), Memory(<<2, 1, 3, 1>>)>>, rsv |-> Reservations]
TreesDef ==
    {[nodes |-> <<Root(ac, sc, ip), Controller(2, 11, 3), Controller(3, 12, 2), Nexus(13, 12, 3),
                  Device(1, 11, 6, 2), Device(1, 12, 4, 3), Device(1, 13, 2, 3),
                  Device(4, 0, 2, 3), Device(1, 0, 3, 2), Device(1, 14, 3, 0), Memory(reg), Memory(<<>>)>>,
      rsv |-> rsv] :
        ac \in 1 .. 2, sc \in 1 .. 2, ip \in {11}, rsv \in {<<>>, Reservations},
        reg \in {<<0, 2, 1, 3>>, <<1, 2, 3, 0, 1, 1>>, <<0, 1, 0, 2, 1, 1, 0, 3>>}}
    \union {PlainTree}
    \union {Board(third, clock) : third \in {<<>>, <<0, 3, 1, 1, 1, 1>>, <<1, 2, 1>>},
                                  clock \in {<<>>, "clock-frequency" :> <<2>>, "clock-frequency" :> <<>>}}

\* An address of a tree, aligned and not; of something else; of a header
\* that counts no bytes.
BlobsDef == (0 :> [ok |-> FALSE, size |-> 3]) @@ (2 :> [ok |-> TRUE, size |-> 6]) @@ (4 :> [ok |-> TRUE, size |-> 6])
            @@ (8 :> [ok |-> FALSE, size |-> 5]) @@ (12 :> [ok |-> TRUE, size |-> 0])
PassedDef == {[reg |-> 4, arg |-> 8], [reg |-> 0, arg |-> 4], [reg |-> 2, arg |-> 4],
              [reg |-> 8, arg |-> 0], [reg |-> 12, arg |-> 4]}

\* A root pointer of the first revision, and later ones with and without the
\* extended list; a fixed description first, in the middle or last.
Table(sig, dsdt, list) == [sig |-> sig, dsdt |-> dsdt, entries |-> list]
TablesOf(list) == <<Table("RSDT", 0, list), Table("XSDT", 0, list), Table("APIC", 0, <<>>),
                  Table("FACP", 7, <<>>), Table("APIC", 0, <<>>), Table("FACP", -1, <<>>),
                  Table("DSDT", 0, <<>>)>>
Pointer(guid, rev, x) == [guid |-> guid, rev |-> rev, rsdt |-> 1, xsdt |-> x]
Structures(guid, len, list) == [guid |-> guid, len |-> len, structs |-> list]
Struct(type, bytes) == [type |-> type, size |-> bytes]
MarkedTable == Structures("smbios3", 20, <<Struct(0, 2), Struct(4, 3), Struct(4, 1), Struct(127, 1), Struct(1, 2)>>)
Counted == Structures("smbios", 7, <<Struct(2, 2), Struct(0, 4), Struct(1, 1)>>)
Lists == {<<3, 4, 5>>, <<4, 3, 5>>, <<3, 5, 4>>, <<6, 3>>, <<3>>}
Firmware(broken, cfg, lists) == {[faults |-> broken, cfg |-> cfg, tables |-> TablesOf(l)] : l \in lists}
AcpisDef ==
    Firmware({}, <<Counted, Pointer("acpi10", 0, 0), Pointer("acpi20", 2, 2), MarkedTable>>, Lists)
    \union Firmware({}, <<Pointer("acpi10", 0, 0), Counted>>, {<<4, 3, 5>>})
    \union Firmware({}, <<MarkedTable, Pointer("acpi20", 2, 0)>>, {<<3, 4, 5>>})
    \union Firmware({}, <<>>, {<<3>>})
    \union Firmware({"signature"}, <<MarkedTable, Pointer("acpi20", 2, 2)>>, {<<3>>})

Tables == INSTANCE FirmwareTables WITH
    Trees <- TreesDef, Word <- 4, Acpis <- AcpisDef, Blobs <- BlobsDef, Passed <- PassedDef,
    tree <- s1, todo <- s2, node <- s3, idx <- s4, nrsv <- s5, avoided <- s6, added <- s7,
    taken <- s8, cache <- s9, asked <- s10, acpi <- s11, tbl_array <- s12, num_tbls <- s13,
    entries <- s14, search <- s15, last <- s16, got <- s17,
    efi_system_table <- s18, smbios_table <- s19, wanted <- s20, recorded <- s21, fdt <- s22

\* The tree, the tables and the blob share no state: one of them varies.
PlainFirmware == CHOOSE a \in AcpisDef : a.cfg = <<>>
OneVaries == Cardinality({k \in 1 .. 3 : <<s1 = PlainTree, s11 = PlainFirmware, s22.reg = 4>>[k]}) >= 2

-----------------------------------------------------------------------------
(* Two executables and six slots.  Slots 2 and 6 are where the user may    *)
(* want IFS2: in the way of what is saved, and not.  Flags that say        *)
(* nothing without another one are left unset.                             *)
MCInstallations ==
    {o \in [rifs : BOOLEAN, cksum : BOOLEAN, ifs2 : BOOLEAN, restore2 : BOOLEAN,
            cksum2 : BOOLEAN, dst : {0, 2, 6}, secure : BOOLEAN, compressed : BOOLEAN] :
        /\ o.cksum => o.rifs
        /\ o.restore2 \/ o.dst # 0 => o.ifs2
        /\ o.cksum2 => o.restore2
        /\ o.restore2 => o.dst \in RestorePlaces}

ASSUME RestoreAssumption

-----------------------------------------------------------------------------
(* Three fixed and three growing sections, pages of four cells; two        *)
(* callouts that share read/write data, and one without.  The first block  *)
(* is full in some orders; the second is never.                            *)
MCCallouts == [mask |-> [code |-> 3, rw |-> "mask_rw"],
               unmask |-> [code |-> 1, rw |-> "mask_rw"],
               put |-> [code |-> 2, rw |-> "none"]]

MCFixed == [callout |-> 2, qtime |-> 1, smp |-> 2]
MCGrown == [strings |-> 1, asinfo |-> 2, intrinfo |-> 1]
MCRwSize == [mask_rw |-> 2]
MCBlocks == <<9, 30>>

-----------------------------------------------------------------------------
(* Tables of four entries, pages of eight bytes, one run of four pages.    *)
PageBytes == 8
Segment(w, x, at, infile, inmem, paddr, addr) ==
    [w |-> w, x |-> x, vaddr |-> at, filesz |-> infile, memsz |-> inmem,
     paddr |-> paddr, addr |-> addr]

\* The kernel is linked at page 96, the image begins at frame 12.
K(page) == page * PageBytes
MCElves == {
    \* a text that takes a contiguous run in place, data with bss beyond it
    << Segment(FALSE, TRUE, K(96), 36, 36, K(12), 0),
       Segment(TRUE, FALSE, K(101) + 3, 10, 23, K(17) + 3, 0) >>,
    \* neither text nor data begin or end on a page; data padded by mkifs
    << Segment(FALSE, TRUE, K(97) + 2, 9, 9, K(12) + 2, 0),
       Segment(TRUE, FALSE, K(99) + 4, 5, 5, K(14) + 4, 0) >>,
    \* nothing is placed: everything is copied; data first, then text
    << Segment(TRUE, FALSE, K(100) + 1, 6, 17, 0, K(13) + 1),
       Segment(FALSE, TRUE, K(96) + 5, 7, 7, 0, K(15) + 5) >>,
    \* bss only, read-only data with a zero tail
    << Segment(TRUE, FALSE, K(98) + 2, 0, 9, K(12) + 2, 0),
       Segment(FALSE, FALSE, K(103), 3, 12, K(16), 0) >> }

\* Headers of the two classes for this machine, and with one field wrong.
Native(class) == [magic |-> TRUE, native |-> TRUE, class |-> class, machine |-> TRUE, phentsize |-> class]
MCHeaders == {Native(64), Native(32), [Native(32) EXCEPT !.machine = FALSE]}
             \union {[Native(64) EXCEPT ![name] = FALSE] : name \in {"magic", "native", "machine"}}
             \union {[Native(64) EXCEPT !.phentsize = 32]}

MCIoMaps == { [io |-> TRUE,  phys |-> K(60) + 5, size |-> 8],
              [io |-> FALSE, phys |-> K(64), size |-> 8] }

MCSizes == {[total |-> 2, rw |-> 1, callouts |-> 1, splits |-> 4],
            [total |-> 3, rw |-> 0, callouts |-> 8, splits |-> 0],
            [total |-> 3, rw |-> 1, callouts |-> 8, splits |-> 4],
            [total |-> 3, rw |-> 1, callouts |-> 9, splits |-> 4]}
MCStartupImage == [paddr |-> K(8) + 3, size |-> 23]
MCImage == 12 .. 23

Elf == INSTANCE ElfLoad WITH
    PageSize <- PageBytes, Entries <- 4, ContigPages <- 4, StartupBase <- 640,
    Cpus <- BootCpus, MaxCpus <- 2, Elves <- MCElves, Headers <- MCHeaders, Paddr32 <- K(512),
    StartupImage <- MCStartupImage,
    ImageFrames <- MCImage, HeapFrames <- {24, 25}, IoMaps <- MCIoMaps,
    SyspageSizes <- MCSizes, AsinfoSize <- 1, CpupageSize <- 2,
    table <- s1, roots <- s2, ttbr1 <- s3, free_vaddr <- s4, next_frame <- s5, num_cpu <-
    s6, call <- s7, stage <- s8, elf <- s9, left <- s10, tail <- s11, boot_vaddr <- s12, mem
    <- s13, ios <- s14, sizes <- s15, syspage <- s16, mmu_on <- s17, header <- s18
ASSUME Elf!PageTableAssumption

\* Other headers than that of a 64-bit executable for one of each.
OneHeader == s18 = Native(64) \/ (s9 = (CHOOSE e \in MCElves : e[1].paddr = 0) /\ s15.total = 2)

-----------------------------------------------------------------------------
(* One part runs; the others are as one of their boots begins.             *)
shared == <<s1, s2, s3, s4, s5, s6, s7, s8, s9, s10, s11, s12, s13, s14, s15, s16, s17, s18,
            s19, s20, s21, s22>>
mcVars == <<part, vars, uefiVars, restoreVars, pageVars, shared>>

ArgsWait ==
    /\ machine = (CHOOSE m \in MCMachines : TRUE) /\ built = (CHOOSE b \in MCImages : TRUE)
    /\ line = <<>> /\ tweak = "none"
    /\ Init
RestoreWaits == opt = (CHOOSE o \in MCInstallations : TRUE) /\ RestoreInit
SharedWait ==
    /\ s1 = 0 /\ s2 = 0 /\ s3 = 0 /\ s4 = 0 /\ s5 = 0 /\ s6 = 0 /\ s7 = 0 /\ s8 = 0 /\ s9 = 0
    /\ s10 = 0 /\ s11 = 0 /\ s12 = 0 /\ s13 = 0 /\ s14 = 0 /\ s15 = 0 /\ s16 = 0 /\ s17 = 0
    /\ s18 = 0 /\ s19 = 0 /\ s20 = 0 /\ s21 = 0 /\ s22 = 0

UefiWaits == way = "uefi" /\ io = FALSE /\ late = FALSE /\ pages = (CHOOSE m \in MCMaps : TRUE) /\ UefiInit

MCInit ==
    /\ part \in Parts
    /\ IF part = "args" THEN Init ELSE ArgsWait
    /\ IF part = "uefi" THEN UefiInit ELSE UefiWaits
    /\ IF part = "restore" THEN RestoreInit ELSE RestoreWaits
    /\ PageInit
    /\ \/ part \in {"args", "uefi", "restore", "page"} /\ SharedWait
       \/ part = "tables" /\ Tables!Init /\ OneVaries
       \/ part = "elf" /\ Elf!Init /\ OneHeader /\ s19 = 0 /\ s20 = 0 /\ s21 = 0 /\ s22 = 0

MCNext ==
    /\ UNCHANGED part
    /\ \/ part = "args" /\ Next /\ UNCHANGED <<uefiVars, restoreVars, pageVars, shared>>
       \/ part = "uefi" /\ UefiNext /\ UNCHANGED <<vars, restoreVars, pageVars, shared>>
       \/ part = "restore" /\ RestoreNext /\ UNCHANGED <<vars, uefiVars, pageVars, shared>>
       \/ part = "page" /\ PageNext /\ UNCHANGED <<vars, uefiVars, restoreVars, shared>>
       \/ /\ UNCHANGED <<vars, uefiVars, restoreVars, pageVars>>
          /\ \/ part = "tables" /\ Tables!Next
             \/ part = "elf" /\ Elf!Next /\ UNCHANGED <<s19, s20, s21, s22>>

MCSpec == MCInit /\ [][MCNext]_mcVars

-----------------------------------------------------------------------------
(* The properties of the parts; their modules state and explain each.      *)
\* Each program gets the arguments mkifs and the command line gave it, and no
\* others; and every scan of argv sees the options the first one saw, although
\* the handlers have written into the strings since (bootstrap_arg_adjust(),
\* handle_common_option()).
CommandLineKept == part = "args" => WordsReachTheirProgram /\ PassesAgree

\* What the tables of the firmware say is what is read: a tree at an address
\* that was passed, regions and reservations, numbers and nodes, the controller
\* of each interrupt, the ACPI, UEFI and SMBIOS tables searched for
\* (fdt_init_bootopt.c, init_raminfo_fdt.c, fdt_get_*.c, acpi.c).
FirmwareRead ==
    part = "tables" => /\ Tables!TreeIsGiven /\ Tables!RamAsDescribed /\ Tables!OwnController
                       /\ Tables!GettersAgree /\ Tables!FindsAll /\ Tables!TablesFound

\* "Number of extracted elements in the value array" (fdt_get_reg64_cells.c:47):
\* no caller is told of more than were extracted.
ExtractedIsReturned == part = "tables" => Tables!ExtractedIsReturned

\* The kernel finds its executable as it was linked (elf64.c), file bytes and
\* zeros with the rights of their segment; no view of the callouts' code can be
\* written once they are read-only (syspage_memory.c); and a CPU that turns its
\* MMU on goes on executing, in tables all CPUs share, where every hinted run
\* may be fetched as one translation (vstart.S, aarch64_map()).
LoadedAsLinked ==
    part = "elf" => Elf!LoadedAsLinked /\ Elf!CalloutsReadOnly
                 /\ Elf!ReadyToTranslate /\ Elf!HintsHold

\* Every step of the walk-and-fill loops is one call on the flat map
\* (aarch64_map.c): no call disturbs a page outside its range, through a
\* shared table or a wrong index, and an assigned range was free.
Flat == INSTANCE AddressMap WITH
    Calls <- Elf!Calls,
    view <- IF part = "elf" THEN Elf!view ELSE << >>,
    call <- IF part = "elf" THEN s7 ELSE << >>
ImplementsAddressMap == Flat!Spec
=============================================================================
