------------------------------ MODULE ElfLoad ------------------------------
(***************************************************************************)
(* From init_smp() to the kernel's first instruction, as far as addresses  *)
(* go: startup maps itself, the devices its callouts use, the segments of  *)
(* the boot executable (elf64.c, elf32.c) and the system page, makes the   *)
(* callouts read-only, and each CPU turns its MMU on (vstart.S).           *)
(***************************************************************************)
EXTENDS PageTable

CONSTANTS
    Elves,          \* the executables tried: sequences of program headers
    Headers,        \* their headers: [magic, native, class, machine, phentsize]
    Paddr32,        \* how many addresses a paddr32_t tells apart
    StartupImage,   \* full_image_paddr and startup_size
    ImageFrames,    \* frames of the image file system in memory
    HeapFrames,     \* where free memory may begin
    IoMaps,         \* device ranges the callouts may ask for, each once: [io, phys, size]
    SyspageSizes,   \* [total, rw, callouts, splits] in bytes
    AsinfoSize,     \* sizeof(struct asinfo_entry)
    CpupageSize     \* sizeof(struct cpupage_entry)

VARIABLES
    stage,
    elf, header,    \* the executable being loaded
    left,           \* its segments still to load
    tail,           \* << >>, or the rest of a segment that needs frames of its own
    boot_vaddr,     \* boot_vaddr_base and boot_vaddr_end
    mem,            \* bytes of frames written: address -> byte
    ios,            \* device ranges mapped so far
    sizes,          \* of the system page
    syspage,        \* its frame and the kernel's and the user's address of it
    mmu_on          \* CPUs that left startup

vars == <<tableVars, stage, elf, header, left, tail, boot_vaddr, mem, ios, sizes, syspage, mmu_on>>

\* A byte of the image is its own address, so a copy tells where it is from.
Byte(m, a) == IF a \in DOMAIN m THEN m[a]
              ELSE IF Frame(a) \in ImageFrames THEN a ELSE 0

\* copy_memory()
Copied(to, from, n) == [a \in to .. to + n - 1 |-> Byte(mem, from + a - to)] @@ mem

Init ==
    /\ InitTables
    /\ next_frame \in HeapFrames
    /\ stage = "smp" /\ tail = << >> /\ left = << >>
    /\ elf \in Elves /\ header \in Headers /\ sizes \in SyspageSizes
    /\ boot_vaddr = [base |-> 0, end |-> 0]
    /\ mem = << >> /\ ios = {}
    /\ syspage = [frame |-> 0, kern |-> 0, user |-> 0]
    /\ mmu_on = {}

elfVars == <<elf, header, left, tail, boot_vaddr, mem>>
rest    == <<elfVars, ios, sizes, syspage, mmu_on>>

-----------------------------------------------------------------------------
(* main(): CPUs first, then the MMU structures, then the callouts.         *)

InitSmp     == stage = "smp" /\ stage' = "roots" /\ init_smp /\ UNCHANGED rest
MapInit     == stage = "roots" /\ stage' = "l0" /\ AllocRoots /\ UNCHANGED rest
MapInitL0   == stage = "l0" /\ stage' = "self" /\ MapL0 /\ UNCHANGED rest
InitMmu     == /\ stage = "self" /\ stage' = "drivers"
               /\ MapStartup(StartupImage.paddr, StartupImage.size)
               /\ UNCHANGED rest

\* init_intrinfo(), init_qtime() and the debug device map their registers.
MapDevice ==
    /\ stage = "drivers"
    /\ \E r \in IoMaps \ ios :
          /\ IF r.io THEN callout_io_map(r.size, r.phys)
                     ELSE callout_memory_map(r.size, r.phys, {"R", "W", "NOCACHE"})
          /\ ios' = ios \union {r}
    /\ UNCHANGED <<roots, ttbr1, num_cpu, stage, elfVars, sizes, syspage, mmu_on>>

-----------------------------------------------------------------------------
(* elf.c: what kind of executable it is.                                   *)

\* The size of a program header goes with the class.
Ident(class) == /\ header.magic /\ header.native /\ header.class = class
                /\ elf # << >> /\ header.phentsize = class
is_elf32 == Ident(32)
is_elf64 == Ident(64)
is_elf == IF is_elf32 THEN 32 ELSE IF is_elf64 THEN 64 ELSE 0

\* Whether there are program headers for this machine; the class was asked
\* for already where the first does not.
elf32_phdr == /\ header.magic /\ header.native /\ header.machine
              /\ elf # << >> /\ header.phentsize = 32
elf64_phdr == Ident(64) /\ header.machine
load_elf == (is_elf32 /\ elf32_phdr) \/ (is_elf64 /\ elf64_phdr)

\* load_bootstraps() finds the executable, or crashes.
FindBootstrap ==
    /\ stage = "drivers"
    /\ IF load_elf THEN stage' = "load" /\ left' = elf ELSE stage' = "crashed" /\ UNCHANGED left
    /\ UNCHANGED <<tableVars, elf, header, tail, boot_vaddr, mem, ios, sizes, syspage, mmu_on>>

-----------------------------------------------------------------------------
(* load_elf64mmu(), and load_elf32mmu() word for word but for the width of *)
(* the physical addresses it keeps.                                        *)

Kept(paddr) == IF header.class = 32 THEN paddr % Paddr32 ELSE paddr

Flags(s) == {"R"} \union (IF s.w THEN {"W"} ELSE {}) \union (IF s.x THEN {"X"} ELSE {})

\* What the code makes of a header: both sizes counted from the page start,
\* rounded up where mkifs has padded the file.
memsz0(s)  == s.memsz + (s.vaddr % PageSize)
filesz0(s) == s.filesz + (s.vaddr % PageSize)
\* Mutant: a read-only segment never has a zero tail.
PaddedReadOnly(s) == ~s.w \/ (s.paddr # 0 /\ s.memsz = s.filesz)
Padded(s)  == \/ ~s.w /\ memsz0(s) = filesz0(s)
              \/ s.paddr # 0 /\ s.memsz = s.filesz
memsz(s)   == IF Padded(s) THEN RoundPg(filesz0(s)) ELSE memsz0(s)
filesz(s)  == IF Padded(s) THEN RoundPg(filesz0(s)) ELSE filesz0(s)

BootRange(s) ==
    [base |-> IF boot_vaddr.base = 0 \/ boot_vaddr.base > TruncPg(s.vaddr)
              THEN TruncPg(s.vaddr) ELSE boot_vaddr.base,
     end  |-> Max({boot_vaddr.end, TruncPg(s.vaddr) + memsz0(s)})]

\* Pages the file fills are used where they lie; what is left, a partial
\* page and bss, gets zeroed frames of its own in the next step.
UseInPlace(s) ==
    LET whole == TruncPg(filesz(s))
        more  == RoundPg(memsz(s) - whole)
    IN  /\ s.paddr # 0
        /\ aarch64_map(next_frame, TruncPg(s.vaddr), Kept(TruncPg(s.paddr)), whole, Flags(s))
        /\ tail' = IF more = 0 THEN << >>
                   ELSE [vaddr |-> TruncPg(s.vaddr) + whole, size |-> more,
                         from |-> Kept(TruncPg(s.paddr)) + whole, n |-> filesz(s) % PageSize,
                         flags |-> Flags(s)]

\* No place in the image: everything is copied.
CopyAll(s) ==
    /\ s.paddr = 0
    /\ tail' = [vaddr |-> TruncPg(s.vaddr), size |-> RoundPg(memsz(s)),
                from |-> Kept(s.addr) - (s.vaddr % PageSize), n |-> filesz(s), flags |-> Flags(s)]
    /\ UNCHANGED <<table, next_frame, free_vaddr, call>>

LoadSegment ==
    /\ stage = "load" /\ left # << >> /\ tail = << >>
    /\ LET s == Head(left)
       IN  /\ UseInPlace(s) \/ CopyAll(s)
           /\ boot_vaddr' = BootRange(s)
    /\ left' = Tail(left)
    /\ UNCHANGED <<roots, ttbr1, num_cpu, stage, elf, header, mem, ios, sizes, syspage, mmu_on>>

load_elf64mmu == header.class = 64 /\ LoadSegment
load_elf32mmu == header.class = 32 /\ LoadSegment

CopyTail ==
    /\ stage = "load" /\ tail # << >>
    /\ LET daddr == Kept(next_frame * PageSize)
       IN  /\ mem' = Copied(daddr, tail.from, tail.n)
           /\ aarch64_map(next_frame + tail.size \div PageSize, tail.vaddr, daddr,
                          tail.size, tail.flags)
    /\ tail' = << >>
    /\ UNCHANGED <<roots, ttbr1, num_cpu, stage, elf, header, left, boot_vaddr, ios, sizes, syspage, mmu_on>>

Loaded ==
    /\ stage = "load" /\ left = << >> /\ tail = << >> /\ stage' = "syspage"
    /\ UNCHANGED <<tableVars, elfVars, ios, sizes, syspage, mmu_on>>

-----------------------------------------------------------------------------
(* alloc_syspage_memory(), cpu_alloc_syspage_memory().                     *)

\* Data and rw data, with room for asinfo entries the allocations may add;
\* the callouts' own pages; then the cpupages.
\* Mutant: the cpupages follow the last callout.
spsizePacked == RoundPg(sizes.total + sizes.rw + 4 * AsinfoSize) + sizes.callouts
spsize == RoundPg(sizes.total + sizes.rw + 4 * AsinfoSize) + RoundPg(sizes.callouts)
size   == spsize + num_cpu * CpupageSize

KernView ==
    /\ stage = "syspage" /\ stage' = "user"
    /\ LET frames == RoundPg(size) \div PageSize
       IN  /\ aarch64_map(next_frame + frames, Anywhere, next_frame * PageSize, size, {"R", "W", "X"})
           /\ syspage' = [syspage EXCEPT !.frame = next_frame, !.kern = free_vaddr]
    /\ UNCHANGED <<roots, ttbr1, num_cpu, elfVars, ios, sizes, mmu_on>>

UserView ==
    /\ stage = "user" /\ stage' = "callouts"
    /\ aarch64_map(next_frame, Anywhere, syspage.frame * PageSize, size, {"R", "X", "U"})
    /\ syspage' = [syspage EXCEPT !.user = free_vaddr]
    /\ UNCHANGED <<roots, ttbr1, num_cpu, elfVars, ios, sizes, mmu_on>>

\* output_callouts() placed the code behind the data as it is now; the
\* kernel's view of it loses its write permission: cpu_syspage_remap().
callout_off == RoundPg(sizes.total + sizes.splits * AsinfoSize + sizes.rw)

RemapCallouts ==
    /\ stage = "callouts" /\ stage' = "go"
    /\ aarch64_map(next_frame, syspage.kern + callout_off,
                   syspage.frame * PageSize + callout_off, sizes.callouts, {"R", "X"})
    /\ UNCHANGED <<roots, ttbr1, num_cpu, elfVars, ios, sizes, syspage, mmu_on>>

\* vstart: MAIR and TCR, ttbr0 and this CPU's ttbr1, then the MMU.
vstart(c) ==
    /\ stage = "go" /\ c < num_cpu /\ c \notin mmu_on
    /\ mmu_on' = mmu_on \union {c}
    /\ UNCHANGED <<tableVars, stage, elfVars, ios, sizes, syspage>>

Next ==
    \/ InitSmp \/ MapInit \/ MapInitL0 \/ InitMmu
    \/ MapDevice \/ FindBootstrap
    \/ load_elf64mmu \/ load_elf32mmu \/ CopyTail \/ Loaded
    \/ KernView \/ UserView \/ RemapCallouts
    \/ \E c \in Cpus : vstart(c)

Spec == Init /\ [][Next]_vars

-----------------------------------------------------------------------------
(* Properties.                                                             *)

\* The kernel finds its executable as it was linked (elf64.c): file bytes,
\* then zeros, at every address of every segment, with the rights of that
\* segment, and boot_vaddr_base .. boot_vaddr_end spans the segments.  It is
\* one for this machine.
LoadedAsLinked ==
    stage \notin {"smp", "roots", "l0", "self", "drivers", "load", "crashed"} =>
        /\ header.machine /\ is_elf = header.class
        /\ \A i \in DOMAIN elf :
            LET s == elf[i]
                from == IF s.paddr # 0 THEN s.paddr ELSE s.addr
            IN  /\ \A k \in 0 .. s.memsz - 1 :
                     LET pa == elf_vaddr_to_paddr(s.vaddr + k)
                     IN  /\ pa >= 0
                         /\ Byte(mem, pa) = IF k < s.filesz THEN from + k ELSE 0
                         /\ Leaf(table, Frame(s.vaddr + k)).rights = set_pte(Flags(s))
                /\ boot_vaddr.base <= s.vaddr
                /\ s.vaddr + s.memsz <= boot_vaddr.end

\* Once the callouts are read-only (syspage_memory.c: "make the callouts read
\* only execute") no view of their code can be written, while the data of the
\* system page and every cpupage stay writable for the kernel.
CalloutsReadOnly ==
    stage = "go" =>
        LET seen == view
            code == callout_off .. callout_off + sizes.callouts - 1
            data == 0 .. sizes.total + sizes.splits * AsinfoSize + sizes.rw - 1
            cpupages == spsize .. size - 1
            Kernel(o) == seen[Frame(syspage.kern + o)].rights
        IN  /\ \A p \in DOMAIN seen : \A o \in code :
                 seen[p].frame = syspage.frame + Frame(o) =>
                    seen[p].rights.exec /\ ~seen[p].rights.write
            /\ \A o \in data \union cpupages : Kernel(o).write

\* The runs of the kernel's view that hold pages of the callouts and others.
\* RemapCallouts writes those of the callouts anew, without the hint where they
\* are no whole run, and leaves it on the rest (syspage_memory.c:202,
\* aarch64_map.c:264).
CutByRemap ==
    LET code == {Frame(syspage.kern + callout_off + o) : o \in 0 .. sizes.callouts - 1}
        run(p) == {q \in p - ContigPages + 1 .. p + ContigPages - 1 : q \div ContigPages = p \div ContigPages}
    IN  IF stage # "go" THEN {}
        ELSE {p - (p % ContigPages) : p \in {q \in code : ~(run(q) \subseteq code)}}

\* Every hinted run may be fetched as one translation, but for the rights in the
\* runs that RemapCallouts cuts.
HintsHold == ContigHintSound(CutByRemap)

\* When a CPU turns its MMU on it still executes startup's code and goes on
\* in the kernel: its ttbr1 leads to the tables all CPUs share, startup is
\* mapped to itself, and what CPUs share is inner shareable if there are
\* several (vstart.S, set_pte()).
ReadyToTranslate ==
    mmu_on # {} => LET seen == view IN
        /\ \A c \in mmu_on : ttbr1[c][1] = roots.ttbr1
        /\ \A a \in StartupImage.paddr .. StartupImage.paddr + StartupImage.size - 1 :
              elf_vaddr_to_paddr(a) = a /\ seen[Frame(a)].rights.exec
        /\ \A p \in DOMAIN seen :
              ~seen[p].rights.device => seen[p].rights.ish = (Cardinality(mmu_on) > 1 \/ num_cpu > 1)
=============================================================================
