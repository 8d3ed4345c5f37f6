----------------------------- MODULE PageTable -----------------------------
(***************************************************************************)
(* The translation tables startup builds for the kernel while the MMU is   *)
(* off (aarch64_map.c, init_mmu.c, map_callout_*.c, cpu_syspage_memory.c): *)
(* three levels of tables, allocated as mappings need them, two roots for  *)
(* the two halves of the address space, addresses handed out upwards, and  *)
(* the contiguous hint on aligned runs.                                    *)
(*                                                                         *)
(* Addresses are bytes; a page or frame is an address divided by PageSize. *)
(* The user half is pages 0 .. UserPages - 1, the kernel half what follows.*)
(***************************************************************************)
EXTENDS Integers, SequencesExt, FiniteSetsExt, TLC

CONSTANTS
    PageSize,       \* __PAGESIZE
    Entries,        \* NPTE_PTBL: entries of a table
    ContigPages,    \* CONTIG_PAGES
    StartupBase,    \* AARCH64_STARTUP_BASE, an address
    Cpus,           \* the board's CPUs, 0 .. n - 1
    MaxCpus         \* -P: how many of them startup may use

UserPages == Entries * Entries * Entries
UserEnd   == UserPages * PageSize

\* What the instances must satisfy.
PageTableAssumption ==
    /\ PageSize \in Nat \ {0} /\ Entries \in Nat \ {0}
    /\ ContigPages \in 1 .. Entries /\ Entries % ContigPages = 0
    /\ StartupBase % PageSize = 0
    /\ StartupBase \in UserEnd .. 2 * UserEnd - 1

VARIABLES
    table,        \* frame -> index -> entry, the tables allocated so far
    roots,        \* frames of the L1 tables: L1_ttbr0 and L1_ttbr1
    ttbr1,        \* cpu -> slot -> frame: what each CPU's L0 slots name
    free_vaddr,
    next_frame,   \* calloc_ram(): the first frame not handed out
    num_cpu,      \* lsp.syspage.p->num_cpu
    call          \* the aarch64_map() call served last

tableVars == <<table, roots, ttbr1, free_vaddr, next_frame, num_cpu, call>>

TruncPg(a) == (a \div PageSize) * PageSize
RoundPg(a) == TruncPg(a + PageSize - 1)
Frame(a)   == a \div PageSize

-----------------------------------------------------------------------------
(* Entries and the walk.                                                   *)

\* L1, L2 and L3 index of a page, within its half.
Index(p) == [l1 |-> (p \div (Entries * Entries)) % Entries,
             l2 |-> (p \div Entries) % Entries,
             l3 |-> p % Entries]

\* The rights one leaf carries: set_pte() without the address.
set_pte(flags) ==
    [write  |-> "W" \in flags,
     user   |-> "U" \in flags,
     exec   |-> "X" \in flags,
     device |-> "DEVICE" \in flags,
     cached |-> "NOCACHE" \notin flags,
     ish    |-> "DEVICE" \notin flags /\ num_cpu > 1]

Root(p) == IF p < UserPages THEN roots.ttbr0 ELSE roots.ttbr1

\* elf_vaddr_to_paddr() for the start of page p; None when nothing is there.
None == [frame |-> -1]
Leaf(t, p) ==
    LET i == Index(p)
        l1 == t[Root(p)]
    IN  IF i.l1 \notin DOMAIN l1 THEN None
        ELSE LET l2 == t[l1[i.l1].frame]
             IN  IF i.l2 \notin DOMAIN l2 THEN None
                 ELSE LET l3 == t[l2[i.l2].frame]
                      IN  IF i.l3 \in DOMAIN l3 THEN l3[i.l3] ELSE None

elf_vaddr_to_paddr(v) ==
    LET e == Leaf(table, v \div PageSize)
    IN  IF e = None THEN -1 ELSE e.frame * PageSize + (v % PageSize)

-----------------------------------------------------------------------------
(* Mapping.  A map-in-progress m has the tables and the allocator.         *)

\* pt_alloc(): a zeroed frame.
pt_alloc(m, parent, i) ==
    [next  |-> m.next + 1,
     table |-> m.next :> << >> @@ [m.table EXCEPT ![parent] = i :> [frame |-> m.next] @@ @]]

\* Mutant: the entry that is there is not looked at.
BelowAlways(m, parent, i) == pt_alloc(m, parent, i)
Below(m, parent, i) == IF i \in DOMAIN m.table[parent] THEN m ELSE pt_alloc(m, parent, i)

\* Mutant: what is left of the range is not compared with the run.
UseContigStart(p, first, last, frame) ==
    LET start == p - (p % ContigPages)
    IN  first <= start /\ (frame + start - first) % ContigPages = 0

\* The run of ContigPages that holds page p is covered by [first, last] and
\* starts on a frame aligned the same way.
UseContig(p, first, last, frame) ==
    LET start == p - (p % ContigPages)
    IN  /\ first <= start /\ start + ContigPages - 1 <= last
        /\ (frame + start - first) % ContigPages = 0

\* The three nested loops: one page after the other, tables as needed.
Loops(next, first, last, frame, rights) ==
    LET Page(m, p) ==
          LET i == Index(p)
              root == Root(p)
              m1 == Below(m, root, i.l1)
              l2 == m1.table[root][i.l1].frame
              m2 == Below(m1, l2, i.l2)
              l3 == m2.table[l2][i.l2].frame
              entry == [frame |-> frame + p - first, rights |-> rights,
                        contig |-> UseContig(p, first, last, frame)]
          IN  [m2 EXCEPT !.table[l3] = i.l3 :> entry @@ @]
    IN  FoldLeft(Page, [table |-> table, next |-> next],
                 [k \in 1 .. last - first + 1 |-> first + k - 1])

\* aarch64_map(): Anywhere stands for ~0.
Anywhere == -1
Assigned(v) == IF v = Anywhere THEN free_vaddr ELSE v
PagesOf(paddr, size) == RoundPg(size + (paddr % PageSize)) \div PageSize

\* The calls aarch64_map() crashes on.
MapCrashes(v, paddr, size) ==
    LET first == Assigned(v) \div PageSize
        n     == PagesOf(paddr, size)
    IN  \/ v # Anywhere /\ v % PageSize # paddr % PageSize
        \/ first < UserPages /\ first + n >= UserPages
        \/ first >= UserPages /\ first * PageSize < StartupBase

\* next is where the allocator stands: callers may take frames first.
aarch64_map(next, v, paddr, size, flags) ==
    LET first == Assigned(v) \div PageSize
        n     == PagesOf(paddr, size)
        m     == Loops(next, first, first + n - 1, Frame(paddr), set_pte(flags))
    IN  /\ ~MapCrashes(v, paddr, size)
        /\ table' = m.table /\ next_frame' = m.next
        /\ free_vaddr' = IF v = Anywhere THEN free_vaddr + n * PageSize ELSE free_vaddr
        /\ call' = IF n = 0 THEN call
                   ELSE [anywhere |-> v = Anywhere, page |-> first, n |-> n,
                         frame |-> Frame(paddr), rights |-> set_pte(flags)]

callout_io_map(size, phys) ==
    aarch64_map(next_frame, Anywhere, phys, size, {"R", "W", "NOCACHE", "DEVICE"})
callout_memory_map(size, phys, flags) ==
    aarch64_map(next_frame, Anywhere, phys, size, flags)

-----------------------------------------------------------------------------
(* aarch64_map_init().                                                     *)

\* The last slot of the kernel L1 and of its L2 name the tables themselves,
\* which gives the kernel windows onto them.
Recursive == Entries - 1

InitTables ==
    /\ table = << >> /\ roots = << >> /\ ttbr1 = << >>
    /\ free_vaddr = 0 /\ num_cpu = 1 /\ call = << >>

\* init_smp(): -P 1 leaves the board out of it.
init_smp ==
    /\ num_cpu' = IF MaxCpus > 1 THEN Min({MaxCpus, Cardinality(Cpus)}) ELSE num_cpu
    /\ UNCHANGED <<table, roots, ttbr1, free_vaddr, next_frame, call>>

\* The two roots and the L2 that will hold startup's own mappings.
AllocRoots ==
    LET t0 == next_frame
        t1 == t0 + 1
        l2 == t0 + 2
    IN  /\ roots' = [ttbr0 |-> t0, ttbr1 |-> t1]
        /\ table' = (t0 :> << >>)
                 @@ (t1 :> (Recursive :> [frame |-> t1]
                            @@ Index(StartupBase \div PageSize).l1 :> [frame |-> l2]))
                 @@ (l2 :> (Recursive :> [frame |-> t1]))
        /\ next_frame' = next_frame + 3
        /\ free_vaddr' = StartupBase
        /\ UNCHANGED <<ttbr1, num_cpu, call>>

\* One small table per CPU, all in one frame: slot 1 is the kernel's half,
\* slot 0 the kernel fills itself.
MapL0 ==
    /\ aarch64_map(next_frame + 1, Anywhere, next_frame * PageSize, PageSize, {"R", "W"})
    /\ ttbr1' = [c \in Cpus |-> 1 :> roots.ttbr1]
    /\ UNCHANGED <<roots, num_cpu>>

\* Mutant: the size alone is rounded.
MapStartupSize(image, size) ==
    /\ aarch64_map(next_frame, TruncPg(image), TruncPg(image), RoundPg(size), {"R", "W", "X"})
    /\ UNCHANGED <<roots, ttbr1, num_cpu>>

\* init_mmu(): startup itself, where it runs.
MapStartup(image, size) ==
    /\ aarch64_map(next_frame, TruncPg(image), TruncPg(image),
                   RoundPg(image + size) - TruncPg(image), {"R", "W", "X"})
    /\ UNCHANGED <<roots, ttbr1, num_cpu>>

-----------------------------------------------------------------------------
(* What the map promises.                                                  *)

\* The pages a walk finds, the windows onto the tables left aside.
Window(p) == p >= UserPages
          /\ \/ Index(p).l1 = Recursive
             \/ Index(p).l1 = Index(StartupBase \div PageSize).l1 /\ Index(p).l2 = Recursive
Reached(t) == IF t = << >> THEN {}
              ELSE {p \in 0 .. 2 * UserPages - 1 : ~Window(p) /\ Leaf(t, p) # None}
view == [p \in Reached(table) |->
            [frame |-> Leaf(table, p).frame, rights |-> Leaf(table, p).rights]]

Rights == [write : BOOLEAN, user : BOOLEAN, exec : BOOLEAN,
           device : BOOLEAN, cached : BOOLEAN, ish : BOOLEAN]
Calls  == [anywhere : BOOLEAN, page : 0 .. 2 * UserPages - 1, n : 1 .. UserPages,
           frame : Nat, rights : Rights]
Flat == INSTANCE AddressMap

\* Every step of the walk-and-fill loops is one call on the flat map
\* (aarch64_map.c): no call disturbs a page outside its range, through a
\* shared table or a wrong index, and an assigned range was free.
ImplementsAddressMap == Flat!Spec

\* The aligned runs with an entry that has the Contiguous bit.  The processor
\* may fetch one translation for the whole of such a run.
HintedRuns == {p - (p % ContigPages) : p \in {q \in Reached(table) : Leaf(table, q).contig}}

\* So every entry of it must be there and follow the first on aligned frames,
\* and say the same; but a run in cut may differ in its rights and bits
\* (the Contiguous bit in aarch64_map()).
ContigHintSound(cut) ==
    \A start \in HintedRuns :
        LET first == Leaf(table, start) IN
        /\ first.frame % ContigPages = 0
        /\ \A k \in 1 .. ContigPages - 1 :
              LET entry == Leaf(table, start + k) IN
              /\ entry # None /\ entry.frame = first.frame + k
              /\ start \notin cut => entry = [first EXCEPT !.frame = @ + k]
=============================================================================
