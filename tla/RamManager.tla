----------------------------- MODULE RamManager -----------------------------
(***************************************************************************)
(* The RAM manager of the startup program (ram.c): the sorted list of free *)
(* RAM, the list of ranges that searches avoid, the early allocator of     *)
(* ws_alloc(), and the "ram" and "sysram" entries of the asinfo section.   *)
(*                                                                         *)
(* Addresses are small naturals.  Entries of both lists are written as     *)
(* half-open ranges [start, end), asinfo entries as closed ones, as in the *)
(* code.  ram_list is in the order of the addresses, so the set of its     *)
(* entries says it all.  The order of the phases is that of main() and     *)
(* init_system_private().                                                  *)
(***************************************************************************)
EXTENDS AddressSpace

CONSTANTS
    Banks,            \* add_ram()'s arguments: the board's, then -M's
    BoardBanks,       \* how many of them init_raminfo() adds
    Image,            \* the boot image: full_ram_paddr, plus shdr->ram_size
    StartupSize,      \* shdr->startup_size
    ListsSize,        \* memory of avoid_list and ram_list
    TempSize,         \* TEMP_SYSPAGE_SIZE
    PageSize,
    MemTop, Low,      \* last addresses of "memory" and "below4G"
    Limit,            \* the mitigation page's limit, 1 << 39
    Requests,         \* size and align of calls that search
    Reserves,         \* size, align and low_region of -R options
    JtagRanges,       \* ranges -r options may name
    MaxRam, MaxAvoid, \* entries the two lists hold
    MaxCalls          \* bound: allocations in a behaviour

BytesOf(r) == r.start .. r.end - 1
Bytes(ranges) == UNION {BytesOf(r) : r \in ranges}
Ranges == [start : Nat, end : Nat]

\* The banks that add_ram() has got, or is still to get, from n on.
BanksUpTo(n) == {Banks[k] : k \in 1 .. n}
BanksAfter(n) == {Banks[k] : k \in n + 1 .. Len(Banks)}

ASSUME RamAssumption ==
    /\ Banks \in Seq(Ranges) /\ BoardBanks \in 1 .. Len(Banks)
    /\ \A k \in DOMAIN Banks : Banks[k].start < Banks[k].end
    /\ \A j, k \in DOMAIN Banks : j # k => BytesOf(Banks[j]) \cap BytesOf(Banks[k]) = {}
    /\ MemTop \in Nat /\ Low \in 0 .. MemTop
    /\ Bytes(BanksUpTo(Len(Banks))) \subseteq 0 .. MemTop
    /\ Image \in Ranges /\ StartupSize \in 1 .. Image.end - Image.start - 1
    /\ ListsSize \in Nat /\ TempSize \in Nat \ {0} /\ PageSize \in Nat \ {0}
    /\ Limit \in Nat /\ Limit % PageSize = 0
    /\ Requests \subseteq [size : Nat \ {0}, align : Nat \ {0}]
    /\ Reserves \subseteq [size : Nat \ {0}, align : Nat, low : BOOLEAN]
    /\ JtagRanges \subseteq {r \in Ranges : r.start < r.end}
    /\ MaxRam \in Nat /\ MaxAvoid \in Nat /\ MaxAvoid > 2 /\ MaxCalls \in Nat

VARIABLES
    ramList, avoidList,
    asinfo,
    wsEarlyNext,      \* ws_early_next
    tempSyspage,      \* temp_syspage, or NoAddr
    phase,
    added,            \* how many of Banks have been added
    reserved,         \* the -r options given
    calls,
    held,             \* history: bytes alloc_ram() handed out
    work              \* history: bytes of startup and of its own work space

vars == <<ramList, avoidList, asinfo, wsEarlyNext, tempSyspage, phase, added,
          reserved, calls, held, work>>

NoAddr == -1
NoRange == [start |-> 0, end |-> 0]
Span(start, size) == [start |-> start, end |-> start + size]
Round(x, align) == ((x + align - 1) \div align) * align
Trunc(x, align) == (x \div align) * align

Phases == {"raminfo", "options", "reserve", "mitigated", "sysram", "crashed"}

-----------------------------------------------------------------------------
(* The list of free RAM.                                                   *)

\* add_mem(): the new entry is merged with those it touches or overlaps.
add_mem(list, new) ==
    LET near == {r \in list : r.start <= new.end /\ new.start <= r.end} \union {new}
    IN  (list \ near) \union
            {[start |-> Min({r.start : r \in near}), end |-> Max({r.end : r \in near})]}

Part(start, end) == IF start < end THEN {[start |-> start, end |-> end]} ELSE {}

\* Slip: the upper part of an entry is lost.
CutNoTail(list, cut) ==
    UNION {IF cut.end <= r.start \/ r.end <= cut.start THEN {r} ELSE Part(r.start, cut.start)
           : r \in list}

\* alloc_ram()'s loop: what is left of each entry outside [start, end).
Cut(list, cut) ==
    UNION {IF cut.end <= r.start \/ r.end <= cut.start THEN {r}
           ELSE Part(r.start, cut.start) \union Part(cut.end, r.end)
           : r \in list}

\* add_mem() has no room for another entry: "RAM entry array overflow".
CutOverflows(list, cut) ==
    Cardinality(list) >= MaxRam /\ \E r \in list : r.start < cut.start /\ cut.end < r.end

-----------------------------------------------------------------------------
(* Searching: what the avoid list leaves of an entry.                      *)

\* fix_size(): NoRange if nothing is left; of two pieces the larger one.
FixSizeInclusive(r, a) ==
    CASE r.start >= a.end \/ r.end <= a.start -> r
      [] r.start >= a.start /\ r.start < a.end ->
            IF r.end <= a.end THEN NoRange ELSE [r EXCEPT !.start = a.end - 1]
      [] OTHER ->
            IF r.end < a.end \/ a.start - r.start > r.end - a.end
            THEN [r EXCEPT !.end = a.start] ELSE [r EXCEPT !.start = a.end - 1]

FixSize(r, a) ==
    CASE r.start >= a.end \/ r.end <= a.start -> r
      [] r.start >= a.start /\ r.start < a.end ->
            IF r.end <= a.end THEN NoRange ELSE [r EXCEPT !.start = a.end]
      [] OTHER ->
            IF r.end < a.end \/ a.start - r.start > r.end - a.end
            THEN [r EXCEPT !.end = a.start] ELSE [r EXCEPT !.start = a.end]

\* What is left when the avoid ranges are taken away one after the other.
Usable(r, avoid) ==
    LET left[n \in 0 .. Len(avoid)] ==
            IF n = 0 THEN r
            ELSE IF left[n - 1] = NoRange THEN NoRange ELSE FixSize(left[n - 1], avoid[n])
    IN  left[Len(avoid)]

\* The list is searched from its start.
Lowest(list) == CHOOSE r \in list : \A q \in list : r.start <= q.start

\* find_ram(): the first entry with room.
FindRam(list, avoid, size, align) ==
    LET usable(r) == Usable(r, avoid)
        addr(r) == Round(usable(r).start, align)
        fits == {r \in list : /\ usable(r) # NoRange /\ addr(r) < usable(r).end
                              /\ size <= usable(r).end - addr(r)}
    IN  IF fits = {} THEN NoAddr ELSE addr(Lowest(fits))

\* find_top_ram_aligned_limit(): the highest place below limit, or the place
\* that ends there.  align is 0 only for callers this program does not have.
TopOf(list, avoid, size, align, limit) ==
    LET usable(r) == Usable(r, avoid)
        top(r) == Trunc(usable(r).end - size, align)
        fits == {r \in list : /\ usable(r) # NoRange /\ usable(r).end - usable(r).start >= size
                              /\ top(r) >= usable(r).start /\ top(r) > 0}
        beyond == {r \in fits : top(r) + size >= limit}
    IN  IF beyond # {} /\ limit - size >= usable(Lowest(beyond)).start THEN limit - size
        ELSE Max({0} \union {top(r) : r \in fits \ beyond})

FindTop(list, avoid, size, align, limit) ==
    LET top == TopOf(list, avoid, Round(size, PageSize), align, limit)
    IN  IF limit < size \/ top = 0 THEN NoAddr ELSE top

-----------------------------------------------------------------------------
(* The two lists change.                                                   *)

\* avoid_ram(): a range that starts where the last one ends extends it.
Avoid(list, start, size) ==
    IF Last(list).end = start THEN [list EXCEPT ![Len(list)].end = @ + size]
    ELSE Append(list, Span(start, size))

\* "Avoid RAM entry array overflow"; one entry is the terminator.
AvoidOverflowsLate(list) == Len(list) > MaxAvoid
AvoidOverflows(list) == Len(list) + 1 > MaxAvoid

\* alloc_ram(), once add_sysram() has been called: the sysram entries give up
\* [start, end] as well.  The upper part of an entry split in two is added
\* under the same owner; no two entries are split, as they do not overlap.
TrimmedSysram(start, end) == Containing(asinfo, start, end, "sysram")

TrimCrashes(start, end) ==
    \E i \in TrimmedSysram(start, end) : start <= asinfo[i].start /\ asinfo[i].end <= end

TrimmedEntry(i, start, end) ==
    IF i \notin TrimmedSysram(start, end) THEN asinfo[i]
    ELSE IF start <= asinfo[i].start THEN [asinfo[i] EXCEPT !.start = end + 1]
    ELSE [asinfo[i] EXCEPT !.end = start - 1]

TrimNoTail(start, end) == [i \in DOMAIN asinfo |-> TrimmedEntry(i, start, end)]

Trim(start, end) ==
    LET split == {i \in TrimmedSysram(start, end) :
                    asinfo[i].start < start /\ end < asinfo[i].end}
        upper == asinfo[Min(split)]
    IN  [i \in DOMAIN asinfo |-> TrimmedEntry(i, start, end)]
        \o IF split = {} THEN <<>>
           ELSE <<AsEntry(end + 1, upper.end, upper.owner, "sysram", FALSE)>>

\* alloc_ram() of the range that starts at addr, as far as ram_list goes.
alloc_ram(addr, size) ==
    LET cut == Span(addr, size) IN
    /\ ramList' = Cut(ramList, cut)
    /\ held' = held \union BytesOf(cut)

SysramAdded == phase = "sysram"

Crash ==
    /\ phase' = "crashed"
    /\ UNCHANGED <<ramList, avoidList, asinfo, wsEarlyNext, tempSyspage, added,
                   reserved, calls, held, work>>

-----------------------------------------------------------------------------
(* ws_init(), with the initial system page that _main() asks for and the   *)
(* startup code itself.                                                    *)
Init ==
    /\ ramList = {}
    /\ avoidList = <<Span(Image.end, ListsSize), Span(Image.start, StartupSize)>>
    /\ wsEarlyNext = Image.end + ListsSize
    /\ work = Bytes(Range(avoidList))
    /\ asinfo = <<>>
    /\ tempSyspage = NoAddr
    /\ phase = "raminfo" /\ added = 0 /\ reserved = {} /\ calls = 0
    /\ held = {}

\* main()'s option loop: -r makes searches avoid the range.
OptionR ==
    /\ phase = "raminfo" /\ added = 0
    /\ \E r \in JtagRanges \ reserved :
        IF AvoidOverflows(Avoid(avoidList, r.start, r.end - r.start)) THEN Crash
        ELSE /\ reserved' = reserved \union {r}
             /\ avoidList' = Avoid(avoidList, r.start, r.end - r.start)
             /\ UNCHANGED <<ramList, asinfo, wsEarlyNext, tempSyspage, phase, added,
                            calls, held, work>>

\* add_ram(): the first call makes the root entries; every call takes the
\* image out of what it added, and the first that leaves room gives the system
\* page being built a larger place.
AddRam ==
    /\ added < Len(Banks)
    /\ phase = IF added < BoardBanks THEN "raminfo" ELSE "options"
    /\ LET bank == Banks[added + 1]
           roots == IF asinfo # <<>> THEN asinfo
                    ELSE <<AsEntry(0, MemTop, AS_NULL_OFF, "memory", FALSE),
                           AsEntry(0, Low, 1, "below4G", FALSE)>>
           image == [Image EXCEPT !.start = @ + StartupSize]
           list == Cut(add_mem(ramList, bank), image)
           temp == IF tempSyspage = NoAddr
                   THEN FindRam(list, avoidList, TempSize, PageSize) ELSE NoAddr
       IN  IF \/ Cardinality(ramList) >= MaxRam
              \/ CutOverflows(add_mem(ramList, bank), image)
              \/ temp # NoAddr /\ AvoidOverflows(Avoid(avoidList, temp, TempSize))
           THEN Crash
           ELSE /\ asinfo' = as_add_containing(roots, bank.start, bank.end - 1,
                                               "ram", "memory")
                /\ ramList' = list
                /\ held' = held \union BytesOf(image)
                /\ added' = added + 1
                /\ IF temp = NoAddr THEN UNCHANGED <<tempSyspage, avoidList, work>>
                   ELSE /\ tempSyspage' = temp
                        /\ avoidList' = Avoid(avoidList, temp, TempSize)
                        /\ work' = work \union BytesOf(Span(temp, TempSize))
                /\ UNCHANGED <<wsEarlyNext, phase, reserved, calls>>

\* main(), once the board's RAM is known: the whole image, startup included.
ImageRam ==
    /\ phase = "raminfo" /\ added = BoardBanks
    /\ IF CutOverflows(ramList, Image) THEN Crash
       ELSE /\ alloc_ram(Image.start, Image.end - Image.start)
            /\ phase' = "options"
            /\ UNCHANGED <<avoidList, asinfo, wsEarlyNext, tempSyspage, added, reserved,
                           calls, work>>

\* "No add_ram()'s have been done yet", told by the size of ram_list.
NoRamYet(list) == list = {}

\* ws_alloc(): from the memory behind the image while ram_list is empty.
WsAlloc ==
    /\ phase \notin {"sysram", "crashed"}
    /\ calls < MaxCalls
    /\ LET paddr == IF NoRamYet(ramList) THEN wsEarlyNext ELSE FindRam(ramList, avoidList, 1, 1)
       IN  /\ paddr # NoAddr
           /\ IF AvoidOverflows(Avoid(avoidList, paddr, 1)) THEN Crash
              ELSE /\ wsEarlyNext' = IF NoRamYet(ramList) THEN wsEarlyNext + 1 ELSE wsEarlyNext
                   /\ avoidList' = Avoid(avoidList, paddr, 1)
                   /\ work' = work \union {paddr}
                   /\ calls' = calls + 1
                   /\ UNCHANGED <<ramList, asinfo, tempSyspage, phase, added, reserved,
                                  held>>

\* alloc_ram(NULL_PADDR, ...) by the ELF loader, the page tables, the
\* interrupt tables and the system page.
AllocAny ==
    /\ phase \in {"options", "reserve", "mitigated", "sysram"}
    /\ calls < MaxCalls
    /\ \E q \in Requests :
        LET addr == FindRam(ramList, avoidList, q.size, q.align)
            cut == Span(addr, q.size)
        IN  /\ addr # NoAddr
            /\ IF CutOverflows(ramList, cut) \/ (SysramAdded /\ TrimCrashes(addr, cut.end - 1))
               THEN Crash
               ELSE /\ alloc_ram(addr, q.size)
                    /\ asinfo' = IF SysramAdded THEN Trim(addr, cut.end - 1) ELSE asinfo
                    /\ calls' = calls + 1
                    /\ UNCHANGED <<avoidList, wsEarlyNext, tempSyspage, phase, added,
                                   reserved, work>>

\* jtag_reserve_memory(), for the -r options in init_system_private().
JtagReserve ==
    /\ phase = "options"
    /\ \E r \in reserved :
        IF CutOverflows(ramList, r) THEN Crash
        ELSE /\ alloc_ram(r.start, r.end - r.start)
             /\ UNCHANGED <<avoidList, asinfo, wsEarlyNext, tempSyspage, phase, added,
                            reserved, calls, work>>

\* reserve_ram(): from the top, unless low_region is set.
ReserveRam ==
    /\ phase \in {"options", "reserve"}
    /\ calls < MaxCalls
    /\ \E q \in Reserves :
        LET align == IF q.align = 0 THEN PageSize ELSE q.align
            addr == IF q.low THEN FindRam(ramList, avoidList, q.size, align)
                    ELSE FindTop(ramList, avoidList, q.size, align, MemTop + 2)
        IN  IF addr = NoAddr \/ CutOverflows(ramList, Span(addr, q.size)) THEN Crash
            ELSE /\ alloc_ram(addr, q.size)
                 /\ asinfo' = as_add_containing(asinfo, addr, addr + q.size - 1,
                                                "reserved", "ram")
                 /\ calls' = calls + 1
                 /\ phase' = "reserve"
                 /\ UNCHANGED <<avoidList, wsEarlyNext, tempSyspage, added, reserved, work>>

\* init_mitigation_mem(), on a core that needs it.
MitigationPage ==
    /\ phase \in {"options", "reserve"}
    /\ LET addr == FindTop(ramList, avoidList, PageSize, PageSize, Limit) IN
       IF addr = NoAddr \/ CutOverflows(ramList, Span(addr, PageSize)) THEN Crash
       ELSE /\ alloc_ram(addr, PageSize)
            /\ asinfo' = as_add_containing(asinfo, addr, addr + PageSize - 1,
                                           "sp2mmu", "ram")
            /\ phase' = "mitigated"
            /\ UNCHANGED <<avoidList, wsEarlyNext, tempSyspage, added, reserved,
                           calls, work>>

\* add_sysram(): what is free now is what the kernel will manage.  The list is
\* walked from its start.
SysramAfter(n) ==
    LET at[k \in 0 .. n] ==
            IF k = 0 THEN [table |-> asinfo, left |-> ramList]
            ELSE LET r == Lowest(at[k - 1].left)
                 IN  [table |-> as_add_containing(at[k - 1].table, r.start, r.end - 1,
                                                  "sysram", "ram"),
                      left |-> at[k - 1].left \ {r}]
    IN  at[n].table

add_sysram ==
    /\ phase \in {"options", "reserve", "mitigated"}
    /\ asinfo' = SysramAfter(Cardinality(ramList))
    /\ phase' = "sysram"
    /\ UNCHANGED <<ramList, avoidList, wsEarlyNext, tempSyspage, added, reserved,
                   calls, held, work>>

Next ==
    \/ OptionR \/ AddRam \/ ImageRam \/ WsAlloc \/ AllocAny \/ JtagReserve \/ ReserveRam
    \/ MitigationPage \/ add_sysram

Spec == Init /\ [][Next]_vars

-----------------------------------------------------------------------------
(* Properties.                                                             *)

FreeBytes == Bytes(ramList)

\* Every variable but asinfo keeps its type; the lists stay within their memory.
TypeOK ==
    /\ ramList \subseteq Ranges /\ IsFiniteSet(ramList) /\ Cardinality(ramList) <= MaxRam
    /\ avoidList \in Seq(Ranges) /\ Len(avoidList) < MaxAvoid
    /\ wsEarlyNext \in Nat
    /\ tempSyspage \in Nat \union {NoAddr}
    /\ phase \in Phases
    /\ added \in 0 .. Len(Banks)
    /\ reserved \subseteq JtagRanges
    /\ calls \in 0 .. MaxCalls
    /\ held \subseteq Nat /\ work \subseteq Nat

\* Banks that touch have become one entry however add_ram() and alloc_ram()
\* followed each other, and no entry is empty: the searches take the list to be
\* in this form. Allocation never empties it again, which ws_alloc() takes to
\* mean that there was no add_ram() yet and hands out unsearched memory.
RamListCanonical ==
    /\ \A r \in ramList : r.start < r.end
    /\ \A r, q \in ramList : r = q \/ r.end < q.start \/ q.end < r.start
    /\ NoRamYet(ramList) => added = 0

\* No memory that alloc_ram() handed out is still on, or back on, the list.
HeldNotFree == held \cap FreeBytes = {}

\* Free, and clear of the startup code, of its work space, of the system page
\* being built and of the ranges -r names.
Available(found) ==
    /\ found \subseteq FreeBytes
    /\ found \cap (work \union held \union Bytes(reserved)) = {}

\* Whatever find_ram() would return now is available and aligned, although
\* fix_size() sees one avoid range at a time; so is the block reserve_ram() would
\* take from the top, rounded up to a page, and the page init_mitigation_mem()
\* would take below the limit.
FoundIsFree ==
    /\ \A q \in Requests :
        LET addr == FindRam(ramList, avoidList, q.size, q.align)
        IN  addr # NoAddr =>
                addr % q.align = 0 /\ Available(BytesOf(Span(addr, q.size)))
    /\ \A q \in [size : {q.size : q \in Reserves} \union {PageSize},
                limit : {Limit, MemTop + 2}] :
        LET addr == FindTop(ramList, avoidList, q.size, PageSize, q.limit)
            size == Round(q.size, PageSize)
        IN  addr # NoAddr =>
                /\ addr % PageSize = 0
                /\ addr + size <= q.limit
                /\ Available(BytesOf(Span(addr, size)))

\* The "ram" entries are exactly the RAM added, each byte once, and the part
\* below 4G is owned by "below4G", also of a bank that crosses 4G, where a search
\* by name from any entry finds the next of it.
RamEntriesTile ==
    LET ram == Named(asinfo, "ram") IN
    /\ UNION {AsBytes(asinfo[i]) : i \in ram} = Bytes(BanksUpTo(added))
    /\ \A i, j \in ram : i # j => AsBytes(asinfo[i]) \cap AsBytes(asinfo[j]) = {}
    /\ \A i \in ram : \A a \in AsBytes(asinfo[i]) :
            a <= Low <=> asinfo[asinfo[i].owner].name = "below4G"
    /\ \A start \in 0 .. Len(asinfo) :
            LET low == {i \in ram : i > start /\ asinfo[i].end <= Low}
            IN  as_find(asinfo, start, <<"memory", "below4G", "ram">>) =
                    IF low = {} THEN AS_NULL_OFF ELSE Min(low)

\* The kernel learns of free memory from the "sysram" entries: they stay the
\* bytes of ram_list, each once, while late allocations trim both.
SysramIsFree ==
    SysramAdded =>
        LET sysram == Named(asinfo, "sysram") IN
        /\ UNION {AsBytes(asinfo[i]) : i \in sysram} = FreeBytes
        /\ \A i, j \in sysram : i # j => AsBytes(asinfo[i]) \cap AsBytes(asinfo[j]) = {}

AsNames == {"memory", "below4G", "ram", "reserved", "sp2mmu", "sysram"}

\* Entries lie within the entries that own them, which precede them, and a
\* chain of continued entries stays in the table and on one name, also after
\* alloc_ram() has split an entry of the chain.
AsinfoSound ==
    /\ asinfo \in Seq([start : 0 .. MemTop, end : 0 .. MemTop, owner : 0 .. Len(asinfo),
                       name : AsNames, cont : BOOLEAN])
    /\ Nested(asinfo) /\ Chained(asinfo)

\* The abstract promise, see FreeMemory.
Abstract == INSTANCE FreeMemory WITH free <- FreeBytes
ImplementsFreeMemory == Abstract!Spec

\* What the lists say of memory at any moment: in the form the searches take
\* them to be, nothing handed out twice, and whatever a search would answer is
\* free.  (alloc_ram(), find_ram(), reserve_ram(), avoid_ram())
MemoryAccounted == TypeOK /\ RamListCanonical /\ HeldNotFree /\ FoundIsFree

\* What the asinfo section tells the kernel of memory is what the lists say.
\* (as_add(), as_add_containing(), add_sysram(), alloc_ram())
AsinfoAccounted == RamEntriesTile /\ AsinfoSound /\ SysramIsFree
=============================================================================
