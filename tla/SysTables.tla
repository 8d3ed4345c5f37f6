------------------------------ MODULE SysTables ------------------------------
(***************************************************************************)
(* The tables of the system page that describe the machine while it boots: *)
(* the hwinfo section, the strings, and what each CPU reports of itself    *)
(* (init_cpuinfo.c), its caches (add_cache.c) and clusters                 *)
(* (cpu_cluster_add.c) among it.                                           *)
(***************************************************************************)
EXTENDS HwInfo, FiniteSets

CONSTANTS
    Attrs,       \* attributes a board may give a bus or a device
    Shapes,      \* kinds of CPU: [midr, unified, ins, data, isa]
    aarch64_cpuid, \* the parts that are known: [midr, name]
    NumCpus,     \* lsp.syspage.p->num_cpu
    MaxCalls     \* bound: calls of the board's init_hwinfo()

VARIABLES
    h,           \* the hwinfo section and the strings below it
    cpuinfo,     \* the entries filled in, CPU 0 first
    cache,       \* lsp.cacheattr
    cluster,     \* lsp.cluster: [name, cpumask]
    idreg,       \* lsp.cpu.aarch64_idreg_dump: the registers of each CPU, <<>> where none is stored
    read,        \* history: the items, as the section reads after each call
    shapes,      \* history: the kind of each CPU of cpuinfo
    told,        \* history: the value given last for each typed string
    calls

vars == <<h, cpuinfo, cache, cluster, idreg, read, shapes, told, calls>>

\* The section as the routines of the library read it.
Position(all, o) == IF o = NullOff THEN 0 ELSE SelectInSeq(all, LAMBDA i : i = o)
Tags(s, o) == LET tags == TagsOf(s, o)
              IN  [t \in DOMAIN tags |-> [kind |-> Kind(s, tags[t]), value |-> s.hw[tags[t] + 2][1]]]
Read(s) ==
    LET all == ItemsOf(s)
    IN  [k \in DOMAIN all |->
           [kind |-> Kind(s, all[k]), name |-> ItemName(s, all[k]),
            owner |-> Position(all, Owner(s, all[k])),
            value |-> IF Kind(s, all[k]) \in {"device", "synonym"} THEN s.hw[all[k] + 4][1] ELSE 0,
            tags |-> Tags(s, all[k])]]

\* hwi_default()
HwiStart ==
    LET bare == [strs |-> <<Nul>>, typed |-> <<None>>, hw |-> <<Blank>>, offset |-> 0, last_item |-> 0]
        root == hwi_alloc_item(bare, "group", "hw", NullOff)
    IN  hwi_alloc_item(root.h, "bus", "unknown", Off(root)).h

\* init_cpuinfo(): room for "6 bits worth of ID reg space, minus C0", zeroed,
\* for each CPU.
AARCH64_IDDUMP_ENTRIES == 56
IdregRoom == [k \in 1 .. NumCpus * AARCH64_IDDUMP_ENTRIES |-> <<>>]

Init ==
    /\ h = HwiStart /\ read = Read(h) /\ calls = 0
    /\ cpuinfo = <<>> /\ cache = <<>> /\ cluster = <<>> /\ shapes = <<>>
    /\ idreg = IdregRoom
    /\ told = [type \in {"machine", "provider"} |-> None]

-----------------------------------------------------------------------------
(* External: calls a board's init_hwinfo() may make, in any order.         *)

Buses(s) == {o \in ToSet(ItemsOf(s)) : Kind(s, o) = "bus" /\ ItemName(s, o) # "unknown"}

Called(s) ==
    /\ calls' = calls + 1
    /\ h' = s /\ read' = Read(s)
    /\ UNCHANGED <<cpuinfo, cache, cluster, idreg, shapes>>

AddBus ==
    \E parent \in Buses(h) \union {NullOff}, attr \in Attrs :
        \E call \in {hwibus_add_can(parent, attr), hwibus_add_i2c(parent, attr),
                     hwibus_add_sdio(parent, attr), hwibus_add_spi(parent, attr),
                     hwibus_add_pci(parent, attr), hwibus_add_usb(parent, attr)} :
            Called(AllOf(h, call)) /\ UNCHANGED told

AddDevice ==
    \E bus \in Buses(h) \union {NullOff}, attr \in Attrs :
        \E call \in {hwidev_add_dma("big", bus, attr), hwidev_add_timer("big", bus, attr),
                     hwidev_add_uart("big", bus, attr), hwidev_add_rtc("big", bus, attr),
                     hwidev_add_enet("mac", bus, attr)} :
            Called(AllOf(h, call)) /\ UNCHANGED told

AddOlder ==
    \E call \in {hwi_add_rtc(h, "big", 5, 1), hwi_add_rtc(h, "big", 5, -1), hwi_add_nanospin(h, 3)}
                   \union {hwi_add_synonym(item, "mac") : item \in ToSet(ItemsOf(h))} :
        Called(AllOf(h, call)) /\ UNCHANGED told

SetTag ==
    \E item \in ToSet(ItemsOf(h)), k \in 1 .. 2 :
        \E s \in {hwitag_set_ivec(h, item, k, 7), hwitag_set_avail_ivec(h, item, k - 1, 8),
                  hwitag_set_ivecrange(h, item, k, 7), hwitag_set_dma(h, item, k, 7),
                  hwitag_set_errata(h, item, k, 7), hwitag_set_nicaddr(h, item, k, 7),
                  hwitag_set_phyaddr(h, item, k, 7), hwitag_set_inputclk(h, item, k, 7),
                  hwitag_set_busattr(h, item, k, 7)} :
            Called(s) /\ UNCHANGED told

\* This board gives its network device the common tags a second time.
AddTagsAgain == \E attr \in Attrs : Called(AllOf(h, hwitag_add_common(attr))) /\ UNCHANGED told

SetTyped ==
    \E type \in DOMAIN told, value \in DOMAIN TypedWords :
        /\ Called([h EXCEPT !.typed = AddTyped(@, type, value)])
        /\ told' = [told EXCEPT ![type] = value]

cpu_cluster_add(name, cpumask) ==
    LET s == WithString(h, name)
        entry == [name |-> StringOff(h.strs, name), cpumask |-> cpumask]
        same == SelectInSeq(cluster, LAMBDA c : c.name = entry.name)
    IN  /\ calls < MaxCalls /\ calls' = calls + 1
        /\ h' = s /\ read' = Read(s)
        /\ cluster' = IF same = 0 THEN Append(cluster, entry) ELSE [cluster EXCEPT ![same] = entry]
        /\ UNCHANGED <<cpuinfo, cache, idreg, shapes, told>>

-----------------------------------------------------------------------------
(* What a CPU says of itself.                                              *)

\* Slip: the geometry is not compared.
MatchesShapeless(e, next, flags, lines) == e.next = next /\ e.flags = flags
Matches(e, next, flags, lines) == e.next = next /\ e.flags = flags /\ e.lines = lines

\* CPUs with the same caches share the entries; the result is an index.
Same(list, next, flags, lines) == {k \in DOMAIN list : Matches(list[k], next, flags, lines)}
CacheIndex(list, next, flags, lines) ==
    LET same == Same(list, next, flags, lines)
    IN  IF same = {} THEN Len(list) ELSE (CHOOSE k \in same : \A j \in same : k <= j) - 1
add_cache_ways(list, next, flags, lines) ==
    IF Same(list, next, flags, lines) = {}
    THEN Append(list, [next |-> next, flags |-> flags, lines |-> lines]) ELSE list

ListEnd == -1    \* CACHE_LIST_END, in every entry since init_cpuinfo()

\* Level 1 only: one cache for both, or one for each.
InitCache(list, shape) ==
    IF shape.unified
    THEN [list |-> add_cache_ways(list, ListEnd, "unified", shape.data), ins |-> ListEnd,
          data |-> CacheIndex(list, ListEnd, "unified", shape.data)]
    ELSE LET l == add_cache_ways(list, ListEnd, "instr", shape.ins)
         IN  [list |-> add_cache_ways(l, ListEnd, "data", shape.data),
              ins |-> CacheIndex(list, ListEnd, "instr", shape.ins),
              data |-> CacheIndex(l, ListEnd, "data", shape.data)]

\* A feature of the ID registers, and the flags it stands for.
Implied(feature) ==
    CASE feature = "FP" -> {"FPU", "VFP_D32"} [] feature = "SIMD" -> {"FPU", "VFP_D32", "SIMD"}
      [] feature = "PMULL" -> {"PMULL", "AES"} [] feature = "SHA512" -> {"SHA512", "SHA256"}
      [] OTHER -> {feature}

CpuFlags(shape) ==
    {"V6", "V7", "IDIV"} \union UNION {Implied(f) : f \in shape.isa}
        \union (IF NumCpus > 1 THEN {"SMP", "V7_MP"} ELSE {})

\* S3_0_C0_C<n>_<m>, as this kind of CPU reads it.
IdRegister(shape, n, m) == <<shape.midr, n, m>>

\* The registers are read in pairs, each stored behind the one before; the
\* last, S3_0_C0_C7_6 and S3_0_C0_C7_7, is read and not stored.
IdPairs == AARCH64_IDDUMP_ENTRIES \div 2
StoredPairs == IdPairs - 1
Dumped(dump, cpu, shape) ==
    LET base == cpu * AARCH64_IDDUMP_ENTRIES
    IN  [k \in DOMAIN dump |->
            IF k \in base + 1 .. base + 2 * StoredPairs
            THEN IdRegister(shape, 1 + (k - base - 1) \div 8, (k - base - 1) % 8) ELSE dump[k]]

\* CPUID_MASK leaves out the variant and the revision of MIDR.
aarch64_cpuid_find(midr) == SelectInSeq(aarch64_cpuid, LAMBDA id : id.midr = midr.part)
CpuName(shape) ==
    LET id == aarch64_cpuid_find(shape.midr)
    IN  IF id = 0 THEN "Unknown" ELSE aarch64_cpuid[id].name

\* On the boot core for CPU 0, on each other core while the boot core waits.
init_one_cpuinfo(shape) ==
    /\ Len(cpuinfo) < NumCpus
    /\ h' = WithString(h, CpuName(shape)) /\ read' = Read(h')
    /\ cache' = InitCache(cache, shape).list
    /\ cpuinfo' = Append(cpuinfo, [name |-> StringOff(h.strs, CpuName(shape)), flags |-> CpuFlags(shape),
                                   ins_cache |-> InitCache(cache, shape).ins,
                                   data_cache |-> InitCache(cache, shape).data])
    /\ idreg' = Dumped(idreg, Len(cpuinfo), shape)
    /\ shapes' = Append(shapes, shape)
    /\ UNCHANGED <<cluster, told, calls>>

Next ==
    \/ /\ calls < MaxCalls
       /\ AddBus \/ AddDevice \/ AddOlder \/ SetTag \/ AddTagsAgain \/ SetTyped
    \/ \E name \in {"a53", "big"}, mask \in {1, 6} : cpu_cluster_add(name, mask)
    \/ \E shape \in Shapes : init_one_cpuinfo(shape)

Spec == Init /\ [][Next]_vars

-----------------------------------------------------------------------------
(* Properties: what the kernel reads is what was said.                     *)

\* However it has grown, the section reads as a chain of items that ends where
\* the next will go: every item counts those it owns, every tag lies where its
\* kind may, and no group is there twice (hwi_add_device() looks first).
SectionReadable ==
    LET all == ItemsOf(h)
        items == ToSet(all)
        owned(o) == {i \in items : Owner(h, i) = o}
    IN  /\ ItemEnd(h, Last(all)) = h.offset /\ h.hw[h.offset + 1] = Blank
        /\ \A o \in items :
             /\ Owner(h, o) \in items \union {NullOff} /\ Owner(h, o) < o
             /\ h.hw[o + 3][2] = Cardinality(owned(o))
             /\ \A t \in ToSet(TagsOf(h, o)) : Kind(h, t) # Nul /\ t % TagAlign[Kind(h, t)] = 0
             /\ \A i, j \in owned(o) :
                  Kind(h, i) = "group" /\ Kind(h, j) = "group" /\ ItemName(h, i) = ItemName(h, j) => i = j

GivenNames == UNION {{attr.dll, attr.opt, attr.centreg} : attr \in Attrs} \ {Nul}

\* A name kept as an offset is still that name, in a tag, a CPU's entry or a
\* cluster, although the tables have grown and moved since (add_string()); a
\* typed string has the value given last (add_typed_string()).
NamesKept ==
    /\ \A item \in ToSet(read) : \A t \in ToSet(item.tags) :
          t.kind \in {"dll", "optstr", "regname"} /\ read[item.owner].name # "rtc" =>
              StringAt(h.strs, t.value) \in GivenNames
    /\ \A type \in DOMAIN told : TypedValue(h.typed, type) = told[type]
    /\ \A c \in DOMAIN cpuinfo :
          LET known == {id \in ToSet(aarch64_cpuid) : id.midr = shapes[c].midr.part}
          IN  StringAt(h.strs, cpuinfo[c].name) \in
                  IF known = {} THEN {"Unknown"} ELSE {id.name : id \in known}
    /\ \A c \in DOMAIN cluster : StringAt(h.strs, cluster[c].name) \in {"a53", "big"}
    /\ \A i, j \in DOMAIN cluster : cluster[i].name = cluster[j].name => i = j

\* A CPU's entry leads to its own caches, shared with CPUs that have the same
\* and no others (add_cache_ways()).
CacheListsOwn ==
    \A c \in DOMAIN cpuinfo :
        LET entry == cpuinfo[c]
            shape == shapes[c]
        IN  /\ cache[entry.data_cache + 1].lines = shape.data
            /\ cache[entry.data_cache + 1].flags = (IF shape.unified THEN "unified" ELSE "data")
            /\ shape.unified => entry.ins_cache = ListEnd
            /\ ~shape.unified => /\ cache[entry.ins_cache + 1].lines = shape.ins
                                 /\ cache[entry.ins_cache + 1].flags = "instr"

\* The kernel finds S3_0_C0_C<n>_<m> of a CPU at its number, that CPU's own;
\* the last two, which startup does not store, read as zero.
IdDumpOwn ==
    \A c \in 1 .. NumCpus, n \in 1 .. 7, m \in 0 .. 7 :
        idreg[(c - 1) * AARCH64_IDDUMP_ENTRIES + (n - 1) * 8 + m + 1] =
            IF c \in DOMAIN cpuinfo /\ ~(n = 7 /\ m >= 6) THEN IdRegister(shapes[c], n, m) ELSE <<>>

Tree == INSTANCE HwTree WITH items <- read

\* Every call adds items, gives the last item tags, or assigns one tag: what
\* was in the section before stays as it reads (hwi_alloc.c).
ImplementsHwTree == Tree!Spec

\* Whatever was said in whatever order, the sections read back as it was said:
\* the chain of items, the names kept as offsets, each CPU's caches and registers.
TablesReadAsSaid == SectionReadable /\ NamesKept /\ CacheListsOwn /\ IdDumpOwn
=============================================================================
