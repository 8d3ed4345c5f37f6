-------------------------- MODULE FirmwareTables --------------------------
(***************************************************************************)
(* What startup reads of the tables firmware leaves: the flattened device  *)
(* tree, from the address of its blob (fdt_init.c, fdt_init_bootopt.c) to  *)
(* memory, interrupts and properties (init_raminfo_fdt.c, fdt_get_*.c); the *)
(* list of ACPI tables (acpi.c) and the SMBIOS structures, the last two by *)
(* the configuration tables of UEFI (uefi.c, board_find_*.c).              *)
(***************************************************************************)
EXTENDS Naturals, Integers, Sequences, SequencesExt, FiniteSets

CONSTANTS Trees,        \* device trees: nodes in document order, reservations
          Word,         \* values of a cell
          Blobs,        \* what a header at an address says: [ok, size]
          Passed,       \* addresses the loader passes: [reg, arg]
          Acpis         \* UEFI: what is wrong with its service pointers, its
                      \* configuration tables; ACPI: the table at each address

FDT_ERR_NOTFOUND == 1
FDT_ERR_BADOFFSET == 4
FDT_ERR_BADSTRUCTURE == 11
FDT_ERR_BADNCELLS == 14
FDT_MAX_NCELLS == 4
NULL_PADDR == -1
\* Shorter than the code's eight.
REG_CHUNK == 2

VARIABLES fdt,          \* fdt_paddr, fdt_size; whether fdt is set, and by an option
          tree, todo, node, idx, nrsv,      \* init_raminfo_fdt()
          avoided, added, taken,            \* what it told the RAM manager
          cache, asked,         \* fdt_get_intr_cells()'s; the last query
          acpi, tbl_array, num_tbls, entries,   \* acpi.c; what it as_add()ed
          search, last, got,    \* a search: its name, its last table, all of them
          efi_system_table,     \* "null", or "given" by the entry point
          smbios_table, wanted, \* the one in use; the last type asked for, what it got
          recorded              \* configuration tables that were as_add()ed
scan == <<todo, node, idx, nrsv>>
told == <<avoided, added, taken>>
uefi == <<efi_system_table, smbios_table, wanted, recorded>>
smbios == <<smbios_table, wanted>>
tables == <<tbl_array, num_tbls, entries, search, last, got, uefi>>
vars == <<fdt, tree, scan, told, cache, asked, acpi, tables>>

-----------------------------------------------------------------------------
(* A node: its parent, its phandle, its name and the unit after the "@" of *)
(* it, and the cells of each of its properties; a text is its words, each  *)
(* with its NUL.                                                           *)

NUL == ""
NULL == ""
NoUnit == -1

Has(n, name) == name \in DOMAIN tree.nodes[n].props
getprop(n, name) == tree.nodes[n].props[name]
Fails(e) == [r |-> -e, val |-> <<>>]
Number(cells) == FoldLeft(LAMBDA v, c : v * Word + c, 0, cells)

\* So many cells at an offset in bytes; the offset of what follows, if any.
Extract(n, offset, name, width) ==
    IF ~Has(n, name) THEN Fails(FDT_ERR_NOTFOUND)
    ELSE LET p == getprop(n, name)
             past == offset + 4 * width
         IN  IF past > 4 * Len(p) THEN Fails(FDT_ERR_BADSTRUCTURE)
             ELSE [r |-> IF past < 4 * Len(p) THEN past ELSE 0,
                   val |-> Number(SubSeq(p, offset \div 4 + 1, past \div 4))]
fdt_get_u32(n, offset, name) == Extract(n, offset, name, 1)
fdt_get_int(n, offset, name) == fdt_get_u32(n, offset, name)
fdt_get_u64(n, offset, name) == Extract(n, offset, name, 2)

\* One cell or two, and nothing more.
fdt_get_num64(n, name) ==
    IF ~Has(n, name) THEN Fails(FDT_ERR_NOTFOUND)
    ELSE IF Len(getprop(n, name)) \in 1 .. 2 THEN [r |-> 0, val |-> Number(getprop(n, name))]
    ELSE Fails(FDT_ERR_BADSTRUCTURE)

fdt_get_str(n, name) ==
    IF ~Has(n, name) THEN Fails(FDT_ERR_NOTFOUND)
    ELSE IF getprop(n, name) = <<>> \/ Last(getprop(n, name)) # NUL THEN Fails(FDT_ERR_BADSTRUCTURE)
    ELSE [r |-> 0, val |-> getprop(n, name)]

\* External: of the parent, with the defaults of the device tree.
fdt_address_cells(p) == IF Has(p, "#address-cells") THEN getprop(p, "#address-cells")[1] ELSE 2
fdt_size_cells(p) == IF Has(p, "#size-cells") THEN getprop(p, "#size-cells")[1] ELSE 1

\* Entries of "reg" from index on, at most num; what is returned is how many
\* the property still has.
RegAt(reg, ac, each, i) == [addr |-> Number(SubSeq(reg, i * each + 1, i * each + ac)),
                            size |-> Number(SubSeq(reg, i * each + ac + 1, (i + 1) * each))]
\* Mutant: the index is not looked at.
RegFirst(reg, ac, each, i) == RegAt(reg, ac, each, 0)
Reg(reg, ac, each, i) == RegAt(reg, ac, each, i)
fdt_get_reg64_cells(n, index, num, addr, size) ==
    LET parent == tree.nodes[n].parent
        ac == fdt_address_cells(parent)
        each == ac + fdt_size_cells(parent)
        reg == getprop(n, "reg")
        len == Len(reg) \div each - index
        r == IF ~Has(n, "reg") \/ parent = 0 THEN -FDT_ERR_NOTFOUND
             ELSE IF ac \notin 1 .. 2 \/ each - ac \notin 0 .. 2 THEN -FDT_ERR_BADNCELLS
             ELSE IF Len(reg) % each # 0 THEN -FDT_ERR_BADOFFSET
             ELSE IF len <= 0 THEN -FDT_ERR_NOTFOUND
             ELSE IF addr /\ (each = ac) = size THEN -FDT_ERR_BADNCELLS
             ELSE len
        read == IF ~addr \/ r < 0 THEN 0 ELSE IF r < num THEN r ELSE num
    IN  [r |-> r, val |-> [i \in 1 .. read |-> Reg(reg, ac, each, index + i - 1)]]

\* One entry; without a place for its address, how many there are.
fdt_get_reg64(n, index, addr) ==
    LET q == fdt_get_reg64_cells(n, index, 1, addr, addr)
    IN  IF addr /\ q.r >= 0 THEN [r |-> 0, val |-> q.val[1]] ELSE [r |-> q.r, val |-> <<>>]
UINT_MAX == Word - 1
INT_MAX == Word \div 2 - 1
fdt_get_reg32(n, index, addr) ==
    LET q == fdt_get_reg64(n, index, addr)
    IN  IF addr /\ q.r >= 0 /\ (q.val.addr > UINT_MAX \/ q.val.size > UINT_MAX)
        THEN Fails(FDT_ERR_BADSTRUCTURE) ELSE q

\* The first address of a "reg" without sizes; the unit of the name when there
\* is no "reg".
fdt_get_reg_addr(n) ==
    LET q == fdt_get_reg64_cells(n, 0, 1, TRUE, FALSE)
        unit == tree.nodes[n].unit
        found == CASE q.r >= 0 -> [r |-> q.r, val |-> q.val[1].addr]
                   [] q.r = -FDT_ERR_NOTFOUND /\ unit \in Nat -> [r |-> 0, val |-> unit]
                   [] OTHER -> [r |-> q.r, val |-> <<>>]
    IN  IF found.r >= 0 /\ found.val > UINT_MAX THEN Fails(FDT_ERR_BADSTRUCTURE) ELSE found
fdt_get_reg_int(n) ==
    LET q == fdt_get_reg_addr(n)
    IN  IF q.r >= 0 /\ q.val > INT_MAX THEN Fails(FDT_ERR_BADSTRUCTURE) ELSE q

-----------------------------------------------------------------------------
(* Nodes by what they are.                                                 *)

\* External: the first of some nodes after one; strcasecmp().
NextOf(ns, n) == LET later == {m \in ns : m > n}
                 IN  IF later = {} THEN -FDT_ERR_NOTFOUND ELSE CHOOSE m \in later : \A k \in later : m <= k
SameButCase(v, w) == v = w \/ {v, w} = {"cpu", "CPU"}
fdt_node_offset_by_prop_value(n, name, text) ==
    NextOf({m \in DOMAIN tree.nodes : Has(m, name) /\ getprop(m, name) = text}, n)
Compatible(compatible) ==
    {m \in DOMAIN tree.nodes : Has(m, "compatible") /\ compatible \in Range(getprop(m, "compatible"))}

\* Of those compatible, the first of the type, unless one before it has a type
\* that is no text.
TypeMatters(m, type) ==
    LET q == fdt_get_str(m, "device_type")
    IN  q.r # -FDT_ERR_NOTFOUND /\ (q.r < 0 \/ SameButCase(Head(q.val), type))
fdt_find_node(n, type, compatible) ==
    LET stop == NextOf({m \in Compatible(compatible) : type = NULL \/ TypeMatters(m, type)}, n)
        r == fdt_get_str(stop, "device_type").r
    IN  IF compatible = NULL
        THEN IF type = NULL THEN NextOf(DOMAIN tree.nodes, n)
             ELSE fdt_node_offset_by_prop_value(n, "device_type", <<type, NUL>>)
        ELSE IF stop > 0 /\ type # NULL /\ r < 0 THEN r ELSE stop

\* A name without a unit is that of any unit.
fdt_nodename_eq(m, name, unit) == tree.nodes[m].name = name /\ unit \in {NoUnit, tree.nodes[m].unit}
fdt_node_offset_by_nodename(n, name, unit) ==
    NextOf({m \in DOMAIN tree.nodes : fdt_nodename_eq(m, name, unit)}, n)

\* Zero when there is none: no node but the root counts.
fdt_get_cpu_freq ==
    LET n == fdt_node_offset_by_prop_value(0, "device_type", <<"cpu", NUL>>)
        names == SelectSeq(<<"clock-frequency", "cpu-frequency">>, LAMBDA name : Has(n, name))
    IN  IF n <= 1 \/ names = <<>> THEN 0
        ELSE IF getprop(n, Head(names)) = <<>> THEN 0 ELSE getprop(n, Head(names))[1]

\* The third interrupt of the timer and its frequency; no tree, or a crash.
NO_TIMER == [r |-> "crash", freq |-> 0, intr |-> 0]
fdt_qtime ==
    LET n == NextOf(Compatible("arm,armv8-timer"), 0)
        intr == getprop(n, "interrupts")
        freq == getprop(n, "clock-frequency")
    IN  IF ~fdt.mapped THEN [NO_TIMER EXCEPT !.r = "none"]
        ELSE IF n <= 1 \/ ~Has(n, "interrupts") \/ ~Has(n, "clock-frequency") THEN NO_TIMER
        ELSE IF Len(intr) < 9 \/ freq = <<>> THEN NO_TIMER
        ELSE [r |-> "ok", freq |-> freq[1], intr |-> intr[8] + 16 + (IF intr[7] = 0 THEN 16 ELSE 0)]

-----------------------------------------------------------------------------
(* The blob: a board that tweaks command lines opens the one in the        *)
(* register, an option the one it names; the first address tried is kept.  *)

opening == <<tree, node, idx, nrsv, told, cache, asked, acpi, tables>>
\* The tweak comes before the options.
fdt_init ==
    /\ todo = "open" /\ ~fdt.option /\ ~fdt.mapped
    /\ LET size == IF Blobs[fdt.reg].ok THEN Blobs[fdt.reg].size ELSE fdt.size
       IN  fdt' = [fdt EXCEPT !.paddr = fdt.reg, !.size = size, !.mapped = size # 0]
    /\ UNCHANGED <<todo, opening>>

\* Without arguments the address stays; a wrong one is kept, a wrong header
\* ends the boot.
fdt_init_bootopt ==
    /\ todo = "open"
    /\ \E from \in {"reg", "arg"} :
         LET paddr == IF fdt.paddr # 0 \/ fdt.size # 0 THEN fdt.paddr ELSE fdt[from]
             tried == paddr # fdt.paddr /\ paddr % 4 = 0
             size == IF tried THEN Blobs[paddr].size ELSE fdt.size
             good == tried /\ Blobs[paddr].ok /\ size # 0
         IN  /\ fdt' = [fdt EXCEPT !.option = TRUE, !.paddr = paddr, !.size = size,
                                   !.mapped = @ \/ good]
             /\ todo' = IF tried /\ ~good THEN "crashed" ELSE todo
    /\ UNCHANGED opening

\* init_raminfo_fdt() has nothing to read without a tree.
Begin == /\ todo = "open" /\ todo' = (IF fdt.mapped THEN "avoid" ELSE "done")
         /\ UNCHANGED <<fdt, opening>>

\* init_system_private(): a blob an option asked for is kept.
KeepBlob == /\ todo = "done" /\ fdt.option /\ fdt.mapped
            /\ taken' = taken \union {<<fdt.paddr, fdt.size>>}
            /\ UNCHANGED <<fdt, tree, scan, avoided, added, cache, asked, acpi, tables>>

-----------------------------------------------------------------------------
(* init_raminfo_fdt().                                                     *)

Reserve == /\ todo = "avoid"
           /\ IF nrsv = 0 THEN todo' = "memory" /\ nrsv' = Len(tree.rsv) /\ UNCHANGED avoided
              ELSE nrsv' = nrsv - 1 /\ avoided' = avoided \union {tree.rsv[nrsv]} /\ UNCHANGED todo
           /\ UNCHANGED <<fdt, tree, node, idx, added, taken, cache, asked, acpi, tables>>

\* The next node of type "memory".
Memory == /\ todo = "memory"
          /\ LET next == fdt_node_offset_by_prop_value(node, "device_type", <<"memory", NUL>>)
             IN  IF next < 0 THEN todo' = "alloc" /\ UNCHANGED <<node, idx>>
                 ELSE node' = next /\ idx' = 0 /\ todo' = "reg"
          /\ UNCHANGED <<fdt, tree, nrsv, told, cache, asked, acpi, tables>>

\* All that are left are added; the arrays hold a chunk, and past their end
\* is whatever the stack holds.
Garbage == [addr |-> -1, size |-> -1]
Chunk == /\ todo = "reg"
         /\ LET regs == fdt_get_reg64_cells(node, idx, REG_CHUNK, TRUE, TRUE)
            IN  IF regs.r <= 0 THEN todo' = "memory" /\ UNCHANGED <<idx, added>>
                ELSE /\ added' = added \union {IF i \in DOMAIN regs.val THEN regs.val[i] ELSE Garbage : i \in 1 .. regs.r}
                     /\ idx' = idx + regs.r /\ UNCHANGED todo
         /\ UNCHANGED <<fdt, tree, node, nrsv, avoided, taken, cache, asked, acpi, tables>>
Take == /\ todo = "alloc"
        /\ IF nrsv = 0 THEN todo' = "done" /\ UNCHANGED <<nrsv, taken>>
           ELSE nrsv' = nrsv - 1 /\ taken' = taken \union {tree.rsv[nrsv]} /\ UNCHANGED todo
        /\ UNCHANGED <<fdt, tree, node, idx, avoided, added, cache, asked, acpi, tables>>
init_raminfo_fdt == Reserve \/ Memory \/ Chunk \/ Take

-----------------------------------------------------------------------------
(* The interrupt controller of a node: up the interrupt parents, or the    *)
(* tree, to the first with "#interrupt-cells".                             *)

ByPhandle(p) == LET ns == {n \in DOMAIN tree.nodes : tree.nodes[n].phandle = p}
                IN  IF ns = {} THEN -FDT_ERR_NOTFOUND ELSE CHOOSE n \in ns : TRUE
Parent(n) == IF tree.nodes[n].parent = 0 THEN -FDT_ERR_NOTFOUND ELSE tree.nodes[n].parent

\* One turn of the loop; the last look-up by phandle is kept.
HitAny(c, phandle) == c # <<>>
Hit(c, phandle) == c # <<>> /\ c.phandle = phandle
Turn(s) ==
    LET ip == fdt_get_u32(s.node, 0, "interrupt-parent")
        handle == IF ip.r = 0 THEN ip.val ELSE IF ip.r = -FDT_ERR_NOTFOUND THEN -1 ELSE s.phandle
        up == IF ip.r = 0 THEN ByPhandle(handle)
              ELSE IF ip.r = -FDT_ERR_NOTFOUND THEN Parent(s.node) ELSE ip.r
        cells == fdt_get_int(up, 0, "#interrupt-cells")
        stop(r, p, c) == [s EXCEPT !.done = TRUE, !.r = r, !.parent = p, !.cache = c]
    IN  IF s.done THEN s
        ELSE IF ip.r = 0 /\ Hit(s.cache, ip.val) THEN stop(s.cache.cells, s.cache.parent, s.cache)
        ELSE IF ip.r > 0 THEN stop(-FDT_ERR_BADOFFSET, 0, s.cache)
        ELSE IF up < 0 THEN stop(up, 0, s.cache)
        ELSE IF cells.r >= 0 THEN
             IF cells.r # 0 \/ cells.val \notin 1 .. FDT_MAX_NCELLS THEN stop(-FDT_ERR_BADNCELLS, 0, s.cache)
             ELSE stop(cells.val, up, IF handle = -1 THEN s.cache
                                      ELSE [phandle |-> handle, parent |-> up, cells |-> cells.val])
        ELSE IF cells.r # -FDT_ERR_NOTFOUND THEN stop(cells.r, 0, s.cache)
        ELSE [s EXCEPT !.node = up, !.phandle = handle]

\* No chain of a tree without circles is longer than its nodes.
fdt_get_intr_cells(n, c) ==
    FoldLeft(LAMBDA s, k : Turn(s),
             [node |-> n, phandle |-> -1, done |-> FALSE, r |-> 0, parent |-> 0, cache |-> c],
             tree.nodes)

\* The interrupts of a node, in the controller's cells.
fdt_get_intr(n, c) ==
    LET s == fdt_get_intr_cells(n, c)
        intr == getprop(n, "interrupts")
        answer(r) == [node |-> n, r |-> r, controller |-> s.parent]
    IN  [cache |-> s.cache,
         asked |-> IF s.r < 0 THEN answer(s.r)
                   ELSE IF \/ s.r >= FDT_MAX_NCELLS
                           \/ ~Has(s.parent, "interrupt-controller")
                           \/ Len(intr) % s.r # 0
                   THEN answer(-FDT_ERR_BADSTRUCTURE)
                   ELSE answer(Len(intr) \div s.r)]
Interrupts == /\ todo = "done" /\ fdt.mapped
              /\ \E n \in DOMAIN tree.nodes :
                    /\ Has(n, "interrupts")
                    /\ LET q == fdt_get_intr(n, cache) IN asked' = q.asked /\ cache' = q.cache
              /\ UNCHANGED <<fdt, tree, scan, told, acpi, tables>>

-----------------------------------------------------------------------------
(* The configuration tables of UEFI.                                       *)

\* The pointers to the services and the three signatures.
is_uefi_boot == acpi.faults = {}

\* The first under a name, and under the first name there is one of.
uefi_find_config_tbl(guid) ==
    LET hits == SelectSeq(acpi.cfg, LAMBDA t : t.guid = guid)
    IN  IF hits = <<>> THEN <<>> ELSE <<Head(hits)>>
ByGuids(guids) ==
    FoldLeft(LAMBDA found, guid : IF found = <<>> THEN uefi_find_config_tbl(guid) ELSE found, <<>>, guids)

\* The version 3 table before the older one; from then on the same.
board_find_efi_smbios_table ==
    IF smbios_table # <<>> THEN smbios_table ELSE ByGuids(<<"smbios3", "smbios">>)

\* Up to the structure that ends the table, or up to its length: where the
\* walk gets to, from the first structure.
Steps(structs, len, type) ==
    LET at[i \in DOMAIN structs] == IF i = 1 THEN 0 ELSE at[i - 1] + structs[i - 1].size
        passed(i) == \A j \in 1 .. i - 1 : structs[j].type \notin {type, 127} /\ at[j + 1] < len
    IN  {i \in DOMAIN structs : passed(i)}
board_find_efi_smbios_by_type ==
    /\ todo = "done" /\ efi_system_table = "given"
    /\ \E type \in {1, 4} :
         LET table == board_find_efi_smbios_table
             hits == {i \in Steps(Head(table).structs, Head(table).len, type) :
                         Head(table).structs[i].type = type}
         IN  /\ smbios_table' = table
             /\ wanted' = [type |-> type, got |-> IF table = <<>> THEN {} ELSE hits]
             /\ recorded' = IF smbios_table # <<>> \/ table = <<>> THEN recorded
                            ELSE Append(recorded, Head(table).guid)
    /\ UNCHANGED <<fdt, tree, scan, told, cache, asked, acpi, tbl_array, num_tbls, entries, search,
                   last, got, efi_system_table>>

-----------------------------------------------------------------------------
(* ACPI.                                                                   *)

\* The entries; a fixed description's DSDT follows it, when the extended
\* list is used.  It looks at the slot just filled by index of the entry.
Rsdt(t) == t.entries
StepXsdt(s, e) == LET all == Append(s.all, e)
                      seen == acpi.tables[all[s.i]]
                  IN  [i |-> s.i + 1,
                       all |-> IF seen.sig = "FACP" /\ seen.dsdt # NULL_PADDR THEN Append(all, seen.dsdt) ELSE all]
NoDsdt(t) == t.entries
Xsdt(t) == FoldLeft(StepXsdt, [i |-> 1, all |-> <<>>], t.entries).all
\* The pointer of ACPI 2.0 before that of 1.0; none without UEFI.
board_find_acpi_rsdp_uefi == ByGuids(<<"acpi20", "acpi10">>)
board_find_acpi_rsdp == IF is_uefi_boot THEN board_find_acpi_rsdp_uefi ELSE <<>>
Listing(root) == IF root.rev = 0 \/ root.xsdt = 0 THEN Rsdt(acpi.tables[root.rsdt])
                 ELSE Xsdt(acpi.tables[root.xsdt])

\* From the one after start_search, or from the first.
AfterLast(all, start_search) == IF start_search = NULL_PADDR THEN 1 ELSE Len(all) + 1
After(all, start_search) == IF start_search = NULL_PADDR THEN 1
                            ELSE IF start_search \in Range(all)
                                 THEN 1 + CHOOSE i \in DOMAIN all : all[i] = start_search
                                 ELSE Len(all) + 1
Search(all, name, start_search) ==
    LET hits == {i \in After(all, start_search) .. Len(all) : acpi.tables[all[i]].sig = name}
    IN  IF hits = {} THEN NULL_PADDR ELSE all[CHOOSE i \in hits : \A j \in hits : i <= j]

\* The first call looks for the root pointer, which records it, and makes the
\* list; without one there is none.  is_uefi_boot() leaves the system table as
\* the entry point gave it, or none.  A caller goes on from the table it got,
\* and begins again after the last.
acpi_find_table_next ==
    /\ todo = "done"
    /\ LET root == IF num_tbls = -1 THEN board_find_acpi_rsdp ELSE <<>>
           all == IF root = <<>> THEN tbl_array ELSE Listing(Head(root))
           fresh == last = NULL_PADDR
       IN  /\ tbl_array' = all /\ num_tbls' = Len(all)
           /\ efi_system_table' = (IF num_tbls # -1 THEN efi_system_table
                                   ELSE IF is_uefi_boot THEN "given" ELSE "null")
           /\ recorded' = (IF root = <<>> THEN recorded ELSE Append(recorded, Head(root).guid))
           /\ \E name \in (IF fresh THEN {"FACP", "APIC", "DSDT"} ELSE {search}) :
                /\ search' = name /\ last' = Search(all, name, last)
                /\ got' = (IF fresh THEN {} ELSE got) \union ({last'} \ {NULL_PADDR})
    /\ UNCHANGED <<fdt, tree, scan, told, cache, asked, acpi, entries, smbios>>

\* add_acpi_table(): each table becomes an entry of the address space.
add_acpi_table == /\ num_tbls > 0 /\ entries' = Range(tbl_array)
                  /\ UNCHANGED <<fdt, tree, scan, told, cache, asked, acpi, tbl_array, num_tbls, search, last, got, uefi>>

\* An entry point for UEFI boots calls this first.
uefi_init == is_uefi_boot /\ efi_system_table = "given"

Init == /\ tree \in Trees /\ acpi \in Acpis
        /\ \E p \in Passed : fdt = [reg |-> p.reg, arg |-> p.arg, paddr |-> 0, size |-> 0,
                                  mapped |-> FALSE, option |-> FALSE]
        /\ todo = "open" /\ node = 0 /\ idx = 0 /\ nrsv = Len(tree.rsv)
        /\ avoided = {} /\ added = {} /\ taken = {} /\ cache = <<>> /\ asked = <<>>
        /\ tbl_array = <<>> /\ num_tbls = -1 /\ entries = {}
        /\ search = "" /\ last = NULL_PADDR /\ got = {}
        /\ efi_system_table \in {"null", "given"} /\ (efi_system_table = "null" \/ uefi_init)
        /\ smbios_table = <<>> /\ wanted = [type |-> 0, got |-> {}] /\ recorded = <<>>
Next == \/ fdt_init \/ fdt_init_bootopt \/ Begin \/ KeepBlob
        \/ init_raminfo_fdt \/ Interrupts \/ acpi_find_table_next \/ add_acpi_table
        \/ board_find_efi_smbios_by_type
Spec == Init /\ [][Next]_vars

-----------------------------------------------------------------------------
(* Properties.                                                             *)

\* A tree is read, and its blob kept, only from an address the loader passed
\* that has the header of a tree, and with that header's size.
TreeIsGiven ==
    LET head == Blobs[fdt.paddr]
        blob == <<fdt.paddr, fdt.size>>
    IN  /\ fdt.mapped => head.ok /\ head.size = fdt.size /\ fdt.paddr \in {fdt.reg, fdt.arg}
        /\ todo \notin {"open", "crashed"} /\ ~fdt.mapped => avoided = {} /\ added = {} /\ taken = {}
        /\ taken \subseteq Range(tree.rsv) \union (IF fdt.mapped /\ fdt.option THEN {blob} ELSE {})

\* The RAM manager hears of exactly the regions the memory nodes list, each
\* reservation avoided before and taken after, as long as no node lists more
\* than a chunk; a list of broken length counts for nothing.
Cells(n) == fdt_address_cells(tree.nodes[n].parent) + fdt_size_cells(tree.nodes[n].parent)
MemoryNodes == {n \in DOMAIN tree.nodes : Has(n, "device_type") /\ getprop(n, "device_type") = <<"memory", NUL>>}
RegionsIn(n) == {k \in 0 .. Len(getprop(n, "reg")) - 1 :
                    k % Cells(n) = 0 /\ Len(getprop(n, "reg")) % Cells(n) = 0}
Described(n, k) ==
    LET ac == fdt_address_cells(tree.nodes[n].parent)
        value(i, m) == IF m = 1 THEN getprop(n, "reg")[i]
                       ELSE getprop(n, "reg")[i] * Word + getprop(n, "reg")[i + 1]
    IN  [addr |-> value(k + 1, ac), size |-> value(k + 1 + ac, Cells(n) - ac)]
RamAsDescribed ==
    todo = "done" /\ fdt.mapped /\ (\A n \in MemoryNodes : Cardinality(RegionsIn(n)) <= REG_CHUNK) =>
        /\ added = UNION {{Described(n, k) : k \in RegionsIn(n)} : n \in MemoryNodes}
        /\ avoided = Range(tree.rsv) /\ avoided \subseteq taken

\* The readers of properties agree: a wide number is its halves, one after the
\* other; a narrow reader gives what the wide one gives, or fails; and the
\* timer's interrupt is the third of those the controller of the timer counts.
\* Evaluated where reading begins.
AllNodes == DOMAIN tree.nodes
Texts == {"device_type", "compatible"}
NumbersAgree(n, name) ==
    LET whole == fdt_get_u64(n, 0, name)
        high == fdt_get_u32(n, 0, name)
        low == fdt_get_u32(n, high.r, name)
        num == fdt_get_num64(n, name)
    IN  /\ whole.r >= 0 <=> high.r > 0
        /\ whole.r >= 0 => whole.val = high.val * Word + low.val /\ whole.r = low.r
        /\ num.r = 0 <=> high.r = 0 \/ (whole.r = 0)
        /\ num.r = 0 => num.val = (IF high.r = 0 THEN high.val ELSE whole.val)
RegsAgree(n) ==
    LET all == fdt_get_reg64(n, 0, FALSE).r
        one(i) == fdt_get_reg64(n, i, TRUE)
        narrow(i) == fdt_get_reg32(n, i, TRUE)
        addr == fdt_get_reg_addr(n)
    IN  /\ all > 0 =>
              /\ fdt_get_reg64(n, all, TRUE).r = -FDT_ERR_NOTFOUND
              /\ Cells(n) > fdt_address_cells(tree.nodes[n].parent) =>
                    \A i \in 0 .. all - 1 :
                        /\ one(i) = [r |-> 0, val |-> Described(n, i * Cells(n))]
                        /\ narrow(i) \in {one(i), Fails(FDT_ERR_BADSTRUCTURE)}
              /\ addr.r > 0 => addr.val = Number(SubSeq(getprop(n, "reg"), 1, Cells(n)))
        /\ addr.r = 0 => ~Has(n, "reg") /\ addr.val = tree.nodes[n].unit
        /\ fdt_get_reg_int(n) \in {addr, Fails(FDT_ERR_BADSTRUCTURE)}
TimerAgrees ==
    LET n == NextOf(Compatible("arm,armv8-timer"), 0)
        counted == fdt_get_intr(n, <<>>).asked.r
    IN  /\ fdt_qtime.r = "ok" /\ fdt_get_intr_cells(n, <<>>).r = 3 => counted >= 3
        /\ fdt_qtime.r = "ok" =>
              LET third == SubSeq(getprop(n, "interrupts"), 7, 9)
              IN  fdt_qtime.intr = third[2] + (IF third[1] = 0 THEN 32 ELSE 16)
GettersAgree ==
    todo = "avoid" /\ nrsv = Len(tree.rsv) =>
        /\ \A n \in AllNodes : RegsAgree(n) /\ \A name \in DOMAIN tree.nodes[n].props \ Texts : NumbersAgree(n, name)
        /\ TimerAgrees

\* A search for nodes, begun anywhere and gone on with from what it found,
\* meets each node that fits and no other, in order; a type that is no text
\* stops a search by compatible string, and only that.
Fits(n, type, compatible) ==
    /\ compatible # NULL => n \in Compatible(compatible)
    /\ type # NULL => /\ fdt_get_str(n, "device_type").r = 0
                      /\ SameButCase(Head(getprop(n, "device_type")), type)
FindsAll ==
    todo = "avoid" /\ nrsv = Len(tree.rsv) =>
        \A type \in {NULL, "cpu", "memory"}, compatible \in {NULL, "arm,cortex-a53", "arm,armv8-timer"} :
            \A n \in AllNodes \union {0} :
                LET found == fdt_find_node(n, type, compatible)
                    broken == {m \in IF compatible = NULL THEN {} ELSE Compatible(compatible) :
                                  m > n /\ fdt_get_str(m, "device_type").r = -FDT_ERR_BADSTRUCTURE}
                    before == IF found = -FDT_ERR_BADSTRUCTURE THEN NextOf(broken, n)
                              ELSE IF found < 0 THEN Len(tree.nodes) + 1 ELSE found
                IN  /\ found > 0 => found > n /\ Fits(found, type, compatible)
                    /\ found < 0 => found = (IF type # NULL /\ broken # {} THEN -FDT_ERR_BADSTRUCTURE
                                             ELSE -FDT_ERR_NOTFOUND)
                    /\ compatible # NULL \/ type = NULL =>
                          \A m \in n + 1 .. before - 1 : ~Fits(m, type, compatible)

\* Whatever was asked before, a node's interrupts are those of its own
\* controller: the cache never answers for another phandle.
OwnController ==
    asked # <<>> => /\ asked = fdt_get_intr(asked.node, <<>>).asked
                    /\ asked.r > 0 => asked.controller = tree.nodes[asked.node].meant

\* The root pointers a UEFI boot hands over.
Pointers == IF acpi.faults # {} THEN {} ELSE {t \in Range(acpi.cfg) : t.guid \in {"acpi20", "acpi10"}}

\* A search that came to its end has met every table of that name, the DSDT
\* of an extended list included, and no other; a structure is found when
\* there is one before the end of its table, and then the first; and a table
\* of the firmware is recorded once, when it is used.
TablesFound ==
    LET newer == {t \in Pointers : t.guid = "acpi20"}
        root == CHOOSE t \in (IF newer = {} THEN Pointers ELSE newer) : TRUE
        extended == root.rev > 0 /\ root.xsdt # 0
        listed == IF Pointers = {} THEN {}
                  ELSE Range(acpi.tables[IF extended THEN root.xsdt ELSE root.rsdt].entries)
        linked == {acpi.tables[a].dsdt : a \in {a \in listed : extended /\ acpi.tables[a].sig = "FACP"}}
        before == {i \in DOMAIN Head(smbios_table).structs :
                      \A j \in 1 .. i - 1 : Head(smbios_table).structs[j].type # 127}
        alike == {i \in before : Head(smbios_table).structs[i].type = wanted.type}
    IN  /\ num_tbls # -1 /\ last = NULL_PADDR =>
            got = {a \in (listed \union linked) \ {NULL_PADDR} : acpi.tables[a].sig = search}
        /\ smbios_table # <<>> => wanted.got = {i \in alike : \A j \in alike : i <= j}
        /\ IsInjective(recorded)
        /\ Range(recorded) = {t.guid : t \in Range(smbios_table)}
                             \union (IF num_tbls = -1 \/ Pointers = {} THEN {} ELSE {root.guid})

\* "Number of extracted elements in the value array" (fdt_get_reg64_cells.c:47):
\* no caller is told of more than were extracted.
ExtractedIsReturned == NULL_PADDR \notin {x.addr : x \in added}
=============================================================================
