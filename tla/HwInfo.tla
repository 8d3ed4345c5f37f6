------------------------------- MODULE HwInfo -------------------------------
(***************************************************************************)
(* The hwinfo section of the system page: items and tags laid end to end   *)
(* in one growing array of words (hwi_alloc.c), the calls that add buses   *)
(* and devices with their tags (hwibus_*.c, hwidev_*.c, hwitag_*.c), and   *)
(* the string tables whose growth moves it (strings.c).  A character of    *)
(* the plain table and a word of the typed one remember the string they    *)
(* belong to; offsets count from 0.                                        *)
(*                                                                         *)
(* A word is a pair: <<size, name>> in a prefix, <<itemsize, itemname>>    *)
(* and <<owner, kids>> in an item, <<value, 0>> elsewhere.                 *)
(***************************************************************************)
EXTENDS Integers, Sequences, SequencesExt

CONSTANTS
    StrLen,      \* strlen() of each name, never 0
    TypedWords,  \* words of each typed value, its NUL included
    StrChunk     \* "grow by chunk of 128 bytes"

Nul == "nul"
None == "none"   \* _CS_NONE, which ends the typed table

Zeros(n, zero) == [k \in 1 .. n |-> zero]
Round(n, to) == to * ((n + to - 1) \div to)

-----------------------------------------------------------------------------
(* Typed strings: the type in a word, then the value.                      *)

TypedEnd(typed, i) == i + 1 + TypedWords[typed[i + 2]]

RECURSIVE FindFrom(_, _, _)
FindFrom(typed, type, i) ==
    CASE typed[i + 1] = type -> i
      [] typed[i + 1] # type /\ typed[i + 1] = None -> -1
      [] OTHER -> FindFrom(typed, type, TypedEnd(typed, i))
FindTyped(typed, type) == FindFrom(typed, type, 0)

\* What follows moves down; zeros fill up to where the table ended.
DelTyped(typed, type) ==
    LET i == FindTyped(typed, type)
        j == TypedEnd(typed, i)
        end == FindTyped(typed, None)
    IN  IF i < 0 THEN typed
        ELSE SubSeq(typed, 1, i) \o SubSeq(typed, j + 1, end) \o Zeros(j - i, None)
                 \o SubSeq(typed, end + 1, Len(typed))

TypedEntry(type, value) == <<type>> \o Zeros(TypedWords[value], value)

Overwrite(seq, i, new) == SubSeq(seq, 1, i) \o new \o SubSeq(seq, i + Len(new) + 1, Len(seq))

\* add_typed_string(): a value replaces the one of its type.
AddTyped(typed, type, value) ==
    LET t == DelTyped(typed, type)
        i == FindTyped(t, None)
        need == TypedWords[value] + 2
        spare == Len(t) - i
    IN  Overwrite(IF spare < need THEN t \o Zeros(need - spare, None) ELSE t,
                  i, TypedEntry(type, value))

\* External: what confstr() makes of the table.
TypedValue(typed, type) == LET i == FindTyped(typed, type) IN IF i < 0 THEN None ELSE typed[i + 2]

-----------------------------------------------------------------------------
(* Plain strings, each once, an empty one behind the last.                 *)

Chars(name) == Zeros(StrLen[name], name) \o <<Nul>>

\* __hwi_find_string(): what a reader finds at an offset.
StringAt(strs, off) ==
    LET name == strs[off + 1]
    IN  IF name # Nul /\ SubSeq(strs, off + 1, off + StrLen[name] + 1) = Chars(name) THEN name ELSE Nul

RECURSIVE EndFrom(_, _, _)
EndFrom(strs, name, i) ==
    IF strs[i + 1] \in {Nul, name} THEN i ELSE EndFrom(strs, name, i + StrLen[strs[i + 1]] + 1)

\* The offset add_string() returns: of the name, or of the table's end.
StringOff(strs, name) == EndFrom(strs, name, 0)

StringGrowth(strs, i, need) ==
    IF need > Len(strs) - i THEN Zeros(Round(need - (Len(strs) - i), StrChunk), Nul) ELSE <<>>

AddStringAt(strs, i, name) ==
    IF strs[i + 1] = name THEN strs
    ELSE Overwrite(strs \o StringGrowth(strs, i, StrLen[name] + 2), i, Chars(name))
AddString(strs, name) == AddStringAt(strs, StringOff(strs, name), name)

-----------------------------------------------------------------------------
(* The items and tags.                                                     *)

CONSTANTS
    TagSize,     \* words of each kind of tag, sizeof(struct hwi_<kind>) / 4
    TagAlign,    \* words each kind is aligned to, HWI_TAG_ALIGN_<kind>
    HwChunk      \* "grow by chunk of 128 bytes"

Illegal == 0     \* HWI_ILLEGAL_VECTOR
NullOff == -1    \* HWI_NULL_OFF
Blank == <<0, 0>>

\* A state h is [strs, typed, hw, offset, last_item]: the three sections and
\* the two static variables.  Word 0 of hwinfo lies above the string tables.
Base(h) == Len(h.typed) + Len(h.strs) \div 4

-----------------------------------------------------------------------------
(* hwi_alloc.c.                                                            *)

WithString(h, name) == [h EXCEPT !.strs = AddString(@, name)]

\* The words of the section once this many fit.
Room(h, need) ==
    IF need > Len(h.hw) - h.offset
    THEN h.hw \o Zeros(Round(need - (Len(h.hw) - h.offset), HwChunk), Blank) ELSE h.hw

\* hwi_alloc_tag() once aligned: the item grows by the tag, padding included,
\* and an end mark fits behind it.
Extend(h, size, name) ==
    [h EXCEPT !.hw = [Room(h, size + 1) EXCEPT ![h.last_item + 2][1] = @ + size,
                                               ![h.offset + 1] = <<size, name>>],
              !.offset = @ + size]
Place(h, kind) == Extend(WithString(h, kind), TagSize[kind], StringOff(h.strs, kind))

align_tag(h, align) == IF Round(h.offset, align) = h.offset THEN h ELSE Place(h, "pad")

\* The tag's address is where it lies when the call returns.
Newest(h, size) == [h |-> h, tag |-> Base(h) + h.offset - size]
hwi_alloc_tag(h, kind) == Newest(Place(align_tag(h, TagAlign[kind]), kind), TagSize[kind])

\* A pointer to a tag is good as long as no section below has grown.
Word(r, k) == r.tag - Base(r.h) + k
Put(r, k, value) == [r.h EXCEPT !.hw[Word(r, k)] = <<value, 0>>]

Begin(h) == [h EXCEPT !.last_item = h.offset]
Headed(r, name, owner) ==
    [r EXCEPT !.h.hw = [@ EXCEPT ![Word(r, 2)][2] = name, ![Word(r, 3)] = <<owner, 0>>]]
Adopted(r, owner) == IF owner = NullOff THEN r ELSE [r EXCEPT !.h.hw[owner + 3][2] = @ + 1]
hwi_alloc_item(h, kind, name, owner) ==
    Adopted(Headed(hwi_alloc_tag(Begin(align_tag(WithString(h, name), TagAlign[kind])), kind),
                   StringOff(h.strs, name), owner), owner)

\* hwi_tag2off()
Off(r) == r.tag - Base(r.h)

-----------------------------------------------------------------------------
(* Reading the section, as the hwinfo routines of the library do.          *)

Kind(h, o) == StringAt(h.strs, h.hw[o + 1][2])
ItemEnd(h, o) == o + h.hw[o + 2][1]

RECURSIVE TagsFrom(_, _, _)
TagsFrom(h, o, end) ==
    IF o >= end \/ h.hw[o + 1][1] = 0 THEN <<>> ELSE <<o>> \o TagsFrom(h, o + h.hw[o + 1][1], end)

TagsOf(h, item) ==
    SelectSeq(TagsFrom(h, item + h.hw[item + 1][1], ItemEnd(h, item)),
              LAMBDA t : Kind(h, t) # "pad")

RECURSIVE ItemsFrom(_, _)
ItemsFrom(h, o) ==
    IF h.hw[o + 1][1] = 0 \/ h.hw[o + 2][1] = 0 THEN <<>> ELSE <<o>> \o ItemsFrom(h, ItemEnd(h, o))
ItemsOf(h) == ItemsFrom(h, 0)

ItemName(h, o) == StringAt(h.strs, h.hw[o + 2][2])
Owner(h, o) == h.hw[o + 3][1]

\* hwi_find_item(): the first item with a name, or with a name and an owner so named.
FindNamed(h, name) == SelectSeq(ItemsOf(h), LAMBDA o : ItemName(h, o) = name)
FindUnder(h, above, name) ==
    SelectSeq(FindNamed(h, name),
              LAMBDA o : Owner(h, o) # NullOff /\ ItemName(h, Owner(h, o)) = above)
FirstOr(seq) == IF seq = <<>> THEN NullOff ELSE Head(seq)

\* hwi_tag_find(): the tag of a kind with this index within an item.
TagFind(h, item, kind, k) ==
    LET tags == SelectSeq(TagsOf(h, item), LAMBDA t : Kind(h, t) = kind)
    IN  IF k \in DOMAIN tags THEN tags[k] ELSE NullOff

-----------------------------------------------------------------------------
(* The calls that describe the machine in the section: the tags a device   *)
(* may have, the buses and devices that carry them, and the calls that set *)
(* a tag once it is there (hwibus, hwidev and hwitag calls).               *)

\* A call is the sequence of items and tags it adds.  An item is owned by the
\* item at an offset, or by the first of a name, or of a name below a name.
Item(kind, name, owner, path, value) ==
    [is |-> "item", kind |-> kind, name |-> name, owner |-> owner, path |-> path, value |-> value]
Tag(kind, value) == [is |-> "tag", kind |-> kind, value |-> value]
Named(kind, name) == [is |-> "named", kind |-> kind, name |-> name]

\* The string goes in before the tag: its section lies below this one.
NamedLate(h, kind, name) ==
    LET r == hwi_alloc_tag(h, kind)
    IN  Put([r EXCEPT !.h = WithString(@, name)], 2, StringOff(r.h.strs, name))
NamedTag(h, kind, name) ==
    Put(hwi_alloc_tag(WithString(h, name), kind), 2, StringOff(h.strs, name))

OwnerOf(h, step) ==
    CASE Len(step.path) = 1 -> FirstOr(FindNamed(h, step.path[1]))
      [] Len(step.path) = 2 -> FirstOr(FindUnder(h, step.path[1], step.path[2]))
      [] OTHER -> step.owner

Valued(r, step) == IF step.kind \in {"device", "synonym"} THEN Put(r, 4, step.value) ELSE r.h
NewItem(h, step) == Valued(hwi_alloc_item(h, step.kind, step.name, OwnerOf(h, step)), step)

Do(h, step) ==
    CASE step.is = "item" -> NewItem(h, step)
      [] step.is = "tag" -> Put(hwi_alloc_tag(h, step.kind), 2, step.value)
      [] step.is = "named" -> NamedTag(h, step.kind, step.name)
AllOf(h, steps) == FoldLeft(Do, h, steps)

-----------------------------------------------------------------------------
(* Tags: each is appended to the item made last, whatever hwi_off says.    *)

hwitag_add_location(base) == Tag("location", base)
hwitag_add_irq(vector) == Tag("irq", vector)
hwitag_add_irqrange(first) == Tag("irqrange", first)
hwitag_add_inputclk(clk) == Tag("inputclk", clk)
hwitag_add_busattr == Tag("busattr", 0)
hwitag_add_nicaddr(addr) == Tag("nicaddr", addr)
hwitag_add_nicphyaddr(addr) == Tag("nicphyaddr", addr)
hwitag_add_dma == Tag("dma", 0)
hwitag_add_errata == Tag("errata", 0)
hwitag_add_dll(name) == Named("dll", name)
hwitag_add_optstr(name) == Named("optstr", name)
hwitag_add_regname(name) == Named("regname", name)

Times(n, step) == [k \in 1 .. n |-> step]
Given(name, step) == IF name = Nul THEN <<>> ELSE <<step>>

hwitag_add_common(attr) ==
    <<hwitag_add_location(attr.base)>> \o Times(attr.irqs, hwitag_add_irq(Illegal))
        \o Given(attr.dll, hwitag_add_dll(attr.dll)) \o Given(attr.opt, hwitag_add_optstr(attr.opt))
        \o Times(attr.errata, hwitag_add_errata) \o Times(attr.dmas, hwitag_add_dma)

Clocks(attr) == Times(attr.clks, hwitag_add_inputclk(0))
BusAttrs(attr) == Times(attr.busattrs, hwitag_add_busattr)

-----------------------------------------------------------------------------
(* Buses: without a parent, below the root.                                *)

hwibus_add(name, parent) == <<Item("bus", name, parent, IF parent = NullOff THEN <<"hw">> ELSE <<>>, 0)>>

hwibus_add_can(parent, attr) ==
    hwibus_add("can", parent) \o hwitag_add_common(attr) \o Clocks(attr)
        \o Times(attr.mems, hwitag_add_location(0))
hwibus_add_i2c(parent, attr) ==
    hwibus_add("i2c", parent) \o hwitag_add_common(attr) \o Clocks(attr) \o BusAttrs(attr)
hwibus_add_sdio(parent, attr) ==
    hwibus_add("sdio", parent) \o hwitag_add_common(attr) \o Clocks(attr) \o BusAttrs(attr)
hwibus_add_spi(parent, attr) ==
    hwibus_add("spi", parent) \o hwitag_add_common(attr) \o Clocks(attr) \o BusAttrs(attr)
hwibus_add_pci(parent, attr) ==
    hwibus_add("pci", parent) \o hwitag_add_common(attr)
        \o Times(attr.irqblks, hwitag_add_irqrange(Illegal)) \o BusAttrs(attr)
hwibus_add_usb(parent, attr) == hwibus_add("usb", parent) \o hwitag_add_common(attr)

-----------------------------------------------------------------------------
(* Devices: without a bus, on the bus called unknown.                      *)

hwidev_add(name, pnp, bus) ==
    <<Item("device", name, bus, IF bus = NullOff THEN <<"hw", "unknown">> ELSE <<>>, pnp)>>

hwidev_add_dma(name, bus, attr) == hwidev_add(name, 1, bus) \o hwitag_add_common(attr)
hwidev_add_timer(name, bus, attr) == hwidev_add(name, 2, bus) \o hwitag_add_common(attr) \o Clocks(attr)
hwidev_add_uart(name, bus, attr) == hwidev_add(name, 3, bus) \o hwitag_add_common(attr) \o Clocks(attr)
hwidev_add_rtc(name, bus, attr) ==
    hwidev_add(name, 4, bus) \o hwitag_add_common(attr)
        \o Given(attr.centreg, hwitag_add_regname(attr.centreg))
hwidev_add_enet(name, bus, attr) ==
    hwidev_add(name, 5, bus) \o hwitag_add_common(attr)
        \o Times(attr.phys, hwitag_add_nicphyaddr(0)) \o Clocks(attr)
        \o (IF attr.mac = 0 THEN <<>> ELSE <<hwitag_add_nicaddr(attr.mac)>>)

\* The older call makes the bus and the class when they are not there.
EnsureBus(h, bname) ==
    IF FindNamed(h, bname) # <<>> THEN <<>> ELSE <<Item("bus", bname, 0, <<"hw">>, 0)>>
EnsureClassAnew(h, bname, cname) == <<Item("group", cname, 0, <<bname>>, 0)>>
EnsureClass(h, bname, cname) ==
    IF FindUnder(h, bname, cname) # <<>> THEN <<>> ELSE <<Item("group", cname, 0, <<bname>>, 0)>>
hwi_add_device(h, bname, cname, dname) ==
    EnsureBus(h, bname) \o EnsureClass(h, bname, cname) \o <<Item("device", dname, 0, <<bname, cname>>, 0)>>

hwi_add_rtc(h, name, base, cent_reg) ==
    hwi_add_device(h, "unknown", "rtc", name) \o <<hwitag_add_location(base)>>
        \o (IF cent_reg = -1 THEN <<>> ELSE <<Tag("regname", 0)>>)
hwi_add_nanospin(h, time) == hwi_add_device(h, "unknown", "misc", "nanospin") \o <<Tag("nanospin", time)>>
hwi_add_synonym(item, name) == <<Item("synonym", name, 0, <<"hw">>, item)>>

-----------------------------------------------------------------------------
\* Setting overwrites the value of an existing tag, the k-th of its kind.
SetSecond(h, item, kind, k, value) ==
    LET tag == TagFind(h, item, kind, k)
    IN  IF tag = NullOff THEN h ELSE [h EXCEPT !.hw[tag + 3] = <<value, 0>>]
Set(h, item, kind, k, value) ==
    LET tag == TagFind(h, item, kind, k)
    IN  IF tag = NullOff THEN h ELSE [h EXCEPT !.hw[tag + 2] = <<value, 0>>]
hwitag_set_ivec(h, item, k, vector) == Set(h, item, "irq", k, vector)
hwitag_set_ivecrange(h, item, k, first) == Set(h, item, "irqrange", k, first)
hwitag_set_dma(h, item, k, chnl) == Set(h, item, "dma", k, chnl)
hwitag_set_errata(h, item, k, num) == Set(h, item, "errata", k, num)
hwitag_set_nicaddr(h, item, k, addr) == Set(h, item, "nicaddr", k, addr)
hwitag_set_phyaddr(h, item, k, addr) == Set(h, item, "nicphyaddr", k, addr)
hwitag_set_inputclk(h, item, k, clk) == Set(h, item, "inputclk", k, clk)
hwitag_set_busattr(h, item, k, speed) == Set(h, item, "busattr", k, speed)

\* Only a free vector tag is taken, the one asked for or else the first.
FreeVectors(h, item, k) ==
    {j \in DOMAIN TagsOf(h, item) :
        LET tag == TagFind(h, item, "irq", j)
        IN  tag # NullOff /\ h.hw[tag + 2][1] = Illegal /\ (k = 0 \/ j = k)}
hwitag_set_avail_ivec(h, item, k, vector) ==
    LET free == FreeVectors(h, item, k)
    IN  IF free = {} THEN h
        ELSE hwitag_set_ivec(h, item, CHOOSE j \in free : \A i \in free : j <= i, vector)
=============================================================================
