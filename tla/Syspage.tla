------------------------------- MODULE Syspage -------------------------------
(***************************************************************************)
(* The system page while it is built (syspage_memory.c): sections that     *)
(* grow where they are and push the others up, a move to a larger block,   *)
(* the pointers callouts.c keeps into it, and the two passes that size and *)
(* then write the callouts behind it.                                      *)
(*                                                                         *)
(* A cell is eight bytes.  It remembers which cell of which section it is, *)
(* and, where it holds the address of a callout, of which.                 *)
(***************************************************************************)
EXTENDS Integers, Sequences

CONSTANTS
    Fixed,       \* sections set once, and their cells
    Grown,       \* sections that grow, and the cells of one entry
    Callouts,    \* callout -> [code, rw]: cells of code, which rw_size it names
    RwSize,      \* rw_size -> cells of read/write data
    Data,        \* patch_data of interrupt controllers
    Header, PageCells,
    Blocks,      \* sizes of the first block and of the temporary page
    MaxGrow,     \* bound: growths of sections other than the fixed ones
    MaxSplits    \* asinfo entries added by the allocation of the page itself

Sections == DOMAIN Fixed \union DOMAIN Grown
NoFn == "none"
Reserve == 4     \* asinfo entries alloc_syspage_memory() allows for

\* The allocation splits no more entries than are allowed for.
PageAssumption ==
    /\ Fixed \in [DOMAIN Fixed -> Nat \ {0}] /\ "callout" \in DOMAIN Fixed
    /\ Grown \in [DOMAIN Grown -> Nat \ {0}] /\ {"asinfo", "intrinfo"} \subseteq DOMAIN Grown
    /\ DOMAIN Fixed \intersect DOMAIN Grown = {}
    /\ "header" \notin Sections /\ NoFn \notin DOMAIN Callouts \union DOMAIN RwSize \union Data
    /\ RwSize \in [DOMAIN RwSize -> Nat]
    /\ Callouts \in [DOMAIN Callouts -> [code : Nat, rw : DOMAIN RwSize \union {NoFn}]]
    /\ Header \in Nat /\ PageCells \in Nat \ {0} /\ Blocks[1] \in Nat /\ Blocks[2] \in Nat
    /\ MaxSplits \in 0 .. Reserve
ASSUME PageAssumption

VARIABLES
    lsp,        \* the local system page: [base, p, size, cell, total, max, fixed]
    patch_data, \* [owner, data, of], of: history, the cell it was registered for
    hooked,     \* add_interrupt() has hooked callout_output_intr()
    grown,      \* growths so far
    progress,   \* "build", "sized", "written" or "crashed"
    sized,      \* what the sizing pass found: [rw, list, code, spsize]
    written     \* what the second pass wrote

pageVars == <<lsp, patch_data, hooked, grown, progress, sized, written>>

RoundPg(n) == PageCells * ((n + PageCells - 1) \div PageCells)

\* The sum of the first n of a sequence.
SumOf(seq, n) == LET sum[k \in 0 .. n] == IF k = 0 THEN 0 ELSE sum[k - 1] + seq[k] IN sum[n]

-----------------------------------------------------------------------------
(* Growing, and what moves with it.                                        *)

\* Slip: an owner in the first cell that moves is left behind.
reloc_data_strict(from, len, diff) ==
    [k \in DOMAIN patch_data |->
        IF from < patch_data[k].owner /\ patch_data[k].owner < from + len
        THEN [patch_data[k] EXCEPT !.owner = @ + diff] ELSE patch_data[k]]

reloc_data(from, len, diff) ==
    [k \in DOMAIN patch_data |->
        IF from <= patch_data[k].owner /\ patch_data[k].owner < from + len
        THEN [patch_data[k] EXCEPT !.owner = @ + diff] ELSE patch_data[k]]

\* From the first cell to the last, whatever chunks the copy is done in.
memcpy(m, to, from, n) ==
    LET after[k \in 0 .. n] ==
            IF k = 0 THEN m ELSE LET now == after[k - 1] IN [now EXCEPT ![to + k - 1] = now[from + k - 1]]
    IN  after[n]

\* From the last cell to the first where the destination overlaps what is
\* still to be copied.
memmove(m, to, from, n) ==
    LET after[k \in 0 .. n] ==
            IF k = 0 THEN m ELSE LET now == after[k - 1] IN [now EXCEPT ![to + n - k] = now[from + n - k]]
    IN  IF from < to /\ from + n > to THEN after[n] ELSE memcpy(m, to, from, n)

Bottom(l, s) == l.p[s] + l.size[s]

\* Slip: an empty section at the same place stays.
AboveStrict(l, s, t) == t # s /\ l.p[t] > Bottom(l, s)
Above(l, s, t) == t # s /\ l.p[t] >= Bottom(l, s)

\* grow_syspage_section(): content fills the new cells.
Grow(l, s, content) ==
    LET add == Len(content)
        bottom == Bottom(l, s)
        room == [a \in l.base .. l.base + l.total + add - 1 |->
                    IF a \in DOMAIN l.cell THEN l.cell[a] ELSE content[1]]
        moved == memmove(room, bottom + add, bottom, l.base + l.total - bottom)
    IN  IF add = 0 THEN l ELSE
        [base |-> l.base, max |-> l.max, fixed |-> l.fixed,
         p |-> [t \in Sections |-> IF Above(l, s, t) THEN l.p[t] + add ELSE l.p[t]],
         size |-> [l.size EXCEPT ![s] = l.size[s] + add],
         cell |-> [a \in DOMAIN room |->
                     IF a \in bottom .. bottom + add - 1 THEN content[a - bottom + 1] ELSE moved[a]],
         total |-> l.total + add]

RelocGrown(l, s, add) == reloc_data(Bottom(l, s), l.base + l.total - Bottom(l, s), add)

Overflows(l, add) == l.total + add > l.max

Cells(s, from, n, fn) == [k \in 1 .. n |-> [sec |-> s, i |-> from + k - 1, fn |-> fn]]

\* set_syspage_section(): behind the fixed sections so far.
Place(l, s) == [l EXCEPT !.p = [l.p EXCEPT ![s] = l.base + l.fixed], !.fixed = l.fixed + Fixed[s]]

-----------------------------------------------------------------------------
PageInit ==
    /\ LET bare == [base |-> 0, p |-> [s \in Sections |-> Header], size |-> [s \in Sections |-> 0],
                    cell |-> [a \in 0 .. Header - 1 |-> [sec |-> "header", i |-> a, fn |-> NoFn]],
                    total |-> Header, max |-> Blocks[1], fixed |-> Header]
       IN  lsp = Grow(Place(bare, "callout"), "callout", Cells("callout", 0, Fixed.callout, NoFn))
    /\ patch_data = << >> /\ hooked = FALSE /\ grown = 0
    /\ progress = "build" /\ sized = << >> /\ written = << >>

\* grow_syspage_section(), or "Syspage memory request of %d exceeds maximum".
GrowTo(l, s, content) ==
    IF Overflows(l, Len(content))
    THEN progress' = "crashed" /\ UNCHANGED <<lsp, patch_data>>
    ELSE /\ lsp' = Grow(l, s, content)
         /\ patch_data' = RelocGrown(l, s, Len(content))
         /\ UNCHANGED progress

SetSection(s) ==
    /\ progress = "build" /\ s # "callout" /\ lsp.size[s] = 0
    /\ GrowTo(Place(lsp, s), s, Cells(s, 0, Fixed[s], NoFn))
    /\ UNCHANGED <<hooked, grown, sized, written>>

\* as_add(), add_string()
GrowSection(s) ==
    /\ progress = "build" /\ s # "intrinfo" /\ grown < MaxGrow
    /\ grown' = grown + 1
    /\ GrowTo(lsp, s, Cells(s, lsp.size[s], Grown[s], NoFn))
    /\ UNCHANGED <<hooked, sized, written>>

\* callout_register_data(): the first data given to an owner stays.
Registered(pd, owner, data, of) ==
    IF \E k \in DOMAIN pd : pd[k].owner = owner THEN pd
    ELSE <<[owner |-> owner, data |-> data, of |-> of]>> \o pd

AddInterrupt(fn, data) ==
    /\ progress = "build" /\ grown < MaxGrow
    /\ grown' = grown + 1 /\ hooked' = TRUE
    /\ LET n == lsp.size["intrinfo"]
           content == Cells("intrinfo", n, Grown["intrinfo"], fn)
       IN  IF Overflows(lsp, Len(content))
           THEN progress' = "crashed" /\ UNCHANGED <<lsp, patch_data>>
           ELSE /\ lsp' = Grow(lsp, "intrinfo", content)
                /\ patch_data' = Registered(RelocGrown(lsp, "intrinfo", Len(content)),
                                            lsp'.p["intrinfo"] + n, data, <<"intrinfo", n>>)
                /\ UNCHANGED progress
    /\ UNCHANGED <<sized, written>>

\* The first two slots of the callout section are debug[0] and debug[1].
DebugDevice(i) == IF i = 0 THEN "dbg0" ELSE "dbg1"

AddCallout(i, fn) ==
    /\ progress = "build"
    /\ LET at == lsp.p["callout"] + i
       IN  /\ lsp.cell[at].fn = NoFn
           /\ lsp' = [lsp EXCEPT !.cell[at].fn = fn]
           /\ patch_data' = Registered(patch_data, at, DebugDevice(i), <<"callout", i>>)
    /\ UNCHANGED <<hooked, grown, progress, sized, written>>

\* reloc_syspage_memory()
Reloc(base) ==
    /\ lsp' = [lsp EXCEPT !.base = base, !.p = [s \in Sections |-> lsp.p[s] + base - lsp.base],
                          !.cell = [a \in base .. base + lsp.total - 1 |-> lsp.cell[a - base + lsp.base]],
                          !.max = Blocks[2]]
    /\ patch_data' = reloc_data(lsp.base, lsp.total, base - lsp.base)

RelocSyspage ==
    /\ progress = "build" /\ lsp.base = 0
    /\ Reloc(Blocks[1])
    /\ UNCHANGED <<hooked, grown, progress, sized, written>>

-----------------------------------------------------------------------------
(* output_callouts(), twice.                                               *)

SectionCells(s) == [k \in 1 .. lsp.size[s] |-> lsp.p[s] + k - 1]

\* callout_output_intr(), once hooked, is asked before callout_output_section();
\* empty slots are passed over.
IntrCells == IF hooked THEN SectionCells("intrinfo") ELSE << >>
Candidates == IntrCells \o SectionCells("callout")
ToOutput ==
    LET all == Candidates
        upto[k \in 0 .. Len(all)] ==
            IF k = 0 THEN << >>
            ELSE IF lsp.cell[all[k]].fn = NoFn THEN upto[k - 1] ELSE Append(upto[k - 1], all[k])
    IN  upto[Len(all)]
Fns == LET cells == ToOutput IN [k \in DOMAIN cells |-> lsp.cell[cells[k]].fn]

\* rw_addrs: each rw_size counts once, in the order they are met.
RwList(fns) ==
    LET seen[k \in 0 .. Len(fns)] ==
            IF k = 0 THEN << >>
            ELSE LET rw == Callouts[fns[k]].rw IN
                 IF rw = NoFn \/ \E i \in DOMAIN seen[k - 1] : seen[k - 1][i] = rw
                 THEN seen[k - 1] ELSE Append(seen[k - 1], rw)
    IN  seen[Len(fns)]
RwSizes(list) == [k \in DOMAIN list |-> RwSize[list[k]]]
RwBefore(list, rw) == SumOf(RwSizes(list), (CHOOSE k \in DOMAIN list : list[k] = rw) - 1)
Codes(fns) == [k \in DOMAIN fns |-> Callouts[fns[k]].code]

\* Slip: the callouts begin right behind the data.
SizeNoRounding(rw, code) == RoundPg(lsp.total + rw + Reserve * Grown["asinfo"] + code)
Size(rw, code) == RoundPg(lsp.total + rw + Reserve * Grown["asinfo"]) + RoundPg(code)

AllocSyspage ==
    /\ progress = "build" /\ \A s \in DOMAIN Fixed : lsp.size[s] > 0
    /\ LET list == RwList(Fns)
           rw == SumOf(RwSizes(list), Len(list))
           code == SumOf(Codes(Fns), Len(Fns))
       IN  sized' = [rw |-> rw, list |-> list, code |-> code, spsize |-> Size(rw, code)]
    /\ progress' = "sized" /\ grown' = 0
    /\ UNCHANGED <<lsp, patch_data, hooked, written>>

\* cpu_alloc_syspage_memory() splits sysram entries; "disallows further
\* growing" is set only when it is done.
Split ==
    /\ progress = "sized" /\ grown < MaxSplits
    /\ grown' = grown + 1
    /\ GrowTo(lsp, "asinfo", Cells("asinfo", lsp.size["asinfo"], Grown["asinfo"], NoFn))
    /\ UNCHANGED <<hooked, sized, written>>

\* patch_data is searched for the owner; NULL if it has none.
PatchData(a) ==
    LET mine == {k \in DOMAIN patch_data : patch_data[k].owner = a}
    IN  IF mine = {} THEN NoFn ELSE patch_data[CHOOSE k \in mine : \A j \in mine : k <= j].data

CodeStart == RoundPg(lsp.total + sized.rw)
callout_output_one(k) ==
    LET fns == Fns
        rtn == Callouts[fns[k]]
        at == ToOutput[k]
    IN
    [of |-> <<lsp.cell[at].sec, lsp.cell[at].i>>,
     from |-> CodeStart + SumOf(Codes(fns), k - 1),
     code |-> rtn.code,
     rw |-> IF rtn.rw = NoFn THEN -1 ELSE lsp.total + RwBefore(sized.list, rtn.rw),
     rwsize |-> IF rtn.rw = NoFn THEN 0 ELSE RwSize[rtn.rw],
     data |-> PatchData(at)]

OutputCallouts ==
    /\ progress = "sized"
    /\ written' = [k \in DOMAIN ToOutput |-> callout_output_one(k)]
    /\ progress' = "written"
    /\ UNCHANGED <<lsp, patch_data, hooked, grown, sized>>

PageNext ==
    \/ \E s \in DOMAIN Fixed : SetSection(s)
    \/ \E s \in DOMAIN Grown : GrowSection(s)
    \/ \E fn \in DOMAIN Callouts : \/ \E data \in Data : AddInterrupt(fn, data)
                                   \/ \E i \in 0 .. Fixed.callout - 1 : AddCallout(i, fn)
    \/ RelocSyspage \/ AllocSyspage \/ Split \/ OutputCallouts

PageSpec == PageInit /\ [][PageNext]_pageVars

-----------------------------------------------------------------------------
(* Properties.                                                             *)

\* Whatever grew and moved, each section is where its pointer says, whole and
\* in order, and nothing but they and the header is in the page
\* (grow_syspage_section()).
SectionsIntact ==
    /\ \A s \in Sections : \A k \in 0 .. lsp.size[s] - 1 :
          LET c == lsp.cell[lsp.p[s] + k] IN c.sec = s /\ c.i = k
    /\ \A s \in Sections : lsp.p[s] \in lsp.base + Header .. lsp.base + lsp.total
    /\ \A a \in lsp.base .. lsp.base + lsp.total - 1 :
          LET c == lsp.cell[a] IN
          IF c.sec = "header" THEN a = lsp.base + c.i /\ c.i \in 0 .. Header - 1
          ELSE c.sec \in Sections /\ c.i \in 0 .. lsp.size[c.sec] - 1 /\ a = lsp.p[c.sec] + c.i

Extent(from, n) == from .. from + n - 1

\* What the second pass writes fits what the first one counted, in spite of
\* the entries the allocation added: data behind the page, shared by name,
\* code on pages of its own, and nothing over the cpupages behind them.
SizedRight ==
    progress = "written" =>
        /\ \A k \in DOMAIN written :
             /\ Extent(written[k].from, written[k].code) \subseteq CodeStart .. sized.spsize - 1
             /\ Extent(written[k].rw, written[k].rwsize) \subseteq lsp.total .. CodeStart - 1
        /\ CodeStart % PageCells = 0
        /\ \A j, k \in DOMAIN written : j # k =>
             /\ Extent(written[j].from, written[j].code) \intersect Extent(written[k].from, written[k].code) = {}
             /\ written[j].rw = written[k].rw
                  \/ Extent(written[j].rw, written[j].rwsize) \intersect Extent(written[k].rw, written[k].rwsize) = {}

\* Each callout is patched with the data registered for it, wherever its
\* pointer has moved since (callout_reloc_data()).
PatchedWithOwn ==
    /\ \A k \in DOMAIN patch_data : LET c == lsp.cell[patch_data[k].owner] IN <<c.sec, c.i>> = patch_data[k].of
    /\ \A k \in DOMAIN written :
          LET mine == {j \in DOMAIN patch_data : patch_data[j].of = written[k].of}
          IN  written[k].data \in {patch_data[j].data : j \in mine} \union (IF mine = {} THEN {NoFn} ELSE {})

\* Whatever grew and moved, each section of the system page is whole where its
\* pointer says, the callouts fit what was counted for them, and each is
\* patched with the data registered for it (syspage_memory.c, callouts.c).
SyspageBuilt == SectionsIntact /\ SizedRight /\ PatchedWithOwn
=============================================================================
