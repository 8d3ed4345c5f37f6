----------------------------- MODULE GicEntries -----------------------------
(***************************************************************************)
(* The interrupt entries of a GICv3 system (struct startup_intrinfo): how  *)
(* gic_v3_spi_add_entry() and its ESPI twin accept them, and how the       *)
(* callouts go from an INTID to a vector and from a vector to a register   *)
(* bit.  An entry is [kind, base, num, msi]; "off" is the vec_off of its   *)
(* patch data.                                                             *)
(***************************************************************************)
EXTENDS Integers, Sequences, FiniteSets, FiniteSetsExt

CONSTANTS
    ITLines,     \* GICD_TYPER.ITLinesNumber
    EspiLines,   \* GICD_TYPER.ESPI_range + 1, 0 without ESPIs
    Mbis         \* GICD_TYPER.MBIS: messages can raise SPIs

ASSUME GicAssumption ==
    ITLines \in 0 .. 31 /\ EspiLines \in 0 .. 32 /\ Mbis \in BOOLEAN

MinIrq == [ppi |-> 0, spi |-> 32, espi |-> 4096]
MaxIrq == [ppi |-> 31, spi |-> 1019, espi |-> 5119]

\* INTIDs from 1020 are reserved, so the last of 32 lines holds fewer.
gic_v3_num_spis ==
    IF (ITLines + 1) * 32 > MaxIrq.spi + 1 THEN MaxIrq.spi + 1 - 32 ELSE ITLines * 32

gic_v3_num_espis == 32 * EspiLines

NumOf == [spi |-> gic_v3_num_spis, espi |-> gic_v3_num_espis]
Supported(kind) == MinIrq[kind] .. MinIrq[kind] + NumOf[kind] - 1

LastVector(e) == e.base + e.num - 1
Holds(e, vector) == vector \in e.base .. LastVector(e)

\* The assertions: the board stops where one fails.
Asserted(e) ==
    /\ e.base \in MinIrq[e.kind] .. MaxIrq[e.kind]
    /\ e.base + e.num <= NumOf[e.kind] + MinIrq[e.kind]

\* Messages are supported, neither end overlaps an entry, and the vectors are
\* above all that are there; gaps are allowed.
Accepts(entries, e) ==
    /\ e.msi => Mbis
    /\ \A i \in DOMAIN entries :
        /\ ~Holds(entries[i], e.base) /\ ~Holds(entries[i], LastVector(e))
        /\ e.base > LastVector(entries[i])

\* Where the entries of SPIs and ESPIs are recorded: none yet, with room for 16.
NumElts == 16
spi_intrinfo == <<>>
espi_intrinfo == <<>>

\* The entry for all the SPIs or ESPIs of a board that has registered none.
Default(kind) == [kind |-> kind, base |-> MinIrq[kind], num |-> NumOf[kind], msi |-> FALSE]

OrDefault(kind, entries) ==
    IF entries = <<>> /\ NumOf[kind] > 0 THEN <<Default(kind)>> ELSE entries

WithOff(e, off) == [kind |-> e.kind, base |-> e.base, num |-> e.num, msi |-> e.msi, off |-> off]

gic_v3_intr_ppi == [kind |-> "ppi", base |-> 0, num |-> 32, msi |-> FALSE, off |-> 0]

\* Slip: the offset is that of the INTID.
PatchedFromZero(e) == WithOff(e, e.base)

\* The patch data gic_v3_initialize() fills in before add_interrupt().
Patched(e) == WithOff(e, e.base - MinIrq[e.kind])

PatchAll(entries) == [i \in DOMAIN entries |-> Patched(entries[i])]

\* The order of the system page's entries: those of the SPIs and ESPIs "MUST
\* be added after the PPI callouts".
AllEntries(spis, espis) == <<gic_v3_intr_ppi>> \o PatchAll(spis) \o PatchAll(espis)

----------------------------------------------------------------------------
\* The id callouts: what is left in x19 for the IAR value in x24; -1 passes
\* the interrupt on to the next entry.  The comparisons are unsigned.
interrupt_id(kind, x24) ==
    CASE kind = "ppi"  -> IF x24 > 31 THEN -1 ELSE x24
      [] kind = "spi"  -> IF x24 > 1021 THEN -1 ELSE x24 - 32
      [] kind = "espi" -> IF x24 - 4096 \in 0 .. 1023 THEN x24 - 4096 ELSE -1

Claimants(intrinfo, x24) ==
    {i \in DOMAIN intrinfo : interrupt_id(intrinfo[i].kind, x24) # -1}

\* The kernel's side: the first callout that claims it decides, and the vector
\* counts from the base of that entry.
VectorOf(intrinfo, x24) ==
    LET first == Min(Claimants(intrinfo, x24))
    IN intrinfo[first].base + interrupt_id(intrinfo[first].kind, x24)

\* The mask and unmask callouts: the INTID whose bit is written for vector v
\* of entry e.  ISENABLERn + 4 skips the register of the PPIs, ISENABLERnE
\* starts with the first ESPI.
RegisterId(e, v) ==
    LET n == v + e.off
    IN IF e.kind = "ppi" THEN v % 32 ELSE MinIrq[e.kind] + 32 * (n \div 32) + (n % 32)

\* The INTID that is written when the kernel masks or unmasks a vector: it
\* passes the vector relative to its entry.
WrittenId(intrinfo, vector) ==
    LET i == CHOOSE k \in DOMAIN intrinfo : Holds(intrinfo[k], vector)
    IN RegisterId(intrinfo[i], vector - intrinfo[i].base)
=============================================================================
