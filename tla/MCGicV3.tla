------------------------------ MODULE MCGicV3 ------------------------------
\* GicV3 on two CPUs whose redistributors are in the other order.
EXTENDS GicV3, TLC

\* A GIC-600 in a region with room for the two redistributors and no more.
MCIdent == [implementer |-> 1083, arch |-> 3, ppi_num |-> 0]
Swapped == 0 :> 1 @@ 1 :> 0
MCSharedIds == {70, 4100}
MCPpis == {<<0, 27>>}

Entry(kind, base, num, msi) == [kind |-> kind, base |-> base, num |-> num, msi |-> msi]

\* The SPIs in two parts, the second for messages; an entry across the two;
\* and the first half of the ESPIs for messages.
MCOffered ==
    {Entry("spi", 32, 32, FALSE), Entry("spi", 64, 32, TRUE), Entry("spi", 48, 48, FALSE),
     Entry("espi", 4096, 16, TRUE), Entry("espi", 4112, 16, FALSE)}

\* Firmware leaves the GIC as after a reset, or all of it in use: in Group 1,
\* enabled and pending; interrupts are routed to a core that is off.
MCFirmware ==
    {[on |-> irqs # {}, group1 |-> irqs, edge |-> {Id(x) : x \in irqs} \cap SharedIds,
      target |-> [i \in SharedIds |-> NumCpu], enabled |-> irqs, pend |-> irqs] : irqs \in {{}, Irq}}
=============================================================================
