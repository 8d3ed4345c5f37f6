---------------------------- MODULE MCSysTables ----------------------------
(***************************************************************************)
(* Sections small enough to grow several times in three calls: a chunk is  *)
(* eight characters or eight words.                                        *)
(***************************************************************************)
EXTENDS SysTables

ItemKinds == {"group", "bus", "device", "synonym"}
TagKinds == {"pad", "location", "irq", "irqrange", "inputclk", "busattr", "nicaddr",
             "nicphyaddr", "dma", "errata", "dll", "optstr", "regname", "nanospin"}
MCTagSize == [k \in ItemKinds \union TagKinds |->
    CASE k = "pad" -> 1 [] k \in {"group", "bus"} -> 3
      [] k \in {"device", "synonym"} -> 4
      [] k = "location" -> 6 [] k = "busattr" -> 5
      [] k \in {"irqrange", "inputclk", "regname", "nanospin"} -> 3 [] OTHER -> 2]
MCTagAlign == [k \in ItemKinds \union TagKinds |-> IF k = "location" THEN 2 ELSE 1]
BusNames == {"hw", "unknown", "can", "i2c", "sdio", "spi", "pci", "usb", "rtc", "misc"}
MCStrLen == [n \in ItemKinds \union TagKinds \union BusNames \union
                   {"mac", "lib", "cent", "big", "a53", "a55", "Unknown"} |->
             IF n \in {"device", "location", "nicaddr"} THEN 5 ELSE 2]
MCTypedWords == [n \in {"host", "uno"} |-> IF n = "host" THEN 2 ELSE 1]

Bare == [base |-> 5, irqs |-> 0, dll |-> Nul, opt |-> Nul, errata |-> 0, dmas |-> 0, clks |-> 0,
         busattrs |-> 0, mems |-> 0, irqblks |-> 0, phys |-> 0, mac |-> 0, centreg |-> Nul]
Rich == [base |-> 6, irqs |-> 2, dll |-> "lib", opt |-> "cent", errata |-> 1, dmas |-> 1, clks |-> 1,
         busattrs |-> 1, mems |-> 1, irqblks |-> 1, phys |-> 1, mac |-> 4, centreg |-> "cent"]
MCAttrs == {Bare, Rich}
\* Two revisions of one part, and a part that is not known.
Midr(part, rev) == [part |-> part, rev |-> rev]
MCShapes == {[midr |-> Midr("d03", 0), unified |-> FALSE, ins |-> 1, data |-> 1, isa |-> {"FP"}],
             [midr |-> Midr("d03", 4), unified |-> FALSE, ins |-> 1, data |-> 2, isa |-> {"FP", "SHA512"}],
             [midr |-> Midr("d99", 0), unified |-> TRUE, ins |-> 0, data |-> 2,
              isa |-> {"FP", "SIMD", "LSE"}]}
MCCpuIds == <<[midr |-> "d05", name |-> "a55"], [midr |-> "d03", name |-> "a53"]>>
=============================================================================
