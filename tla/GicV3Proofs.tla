---------------------------- MODULE GicV3Proofs ----------------------------
(***************************************************************************)
(* However the board cuts the interrupts into entries, with any number of  *)
(* CPUs and devices: the numbers of the system page and of the hardware    *)
(* agree, and the callouts keep their state against each other.            *)
(***************************************************************************)
EXTENDS GicV3, TLAPS, FiniteSetTheorems

-----------------------------------------------------------------------------
(* The entries.                                                            *)

Listed == {"spi", "espi"}
Entry(kind) ==
    {e \in [kind : {kind}, base : Nat, num : Nat, msi : BOOLEAN] : Asserted(e)}

\* What gic_v3_spi_add_entry() and its twin keep of their lists.
Ordered(list) == \A j \in DOMAIN list : \A k \in 1 .. j - 1 : list[j].base > LastVector(list[k])
ListInv(kind, list) == list \in Seq(Entry(kind)) /\ Ordered(list)

Covers(kind, list) == \A i \in Supported(kind) : \E k \in DOMAIN list : Holds(list[k], i)

LEMMA Numbers ==
    /\ gic_v3_num_spis \in 0 .. 988 /\ gic_v3_num_espis \in 0 .. 1024
    /\ NumOf.spi = gic_v3_num_spis /\ NumOf.espi = gic_v3_num_espis
    /\ MinIrq.spi = 32 /\ MinIrq.espi = 4096
BY GicAssumption DEF gic_v3_num_spis, gic_v3_num_espis, NumOf, MinIrq, MaxIrq

LEMMA SupportedIds ==
    /\ Supported("spi") = 32 .. 31 + gic_v3_num_spis
    /\ Supported("espi") = 4096 .. 4095 + gic_v3_num_espis
BY Numbers DEF Supported

LEMMA SupportedBounds ==
    /\ \A x \in Supported("spi") : x \in 32 .. 1019
    /\ \A x \in Supported("espi") : x \in 4096 .. 5119
<1>1. /\ gic_v3_num_spis \in Int /\ gic_v3_num_spis <= 988
      /\ gic_v3_num_espis \in Int /\ gic_v3_num_espis <= 1024
  BY Numbers
<1>2. ASSUME NEW x \in Supported("spi") PROVE x \in 32 .. 1019
  <2>1. x \in Int /\ 32 <= x /\ x <= 31 + gic_v3_num_spis
    BY <1>1, SupportedIds
  <2> QED BY <1>1, <2>1
<1>3. ASSUME NEW x \in Supported("espi") PROVE x \in 4096 .. 5119
  <2>1. x \in Int /\ 4096 <= x /\ x <= 4095 + gic_v3_num_espis
    BY <1>1, SupportedIds
  <2> QED BY <1>1, <2>1
<1> QED BY <1>2, <1>3

LEMMA KindsApart ==
    ASSUME NEW x
    PROVE  /\ x \in 0 .. 31 => x \notin Supported("spi") /\ x \notin Supported("espi")
           /\ x \in Supported("spi") => x \notin Supported("espi")
<1>1. x \in Supported("spi") => x \in Int /\ 32 <= x /\ x <= 1019
  BY SupportedBounds
<1>2. x \in Supported("espi") => x \in Int /\ 4096 <= x
  BY SupportedBounds
<1> QED BY <1>1, <1>2

\* An entry lies among the INTIDs of its kind.
LEMMA EntryRange ==
    ASSUME NEW kind \in Listed, NEW e \in Entry(kind)
    PROVE  /\ e.kind = kind /\ e.base \in Nat /\ e.num \in Nat
           /\ MinIrq[kind] <= e.base /\ e.base + e.num <= NumOf[kind] + MinIrq[kind]
           /\ NumOf[kind] \in Nat /\ MinIrq[kind] \in Nat
           /\ \A i : Holds(e, i) => i \in Supported(kind)
<1>1. NumOf[kind] \in Nat /\ MinIrq[kind] \in Nat
  BY Numbers DEF Listed
<1>2. e.kind = kind /\ e.base \in Nat /\ e.num \in Nat /\ Asserted(e)
  BY DEF Entry
<1>3. MinIrq[kind] <= e.base /\ e.base + e.num <= NumOf[kind] + MinIrq[kind]
  BY <1>2 DEF Asserted, MinIrq, MaxIrq, Listed
<1>4. ASSUME NEW i, Holds(e, i) PROVE i \in Supported(kind)
  BY <1>1, <1>2, <1>3, <1>4 DEF Holds, LastVector, Supported
<1> QED BY <1>1, <1>2, <1>3, <1>4

LEMMA AppendList ==
    ASSUME NEW kind \in Listed, NEW list, ListInv(kind, list),
           NEW e \in Entry(kind), Accepts(list, e)
    PROVE  ListInv(kind, Append(list, e))
<1>1. Append(list, e) \in Seq(Entry(kind))
  BY DEF ListInv
<1>2. Ordered(Append(list, e))
  BY DEF Ordered, ListInv, Accepts
<1> QED BY <1>1, <1>2 DEF ListInv

\* A board that has registered no entry gets one for all.
LEMMA DefaultList ==
    ASSUME NEW kind \in Listed, NEW list, ListInv(kind, list),
           list # <<>> => Covers(kind, list)
    PROVE  ListInv(kind, OrDefault(kind, list)) /\ Covers(kind, OrDefault(kind, list))
<1>1. CASE list # <<>>
  BY <1>1 DEF OrDefault
<1>2. CASE list = <<>> /\ NumOf[kind] > 0
  <2>1. Default(kind) \in Entry(kind)
    BY <1>2, Numbers DEF Entry, Default, Asserted, Listed, MinIrq, MaxIrq
  <2>2. OrDefault(kind, list) = <<Default(kind)>>
    BY <1>2 DEF OrDefault
  <2>3. \A i \in Supported(kind) : Holds(Default(kind), i)
    BY Numbers, SupportedIds DEF Holds, LastVector, Default, Listed
  <2> QED BY <2>1, <2>2, <2>3 DEF ListInv, Ordered, Covers
<1>3. CASE list = <<>> /\ ~(NumOf[kind] > 0)
  <2>1. OrDefault(kind, list) = list
    BY <1>3 DEF OrDefault
  <2>2. Supported(kind) = {}
    BY <1>3, Numbers DEF Supported, Listed
  <2> QED BY <2>1, <2>2 DEF Covers
<1> QED BY <1>1, <1>2, <1>3

\* The first entry of a list that covers anything starts with its first INTID.
LEMMA FirstBase ==
    ASSUME NEW kind \in Listed, NEW list, ListInv(kind, list), Covers(kind, list),
           Supported(kind) # {}
    PROVE  1 \in DOMAIN list /\ list[1].base = MinIrq[kind]
<1>1. MinIrq[kind] \in Supported(kind)
  BY Numbers DEF Supported, Listed
<1>2. PICK k \in DOMAIN list : Holds(list[k], MinIrq[kind])
  BY <1>1 DEF Covers
<1>3. k \in Nat /\ k >= 1 /\ 1 \in DOMAIN list /\ list[k] \in Entry(kind) /\ list[1] \in Entry(kind)
  BY <1>2 DEF ListInv
<1>4. CASE k = 1
  BY <1>2, <1>3, <1>4, EntryRange DEF Holds
<1>5. CASE k # 1
  <2>1. list[k].base > LastVector(list[1])
    BY <1>3, <1>5 DEF ListInv, Ordered
  <2> QED BY <1>2, <1>3, <2>1, EntryRange DEF Holds, LastVector
<1> QED BY <1>3, <1>4, <1>5

-----------------------------------------------------------------------------
(* The table of the system page.                                           *)

\* The lists the board has registered, as gic_v3_initialize() takes them.
Complete(lists) ==
    \A kind \in Listed : ListInv(kind, lists[kind]) /\ (lists[kind] # <<>> => Covers(kind, lists[kind]))
Table(lists) == AllEntries(OrDefault("spi", lists.spi), OrDefault("espi", lists.espi))

\* Where each entry of the lists is found in the table.
LEMMA TableShape ==
    ASSUME NEW spis, NEW espis, ListInv("spi", spis), ListInv("espi", espis)
    PROVE  LET all == AllEntries(spis, espis) IN
           /\ DOMAIN all = 1 .. 1 + Len(spis) + Len(espis)
           /\ all[1] = gic_v3_intr_ppi
           /\ \A k \in DOMAIN spis : all[1 + k] = Patched(spis[k])
           /\ \A k \in DOMAIN espis : all[1 + Len(spis) + k] = Patched(espis[k])
           /\ \A j \in DOMAIN all : \/ j = 1
                                    \/ \E k \in DOMAIN spis : j = 1 + k
                                    \/ \E k \in DOMAIN espis : j = 1 + Len(spis) + k
<1> DEFINE P(list) == PatchAll(list)
           R == {Patched(spis[k]) : k \in DOMAIN spis} \union {Patched(espis[k]) : k \in DOMAIN espis}
                \union {gic_v3_intr_ppi}
<1>1. spis \in Seq(Entry("spi")) /\ espis \in Seq(Entry("espi"))
  BY DEF ListInv
<1>2. /\ Len(spis) \in Nat /\ DOMAIN spis = 1 .. Len(spis)
      /\ Len(espis) \in Nat /\ DOMAIN espis = 1 .. Len(espis)
  BY <1>1
<1>3. P(spis) \in Seq(R) /\ Len(P(spis)) = Len(spis) /\ \A k \in DOMAIN spis : P(spis)[k] = Patched(spis[k])
  BY <1>2 DEF PatchAll
<1>4. P(espis) \in Seq(R) /\ Len(P(espis)) = Len(espis) /\ \A k \in DOMAIN espis : P(espis)[k] = Patched(espis[k])
  BY <1>2 DEF PatchAll
<1>5. <<gic_v3_intr_ppi>> \in Seq(R)
  OBVIOUS
<1> DEFINE ps == P(spis)
           pe == P(espis)
           all == (<<gic_v3_intr_ppi>> \o ps) \o pe
<1>6. AllEntries(spis, espis) = all
  BY DEF AllEntries
<1> HIDE DEF ps, pe, R, P
<1>7. all \in Seq(R) /\ Len(all) = 1 + Len(spis) + Len(espis)
  BY <1>2, <1>3, <1>4, <1>5 DEF ps, pe
<1>8. all[1] = gic_v3_intr_ppi
  BY <1>2, <1>3, <1>4, <1>5 DEF ps, pe
<1>9. \A k \in 1 .. Len(spis) : all[1 + k] = ps[k]
  BY <1>2, <1>3, <1>4, <1>5 DEF ps, pe
<1>10. \A k \in 1 .. Len(espis) : all[1 + Len(spis) + k] = pe[k]
  BY <1>2, <1>3, <1>4, <1>5 DEF ps, pe
<1>11. DOMAIN all = 1 .. 1 + Len(spis) + Len(espis)
  BY <1>2, <1>7
<1>12. ASSUME NEW j \in DOMAIN all
       PROVE  \/ j = 1
              \/ \E k \in DOMAIN spis : j = 1 + k
              \/ \E k \in DOMAIN espis : j = 1 + Len(spis) + k
  <2>1. CASE j > 1 /\ j <= 1 + Len(spis)
    <3>1. j - 1 \in DOMAIN spis /\ j = 1 + (j - 1)
      BY <1>2, <1>11, <2>1
    <3> QED BY <3>1
  <2>2. CASE j > 1 + Len(spis)
    <3>1. j - 1 - Len(spis) \in DOMAIN espis /\ j = 1 + Len(spis) + (j - 1 - Len(spis))
      BY <1>2, <1>11, <2>2
    <3> QED BY <3>1
  <2> QED BY <1>2, <1>11, <2>1, <2>2
<1> QED BY <1>2, <1>3, <1>4, <1>6, <1>8, <1>9, <1>10, <1>11, <1>12 DEF ps, pe

LEMMA LeastIs ==
    ASSUME NEW S, NEW m \in S, S \subseteq Int, \A x \in S : m <= x
    PROVE  Min(S) = m
<1>1. Min(S) \in S /\ \A y \in S : Min(S) <= y
  BY DEF Min
<1>2. Min(S) \in Int /\ m \in Int
  BY <1>1
<1>3. m <= Min(S) /\ Min(S) <= m
  BY <1>1
<1> QED BY <1>2, <1>3

LEMMA IdOf ==
    ASSUME NEW i \in Int
    PROVE  /\ interrupt_id("ppi", i) = IF i > 31 THEN -1 ELSE i
           /\ interrupt_id("spi", i) = IF i > 1021 THEN -1 ELSE i - 32
           /\ interrupt_id("espi", i) = IF i - 4096 \in 0 .. 1023 THEN i - 4096 ELSE -1
BY DEF interrupt_id

LEMMA PatchedFields ==
    ASSUME NEW e
    PROVE  /\ Patched(e).kind = e.kind /\ Patched(e).base = e.base /\ Patched(e).num = e.num
           /\ Patched(e).off = e.base - MinIrq[e.kind]
           /\ \A i : Holds(Patched(e), i) <=> Holds(e, i)
BY DEF Patched, WithOff, Holds, LastVector

LEMMA PpiFields ==
    /\ gic_v3_intr_ppi.kind = "ppi" /\ gic_v3_intr_ppi.base = 0 /\ gic_v3_intr_ppi.off = 0
    /\ \A i : Holds(gic_v3_intr_ppi, i) <=> i \in 0 .. 31
BY DEF gic_v3_intr_ppi, Holds, LastVector

\* One entry of an ordered list, at most, holds an INTID.
LEMMA OneHolds ==
    ASSUME NEW kind \in Listed, NEW list, ListInv(kind, list), NEW i,
           NEW j \in DOMAIN list, NEW k \in DOMAIN list, Holds(list[j], i), Holds(list[k], i)
    PROVE  j = k
<1>1. /\ j \in Nat /\ k \in Nat /\ j >= 1 /\ k >= 1
      /\ list[j] \in Entry(kind) /\ list[k] \in Entry(kind)
  BY DEF ListInv
<1>2. /\ i \in Int
      /\ list[j].base <= i /\ i <= LastVector(list[j])
      /\ list[k].base <= i /\ i <= LastVector(list[k])
  BY <1>1, EntryRange DEF Holds, LastVector
<1>3. ~(j < k)
  <2> SUFFICES ASSUME j < k PROVE FALSE
    OBVIOUS
  <2>1. list[k].base > LastVector(list[j])
    BY <1>1 DEF ListInv, Ordered
  <2> QED BY <1>1, <1>2, <2>1, EntryRange DEF LastVector
<1>4. ~(k < j)
  <2> SUFFICES ASSUME k < j PROVE FALSE
    OBVIOUS
  <2>1. list[j].base > LastVector(list[k])
    BY <1>1 DEF ListInv, Ordered
  <2> QED BY <1>1, <1>2, <2>1, EntryRange DEF LastVector
<1> QED BY <1>1, <1>3, <1>4

\* The numbers go round for INTID i, in a table.
Agrees(table, i) ==
    /\ Claimants(table, i) # {}
    /\ VectorOf(table, i) = i
    /\ Cardinality({k \in DOMAIN table : Holds(table[k], i)}) = 1
    /\ WrittenId(table, i) = i

\* It does if entry j alone holds it, entry f of the same kind is the first to
\* claim it and starts with the first INTID of the kind.
LEMMA AgreesIf ==
    ASSUME NEW table, DOMAIN table \subseteq Int, NEW i \in Nat,
           NEW j \in DOMAIN table, Holds(table[j], i),
           \A k \in DOMAIN table : Holds(table[k], i) => k = j,
           NEW f \in DOMAIN table, interrupt_id(table[f].kind, i) # -1,
           \A k \in DOMAIN table : interrupt_id(table[k].kind, i) # -1 => f <= k,
           table[f].base + interrupt_id(table[f].kind, i) = i,
           RegisterId(table[j], i - table[j].base) = i
    PROVE  Agrees(table, i)
<1>1. f \in Claimants(table, i) /\ Claimants(table, i) \subseteq Int
  BY DEF Claimants
<1>2. Min(Claimants(table, i)) = f
  BY <1>1, LeastIs DEF Claimants
<1>3. VectorOf(table, i) = i
  BY <1>2 DEF VectorOf
<1>4. {k \in DOMAIN table : Holds(table[k], i)} = {j}
  OBVIOUS
<1>5. Cardinality({j}) = 1
  BY FS_Singleton
<1>6. WrittenId(table, i) = i
  BY DEF WrittenId
<1> QED BY <1>1, <1>3, <1>4, <1>5, <1>6 DEF Agrees

\* The bit an SPI's or ESPI's callout writes.
LEMMA RegisterOf ==
    ASSUME NEW kind \in Listed, NEW e \in Entry(kind), NEW i \in Nat, Holds(e, i)
    PROVE  RegisterId(Patched(e), i - e.base) = i
<1>1. i - e.base + Patched(e).off = i - MinIrq[kind] /\ Patched(e).kind = kind
  BY EntryRange, PatchedFields
<1>2. i - MinIrq[kind] \in Nat
  BY EntryRange DEF Holds, LastVector
<1>3. \A n \in Nat : 32 * (n \div 32) + (n % 32) = n
  OBVIOUS
<1>4. kind # "ppi" /\ MinIrq[kind] \in Nat
  BY Numbers DEF Listed
<1> DEFINE n == i - MinIrq[kind]
<1>5. RegisterId(Patched(e), i - e.base) = MinIrq[kind] + 32 * (n \div 32) + (n % 32)
  BY <1>1, <1>4 DEF RegisterId
<1> QED BY <1>2, <1>3, <1>4, <1>5

\* What the tables and the hardware call an INTID is the same, for every SPI and
\* ESPI the distributor supports and every SGI and PPI.
LEMMA TableAgrees ==
    ASSUME NEW spis, NEW espis, ListInv("spi", spis), ListInv("espi", espis),
           Covers("spi", spis), Covers("espi", espis),
           NEW i \in (0 .. 31) \union Supported("spi") \union Supported("espi")
    PROVE  Agrees(AllEntries(spis, espis), i)
<1> DEFINE all == AllEntries(spis, espis)
<1>1. /\ spis \in Seq(Entry("spi")) /\ espis \in Seq(Entry("espi"))
      /\ Len(spis) \in Nat /\ DOMAIN spis = 1 .. Len(spis)
      /\ Len(espis) \in Nat /\ DOMAIN espis = 1 .. Len(espis)
  BY DEF ListInv
<1>2. /\ DOMAIN all = 1 .. 1 + Len(spis) + Len(espis)
      /\ all[1] = gic_v3_intr_ppi
      /\ \A k \in DOMAIN spis : all[1 + k] = Patched(spis[k])
      /\ \A k \in DOMAIN espis : all[1 + Len(spis) + k] = Patched(espis[k])
      /\ \A j \in DOMAIN all : \/ j = 1
                               \/ \E k \in DOMAIN spis : j = 1 + k
                               \/ \E k \in DOMAIN espis : j = 1 + Len(spis) + k
  BY TableShape
<1> HIDE DEF all
<1>3. \A k \in DOMAIN spis : spis[k] \in Entry("spi")
  BY <1>1
<1>4. \A k \in DOMAIN espis : espis[k] \in Entry("espi")
  BY <1>1
<1>5. all[1].kind = "ppi" /\ all[1].base = 0 /\ \A x : Holds(all[1], x) <=> x \in 0 .. 31
  BY <1>2, PpiFields
<1>6. ASSUME NEW k \in DOMAIN spis
      PROVE  /\ all[1 + k].kind = "spi" /\ all[1 + k].base = spis[k].base
             /\ \A x : Holds(all[1 + k], x) <=> Holds(spis[k], x)
             /\ \A x : Holds(all[1 + k], x) => x \in Supported("spi")
  <2>1. spis[k].kind = "spi" /\ \A x : Holds(spis[k], x) => x \in Supported("spi")
    BY <1>3, EntryRange DEF Listed
  <2>3. all[1 + k] = Patched(spis[k])
    BY <1>2
  <2>4. \A x : Holds(all[1 + k], x) <=> Holds(spis[k], x)
    BY <2>3, PatchedFields
  <2>5. all[1 + k].kind = "spi" /\ all[1 + k].base = spis[k].base
    BY <2>1, <2>3, PatchedFields
  <2> QED BY <2>1, <2>4, <2>5
<1>0. ASSUME NEW k \in DOMAIN espis
       PROVE  /\ all[1 + Len(spis) + k].kind = "espi" /\ all[1 + Len(spis) + k].base = espis[k].base
              /\ \A x : Holds(all[1 + Len(spis) + k], x) <=> Holds(espis[k], x)
              /\ \A x : Holds(all[1 + Len(spis) + k], x) => x \in Supported("espi")
  <2>1. espis[k].kind = "espi" /\ \A x : Holds(espis[k], x) => x \in Supported("espi")
    BY <1>4, EntryRange DEF Listed
  <2> DEFINE p == 1 + Len(spis) + k
  <2>3. all[p] = Patched(espis[k])
    BY <1>2
  <2> HIDE DEF p
  <2>4. \A x : Holds(all[p], x) <=> Holds(espis[k], x)
    BY <2>3, PatchedFields
  <2>5. all[p].kind = "espi" /\ all[p].base = espis[k].base
    BY <2>1, <2>3, PatchedFields
  <2> QED BY <2>1, <2>4, <2>5 DEF p
<1>7. i \in Nat /\ DOMAIN all \subseteq Int /\ 1 \in DOMAIN all
  BY <1>1, <1>2, SupportedIds, Numbers
<1>8. CASE i \in 0 .. 31
  <2>1. Holds(all[1], i) /\ \A k \in DOMAIN all : Holds(all[k], i) => k = 1
    <3>1. Holds(all[1], i)
      BY <1>5, <1>8
    <3>2. ASSUME NEW j \in DOMAIN all, Holds(all[j], i), j # 1 PROVE FALSE
      BY <1>2, <1>6, <1>0, <1>8, <3>2, KindsApart
    <3> QED BY <3>1, <3>2
  <2>2. interrupt_id(all[1].kind, i) = i /\ \A k \in DOMAIN all : 1 <= k
    BY SMTT(40), <1>1, <1>2, <1>5, <1>7, <1>8, IdOf
  <2>3. RegisterId(all[1], i - all[1].base) = i
    BY <1>2, <1>5, <1>8, PpiFields DEF RegisterId
  <2>4. interrupt_id(all[1].kind, i) # -1 /\ all[1].base + interrupt_id(all[1].kind, i) = i
    BY <1>5, <1>7, <1>8, <2>2
  <2>5. Agrees(all, i)
    BY <1>7, <2>1, <2>2, <2>3, <2>4, AgreesIf
  <2> QED BY <2>5 DEF all
<1>9. CASE i \in Supported("spi")
  <2>1. i \in 32 .. 1019
    BY <1>9, SupportedBounds
  <2>2. PICK k \in DOMAIN spis : Holds(spis[k], i)
    BY <1>9 DEF Covers
  <2>3. 1 \in DOMAIN spis /\ spis[1].base = 32
    BY <1>9, FirstBase, Numbers DEF Listed
  <2>4. 1 + k \in DOMAIN all /\ Holds(all[1 + k], i) /\ 2 \in DOMAIN all
    BY <1>1, <1>2, <1>6, <2>2, <2>3
  <2>5. \A j \in DOMAIN all : Holds(all[j], i) => j = 1 + k
    <3> SUFFICES ASSUME NEW j \in DOMAIN all, Holds(all[j], i) PROVE j = 1 + k
      OBVIOUS
    <3>1. PICK x \in DOMAIN spis : j = 1 + x
      BY <1>2, <1>5, <1>0, <1>9, KindsApart
    <3>2. Holds(spis[x], i)
      BY <1>6, <3>1
    <3> QED BY <2>2, <3>1, <3>2, OneHolds DEF Listed
  <2>6. all[2].kind = "spi" /\ all[2].base = 32
    BY <1>1, <1>6, <2>3
  <2>7. interrupt_id("spi", i) = i - 32 /\ interrupt_id("ppi", i) = -1 /\ interrupt_id("espi", i) = -1
    BY <2>1, IdOf
  <2>8. \A j \in DOMAIN all : interrupt_id(all[j].kind, i) # -1 => 2 <= j
    BY <1>1, <1>2, <1>5, <1>6, <1>0, <2>7
  <2>9. RegisterId(all[1 + k], i - all[1 + k].base) = i
    BY <1>2, <1>3, <1>6, <1>7, <2>2, RegisterOf DEF Listed
  <2>10. interrupt_id(all[2].kind, i) # -1 /\ all[2].base + interrupt_id(all[2].kind, i) = i
    BY <2>1, <2>6, <2>7
  <2>11. Agrees(all, i)
    BY <1>7, <2>4, <2>5, <2>8, <2>9, <2>10, AgreesIf
  <2> QED BY <2>11 DEF all
<1>10. CASE i \in Supported("espi")
  <2>1. i \in 4096 .. 5119
    BY <1>10, SupportedBounds
  <2>2. PICK k \in DOMAIN espis : Holds(espis[k], i)
    BY <1>10 DEF Covers
  <2>3. 1 \in DOMAIN espis /\ espis[1].base = 4096
    BY <1>10, FirstBase, Numbers DEF Listed
  <2> DEFINE f == 1 + Len(spis) + 1
             h == 1 + Len(spis) + k
  <2>4. h \in DOMAIN all /\ Holds(all[h], i) /\ f \in DOMAIN all
    BY <1>1, <1>2, <1>0, <2>2, <2>3
  <2>5. \A j \in DOMAIN all : Holds(all[j], i) => j = h
    <3> SUFFICES ASSUME NEW j \in DOMAIN all, Holds(all[j], i) PROVE j = h
      OBVIOUS
    <3>1. PICK x \in DOMAIN espis : j = 1 + Len(spis) + x
      BY <1>2, <1>5, <1>6, <1>10, KindsApart
    <3>2. Holds(espis[x], i)
      BY <1>0, <3>1
    <3> QED BY <2>2, <3>1, <3>2, OneHolds DEF Listed
  <2>6. all[f].kind = "espi" /\ all[f].base = 4096
    BY <1>1, <1>0, <2>3
  <2>7. interrupt_id("espi", i) = i - 4096 /\ interrupt_id("ppi", i) = -1 /\ interrupt_id("spi", i) = -1
    BY <2>1, IdOf
  <2>8. \A j \in DOMAIN all : interrupt_id(all[j].kind, i) # -1 => f <= j
    BY <1>1, <1>2, <1>5, <1>6, <1>0, <2>7
  <2>9. RegisterId(all[h], i - all[h].base) = i
    BY <1>2, <1>4, <1>0, <1>7, <2>2, RegisterOf DEF Listed
  <2> HIDE DEF f, h
  <2>10. interrupt_id(all[f].kind, i) # -1 /\ all[f].base + interrupt_id(all[f].kind, i) = i
    BY <2>1, <2>6, <2>7
  <2>11. Agrees(all, i)
    BY <1>7, <2>4, <2>5, <2>8, <2>9, <2>10, AgreesIf
  <2> QED BY <2>11 DEF all
<1> QED BY <1>8, <1>9, <1>10

-----------------------------------------------------------------------------
(* The invariant.                                                          *)

\* The lists are ordered, then complete, then in the system page.
EntryInv ==
    /\ entries \in [Listed -> Seq(Entry("spi")) \union Seq(Entry("espi"))]
    /\ \A kind \in Listed :
          /\ ListInv(kind, entries[kind])
          /\ boot # "config" /\ entries[kind] # <<>> => Covers(kind, entries[kind])
    /\ boot \in {"redist", "iface", "kernel"} => intrinfo = Table(entries)

\* The CPUs whose redistributor is set up, and those that have finished.
Taken == {c \in Cpus : \/ boot \in {"redist", "iface"} /\ c < bringing
                       \/ boot = "iface" /\ c = bringing
                       \/ boot = "kernel"}
Ready == {c \in Cpus : (boot \in {"redist", "iface"} /\ c < bringing) \/ boot = "kernel"}

SpisDone == {"espis", "enable", "route", "entries", "redist", "iface", "kernel"}
EspisDone == SpisDone \ {"espis"}

\* The interrupts the set-up has dealt with.
Quiet == {x \in Irq : \/ boot \in SpisDone /\ x \in SharedOf("spi")
                      \/ boot \in EspisDone /\ x \in SharedOf("espi")
                      \/ \E c \in Taken : x \in OfFrame(Gicr[c])}

\* Nothing of the firmware's is left among them but the group of the ESPIs, and the
\* SGI of the IPIs is enabled; what has just been disabled settles before the
\* set-up goes on.
SetUpInv ==
    /\ stale \cap Quiet = {} /\ Quiet \ SharedOf("espi") \subseteq group1
    /\ \A c \in Taken : Sgi0(Gicr[c]) \in enabled
    /\ boot # "kernel" => enabled \cap Quiet \subseteq Sgis
    /\ boot \in {"config", "spis", "route", "entries", "redist"} => lagging = {}
    /\ boot \in {"espis", "enable"} => lagging \subseteq Shared
    /\ boot = "iface" => lagging \subseteq OfFrame(Gicr[bringing])

\* The interrupts that are level triggered when ClearEspis is done, and where all
\* shared ones go when Route is.
LevelIds == Levelled \union Supported("espi")
EdgeInv ==
    /\ boot = "espis" => edge \cap Levelled = {}
    /\ boot \in {"enable", "route", "entries"} => edge \cap LevelIds = {}
    /\ boot \in {"redist", "iface", "kernel"} => MsiIds \subseteq edge /\ edge \cap LevelIds \subseteq MsiIds
    /\ boot \in {"entries", "redist", "iface", "kernel"} => target = [i \in SharedIds |-> 0]

MapInv ==
    /\ boot \notin {"redist", "iface", "kernel"} => bringing = 0
    /\ \A c \in Taken : gicrIdx[c] = Gicr[c]
    /\ \A c \in Ready : gicCpu[c] = Gicr[c]

\* The interrupts the kernel of a CPU masks and unmasks.
Mine(c) == Shared \union (OfFrame(Gicr[c]) \ Sgis)

\* No CPU is in a callout before the kernel is up; one that waits for RWP has
\* written its disable bit, and nobody undoes that.
CpuInv ==
    /\ boot # "kernel" => /\ \A c \in Cpus : at[c] = "boot"
                          /\ ipicmds = {} /\ wanted = {}
    /\ boot = "kernel" => \A c \in Cpus : at[c] # "boot"
    /\ \A c \in Cpus : at[c] = "rwp" => arg[c] \in Mine(c) \ enabled
    /\ \A c \in Cpus : at[c] = "sgi" => arg[c] \in Sgis

IInv == TypeOK /\ EntryInv /\ SetUpInv /\ EdgeInv /\ MapInv /\ CpuInv /\ OnlyUnmaskedActs

-----------------------------------------------------------------------------
(* The interrupts and their frames.                                        *)

\* Every redistributor is that of a CPU.
LEMMA GicrOnto == \A f \in Cpus : \E c \in Cpus : Gicr[c] = f
<1>1. NumCpu \in Nat \ {0} /\ Gicr \in [Cpus -> Cpus] /\ \A c, d \in Cpus : Gicr[c] = Gicr[d] => c = d
  BY GicV3Assumption
<1>2. IsFiniteSet(Cpus) /\ Cardinality(Cpus) \in Nat
  BY <1>1, FS_Interval, FS_CardinalityType DEF Cpus
<1> SUFFICES ASSUME NEW f \in Cpus, \A c \in Cpus : Gicr[c] # f
             PROVE  FALSE
  OBVIOUS
<1> DEFINE Rest == Cpus \ {f}
<1>3. IsFiniteSet(Rest) /\ Cardinality(Rest) = Cardinality(Cpus) - 1
  BY <1>2, FS_RemoveElement
<1>4. Gicr \in [Cpus -> Rest]
  BY <1>1
<1> HIDE DEF Rest
<1>5. \E c, d \in Cpus : c # d /\ Gicr[c] = Gicr[d]
  BY <1>2, <1>3, <1>4, FS_PigeonHole
<1> QED BY <1>1, <1>5

LEMMA CpuNumbers == /\ Cpus \subseteq Nat /\ GICD \notin Cpus /\ 0 \in Cpus /\ NumCpu - 1 \in Cpus
                    /\ NumCpu \in Nat
                    /\ \A c \in Cpus : Gicr[c] \in Cpus
BY GicV3Assumption DEF Cpus, GICD

LEMMA FrameIrqs ==
    /\ Shared \subseteq Irq /\ Sgis \subseteq Irq /\ OfFrame(GICD) = Shared
    /\ Shared \cap Sgis = {}
    /\ \A c \in Cpus : /\ OfFrame(Gicr[c]) \subseteq Irq \ Shared
                      /\ Sgi0(Gicr[c]) \in OfFrame(Gicr[c])
    /\ \A x \in Irq : x \in Shared \/ \E c \in Cpus : x \in OfFrame(Gicr[c])
    /\ NoIrq \notin Irq
<1>1. \A x \in Irq : Frame(x) \in Frames /\ (Frame(x) = GICD <=> x \in Shared)
  BY CpuNumbers, GicV3Assumption DEF Irq, Shared, Sgis, Sgi0, Frame, Frames
<1>2. \A c \in Cpus : Sgi0(Gicr[c]) \in Sgis /\ Frame(Sgi0(Gicr[c])) = Gicr[c]
  BY CpuNumbers DEF Sgis, Sgi0, Frame
<1>3. Shared \cap Sgis = {}
  BY CpuNumbers DEF Shared, Sgis, Sgi0
<1>4. \A x \in Irq : x \in Shared \/ \E c \in Cpus : Gicr[c] = Frame(x)
  BY <1>1, GicrOnto DEF Frames
<1>5. NoIrq \notin Irq
  <2>1. 1023 \notin SharedIds
    BY SupportedBounds, GicV3Assumption
  <2>2. \A x \in Ppis \union Sgis : x # NoIrq
    BY CpuNumbers, GicV3Assumption DEF NoIrq, Sgis, Sgi0
  <2> QED BY <2>1, <2>2 DEF NoIrq, Irq, Shared
<1>6. OfFrame(GICD) = Shared
  BY <1>1 DEF OfFrame, Irq
<1>7. \A c \in Cpus : /\ OfFrame(Gicr[c]) \subseteq Irq \ Shared
                    /\ Sgi0(Gicr[c]) \in OfFrame(Gicr[c])
  BY <1>1, <1>2, CpuNumbers DEF OfFrame, Irq
<1> QED BY <1>3, <1>4, <1>5, <1>6, <1>7 DEF Irq, OfFrame

LEMMA OwnFrame ==
    ASSUME NEW c \in Cpus, NEW d \in Cpus, NEW x \in OfFrame(Gicr[c]), x \in OfFrame(Gicr[d])
    PROVE  c = d
BY GicV3Assumption DEF OfFrame

LEMMA SharedKinds ==
    /\ Shared = SharedOf("spi") \union SharedOf("espi")
    /\ SharedOf("spi") \cap SharedOf("espi") = {}
BY GicV3Assumption, KindsApart DEF Shared, SharedOf, Id

\* An interrupt a CPU may mask is one the tables know.
LEMMA MineIds ==
    ASSUME NEW c \in Cpus, NEW x \in Mine(c)
    PROVE  /\ x \in Irq \ Sgis
           /\ x = <<IF Id(x) < 32 THEN Gicr[c] ELSE GICD, Id(x)>>
           /\ Id(x) \in (0 .. 31) \union Supported("spi") \union Supported("espi")
<1>1. CASE x \in Shared
  <2>1. x = <<GICD, Id(x)>> /\ Id(x) \in SharedIds
    BY <1>1 DEF Shared, Id
  <2>2. Id(x) \in Supported("spi") \union Supported("espi")
    BY <2>1, GicV3Assumption
  <2>3. ~(Id(x) < 32)
    BY SMTT(40), <2>2, SupportedBounds
  <2> QED BY <1>1, <2>1, <2>2, <2>3, FrameIrqs
<1>2. CASE x \in OfFrame(Gicr[c]) \ Sgis
  <2>1. x \in Ppis /\ Frame(x) = Gicr[c]
    BY <1>2, FrameIrqs DEF OfFrame, Irq
  <2>2. x = <<Gicr[c], Id(x)>> /\ Id(x) \in 16 .. 31
    BY <2>1, GicV3Assumption DEF Frame, Id
  <2> QED BY <1>2, <2>2, FrameIrqs
<1> QED BY <1>1, <1>2 DEF Mine

\* What the mask and unmask callouts write is the bit of the interrupt they are
\* called for.
LEMMA WrittenIs ==
    ASSUME IInv, boot = "kernel", NEW c \in Cpus, NEW x \in Mine(c)
    PROVE  Written(c, x) = x
<1>1. gicrIdx[c] = Gicr[c]
  BY DEF IInv, MapInv, Taken
<1>2. intrinfo = Table(entries) /\ \A kind \in Listed :
          /\ ListInv(kind, OrDefault(kind, entries[kind]))
          /\ Covers(kind, OrDefault(kind, entries[kind]))
  BY DefaultList DEF IInv, EntryInv
<1>3. Agrees(intrinfo, Id(x))
  BY <1>2, MineIds, TableAgrees DEF Table, Listed
<1>4. WrittenId(intrinfo, VectorOf(intrinfo, Id(x))) = Id(x)
  BY <1>3 DEF Agrees
<1> QED BY <1>1, <1>4, MineIds DEF Written

LEMMA MayCallMine ==
    ASSUME IInv, boot = "kernel", NEW c \in Cpus, NEW x, MayCall(c, x)
    PROVE  x \in Mine(c) /\ \A d \in Cpus : arg[d] # x
BY DEF MayCall, Mine, IInv, MapInv, Taken

\* SGI 0 is vector 0.
LEMMA IpiIsSgi0 == ASSUME IInv, boot = "kernel", NEW f PROVE Ipi(Sgi0(f))
<1>1. intrinfo = Table(entries) /\ \A kind \in Listed :
          /\ ListInv(kind, OrDefault(kind, entries[kind]))
          /\ Covers(kind, OrDefault(kind, entries[kind]))
  BY DefaultList DEF IInv, EntryInv
<1>2. Agrees(intrinfo, 0)
  BY <1>1, TableAgrees DEF Table, Listed
<1> QED BY <1>2 DEF Agrees, Ipi, Sgi0, Id

-----------------------------------------------------------------------------
(* The callouts and the devices.                                           *)

\* What a step of the kernel or of a device has to keep of the invariant.
LEMMA KernelKeeps ==
    ASSUME IInv, boot = "kernel", UNCHANGED <<bootVars, distVars, stale>>,
           enabled \cap Sgis \subseteq enabled',
           TypeOK', CpuInv', OnlyUnmaskedActs'
    PROVE  IInv'
<1> USE DEF bootVars, distVars
<1>1. EntryInv'
  BY DEF IInv, EntryInv
<1>2. SetUpInv'
  <2>1. \A c \in Cpus : Sgi0(Gicr[c]) \in Sgis
    BY CpuNumbers DEF Sgis
  <2>2. Taken' = Taken /\ Taken \subseteq Cpus /\ Quiet' = Quiet
    BY DEF Taken, Quiet
  <2> QED BY <2>1, <2>2 DEF IInv, SetUpInv
<1>3. EdgeInv'
  BY DEF IInv, EdgeInv, MsiIds
<1>4. MapInv'
  BY DEF IInv, MapInv, Taken, Ready
<1> QED BY <1>1, <1>2, <1>3, <1>4 DEF IInv

\* A CPU that executes kernel code.
LEMMA InKernel ==
    ASSUME IInv, NEW c \in Cpus, NEW from, NEW to, from # "boot", Kernel(c, from, to)
    PROVE  /\ boot = "kernel" /\ at[c] = from /\ at' = [at EXCEPT ![c] = to]
           /\ UNCHANGED <<bootVars, distVars, stale, raised>>
BY DEF Kernel, IInv, CpuInv

\* A CPU goes from one state without an argument to another, and changes
\* nothing that acts.
LEMMA PlainStep ==
    ASSUME IInv, NEW c \in Cpus, NEW from, NEW to,
           from \in {"thread", "irq", "vector", "eoi"}, to \in {"thread", "irq", "vector", "eoi"},
           Kernel(c, from, to), UNCHANGED <<enabled, lagging, arg, wanted>>,
           pend' \subseteq Irq, line' \subseteq Irq, deferred' \subseteq Irq,
           active' \in [Cpus -> Irq \cup {NoIrq}], ipicmds' \subseteq Cpus
    PROVE  IInv'
<1>1. /\ boot = "kernel" /\ at[c] = from /\ at' = [at EXCEPT ![c] = to]
      /\ UNCHANGED <<bootVars, distVars, stale, raised>>
  BY InKernel
<1> USE DEF bootVars, distVars
<1>2. TypeOK'
  BY <1>1 DEF IInv, TypeOK
<1>3. CpuInv'
  BY <1>1 DEF IInv, CpuInv, TypeOK, Mine
<1>4. OnlyUnmaskedActs'
  <2>1. \A d \in Cpus : at'[d] = "rwp" <=> at[d] = "rwp"
    BY <1>1 DEF IInv, TypeOK
  <2> QED BY <1>1, <2>1 DEF IInv, OnlyUnmaskedActs
<1> QED BY <1>1, <1>2, <1>3, <1>4, KernelKeeps

LEMMA TakeIrqInv == ASSUME IInv, NEW c \in Cpus, TakeIrq(c) PROVE IInv'
BY PlainStep DEF TakeIrq, kernelVars, IInv, TypeOK

LEMMA SignalsIrq == ASSUME NEW c \in Cpus, TypeOK PROVE Signals(c) \subseteq Irq
BY DEF Signals, TypeOK

LEMMA IdentifyInv == ASSUME IInv, NEW c \in Cpus, Identify(c) PROVE IInv'
<1> USE DEF kernelVars
<1>1. PICK to \in {"thread", "vector"} :
         /\ Kernel(c, "irq", to) /\ UNCHANGED <<enabled, lagging, arg, line, kernelVars>>
         /\ \/ UNCHANGED <<pend, active>>
            \/ \E x \in Signals(c) : active' = [active EXCEPT ![c] = x] /\ pend' = pend \ {x}
  <2> DEFINE best == IF Signals(c) \subseteq Sgis THEN Signals(c) ELSE Signals(c) \ Sgis
  <2>1. best \subseteq Signals(c)
    OBVIOUS
  <2>2. \/ \E x \in best : /\ Kernel(c, "irq", "vector") /\ active' = [active EXCEPT ![c] = x]
                          /\ pend' = pend \ {x}
                          /\ UNCHANGED <<enabled, lagging, line, arg, kernelVars>>
        \/ /\ Kernel(c, "irq", "thread")
           /\ UNCHANGED <<enabled, lagging, pend, line, arg, active, kernelVars>>
    BY Zenon DEF Identify
  <2> HIDE DEF best
  <2> QED BY <2>1, <2>2
<1>2. pend' \subseteq Irq /\ active' \in [Cpus -> Irq \cup {NoIrq}]
  BY <1>1, SignalsIrq DEF IInv, TypeOK
<1>3. line' \subseteq Irq /\ deferred' \subseteq Irq /\ ipicmds' \subseteq Cpus
  BY <1>1 DEF IInv, TypeOK
<1> QED BY <1>1, <1>2, <1>3, PlainStep

LEMMA ServedInv ==
    ASSUME IInv, NEW c \in Cpus,
           ServeIpi(c) \/ Handle(c) \/ Eoi(c) \/ \E x \in Irq : Serve(c, x)
    PROVE  IInv'
<1> USE DEF kernelVars
<1>1. CASE ServeIpi(c)
  BY <1>1, PlainStep DEF ServeIpi, IInv, TypeOK
<1>2. CASE Handle(c)
  BY <1>2, PlainStep DEF Handle, IInv, TypeOK
<1>3. CASE Eoi(c)
  BY <1>3, PlainStep DEF Eoi, IInv, TypeOK
<1>4. CASE \E x \in Irq : Serve(c, x)
  BY <1>4, PlainStep DEF Serve, IInv, TypeOK
<1> QED BY <1>1, <1>2, <1>3, <1>4

\* The mask callout, up to its poll of RWP: the interrupt is its argument from
\* the write on, and is not enabled.
LEMMA StoreMaskInv ==
    ASSUME IInv, NEW c \in Cpus, NEW x,
           \/ MaskTaken(c) /\ x = active[c]
           \/ x \in Irq /\ Mask(c, x)
    PROVE  IInv'
<1>1. PICK from \in {"vector", "thread"} : Kernel(c, from, "rwp")
  BY DEF MaskTaken, Mask
<1>2. /\ boot = "kernel" /\ at[c] = from /\ at' = [at EXCEPT ![c] = "rwp"]
      /\ UNCHANGED <<bootVars, distVars, stale, raised>>
  BY <1>1, InKernel
<1>3. MayCall(c, x) /\ StoreMask(x, c)
  BY DEF MaskTaken, Mask
<1>4. x \in Mine(c) /\ x \in Irq /\ \A d \in Cpus : arg[d] # x
  BY <1>2, <1>3, MayCallMine, MineIds
<1>5. /\ arg' = [arg EXCEPT ![c] = x] /\ enabled' = enabled \ {x}
      /\ lagging' = lagging \cup (enabled \cap {x})
  BY <1>2, <1>3, <1>4, WrittenIs DEF StoreMask, Disable
<1>6. UNCHANGED <<pend, line, active, wanted, ipicmds>> /\ deferred' \subseteq Irq
  BY <1>4 DEF MaskTaken, Mask, kernelVars, IInv, TypeOK
<1> USE DEF bootVars, distVars
<1>7. TypeOK'
  BY <1>2, <1>4, <1>5, <1>6 DEF IInv, TypeOK
<1>8. CpuInv'
  BY <1>2, <1>4, <1>5, <1>6 DEF IInv, CpuInv, TypeOK, Mine
<1>9. OnlyUnmaskedActs'
  <2>1. \A d \in Cpus : at[d] = "rwp" => at'[d] = "rwp" /\ arg'[d] = arg[d]
    BY <1>1, <1>2, <1>5 DEF IInv, TypeOK
  <2>2. enabled' \cup lagging' \subseteq enabled \cup lagging
    BY <1>5
  <2> QED BY <1>2, <1>6, <2>1, <2>2 DEF IInv, OnlyUnmaskedActs
<1>10. enabled \cap Sgis \subseteq enabled'
  BY <1>4, <1>5, MineIds
<1> QED BY <1>2, <1>7, <1>8, <1>9, <1>10, KernelKeeps

\* It returns only when the hardware no longer acts on the interrupt.
LEMMA MaskedInv == ASSUME IInv, NEW c \in Cpus, Masked(c) PROVE IInv'
<1> DEFINE to == IF active[c] = NoIrq THEN "thread" ELSE "eoi"
           x == arg[c]
<1>1. Kernel(c, "rwp", to)
  BY DEF Masked, Return
<1>2. /\ boot = "kernel" /\ at[c] = "rwp" /\ at' = [at EXCEPT ![c] = to]
      /\ UNCHANGED <<bootVars, distVars, stale, raised>>
  BY <1>1, InKernel
<1>3. x \in Mine(c) /\ x \notin enabled
  BY <1>2 DEF IInv, CpuInv
<1>4. x \notin lagging
  <2>1. ~Rwp(Frame(x))
    BY <1>2, <1>3, WrittenIs DEF Masked
  <2>2. x \in OfFrame(Frame(x))
    BY <1>3, MineIds DEF OfFrame
  <2> QED BY <2>1, <2>2 DEF Rwp
<1>5. /\ arg' = [arg EXCEPT ![c] = NoIrq] /\ wanted' = wanted \ {x}
      /\ UNCHANGED <<enabled, lagging, pend, line, active, deferred, ipicmds>>
  BY DEF Masked, Return
<1> USE DEF bootVars, distVars
<1>6. TypeOK'
  BY <1>2, <1>5 DEF IInv, TypeOK
<1>7. CpuInv'
  BY <1>2, <1>5 DEF IInv, CpuInv, TypeOK, Mine
<1>8. OnlyUnmaskedActs'
  <2> SUFFICES ASSUME NEW y \in enabled \cup lagging, y \notin wanted', y \notin Sgis
               PROVE  \E d \in Cpus : at'[d] = "rwp" /\ arg'[d] = y
    BY <1>5 DEF OnlyUnmaskedActs
  <2>1. y # x /\ y \notin wanted
    BY <1>3, <1>4, <1>5
  <2>2. PICK d \in Cpus : at[d] = "rwp" /\ arg[d] = y
    BY <1>2, <2>1 DEF IInv, OnlyUnmaskedActs
  <2>3. d # c
    BY <2>1, <2>2
  <2> QED BY <1>2, <1>5, <2>2, <2>3 DEF IInv, TypeOK
<1> QED BY <1>2, <1>5, <1>6, <1>7, <1>8, KernelKeeps

LEMMA UnmaskInv == ASSUME IInv, NEW c \in Cpus, NEW x \in Irq, Unmask(c, x) PROVE IInv'
<1>1. /\ boot = "kernel" /\ at[c] = "thread" /\ at' = [at EXCEPT ![c] = "thread"]
      /\ UNCHANGED <<bootVars, distVars, stale, raised>>
  BY InKernel DEF Unmask
<1>2. x \in Mine(c) /\ \A d \in Cpus : arg[d] # x
  BY <1>1, MayCallMine DEF Unmask
<1>3. /\ enabled' = enabled \cup {x} /\ lagging' = lagging \ {x} /\ wanted' = wanted \cup {x}
      /\ UNCHANGED <<pend, line, arg, active, deferred, ipicmds>>
  BY <1>1, <1>2, WrittenIs DEF Unmask
<1> USE DEF bootVars, distVars
<1>4. at' = at
  BY <1>1 DEF IInv, TypeOK
<1>5. TypeOK'
  BY <1>1, <1>3, <1>4 DEF IInv, TypeOK
<1>6. CpuInv'
  BY <1>1, <1>2, <1>3, <1>4 DEF IInv, CpuInv, Mine
<1>7. OnlyUnmaskedActs'
  BY <1>1, <1>3, <1>4 DEF IInv, OnlyUnmaskedActs
<1> QED BY <1>1, <1>3, <1>5, <1>6, <1>7, KernelKeeps

\* A sender that finds no commands of its target's takes its SGI along.
LEMMA SendInv == ASSUME IInv, NEW c \in Cpus, NEW d \in Cpus, Send(c, d) PROVE IInv'
<1>1. PICK to \in {"thread", "sgi"} : Kernel(c, "thread", to) /\ (to = "sgi" <=> d \notin ipicmds)
  BY DEF Send
<1>2. /\ boot = "kernel" /\ at[c] = "thread" /\ at' = [at EXCEPT ![c] = to]
      /\ UNCHANGED <<bootVars, distVars, stale, raised>>
  BY <1>1, InKernel
<1>3. gicCpu[d] = Gicr[d] /\ Sgi0(Gicr[d]) \in Sgis /\ Sgi0(Gicr[d]) \in Irq
  BY <1>2, CpuNumbers, FrameIrqs DEF IInv, MapInv, Ready, Sgis
<1>4. /\ arg' = IF to = "sgi" THEN [arg EXCEPT ![c] = Sgi0(Gicr[d])] ELSE arg
      /\ ipicmds' = ipicmds \cup {d}
      /\ UNCHANGED <<enabled, lagging, pend, line, active, wanted, deferred>>
  BY <1>1, <1>3 DEF Send
<1> USE DEF bootVars, distVars
<1>5. TypeOK'
  BY <1>2, <1>3, <1>4 DEF IInv, TypeOK
<1>6. CpuInv'
  BY <1>2, <1>3, <1>4 DEF IInv, CpuInv, TypeOK, Mine
<1>7. OnlyUnmaskedActs'
  <2>1. \A e \in Cpus : at[e] = "rwp" => at'[e] = "rwp" /\ arg'[e] = arg[e]
    BY <1>2, <1>4 DEF IInv, TypeOK
  <2> QED BY <1>2, <1>4, <2>1 DEF IInv, OnlyUnmaskedActs
<1> QED BY <1>2, <1>4, <1>5, <1>6, <1>7, KernelKeeps

LEMMA TriggerInv == ASSUME IInv, NEW c \in Cpus, Trigger(c) PROVE IInv'
<1>1. PICK to \in {"thread", "fault"} : Kernel(c, "sgi", to)
  BY DEF Trigger
<1>2. /\ boot = "kernel" /\ at[c] = "sgi" /\ at' = [at EXCEPT ![c] = to]
      /\ UNCHANGED <<bootVars, distVars, stale, raised>>
  BY <1>1, InKernel
<1>3. arg[c] \in Irq
  BY <1>2, FrameIrqs DEF IInv, CpuInv
<1>4. /\ arg' = [arg EXCEPT ![c] = NoIrq] /\ pend' \subseteq Irq
      /\ UNCHANGED <<enabled, lagging, line, active, wanted, deferred, ipicmds>>
  BY <1>3 DEF Trigger, kernelVars, IInv, TypeOK
<1> USE DEF bootVars, distVars
<1>5. TypeOK'
  BY <1>2, <1>4 DEF IInv, TypeOK
<1>6. CpuInv'
  BY <1>2, <1>4 DEF IInv, CpuInv, TypeOK, Mine
<1>7. OnlyUnmaskedActs'
  <2>1. \A e \in Cpus : at[e] = "rwp" => at'[e] = "rwp" /\ arg'[e] = arg[e]
    BY <1>2, <1>4 DEF IInv, TypeOK
  <2> QED BY <1>2, <1>4, <2>1 DEF IInv, OnlyUnmaskedActs
<1> QED BY <1>2, <1>4, <1>5, <1>6, <1>7, KernelKeeps

\* Devices and the hardware go on during the set-up, too.
LEMMA HardwareInv ==
    ASSUME IInv, NEW x \in Irq, Propagate(x) \/ (x \notin Sgis /\ Raise(x))
    PROVE  IInv'
<1>1. /\ UNCHANGED <<bootVars, distVars, enabled, stale, cpuVars, kernelVars>>
      /\ lagging' \subseteq lagging
      /\ pend' \subseteq Irq /\ line' \subseteq Irq /\ raised' \in 0 .. MaxRaise
  <2>1. CASE Propagate(x)
    BY <2>1 DEF Propagate, irqVars, IInv, TypeOK
  <2>2. CASE Raise(x)
    BY <2>2, GicV3Assumption DEF Raise, IInv, TypeOK
  <2> QED BY <2>1, <2>2
<1> USE DEF bootVars, distVars, cpuVars, kernelVars
<1>2. TypeOK'
  BY <1>1 DEF IInv, TypeOK
<1>3. EntryInv'
  BY <1>1 DEF IInv, EntryInv
<1>4. SetUpInv'
  BY <1>1 DEF IInv, SetUpInv, Quiet, Taken
<1>5. EdgeInv'
  BY <1>1 DEF IInv, EdgeInv, MsiIds
<1>6. MapInv'
  BY <1>1 DEF IInv, MapInv, Taken, Ready
<1>7. CpuInv'
  BY <1>1 DEF IInv, CpuInv, Mine
<1>8. OnlyUnmaskedActs'
  BY <1>1 DEF IInv, OnlyUnmaskedActs
<1> QED BY <1>2, <1>3, <1>4, <1>5, <1>6, <1>7, <1>8 DEF IInv

-----------------------------------------------------------------------------
(* The startup program.                                                    *)

\* What is the same for all its steps.
LEMMA BootKeeps ==
    ASSUME IInv, NEW from, NEW to, from # "kernel", BootStep(from, to),
           to \in {"spis", "espis", "enable", "route", "entries", "redist", "iface"},
           bringing' = bringing, entries' = entries, gicCpu' = gicCpu, on' \in BOOLEAN,
           group1' \subseteq Irq, edge' \subseteq SharedIds, target' \in [SharedIds -> 0 .. NumCpu],
           enabled' \subseteq Irq, lagging' \subseteq Irq, pend' \subseteq pend, stale' \subseteq stale,
           gicrIdx' \in [Cpus -> Frames]
    PROVE  TypeOK' /\ CpuInv' /\ OnlyUnmaskedActs'
<1>1. boot = from /\ boot' = to /\ UNCHANGED <<line, raised, at, arg, active, wanted, deferred, ipicmds>>
  BY DEF BootStep, cpuVars, kernelVars
<1>2. TypeOK'
  BY <1>1 DEF IInv, TypeOK
<1>3. CpuInv'
  BY <1>1 DEF IInv, CpuInv
<1>4. OnlyUnmaskedActs'
  BY <1>1 DEF OnlyUnmaskedActs
<1> QED BY <1>2, <1>3, <1>4

LEMMA AddEntryInv == ASSUME IInv, NEW e \in Offered, AddEntry(e) PROVE IInv'
<1>1. /\ boot = "config" /\ entries' = [entries EXCEPT ![e.kind] = Append(@, e)]
      /\ Accepts(entries[e.kind], e)
      /\ UNCHANGED <<boot, bringing, intrinfo, gicrIdx, gicCpu, distVars, enabled, lagging,
                     irqVars, cpuVars, kernelVars>>
  BY DEF AddEntry
<1>2. e.kind \in Listed /\ e \in Entry(e.kind)
  BY GicV3Assumption DEF AddEntry, Entry, Listed
<1>3. ListInv(e.kind, entries'[e.kind])
  <2>1. ListInv(e.kind, entries[e.kind]) /\ e.kind \in DOMAIN entries
    BY <1>2 DEF IInv, EntryInv
  <2>2. entries'[e.kind] = Append(entries[e.kind], e)
    BY <1>1, <2>1
  <2> QED BY <1>1, <1>2, <2>1, <2>2, AppendList
<1> USE DEF distVars, irqVars, cpuVars, kernelVars
<1>4. EntryInv'
  <2>1. \A kind \in Listed : kind # e.kind => entries'[kind] = entries[kind]
    BY <1>1 DEF IInv, EntryInv
  <2>2. \A kind \in Listed : ListInv(kind, entries'[kind])
    BY <1>3, <2>1 DEF IInv, EntryInv
  <2>3. DOMAIN entries' = Listed /\ entries' = [k \in Listed |-> entries'[k]]
    BY <1>1 DEF IInv, EntryInv
  <2>4. \A kind \in Listed : entries'[kind] \in Seq(Entry("spi")) \union Seq(Entry("espi"))
    BY <2>2 DEF ListInv, Listed
  <2>5. entries' \in [Listed -> Seq(Entry("spi")) \union Seq(Entry("espi"))]
    BY <2>3, <2>4
  <2> QED BY <1>1, <2>2, <2>5 DEF EntryInv
<1>5. TypeOK'
  BY <1>1 DEF IInv, TypeOK
<1>6. SetUpInv'
  BY <1>1 DEF IInv, SetUpInv, Quiet, Taken
<1>7. EdgeInv' /\ MapInv'
  BY <1>1 DEF EdgeInv, MapInv, Taken, Ready, IInv
<1>8. CpuInv' /\ OnlyUnmaskedActs'
  BY <1>1 DEF IInv, CpuInv, Mine, OnlyUnmaskedActs
<1> QED BY <1>4, <1>5, <1>6, <1>7, <1>8 DEF IInv

LEMMA DisableGicdInv == ASSUME IInv, DisableGicd PROVE IInv'
<1>1. /\ boot = "config" /\ boot' = "spis" /\ BootStep("config", "spis") /\ on' = FALSE
      /\ UNCHANGED <<bringing, entries, gicrIdx, gicCpu, intrinfo, group1, edge, target, enabled,
                     lagging, pend, stale>>
  BY DEF DisableGicd, DistStep, BootStep
<1>2. TypeOK' /\ CpuInv' /\ OnlyUnmaskedActs'
  <2>1. /\ on' \in BOOLEAN /\ group1' \subseteq Irq /\ edge' \subseteq SharedIds
        /\ target' \in [SharedIds -> 0 .. NumCpu] /\ enabled' \subseteq Irq /\ lagging' \subseteq Irq
        /\ gicrIdx' \in [Cpus -> Frames]
    BY <1>1 DEF IInv, TypeOK
  <2> QED BY <1>1, <2>1, BootKeeps
<1>3. EntryInv'
  <2>1. \A kind \in Listed : entries[kind] # <<>> => Covers(kind, entries[kind])
    BY DEF DisableGicd, AllCovered, Covers, Listed
  <2> QED BY <1>1, <2>1 DEF IInv, EntryInv
<1>4. SetUpInv'
  BY <1>1 DEF IInv, SetUpInv, Quiet, Taken, SpisDone, EspisDone
<1>5. EdgeInv' /\ MapInv'
  BY <1>1 DEF EdgeInv, MapInv, Taken, Ready, IInv
<1> QED BY <1>2, <1>3, <1>4, <1>5 DEF IInv

LEMMA ClearSpisInv == ASSUME IInv, ClearSpis PROVE IInv'
<1>1. /\ boot = "spis" /\ boot' = "espis" /\ BootStep("spis", "espis")
      /\ UNCHANGED <<bringing, entries, gicrIdx, gicCpu, intrinfo, on, target>>
      /\ enabled' = enabled \ SharedOf("spi") /\ lagging' = lagging \cup (enabled \cap SharedOf("spi"))
      /\ pend' = pend \ SharedOf("spi") /\ stale' = stale \ SharedOf("spi")
      /\ group1' = group1 \cup SharedOf("spi") /\ edge' = edge \ Levelled
  BY DEF ClearSpis, DistStep, BootStep, Clear, Disable
<1>2. SharedOf("spi") \subseteq Shared /\ SharedOf("spi") \subseteq Irq
  BY FrameIrqs, SharedKinds
<1>3. TypeOK' /\ CpuInv' /\ OnlyUnmaskedActs'
  <2>1. /\ on' \in BOOLEAN /\ group1' \subseteq Irq /\ edge' \subseteq SharedIds
        /\ target' \in [SharedIds -> 0 .. NumCpu] /\ enabled' \subseteq Irq /\ lagging' \subseteq Irq
        /\ gicrIdx' \in [Cpus -> Frames] /\ pend' \subseteq pend /\ stale' \subseteq stale
    BY <1>1, <1>2 DEF IInv, TypeOK
  <2> QED BY <1>1, <2>1, BootKeeps
<1>4. EntryInv'
  BY <1>1 DEF IInv, EntryInv
<1>5. SetUpInv'
  <2>1. Quiet' = SharedOf("spi") /\ Taken' = {}
    BY <1>1, <1>2 DEF Quiet, Taken, SpisDone, EspisDone
  <2> QED BY <1>1, <1>2, <2>1 DEF IInv, SetUpInv
<1>6. EdgeInv' /\ MapInv'
  BY <1>1 DEF EdgeInv, MapInv, Taken, Ready, IInv
<1> QED BY <1>3, <1>4, <1>5, <1>6 DEF IInv

\* It waits until the SPIs are really disabled.
LEMMA ClearEspisInv == ASSUME IInv, ClearEspis PROVE IInv'
<1>1. /\ boot = "espis" /\ boot' = "enable" /\ BootStep("espis", "enable") /\ ~Rwp(GICD)
      /\ UNCHANGED <<bringing, entries, gicrIdx, gicCpu, intrinfo, on, group1, target>>
      /\ enabled' = enabled \ SharedOf("espi")
      /\ lagging' = lagging \cup (enabled \cap SharedOf("espi"))
      /\ pend' = pend \ SharedOf("espi") /\ stale' = stale \ SharedOf("espi")
      /\ edge' = edge \ Supported("espi")
  BY DEF ClearEspis, DistStep, BootStep, Clear, Disable
<1>2. /\ SharedOf("espi") \subseteq Shared /\ SharedOf("spi") \subseteq Shared /\ Shared \subseteq Irq
      /\ Shared = SharedOf("spi") \cup SharedOf("espi")
  BY FrameIrqs, SharedKinds
<1>3. TypeOK' /\ CpuInv' /\ OnlyUnmaskedActs'
  <2>1. /\ on' \in BOOLEAN /\ group1' \subseteq Irq /\ edge' \subseteq SharedIds
        /\ target' \in [SharedIds -> 0 .. NumCpu] /\ enabled' \subseteq Irq /\ lagging' \subseteq Irq
        /\ gicrIdx' \in [Cpus -> Frames] /\ pend' \subseteq pend /\ stale' \subseteq stale
    BY <1>1, <1>2 DEF IInv, TypeOK
  <2> QED BY <1>1, <2>1, BootKeeps
<1>4. EntryInv'
  BY <1>1 DEF IInv, EntryInv
<1>5. SetUpInv'
  <2>1. Quiet' = Shared /\ Quiet = SharedOf("spi") /\ Taken' = {}
    BY <1>1, <1>2 DEF Quiet, Taken, SpisDone, EspisDone
  <2> QED BY <1>1, <1>2, <2>1 DEF IInv, SetUpInv
<1>6. EdgeInv' /\ MapInv'
  BY <1>1 DEF EdgeInv, LevelIds, MapInv, Taken, Ready, IInv
<1> QED BY <1>3, <1>4, <1>5, <1>6 DEF IInv

LEMMA EnableGicdInv == ASSUME IInv, EnableGicd PROVE IInv'
<1>1. /\ boot = "enable" /\ boot' = "route" /\ BootStep("enable", "route") /\ ~Rwp(GICD) /\ on' = TRUE
      /\ UNCHANGED <<bringing, entries, gicrIdx, gicCpu, intrinfo, group1, edge, target, enabled,
                     lagging, pend, stale>>
  BY DEF EnableGicd, DistStep, BootStep
<1>2. lagging = {}
  BY <1>1, FrameIrqs DEF Rwp, IInv, SetUpInv
<1>3. TypeOK' /\ CpuInv' /\ OnlyUnmaskedActs'
  <2>1. /\ on' \in BOOLEAN /\ group1' \subseteq Irq /\ edge' \subseteq SharedIds
        /\ target' \in [SharedIds -> 0 .. NumCpu] /\ enabled' \subseteq Irq /\ lagging' \subseteq Irq
        /\ gicrIdx' \in [Cpus -> Frames]
    BY <1>1 DEF IInv, TypeOK
  <2> QED BY <1>1, <2>1, BootKeeps
<1>4. EntryInv'
  BY <1>1 DEF IInv, EntryInv
<1>5. SetUpInv'
  <2>1. Quiet' = Quiet /\ Taken' = {}
    BY <1>1 DEF Quiet, Taken, SpisDone, EspisDone
  <2> QED BY <1>1, <1>2, <2>1 DEF IInv, SetUpInv
<1>6. EdgeInv' /\ MapInv'
  BY <1>1 DEF EdgeInv, LevelIds, Levelled, Itn, MapInv, Taken, Ready, IInv
<1> QED BY <1>3, <1>4, <1>5, <1>6 DEF IInv

LEMMA RouteInv == ASSUME IInv, Route PROVE IInv'
<1>1. /\ boot = "route" /\ boot' = "entries" /\ BootStep("route", "entries")
      /\ target' = [i \in SharedIds |-> 0]
      /\ UNCHANGED <<bringing, entries, gicrIdx, gicCpu, intrinfo, on, group1, edge, enabled,
                     lagging, pend, stale>>
  BY DEF Route, DistStep, BootStep
<1>2. TypeOK' /\ CpuInv' /\ OnlyUnmaskedActs'
  <2>1. /\ on' \in BOOLEAN /\ group1' \subseteq Irq /\ edge' \subseteq SharedIds
        /\ target' \in [SharedIds -> 0 .. NumCpu] /\ enabled' \subseteq Irq /\ lagging' \subseteq Irq
        /\ gicrIdx' \in [Cpus -> Frames]
    BY <1>1, CpuNumbers DEF IInv, TypeOK
  <2> QED BY <1>1, <2>1, BootKeeps
<1>3. EntryInv'
  BY <1>1 DEF IInv, EntryInv
<1>4. SetUpInv'
  <2>1. Quiet' = Quiet /\ Taken' = {}
    BY <1>1 DEF Quiet, Taken, SpisDone, EspisDone
  <2> QED BY <1>1, <2>1 DEF IInv, SetUpInv
<1>5. EdgeInv' /\ MapInv'
  BY <1>1 DEF EdgeInv, LevelIds, Levelled, Itn, MapInv, Taken, Ready, IInv
<1> QED BY <1>2, <1>3, <1>4, <1>5 DEF IInv

\* The ICFGR field that is set is that of the MSI, whatever its kind.
LEMMA TrigModeIs == ASSUME NEW irq \in SharedIds PROVE TrigModeId(KindOf(irq), irq) = irq
<1>1. \A n \in Nat : 16 * (n \div 16) + (n % 16) = n
  OBVIOUS
<1>2. CASE irq \in Supported("espi")
  <2>1. irq \in Nat /\ irq - 4096 \in Nat /\ MinIrq.espi = 4096
    BY SMTT(40), <1>2, SupportedBounds, Numbers
  <2>2. irq % 16 = (irq - 4096) % 16
    BY <2>1
  <2>3. TrigModeId("espi", irq) = 4096 + 16 * ((irq - 4096) \div 16) + (irq % 16)
    BY <2>1 DEF TrigModeId
  <2>4. KindOf(irq) = "espi"
    BY <1>2 DEF KindOf
  <2> DEFINE n == irq - 4096
  <2>5. n \in Nat /\ 16 * (n \div 16) + (n % 16) = n
    BY <2>1, <1>1
  <2> QED BY <2>1, <2>2, <2>3, <2>4, <2>5
<1>3. CASE irq \notin Supported("espi")
  <2>1. irq \in Nat
    BY <1>3, SupportedBounds, GicV3Assumption
  <2>2. KindOf(irq) = "spi"
    BY <1>3 DEF KindOf
  <2>3. TrigModeId("spi", irq) = 16 * (irq \div 16) + (irq % 16)
    BY <2>1 DEF TrigModeId
  <2> QED BY <1>1, <2>1, <2>2, <2>3
<1> QED BY <1>2, <1>3

LEMMA AddInterruptsInv == ASSUME IInv, AddInterrupts PROVE IInv'
<1>1. /\ boot = "entries" /\ boot' = "redist" /\ BootStep("entries", "redist")
      /\ intrinfo' = Table(entries)
      /\ edge' = edge \cup {TrigModeId(KindOf(irq), irq) : irq \in MsiIds}
      /\ UNCHANGED <<bringing, entries, gicrIdx, gicCpu, on, group1, target, enabled,
                     lagging, pend, stale>>
  BY DEF AddInterrupts, DistStep, BootStep, Table
<1>2. MsiIds \subseteq SharedIds
  BY DEF MsiIds
<1>3. edge' = edge \cup MsiIds
  BY <1>1, <1>2, TrigModeIs
<1>4. TypeOK' /\ CpuInv' /\ OnlyUnmaskedActs'
  <2>1. /\ on' \in BOOLEAN /\ group1' \subseteq Irq /\ edge' \subseteq SharedIds
        /\ target' \in [SharedIds -> 0 .. NumCpu] /\ enabled' \subseteq Irq /\ lagging' \subseteq Irq
        /\ gicrIdx' \in [Cpus -> Frames]
    BY <1>1, <1>2, <1>3 DEF IInv, TypeOK
  <2> QED BY <1>1, <2>1, BootKeeps
<1>5. EntryInv'
  BY <1>1 DEF IInv, EntryInv, Table
<1>6. bringing = 0 /\ Taken' = {} /\ Taken = {} /\ Ready' = {}
  <2>1. bringing = 0 /\ bringing' = 0
    BY <1>1 DEF IInv, MapInv
  <2>2. \A c \in Cpus : ~(c < 0)
    BY CpuNumbers
  <2> QED BY <1>1, <2>1, <2>2 DEF Taken, Ready
<1>7. SetUpInv'
  <2>1. Quiet' = Quiet
    BY <1>1, <1>6 DEF Quiet, SpisDone, EspisDone
  <2> QED BY <1>1, <1>6, <2>1 DEF IInv, SetUpInv
<1>8. EdgeInv'
  <2>1. MsiIds' = MsiIds /\ LevelIds' = LevelIds
    BY <1>1 DEF MsiIds, LevelIds, Levelled, Itn
  <2>2. edge \cap LevelIds = {} /\ target = [i \in SharedIds |-> 0]
    BY <1>1 DEF IInv, EdgeInv
  <2> QED BY <1>1, <1>3, <2>1, <2>2 DEF EdgeInv
<1>9. MapInv'
  BY <1>1, <1>6 DEF MapInv
<1> QED BY <1>4, <1>5, <1>7, <1>8, <1>9 DEF IInv

LEMMA RedistInv == ASSUME IInv, Redist PROVE IInv'
<1> DEFINE f == Gicr[bringing]
<1>1. /\ boot = "redist" /\ boot' = "iface" /\ BootStep("redist", "iface")
      /\ gicrIdx' = [gicrIdx EXCEPT ![bringing] = f]
      /\ group1' = group1 \cup OfFrame(f)
      /\ pend' = pend \ OfFrame(f) /\ stale' = stale \ OfFrame(f)
      /\ enabled' = (enabled \ OfFrame(f)) \cup {Sgi0(f)}
      /\ lagging' = lagging \cup ((enabled \cap OfFrame(f)) \ {Sgi0(f)})
      /\ UNCHANGED <<bringing, entries, intrinfo, gicCpu, on, edge, target>>
  BY DEF Redist, BootStep
<1>2. bringing \in Cpus /\ f \in Cpus /\ OfFrame(f) \subseteq Irq /\ Sgi0(f) \in Irq /\ Sgi0(f) \in Sgis
  BY CpuNumbers, FrameIrqs DEF IInv, TypeOK, Sgis
<1> HIDE DEF f
<1>3. TypeOK' /\ CpuInv' /\ OnlyUnmaskedActs'
  <2>1. /\ on' \in BOOLEAN /\ group1' \subseteq Irq /\ edge' \subseteq SharedIds
        /\ target' \in [SharedIds -> 0 .. NumCpu] /\ enabled' \subseteq Irq /\ lagging' \subseteq Irq
        /\ gicrIdx' \in [Cpus -> Frames] /\ pend' \subseteq pend /\ stale' \subseteq stale
    BY <1>1, <1>2 DEF IInv, TypeOK, Frames
  <2> QED BY <1>1, <2>1, BootKeeps
<1>4. EntryInv'
  BY <1>1 DEF IInv, EntryInv
<1>5. Taken' = Taken \cup {bringing} /\ Ready' = Ready /\ bringing \notin Taken
  BY <1>1, <1>2, CpuNumbers DEF Taken, Ready
<1>6. SetUpInv'
  <2>1. Quiet' \subseteq Quiet \cup OfFrame(f)
    BY <1>1, <1>5 DEF Quiet, SpisDone, EspisDone, f
  <2>2. lagging' \subseteq OfFrame(f)
    BY <1>1 DEF IInv, SetUpInv
  <2>3. ASSUME NEW c \in Taken' PROVE Sgi0(Gicr[c]) \in enabled'
    <3>1. CASE c = bringing
      BY <1>1, <3>1 DEF f
    <3>2. CASE c # bringing
      <4>1. c \in Taken /\ c \in Cpus /\ Gicr[c] # f
        BY <1>2, <1>5, <3>2, GicV3Assumption DEF Taken, f
      <4>2. Sgi0(Gicr[c]) \in enabled /\ Sgi0(Gicr[c]) \notin OfFrame(f)
        BY <4>1 DEF IInv, SetUpInv, OfFrame, Frame, Sgi0
      <4> QED BY <1>1, <4>2
    <3> QED BY <3>1, <3>2
  <2>4. stale' \cap Quiet' = {} /\ Quiet' \ SharedOf("espi") \subseteq group1'
    BY <1>1, <2>1 DEF IInv, SetUpInv
  <2>5. enabled' \cap Quiet' \subseteq Sgis
    BY <1>1, <1>2, <2>1 DEF IInv, SetUpInv
  <2> QED BY <1>1, <2>2, <2>3, <2>4, <2>5 DEF SetUpInv, f
<1>7. EdgeInv'
  BY <1>1 DEF EdgeInv, IInv, MsiIds, LevelIds, Levelled, Itn
<1>8. MapInv'
  BY <1>1, <1>2, <1>5 DEF MapInv, IInv, TypeOK, f
<1> QED BY <1>3, <1>4, <1>6, <1>7, <1>8 DEF IInv

\* The last CPU lets the kernel go; all that can interrupt it is then disabled,
\* but for the SGIs.
LEMMA IfaceInv == ASSUME IInv, Iface PROVE IInv'
<1>1. /\ boot = "iface" /\ ~Rwp(Gicr[bringing]) /\ gicCpu' = [gicCpu EXCEPT ![bringing] = Gicr[bringing]]
      /\ UNCHANGED <<entries, intrinfo, gicrIdx, distVars, enabled, lagging, irqVars,
                     arg, active, kernelVars>>
  BY DEF Iface
<1>2. /\ bringing \in Cpus /\ bringing \in Nat /\ Gicr[bringing] \in Cpus
      /\ \A c \in Cpus : c \in Nat /\ c <= NumCpu - 1
  BY CpuNumbers DEF IInv, TypeOK, Cpus
<1>3. lagging = {}
  BY <1>1 DEF IInv, SetUpInv, Rwp
<1>4. /\ bringing' \in Cpus
      /\ \/ boot' = "redist" /\ bringing' = bringing + 1 /\ at' = at
         \/ bringing = NumCpu - 1 /\ boot' = "kernel" /\ at' = [c \in Cpus |-> "thread"]
  BY <1>2, CpuNumbers DEF Iface, Cpus
<1>5. Taken' = Taken /\ Ready' = Ready \cup {bringing}
  <2>1. CASE boot' = "redist" /\ bringing' = bringing + 1
    <3>1. \A c \in Cpus : c < bringing' <=> c < bringing \/ c = bringing
      BY <1>2, <2>1
    <3> QED BY <1>1, <1>2, <2>1, <3>1 DEF Taken, Ready
  <2>2. CASE bringing = NumCpu - 1 /\ boot' = "kernel"
    <3>1. \A c \in Cpus : c < bringing \/ c = bringing
      BY <1>2, <2>2
    <3> QED BY <1>1, <1>2, <2>2, <3>1 DEF Taken, Ready
  <2> QED BY <1>4, <2>1, <2>2
<1>6. Quiet' = Quiet
  BY <1>1, <1>4, <1>5 DEF Quiet, SpisDone, EspisDone
<1> USE DEF distVars, irqVars, kernelVars
<1>7. TypeOK'
  BY <1>1, <1>2, <1>4 DEF IInv, TypeOK, Frames
<1>8. EntryInv'
  BY <1>1, <1>4 DEF IInv, EntryInv
<1>9. SetUpInv'
  BY <1>1, <1>3, <1>4, <1>5, <1>6 DEF IInv, SetUpInv
<1>10. EdgeInv'
  BY <1>1, <1>4 DEF EdgeInv, IInv, MsiIds, LevelIds, Levelled, Itn
<1>11. MapInv'
  BY <1>1, <1>2, <1>4, <1>5 DEF MapInv, IInv, TypeOK
<1>12. CpuInv'
  BY <1>1, <1>4 DEF IInv, CpuInv
<1>13. OnlyUnmaskedActs'
  <2> SUFFICES ASSUME boot' = "kernel" PROVE enabled' \cup lagging' \subseteq Sgis
    BY DEF OnlyUnmaskedActs
  <2>1. Taken = Cpus
    BY <1>4, <1>5 DEF Taken
  <2>2. Quiet = Irq
    BY <1>1, <2>1, FrameIrqs, SharedKinds DEF Quiet, SpisDone, EspisDone
  <2> QED BY <1>1, <1>3, <2>2 DEF IInv, SetUpInv, TypeOK
<1> QED BY <1>7, <1>8, <1>9, <1>10, <1>11, <1>12, <1>13 DEF IInv

-----------------------------------------------------------------------------
(* The invariant holds.                                                    *)

LEMMA InitInv == Init => IInv
<1> SUFFICES ASSUME Init PROVE IInv
  OBVIOUS
<1> USE DEF Init, spi_intrinfo, espi_intrinfo
<1>0. PICK left \in Firmware :
        /\ on = left.on /\ group1 = left.group1 /\ edge = left.edge /\ target = left.target
        /\ enabled = left.enabled /\ pend = left.pend /\ stale = left.pend
  OBVIOUS
<1>1. TypeOK
  <2>1. /\ on \in BOOLEAN /\ group1 \subseteq Irq /\ edge \subseteq SharedIds
        /\ target \in [SharedIds -> 0 .. NumCpu]
        /\ enabled \subseteq Irq /\ pend \subseteq Irq /\ stale \subseteq Irq
    BY <1>0, GicV3Assumption
  <2> QED BY <2>1, CpuNumbers, GicV3Assumption DEF TypeOK, Frames
<1>2. EntryInv
  <2>1. \A kind \in Listed : entries[kind] = <<>>
    BY DEF Listed
  <2>2. \A S : <<>> \in Seq(S)
    OBVIOUS
  <2>3. DOMAIN entries = Listed /\ entries = [k \in Listed |-> <<>>]
    BY DEF Listed
  <2>4. \A kind \in Listed : ListInv(kind, <<>>)
    BY <2>2 DEF ListInv, Ordered
  <2> QED BY <2>1, <2>2, <2>3, <2>4 DEF EntryInv
<1>3. SetUpInv
  BY DEF SetUpInv, Quiet, Taken, SpisDone, EspisDone
<1>4. EdgeInv /\ MapInv
  BY DEF EdgeInv, MapInv, Taken, Ready
<1>5. CpuInv /\ OnlyUnmaskedActs
  BY DEF CpuInv, OnlyUnmaskedActs
<1> QED BY <1>1, <1>2, <1>3, <1>4, <1>5 DEF IInv

LEMMA StepInv == IInv /\ [Next]_vars => IInv'
<1> SUFFICES ASSUME IInv, [Next]_vars PROVE IInv'
  OBVIOUS
<1>1. CASE \E e \in Offered : AddEntry(e)
  BY <1>1, AddEntryInv
<1>2. CASE StartupStep
  BY <1>2, DisableGicdInv, ClearSpisInv, ClearEspisInv, EnableGicdInv, RouteInv, AddInterruptsInv,
     RedistInv, IfaceInv DEF StartupStep
<1>3. CASE \E x \in Irq \ Sgis : Raise(x)
  BY <1>3, HardwareInv
<1>4. CASE \E x \in Irq : Propagate(x)
  BY <1>4, HardwareInv
<1>5. ASSUME NEW c \in Cpus, TakeIrq(c) \/ Continue(c) \/ Thread(c)
      PROVE  IInv'
  <2>1. CASE MaskTaken(c)
    BY <2>1, StoreMaskInv
  <2>2. CASE \E x \in Irq : Mask(c, x)
    BY <2>2, StoreMaskInv
  <2>3. CASE \E x \in Irq : Unmask(c, x)
    BY <2>3, UnmaskInv
  <2> QED BY <1>5, <2>1, <2>2, <2>3, TakeIrqInv, IdentifyInv, ServedInv, MaskedInv, TriggerInv,
             SendInv DEF Continue, Thread
<1>6. CASE UNCHANGED vars
  <2> USE <1>6 DEF vars, bootVars, distVars, irqVars, cpuVars, kernelVars
  <2>1. TypeOK' /\ EntryInv'
    BY DEF IInv, TypeOK, EntryInv
  <2>2. SetUpInv'
    BY DEF IInv, SetUpInv, Quiet, Taken
  <2>3. EdgeInv' /\ MapInv'
    BY DEF IInv, EdgeInv, MapInv, MsiIds, Taken, Ready
  <2>4. CpuInv' /\ OnlyUnmaskedActs'
    BY DEF IInv, CpuInv, Mine, OnlyUnmaskedActs
  <2> QED BY <2>1, <2>2, <2>3, <2>4 DEF IInv
<1> QED BY <1>1, <1>2, <1>3, <1>4, <1>5, <1>6 DEF Next

\* The entries, the registers and the CPUs agree at every step (gic_v3.c and the
\* callouts of callout_interrupt_gic_v3_sr.S).
THEOREM Invariant == Spec => []IInv
BY InitInv, StepInv, PTL DEF Spec

-----------------------------------------------------------------------------
(* What the set-up leaves.                                                 *)

\* Each INTID is claimed, its vector is its own and the mask callout writes its
\* bit, in every table that gic_v3_add_interrupts() makes (NumbersAgree).
LEMMA IInvNumbers == IInv => NumbersAgree
<1> SUFFICES ASSUME IInv, boot = "kernel", NEW i \in {Id(x) : x \in Ppis} \cup SharedIds
             PROVE  Agrees(intrinfo, i)
  BY DEF NumbersAgree, Agrees
<1>1. intrinfo = Table(entries) /\ \A kind \in Listed :
          /\ ListInv(kind, OrDefault(kind, entries[kind]))
          /\ Covers(kind, OrDefault(kind, entries[kind]))
  BY DefaultList DEF IInv, EntryInv
<1>2. i \in (0 .. 31) \union Supported("spi") \union Supported("espi")
  BY GicV3Assumption DEF Id
<1> QED BY <1>1, <1>2, TableAgrees DEF Table, Listed

\* The numbers go round for every cut of the INTIDs into entries that a board may
\* ask for (NumbersAgree; gic_v3_add_entry(), the mask and eoi callouts).
THEOREM NumbersGoRound == Spec => []NumbersAgree
BY Invariant, IInvNumbers, PTL

\* The ICFGR registers that are written hold the field of every SPI with a
\* device.  The loop of gic_v3_initialize() runs to itn / 16: with the most SPIs
\* an architecture allows it leaves out those of the INTIDs 1008 to 1019.
AllLevelled == SharedIds \cap Supported("spi") \subseteq Levelled

LEMMA FewerSpisLevelled ==
    ASSUME gic_v3_num_spis % 16 = 0
    PROVE  AllLevelled
<1>1. gic_v3_num_spis \in Nat /\ Itn = 32 + gic_v3_num_spis
  BY Numbers DEF Itn
<1>2. 16 * (Itn \div 16) = Itn
  BY <1>1
<1>3. \A i \in Supported("spi") : i \in Int /\ i <= 31 + gic_v3_num_spis
  BY SupportedIds, <1>1
<1> QED BY <1>1, <1>2, <1>3 DEF AllLevelled, Levelled

\* Nothing of the firmware's is pending or routed elsewhere, the SGIs of the IPIs
\* are enabled, all but the ESPIs is in Group 1, and MSIs alone are edge triggered.
LEMMA IInvClean ==
    ASSUME AllLevelled
    PROVE  IInv => SetUpClean
<1> SUFFICES ASSUME IInv, boot = "kernel"
             PROVE  /\ stale = {} /\ Sgis \subseteq enabled /\ edge = MsiIds
                    /\ Irq \ SharedOf("espi") \subseteq group1
                    /\ target = [i \in SharedIds |-> 0]
  BY DEF SetUpClean
<1>1. Quiet = Irq /\ Taken = Cpus
  BY FrameIrqs, SharedKinds DEF Quiet, Taken, SpisDone, EspisDone
<1>2. SharedIds \subseteq LevelIds
  BY GicV3Assumption DEF AllLevelled, LevelIds
<1>3. Sgis \subseteq enabled
  BY <1>1, GicrOnto DEF IInv, SetUpInv, Sgis
<1> QED BY <1>1, <1>2, <1>3 DEF IInv, SetUpInv, EdgeInv, TypeOK

\* What gic_v3_initialize() and gic_v3_gicc_init() leave to the kernel, whatever
\* the firmware left to them (Firmware, any of it): the shared interrupts are
\* routed and disabled until the kernel unmasks them, and so on (SetUpAgrees).
THEOREM SetUpIsClean ==
    ASSUME AllLevelled
    PROVE  Spec => []SetUpAgrees
<1>1. IInv => SetUpAgrees
  BY IInvNumbers, IInvClean DEF SetUpAgrees, IInv
<1> QED BY <1>1, Invariant, PTL

-----------------------------------------------------------------------------
(* The callouts.                                                           *)

\* Only what the kernel has unmasked acts, however the callouts of the CPUs and
\* the delays of the hardware interleave (OnlyUnmaskedActs).
THEOREM MaskedDoesNotAct == Spec => []OnlyUnmaskedActs
<1>1. IInv => OnlyUnmaskedActs
  BY DEF IInv
<1> QED BY <1>1, Invariant, PTL

\* A step that takes no SGI and no command away.
LEMMA IpiKept ==
    ASSUME IpiNotLost, pend \subseteq pend', ipicmds' \subseteq ipicmds,
           \A c \in Cpus : at[c] = "sgi" => at'[c] = "sgi" /\ arg'[c] = arg[c],
           \A d \in ipicmds' : at[d] = "vector" /\ active[d] = Sgi0(Gicr[d]) =>
                                 at'[d] = "vector" /\ active'[d] = active[d]
    PROVE  IpiNotLost'
BY DEF IpiNotLost

\* A CPU acknowledges no SGI but its own.
LEMMA OwnSgi ==
    ASSUME NEW c \in Cpus, NEW d \in Cpus, Sgi0(Gicr[d]) \in Signals(c)
    PROVE  c = d
<1>1. Aimed(Sgi0(Gicr[d]), c) /\ Frame(Sgi0(Gicr[d])) = Gicr[d] /\ Gicr[d] # GICD
  BY CpuNumbers DEF Signals, Sgi0, Frame
<1> QED BY <1>1, GicV3Assumption DEF Aimed

LEMMA IpiIdentify == ASSUME IInv, IpiNotLost, NEW c \in Cpus, Identify(c) PROVE IpiNotLost'
<1> USE DEF kernelVars
<1>1. CASE UNCHANGED <<pend, active>>
  <2>1. PICK to : Kernel(c, "irq", to) /\ UNCHANGED <<arg, ipicmds>>
    BY DEF Identify
  <2>2. at[c] = "irq" /\ at' = [at EXCEPT ![c] = to]
    BY <2>1, InKernel
  <2>3. \A d \in Cpus : d # c => at'[d] = at[d]
    BY <2>2 DEF IInv, TypeOK
  <2> QED BY <1>1, <2>1, <2>2, <2>3, IpiKept DEF IInv, TypeOK
<1>2. CASE ~UNCHANGED <<pend, active>>
  <2>1. PICK x : /\ Kernel(c, "irq", "vector") /\ UNCHANGED <<arg, ipicmds>>
                 /\ active' = [active EXCEPT ![c] = x] /\ pend' = pend \ {x} /\ x \in Signals(c)
    <3> DEFINE best == IF Signals(c) \subseteq Sgis THEN Signals(c) ELSE Signals(c) \ Sgis
    <3>1. best \subseteq Signals(c)
      OBVIOUS
    <3>2. \E x \in best : /\ Kernel(c, "irq", "vector") /\ active' = [active EXCEPT ![c] = x]
                          /\ pend' = pend \ {x}
                          /\ UNCHANGED <<arg, kernelVars>>
      BY <1>2 DEF Identify
    <3> HIDE DEF best
    <3> QED BY <3>1, <3>2
  <2>2. at[c] = "irq" /\ at' = [at EXCEPT ![c] = "vector"]
    BY <2>1, InKernel
  <2>3. \A d \in Cpus : d # c => at'[d] = at[d] /\ active'[d] = active[d]
    BY <2>1, <2>2 DEF IInv, TypeOK
  <2>4. at'[c] = "vector" /\ active'[c] = x
    BY <2>1, <2>2 DEF IInv, TypeOK
  <2> SUFFICES ASSUME NEW d \in ipicmds, d \in Cpus
               PROVE  \/ Sgi0(Gicr[d]) \in pend'
                      \/ \E e \in Cpus : at'[e] = "sgi" /\ arg'[e] = Sgi0(Gicr[d])
                      \/ at'[d] = "vector" /\ active'[d] = Sgi0(Gicr[d])
    BY <2>1 DEF IpiNotLost, IInv, TypeOK
  <2>5. CASE x = Sgi0(Gicr[d])
    BY <2>1, <2>4, <2>5, OwnSgi
  <2>6. CASE x # Sgi0(Gicr[d])
    BY <2>1, <2>2, <2>3, <2>6 DEF IpiNotLost
  <2> QED BY <2>5, <2>6
<1> QED BY <1>1, <1>2

LEMMA IpiServe ==
    ASSUME IInv, IpiNotLost, NEW c \in Cpus, ServeIpi(c) \/ Handle(c) \/ MaskTaken(c)
    PROVE  IpiNotLost'
<1>1. PICK to : Kernel(c, "vector", to)
  BY DEF ServeIpi, Handle, MaskTaken
<1>2. boot = "kernel" /\ at[c] = "vector" /\ at' = [at EXCEPT ![c] = to]
  BY <1>1, InKernel
<1>3. pend' = pend /\ active' = active /\ ipicmds' \subseteq ipicmds
  BY DEF ServeIpi, Handle, MaskTaken, kernelVars
<1>4. \A d \in Cpus : d # c => at'[d] = at[d] /\ arg'[d] = arg[d]
  BY <1>2 DEF ServeIpi, Handle, MaskTaken, StoreMask, IInv, TypeOK
<1>5. c \in ipicmds' => active[c] # Sgi0(Gicr[c])
  BY <1>2, IpiIsSgi0 DEF ServeIpi, Handle, MaskTaken
<1> QED BY <1>2, <1>3, <1>4, <1>5, IpiKept DEF IInv, TypeOK

LEMMA IpiThread ==
    ASSUME IInv, IpiNotLost, NEW c \in Cpus,
           TakeIrq(c) \/ Masked(c) \/ Eoi(c)
             \/ \E x \in Irq : Mask(c, x) \/ Unmask(c, x) \/ Serve(c, x)
    PROVE  IpiNotLost'
<1> USE DEF kernelVars
<1>1. PICK from \in {"thread", "rwp", "eoi"} : \E to : Kernel(c, from, to)
  BY DEF TakeIrq, Masked, Return, Eoi, Mask, Unmask, Serve
<1>2. at[c] = from /\ \E to : at' = [at EXCEPT ![c] = to]
  BY <1>1, InKernel
<1>3. pend' = pend /\ ipicmds' = ipicmds
  BY DEF TakeIrq, Masked, Return, Eoi, Mask, Unmask, Serve
<1>4. \A d \in Cpus : d # c => at'[d] = at[d]
  BY <1>2 DEF IInv, TypeOK
<1>5. \A d \in Cpus : d # c => arg'[d] = arg[d] /\ active'[d] = active[d]
  BY DEF TakeIrq, Masked, Return, Eoi, Mask, Unmask, Serve, StoreMask, IInv, TypeOK
<1> QED BY <1>1, <1>2, <1>3, <1>4, <1>5, IpiKept DEF IInv, TypeOK

LEMMA IpiSend ==
    ASSUME IInv, IpiNotLost, NEW c \in Cpus, NEW d \in Cpus, Send(c, d)
    PROVE  IpiNotLost'
<1>1. PICK to : Kernel(c, "thread", to) /\ to = (IF d \in ipicmds THEN "thread" ELSE "sgi")
  BY DEF Send
<1>2. boot = "kernel" /\ at[c] = "thread" /\ at' = [at EXCEPT ![c] = to]
  BY <1>1, InKernel
<1>3. pend' = pend /\ active' = active /\ ipicmds' = ipicmds \cup {d}
  BY DEF Send
<1>4. \A e \in Cpus : e # c => at'[e] = at[e] /\ arg'[e] = arg[e]
  BY <1>2 DEF Send, IInv, TypeOK
<1>5. d \notin ipicmds => at'[c] = "sgi" /\ arg'[c] = Sgi0(Gicr[d])
  <2>1. gicCpu[d] = Gicr[d]
    BY <1>2 DEF IInv, MapInv, Ready
  <2> QED BY <1>1, <1>2, <2>1 DEF Send, IInv, TypeOK
<1> QED BY <1>2, <1>3, <1>4, <1>5 DEF IpiNotLost, IInv, TypeOK

LEMMA IpiTrigger ==
    ASSUME SendIpi = "sendipi_gic_v3_sr", IInv, IpiNotLost, NEW c \in Cpus, Trigger(c)
    PROVE  IpiNotLost'
<1>1. at[c] = "sgi" /\ at' = [at EXCEPT ![c] = "thread"]
  BY InKernel DEF Trigger
<1>2. pend' = pend \cup {arg[c]} /\ UNCHANGED <<active, ipicmds>>
  BY DEF Trigger, kernelVars
<1>3. \A e \in Cpus : e # c => at'[e] = at[e] /\ arg'[e] = arg[e]
  BY <1>1 DEF Trigger, IInv, TypeOK
<1> QED BY <1>1, <1>2, <1>3 DEF IpiNotLost, IInv, TypeOK

LEMMA IpiStep ==
    ASSUME SendIpi = "sendipi_gic_v3_sr"
    PROVE  IInv /\ IpiNotLost /\ [Next]_vars => IpiNotLost'
<1> SUFFICES ASSUME IInv, IpiNotLost, [Next]_vars PROVE IpiNotLost'
  OBVIOUS
<1>1. ASSUME UNCHANGED <<cpuVars, kernelVars>>, pend \subseteq pend'
      PROVE  IpiNotLost'
  BY <1>1, IpiKept DEF cpuVars, kernelVars, IInv, TypeOK
<1>2. CASE \E e \in Offered : AddEntry(e)
  BY <1>1, <1>2 DEF AddEntry, irqVars
<1>3. CASE StartupStep
  <2>1. ipicmds = {} /\ ipicmds' = {}
    BY <1>3 DEF StartupStep, DisableGicd, ClearSpis, ClearEspis, EnableGicd, Route, AddInterrupts,
                Redist, Iface, DistStep, BootStep, kernelVars, IInv, CpuInv
  <2> QED BY <2>1 DEF IpiNotLost
<1>4. CASE (\E x \in Irq \ Sgis : Raise(x)) \/ \E x \in Irq : Propagate(x)
  <2>1. UNCHANGED <<cpuVars, kernelVars>> /\ pend \subseteq pend'
    BY <1>4 DEF Raise, Propagate, irqVars
  <2> QED BY <1>1, <2>1
<1>5. ASSUME NEW c \in Cpus, TakeIrq(c) \/ Continue(c) \/ Thread(c)
      PROVE  IpiNotLost'
  BY <1>5, IpiIdentify, IpiServe, IpiThread, IpiSend, IpiTrigger DEF Continue, Thread
<1>6. CASE UNCHANGED vars
  BY <1>1, <1>6 DEF vars, irqVars
<1> QED BY <1>2, <1>3, <1>4, <1>5, <1>6 DEF Next

\* With the IPI callout of the GICv3 in smp->send_ipi no command is left without
\* its interrupt, and only what is unmasked acts (CalloutsKeepState).
THEOREM CalloutsKeep ==
    ASSUME SendIpi = "sendipi_gic_v3_sr"
    PROVE  Spec => []CalloutsKeepState
<1>1. Init => IpiNotLost
  BY DEF Init, IpiNotLost
<1>2. IInv /\ IpiNotLost /\ [Next]_vars => IpiNotLost'
  BY IpiStep
<1>3. IInv /\ IpiNotLost => CalloutsKeepState
  BY DEF IInv, CalloutsKeepState
<1> QED BY <1>1, <1>2, <1>3, Invariant, PTL DEF Spec
=============================================================================
