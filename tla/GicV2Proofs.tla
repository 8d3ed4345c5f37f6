---------------------------- MODULE GicV2Proofs ----------------------------
(***************************************************************************)
(* With any number of CPUs, of SPIs and of vectors behind the cascaded     *)
(* controller, the enables are what the kernel asked for.                  *)
(***************************************************************************)
EXTENDS GicV2, TLAPS, FiniteSetTheorems

ChildStates == {"child", "childIsr", "childEoi"}
States == {"off", "init", "run", "isr", "ipi", "eoi"} \union ChildStates

TypeInv ==
    /\ kind \in Kinds /\ status \subseteq Vectors /\ enable \subseteq Nat
    /\ count \in [Vectors -> Nat]
    /\ x19 \in Vectors \union {NoVector}
    /\ stage \in {"reset", "up"}
    /\ spiOn \subseteq Shared /\ unmasked \subseteq Shared
    /\ target \in [Shared -> Int]
    /\ at \in [Cpus -> States]

\* Before gic_v2_init() no interface is enabled, so no CPU takes anything, and
\* no SPI has a target.
ResetInv ==
    stage = "reset" =>
        /\ gicc = {} /\ \A c \in Cpus : at[c] \in {"off", "init"}
        /\ \A i \in Shared : target[i] = Nobody

\* After it the SPIs it knows belong to the boot CPU and are on only if the
\* kernel unmasked them; the others have no target.
RouteInv ==
    stage = "up" =>
        /\ spiOn \cap Cleared \subseteq unmasked
        /\ \A i \in Shared : target[i] = IF i \in Cleared THEN gic_v2_cpunum(0) ELSE Nobody

\* The vector of the cascaded controller is in hand only between its id and
\* its eoi callout, which run on the boot CPU.
ChildInv ==
    /\ \A c \in Cpus : at[c] \in ChildStates => c = 0
    /\ x19 # NoVector <=> at[0] \in {"childIsr", "childEoi"}

IInv == TypeInv /\ ResetInv /\ RouteInv /\ ChildInv /\ EnableFollowsCount

-----------------------------------------------------------------------------
(* The operators.                                                          *)

LEMMA MinOfTwo ==
    ASSUME NEW a \in Int, NEW b \in Int
    PROVE  Min({a, b}) = IF a <= b THEN a ELSE b
BY DEF Min

\* The interrupts that have a target are those gic_v2_init() clears: the ids
\* from 1020 that the last of 32 lines leaves out are no SPIs.
LEMMA RoutedIsCleared == Routed = Cleared
<1>1. ItLines \in 0 .. 31 /\ Shared \subseteq 32 .. 1019
  BY GicV2Assumption
<1>2. itn \in Int
  BY <1>1 DEF itn
<1>3. last_spi = 32 + (IF 1020 <= itn THEN 1020 ELSE itn) - 32
  BY <1>2, MinOfTwo DEF last_spi, num_vectors
<1>4. ASSUME NEW i \in Shared PROVE i < itn <=> i < last_spi
  BY <1>1, <1>2, <1>3
<1> QED BY <1>4 DEF Routed, Cleared

\* A CPU that finds an SPI targeted at its interface is the boot CPU.
LEMMA TargetIsBoot ==
    ASSUME NEW c \in Cpus, Iface[c] = gic_v2_cpunum(0)
    PROVE  c = 0
<1>1. CASE Cardinality(Cpus) = 1
  <2>1. \E x : Cpus = {x}
    BY <1>1, GicV2Assumption, FS_Singleton
  <2> QED BY <2>1, GicV2Assumption
<1>2. CASE Cardinality(Cpus) # 1
  BY <1>2, GicV2Assumption DEF gic_v2_cpunum
<1> QED BY <1>1, <1>2

LEMMA TypesOfConstants ==
    ASSUME kind \in Kinds
    PROVE  Vectors \subseteq Nat /\ NoVector \notin Vectors /\ kind \in AllKinds
BY CascadeAssumption DEF Vectors, NoVector

\* Nothing that is signalled escapes the invariant.
LEMMA SignalledInv ==
    ASSUME TypeInv, RouteInv, stage = "up", NEW c \in Cpus, Signalled(c) # {}
    PROVE  c = 0 /\ Signalled(c) \subseteq unmasked
<1>1. Iface[c] \in 0 .. 7
  BY GicV2Assumption
<1>2. ASSUME NEW i \in Signalled(c) PROVE c = 0 /\ i \in unmasked
  <2>1. i \in spiOn /\ target[i] = Iface[c]
    BY <1>2 DEF Signalled, Pending
  <2>2. i \in Shared
    BY <2>1 DEF TypeInv
  <2>3. i \in Cleared
    BY <1>1, <2>1, <2>2 DEF RouteInv, Nobody
  <2>4. c = 0
    BY <2>1, <2>2, <2>3, TargetIsBoot DEF RouteInv
  <2> QED BY <2>1, <2>3, <2>4 DEF RouteInv
<1> QED BY <1>2

-----------------------------------------------------------------------------
(* What an action leaves alone.                                            *)

LEMMA SameVectors == ASSUME UNCHANGED kind
                     PROVE  /\ Vectors' = Vectors
                            /\ \A v : HasBit(v)' = HasBit(v)
BY DEF Vectors, HasBit

LEMMA SameEnables ==
    ASSUME EnableFollowsCount, UNCHANGED <<kind, enable, count, x19>>
    PROVE  EnableFollowsCount'
BY DEF EnableFollowsCount, Vectors, HasBit, HwEnabled, InService

LEMMA SameRoutes ==
    ASSUME RouteInv, UNCHANGED <<stage, spiOn, target, unmasked>>
    PROVE  RouteInv'
BY DEF RouteInv, Cleared, Shared, gic_v2_cpunum, itn

-----------------------------------------------------------------------------
(* The boot CPU's and every CPU's set-up.                                  *)

LEMMA InitInv == Init => IInv
<1> SUFFICES ASSUME Init PROVE IInv
  OBVIOUS
<1> USE DEF Init, ChildInit
<1>1. TypeInv
  <2>1. Vectors \subseteq Nat
    BY TypesOfConstants
  <2>2. at \in [Cpus -> States]
    BY DEF States
  <2>3. target \in [Shared -> Int]
    BY DEF Nobody
  <2>4. count \in [Vectors -> Nat]
    BY <2>1
  <2> QED BY <2>2, <2>3, <2>4 DEF TypeInv, NoVector
<1>2. ResetInv /\ RouteInv
  BY DEF ResetInv, RouteInv
<1>3. ChildInv
  BY GicV2Assumption DEF ChildInv, ChildStates
<1>4. EnableFollowsCount
  BY DEF EnableFollowsCount, HasBit, Maskable, HwEnabled
<1> QED BY <1>1, <1>2, <1>3, <1>4 DEF IInv

LEMMA SetUpInv == ASSUME IInv, gic_v2_init PROVE IInv'
<1> USE DEF IInv, gic_v2_init, childVars
<1>1. TypeInv'
  <2>1. gic_v2_cpunum(0) \in Int
    BY GicV2Assumption DEF gic_v2_cpunum
  <2> QED BY <2>1, SameVectors DEF TypeInv, Shared
<1>2. RouteInv'
  <2>1. spiOn' \cap Cleared = {}
    OBVIOUS
  <2>2. ASSUME NEW i \in Shared
        PROVE  target'[i] = IF i \in Cleared THEN gic_v2_cpunum(0) ELSE Nobody
    BY <2>2, RoutedIsCleared DEF ResetInv
  <2> QED BY <2>1, <2>2 DEF RouteInv, Cleared, Shared, itn, gic_v2_cpunum
<1>3. ResetInv' /\ ChildInv'
  BY DEF ResetInv, ChildInv
<1> QED BY <1>1, <1>2, <1>3, SameEnables

LEMMA InterfaceInv == ASSUME IInv, NEW c \in Cpus, gic_v2_gicc_init(c) PROVE IInv'
<1> USE DEF IInv, gic_v2_gicc_init, childVars
<1>1. TypeInv'
  BY SameVectors DEF TypeInv, Shared, States
<1>2. ChildInv'
  <2>1. \A d \in Cpus : at'[d] \in ChildStates => at[d] = at'[d]
    BY DEF ChildStates
  <2>2. 0 \in Cpus
    BY GicV2Assumption
  <2>3. at'[0] \in {"childIsr", "childEoi"} <=> at[0] \in {"childIsr", "childEoi"}
    BY <2>2, GicV2Assumption DEF TypeInv, ChildInv
  <2> QED BY <2>1, <2>3 DEF ChildInv
<1>3. ResetInv'
  BY DEF ResetInv
<1> QED BY <1>1, <1>2, <1>3, SameEnables, SameRoutes

-----------------------------------------------------------------------------
(* The hardware, and the CPUs outside the cascaded controller.             *)

\* What an action that serves interrupts has to keep of the invariant.
LEMMA ServiceInv ==
    ASSUME IInv, UNCHANGED <<stage, spiOn, target, gicc, unmasked>>,
           TypeInv', ChildInv', EnableFollowsCount',
           stage = "reset" => UNCHANGED at
    PROVE  IInv'
<1>1. ResetInv'
  BY DEF IInv, ResetInv, Shared
<1> QED BY <1>1, SameRoutes DEF IInv

LEMMA HardwareInv ==
    ASSUME IInv, AssertLine \/ ChildRaise \/ ChildLatch PROVE IInv'
<1>1. UNCHANGED <<stage, spiOn, target, gicc, unmasked, at, x19, kind, enable, count>>
  BY DEF AssertLine, ChildRaise, ChildLatch, Raise, Latch, gicVars
<1>2. status' \subseteq Vectors
  BY DEF AssertLine, ChildRaise, ChildLatch, Raise, Latch, IInv, TypeInv
<1>3. TypeInv'
  BY <1>1, <1>2, SameVectors DEF IInv, TypeInv, Shared
<1>4. ChildInv'
  BY <1>1 DEF IInv, ChildInv
<1>5. EnableFollowsCount'
  BY <1>1, SameEnables DEF IInv
<1> QED BY <1>1, <1>3, <1>4, <1>5, ServiceInv

\* A CPU whose interface signals something is past gic_v2_init().
LEMMA RunsUp == ASSUME IInv, NEW c \in Cpus, at[c] \notin {"off", "init"} PROVE stage = "up"
BY DEF IInv, TypeInv, ResetInv

\* A CPU goes from one state outside the cascaded controller to another.
LEMMA PlainStep ==
    ASSUME IInv, NEW c \in Cpus, NEW where \in States \ ChildStates, GoTo(c, where),
           at[c] \notin {"off", "init", "childIsr", "childEoi"},
           UNCHANGED <<stage, spiOn, target, gicc, unmasked, x19, childVars>>
    PROVE  IInv'
<1> USE DEF IInv, GoTo, childVars
<1>1. TypeInv'
  BY SameVectors DEF TypeInv, Shared
<1>2. ChildInv'
  BY GicV2Assumption DEF TypeInv, ChildInv, ChildStates
<1>3. EnableFollowsCount'
  BY SameEnables
<1> QED BY <1>1, <1>2, <1>3, ServiceInv, RunsUp

LEMMA ServeInv ==
    ASSUME IInv, NEW c \in Cpus,
           IdentifyIpi(c) \/ TakeCommands(c) \/ Isr(c) \/ interrupt_eoi_gic_v2(c)
    PROVE  IInv'
<1> USE DEF cpuRest, States, ChildStates
<1>1. CASE IdentifyIpi(c)
  BY <1>1, PlainStep DEF IdentifyIpi
<1>2. CASE TakeCommands(c)
  BY <1>2, PlainStep DEF TakeCommands
<1>3. CASE Isr(c)
  BY <1>3, PlainStep DEF Isr
<1>4. CASE interrupt_eoi_gic_v2(c)
  BY <1>4, PlainStep DEF interrupt_eoi_gic_v2
<1> QED BY <1>1, <1>2, <1>3, <1>4

\* Only the boot CPU finds the cascaded controller's SPI.
LEMMA IdentifySpiInv == ASSUME IInv, NEW c \in Cpus, IdentifySpi(c) PROVE IInv'
<1>1. c = 0
  <2>1. stage = "up" /\ Signalled(c) # {}
    BY RunsUp DEF IdentifySpi
  <2> QED BY <2>1, SignalledInv DEF IInv
<1>2. PICK where \in {"child", "isr"} : GoTo(c, where)
  BY DEF IdentifySpi
<1>3. UNCHANGED <<stage, spiOn, target, gicc, unmasked, x19, childVars>> /\ at[c] = "run"
  BY DEF IdentifySpi, cpuRest
<1>4. TypeInv'
  BY <1>2, <1>3, SameVectors DEF IInv, TypeInv, Shared, GoTo, childVars, States, ChildStates
<1>5. ChildInv'
  BY <1>1, <1>2, <1>3, GicV2Assumption DEF IInv, TypeInv, ChildInv, GoTo, ChildStates
<1>6. EnableFollowsCount'
  BY <1>3, SameEnables DEF IInv, childVars
<1> QED BY <1>3, <1>4, <1>5, <1>6, ServiceInv, RunsUp

LEMMA IpiInv ==
    ASSUME IInv, NEW c \in Cpus, Trigger(c) \/ (\E d \in Cpus : Send(c, d))
    PROVE  IInv'
<1>1. UNCHANGED <<stage, spiOn, target, gicc, unmasked, at, x19, childVars>>
  BY DEF Trigger, Send
<1>2. TypeInv' /\ ChildInv'
  BY <1>1, SameVectors DEF IInv, TypeInv, ChildInv, Shared, childVars
<1>3. EnableFollowsCount'
  BY <1>1, SameEnables DEF IInv, childVars
<1> QED BY <1>1, <1>2, <1>3, ServiceInv

-----------------------------------------------------------------------------
(* The callouts of the cascaded controller.                                *)

\* Each vector with an enable bit has its own: codes 7 to 14 are moved down
\* over code 6, which has none.
LEMMA OwnBit ==
    ASSUME NEW v \in Nat, NEW w \in Nat, HasBit(v), HasBit(w), BitOf(v) = BitOf(w)
    PROVE  v = w
BY DEF HasBit, BitOf

LEMMA EnabledByBit ==
    ASSUME NEW v \in Nat, HasBit(v)
    PROVE  HwEnabled(v) <=> BitOf(v) \in enable
BY DEF HasBit, HwEnabled, BitOf

\* The id callout turns off the vector it returns, and no other.
LEMMA IdentifiedTurnsOff ==
    ASSUME IInv, NEW v \in Vectors \union {NoVector}, Identified(v), UNCHANGED kind
    PROVE  /\ enable' = enable \ (IF v # NoVector /\ HasBit(v) THEN {BitOf(v)} ELSE {})
           /\ status' \subseteq status
<1>1. CASE kind = "msi"
  <2>1. interrupt_id_t18x_msi(v)
    BY <1>1 DEF Identified
  <2>2. CASE {x \in status : x \in enable} = {}
    BY <2>1, <2>2 DEF interrupt_id_t18x_msi
  <2>3. CASE {x \in status : x \in enable} # {}
    <3>1. enable' = enable \ {v} /\ status' = status \ {v}
          /\ v = Min({x \in status : x \in enable})
      BY <2>1, <2>3 DEF interrupt_id_t18x_msi
    <3>2. CASE v = NoVector
      <4>1. v \notin enable
        BY <3>2 DEF IInv, TypeInv, NoVector
      <4>2. enable \ {v} = enable
        BY <4>1
      <4> QED BY <3>1, <3>2, <4>2
    <3>3. CASE v # NoVector
      BY <1>1, <3>1, <3>3 DEF HasBit, BitOf
    <3> QED BY <3>2, <3>3
  <2> QED BY <2>2, <2>3
<1>2. CASE kind = "pcie"
  BY <1>2 DEF Identified, interrupt_id_t18x_pcie
<1>3. CASE IdLoop
  <2>1. ~HasBit(v) /\ UNCHANGED enable
    BY <1>3 DEF Identified, IdLoop, HasBit
  <2>2. status' \subseteq status
    BY <1>3 DEF Identified, IdLoop, interrupt_id_qoriq_lsx_msi_v1, interrupt_id_qoriq_lsx_msi_v2
  <2> QED BY <2>1, <2>2
<1> QED BY <1>1, <1>2, <1>3 DEF Identified, IdLoop

LEMMA ChildIdInv == ASSUME IInv, NEW c \in Cpus, ChildId(c) PROVE IInv'
<1>1. c = 0 /\ stage = "up" /\ x19 = NoVector
  BY RunsUp DEF IInv, ChildInv, ChildId, ChildStates
<1>2. PICK v \in Vectors \union {NoVector} :
          Identified(v) /\ x19' = v /\ GoTo(c, IF v = NoVector THEN "eoi" ELSE "childIsr")
  BY DEF ChildId
<1>3. UNCHANGED <<stage, spiOn, target, gicc, unmasked, kind, count>>
  BY DEF ChildId, cpuRest
<1>4. /\ enable' = enable \ (IF v # NoVector /\ HasBit(v) THEN {BitOf(v)} ELSE {})
      /\ status' \subseteq status
  BY <1>2, <1>3, IdentifiedTurnsOff
<1>5. TypeInv'
  BY <1>2, <1>3, <1>4, SameVectors DEF IInv, TypeInv, GoTo, States, ChildStates, Shared
<1>6. ChildInv'
  BY <1>1, <1>2, GicV2Assumption DEF IInv, TypeInv, ChildInv, GoTo, ChildStates
<1>7. EnableFollowsCount'
  <2> SUFFICES ASSUME NEW w \in Vectors, HasBit(w)
               PROVE  /\ count[w] > 0 => BitOf(w) \notin enable'
                      /\ count[w] = 0 /\ w # v => BitOf(w) \in enable'
    <3>1. \A w \in Vectors : HasBit(w) => (HwEnabled(w)' <=> BitOf(w) \in enable')
      BY <1>3 DEF HasBit, HwEnabled, BitOf, IInv, TypeInv
    <3> QED BY <1>2, <1>3, <3>1, SameVectors DEF EnableFollowsCount, InService
  <2>1. w \in Nat /\ NoVector \notin Vectors
    BY TypesOfConstants DEF IInv, TypeInv
  <2>2. /\ count[w] > 0 => BitOf(w) \notin enable
        /\ count[w] = 0 => BitOf(w) \in enable
    BY <1>1, <2>1, EnabledByBit DEF IInv, EnableFollowsCount, InService
  <2>3. ASSUME w # v PROVE BitOf(w) \in enable => BitOf(w) \in enable'
    BY <1>4, <2>1, <2>3, OwnBit, TypesOfConstants DEF IInv, TypeInv
  <2> QED BY <1>4, <2>2, <2>3
<1> QED BY <1>1, <1>3, <1>5, <1>6, <1>7, ServiceInv

LEMMA ChildIsrInv == ASSUME IInv, NEW c \in Cpus, ChildIsr(c) PROVE IInv'
<1>1. c = 0 /\ stage = "up" /\ at[0] = "childIsr" /\ GoTo(c, "childEoi")
  BY RunsUp DEF IInv, ChildInv, ChildIsr, ChildStates
<1>2. UNCHANGED <<stage, spiOn, target, gicc, unmasked, x19, kind, status, enable, count>>
  BY DEF ChildIsr, cpuRest
<1>3. TypeInv'
  BY <1>1, <1>2, SameVectors DEF IInv, TypeInv, GoTo, States, ChildStates, Shared
<1>4. ChildInv'
  BY <1>1, <1>2, GicV2Assumption DEF IInv, TypeInv, ChildInv, GoTo, ChildStates
<1>5. EnableFollowsCount'
  BY <1>2, SameEnables DEF IInv
<1> QED BY <1>1, <1>2, <1>3, <1>4, <1>5, ServiceInv

\* How a callout or the kernel's count changes the enables of all vectors,
\* from how it changes one.
LEMMA OneVector ==
    ASSUME IInv, NEW v \in Vectors, kind' = kind, x19' \in {x19, NoVector},
           x19' # x19 => x19 = v,
           count' \in [Vectors -> Nat],
           \A w \in Vectors \ {v} : count'[w] = count[w],
           enable' \in {enable, enable \union {BitOf(v)}, enable \ {BitOf(v)}},
           ~HasBit(v) => enable' = enable,
           HasBit(v) => /\ count'[v] > 0 => BitOf(v) \notin enable'
                        /\ count'[v] = 0 /\ x19' # v => BitOf(v) \in enable'
    PROVE  EnableFollowsCount'
<1>1. \A w \in Vectors : HasBit(w) => (HwEnabled(w)' <=> BitOf(w) \in enable')
  BY DEF HasBit, HwEnabled, BitOf, IInv, TypeInv
<1> SUFFICES ASSUME NEW w \in Vectors, HasBit(w)
             PROVE  /\ count'[w] > 0 => BitOf(w) \notin enable'
                    /\ count'[w] = 0 /\ x19' # w => BitOf(w) \in enable'
  BY <1>1, SameVectors DEF EnableFollowsCount, InService
<1>2. CASE w = v
  BY <1>2
<1>3. CASE w # v
  <2>1. w \in Nat /\ v \in Nat
    BY TypesOfConstants DEF IInv, TypeInv
  <2>2. /\ count[w] > 0 => BitOf(w) \notin enable
        /\ count[w] = 0 /\ x19 # w => BitOf(w) \in enable
    BY <2>1, EnabledByBit DEF IInv, EnableFollowsCount, InService
  <2>3. BitOf(w) = BitOf(v) => ~HasBit(v)
    BY <1>3, <2>1, OwnBit
  <2>4. BitOf(w) \in enable' <=> BitOf(w) \in enable
    <3>1. CASE HasBit(v)
      BY <2>3, <3>1
    <3>2. CASE ~HasBit(v)
      BY <3>2
    <3> QED BY <3>1, <3>2
  <2> QED BY <1>3, <2>2, <2>4
<1> QED BY <1>2, <1>3

\* The eoi callout turns the vector on again, unless it is masked.
LEMMA EndedTurnsOn ==
    ASSUME IInv, NEW v \in Vectors, Ended(v), UNCHANGED kind
    PROVE  enable' = IF HasBit(v) /\ count[v] = 0 THEN enable \union {BitOf(v)} ELSE enable
<1>1. CASE kind = "msi"
  BY <1>1 DEF Ended, IdLoop, interrupt_eoi_t18x_msi, interrupt_unmask_t18x_msi, HasBit, BitOf
<1>2. CASE kind = "pcie"
  BY <1>2 DEF Ended, IdLoop, interrupt_eoi_t18x_pcie, interrupt_unmask_t18x_pcie
<1>3. CASE IdLoop
  BY <1>3 DEF Ended, IdLoop, HasBit
<1> QED BY <1>1, <1>2, <1>3 DEF Ended, IdLoop

LEMMA ChildEoiInv == ASSUME IInv, NEW c \in Cpus, ChildEoi(c) PROVE IInv'
<1>1. c = 0 /\ stage = "up" /\ at[0] = "childEoi" /\ x19 \in Vectors
  BY RunsUp DEF IInv, TypeInv, ChildInv, ChildEoi, ChildStates
<1>2. PICK where \in {"child", "eoi"} : GoTo(c, where)
  BY DEF ChildEoi
<1>3. /\ UNCHANGED <<stage, spiOn, target, gicc, unmasked, kind, status, count>>
      /\ x19' = NoVector /\ Ended(x19)
  BY DEF ChildEoi, cpuRest
<1>4. enable' = IF HasBit(x19) /\ count[x19] = 0 THEN enable \union {BitOf(x19)} ELSE enable
  BY <1>1, <1>3, EndedTurnsOn
<1>5. BitOf(x19) \in Nat
  BY <1>1, TypesOfConstants DEF IInv, TypeInv, BitOf
<1>6. TypeInv'
  BY <1>2, <1>3, <1>4, <1>5, SameVectors DEF IInv, TypeInv, GoTo, States, ChildStates, Shared
<1>7. ChildInv'
  BY <1>1, <1>2, <1>3, GicV2Assumption DEF IInv, TypeInv, ChildInv, GoTo, ChildStates
<1>8. EnableFollowsCount'
  <2>1. HasBit(x19) => (count[x19] > 0 => BitOf(x19) \notin enable)
    BY <1>1, TypesOfConstants, EnabledByBit DEF IInv, TypeInv, EnableFollowsCount
  <2>2. count[x19] \in Nat
    BY <1>1 DEF IInv, TypeInv
  <2>3. HasBit(x19) => /\ count'[x19] > 0 => BitOf(x19) \notin enable'
                       /\ count'[x19] = 0 => BitOf(x19) \in enable'
    BY <1>3, <1>4, <2>1, <2>2
  <2>4. count' \in [Vectors -> Nat]
    BY <1>3 DEF IInv, TypeInv
  <2> QED BY <1>1, <1>3, <1>4, <2>3, <2>4, OneVector
<1> QED BY <1>1, <1>3, <1>6, <1>7, <1>8, ServiceInv

LEMMA ChildMasksInv == ASSUME IInv, ChildMasks PROVE IInv'
<1>1. UNCHANGED <<stage, spiOn, target, gicc, unmasked, at, x19>>
  BY DEF ChildMasks, gicVars
<1>2. PICK v \in Vectors :
          /\ UNCHANGED <<kind, status>> /\ Maskable
          /\ \/ /\ count' = [count EXCEPT ![v] = @ + 1]
                /\ IF count[v] = 0 THEN interrupt_mask(v) ELSE UNCHANGED enable
             \/ /\ count[v] > 0 /\ count' = [count EXCEPT ![v] = @ - 1]
                /\ IF count[v] = 1 THEN interrupt_unmask(v) ELSE UNCHANGED enable
  BY DEF ChildMasks, Mask, Unmask
<1>3. v \in Nat /\ count[v] \in Nat /\ BitOf(v) \in Nat
  BY TypesOfConstants DEF IInv, TypeInv, BitOf
<1>4. interrupt_mask(v) => enable' = IF HasBit(v) THEN enable \ {BitOf(v)} ELSE enable
  BY <1>2 DEF interrupt_mask, interrupt_mask_t18x_msi, interrupt_mask_t18x_pcie, Maskable,
              HasBit, BitOf
<1>5. interrupt_unmask(v) => enable' = IF HasBit(v) THEN enable \union {BitOf(v)} ELSE enable
  BY <1>2 DEF interrupt_unmask, interrupt_unmask_t18x_msi, interrupt_unmask_t18x_pcie, Maskable,
              HasBit, BitOf
<1>6. enable' \in {enable, enable \union {BitOf(v)}, enable \ {BitOf(v)}}
      /\ (~HasBit(v) => enable' = enable)
  BY <1>2, <1>4, <1>5
<1>7. count' \in [Vectors -> Nat] /\ \A w \in Vectors \ {v} : count'[w] = count[w]
  BY <1>2, <1>3 DEF IInv, TypeInv
<1>8. HasBit(v) => /\ count'[v] > 0 => BitOf(v) \notin enable'
                   /\ count'[v] = 0 /\ x19' # v => BitOf(v) \in enable'
  <2> SUFFICES ASSUME HasBit(v)
               PROVE  /\ count'[v] > 0 => BitOf(v) \notin enable'
                      /\ count'[v] = 0 /\ x19' # v => BitOf(v) \in enable'
    OBVIOUS
  <2>1. count[v] > 0 => BitOf(v) \notin enable
    BY <1>3, EnabledByBit DEF IInv, EnableFollowsCount
  <2>2. count'[v] = count[v] + 1 \/ count'[v] = count[v] - 1
    BY <1>2 DEF IInv, TypeInv
  <2> QED BY <1>2, <1>3, <1>4, <1>5, <2>1, <2>2 DEF IInv, TypeInv
<1>9. EnableFollowsCount'
  BY <1>1, <1>2, <1>6, <1>7, <1>8, OneVector
<1>10. TypeInv' /\ ChildInv'
  BY <1>1, <1>2, <1>3, <1>6, <1>7, SameVectors DEF IInv, TypeInv, ChildInv, Shared
<1> QED BY <1>1, <1>9, <1>10, ServiceInv

-----------------------------------------------------------------------------
(* The mask and unmask callouts of the GIC.                                *)

LEMMA GicMasksInv ==
    ASSUME IInv, \/ \E i \in Shared : interrupt_unmask_gic_v2_spi(i)
                 \/ \E i \in Spis : interrupt_mask_gic_v2_spi(i)
    PROVE  IInv'
<1>1. stage = "up" /\ UNCHANGED <<stage, target, gicc, at, x19, childVars>>
  BY DEF interrupt_unmask_gic_v2_spi, interrupt_mask_gic_v2_spi
<1>2. \E i \in Shared : \/ spiOn' = spiOn \union {i} /\ unmasked' = unmasked \union {i}
                        \/ spiOn' = spiOn \ {i} /\ unmasked' = unmasked \ {i}
  <2>1. \A i \in Shared : IdOf(i - 32) = i
    BY GicV2Assumption DEF IdOf
  <2> QED BY <2>1 DEF interrupt_unmask_gic_v2_spi, interrupt_mask_gic_v2_spi, Shared
<1>3. TypeInv' /\ ChildInv'
  BY <1>1, <1>2, SameVectors DEF IInv, TypeInv, ChildInv, Shared, childVars
<1>4. ResetInv' /\ RouteInv'
  BY <1>1, <1>2 DEF IInv, ResetInv, RouteInv, Cleared, Shared, itn, gic_v2_cpunum
<1> QED BY <1>1, <1>3, <1>4, SameEnables DEF IInv, childVars

-----------------------------------------------------------------------------
(* The theorems.                                                           *)

LEMMA StepInv == IInv /\ [Next]_vars => IInv'
<1> SUFFICES ASSUME IInv, [Next]_vars PROVE IInv'
  OBVIOUS
<1>1. CASE gic_v2_init
  BY <1>1, SetUpInv
<1>2. CASE AssertLine \/ ChildRaise \/ ChildLatch
  BY <1>2, HardwareInv
<1>3. CASE ChildMasks
  BY <1>3, ChildMasksInv
<1>4. CASE \/ \E i \in Shared : interrupt_unmask_gic_v2_spi(i)
           \/ \E i \in Spis : interrupt_mask_gic_v2_spi(i)
  BY <1>4, GicMasksInv
<1>5. ASSUME NEW c \in Cpus, Service(c) PROVE IInv'
  BY <1>5, InterfaceInv, ServeInv, IdentifySpiInv, ChildIdInv, ChildIsrInv, ChildEoiInv, IpiInv
     DEF Service
<1>6. ASSUME NEW c \in Cpus, \E d \in Cpus : Send(c, d) PROVE IInv'
  BY <1>6, IpiInv
<1>7. CASE UNCHANGED vars
  <2>1. UNCHANGED <<stage, spiOn, target, gicc, unmasked, at, x19, childVars>>
    BY <1>7 DEF vars, gicVars
  <2>2. TypeInv' /\ ChildInv'
    BY <2>1, SameVectors DEF IInv, TypeInv, ChildInv, Shared, childVars
  <2>3. EnableFollowsCount'
    BY <2>1, SameEnables DEF IInv, childVars
  <2> QED BY <2>1, <2>2, <2>3, ServiceInv
<1> QED BY <1>1, <1>2, <1>3, <1>4, <1>5, <1>6, <1>7 DEF Next

\* The invariant holds whatever the CPUs, their interfaces, the SPIs and the
\* cascaded controller are (gic_v2.c and the callouts of both controllers).
THEOREM Invariant == Spec => []IInv
BY InitInv, StepInv, PTL DEF Spec

\* A vector is on at its controller exactly when its mask count is zero, the
\* one in service excepted, and nothing of the GIC signals a CPU that the
\* kernel did not unmask, or another than the boot CPU.
THEOREM EnablesFollow == Spec => []EnablesAreAsked
<1>1. IInv => EnablesAreAsked
  BY SignalledInv DEF IInv, EnablesAreAsked, OnlyUnmaskedActs
<1> QED BY <1>1, Invariant, PTL

-----------------------------------------------------------------------------
(* Nothing is lost.                                                        *)

\* A request of a cascaded device is in the status register, in the memory of
\* the callouts, in the code register, or on its way to its handler.
RequestKept ==
    \A v \in owed :
        \/ v \in status \union cache
        \/ v = code - 1 /\ at[0] # "childEoi"
        \/ v = x19 /\ at[0] = "childIsr"

\* Commands for a CPU have somebody to announce them.
CommandsKept ==
    \A d \in ipicmds : sgi[d] # {} \/ at[d] = "ipi" \/ \E c \in Cpus : sending[c] = d

CodeInv ==
    /\ owed \subseteq Vectors /\ code \in Nat
    /\ kind # "pcie" => code = 0
    /\ kind = "pcie" /\ at[0] \in {"childIsr", "childEoi"} => code = x19 + 1

\* Who may be sent an IPI has entered its own interface in the map; the CPUs
\* come up one after the other.
MapInv ==
    /\ ipicmds \subseteq Cpus /\ sending \in [Cpus -> Cpus \union {Nobody}]
    /\ sgi \in [Cpus -> SUBSET Cpus] /\ gic_cpu \in [Cpus -> Int]
    /\ \A c \in Cpus : at[c] \notin {"off", "init"} => gic_cpu[c] = Iface[c]
    /\ \A c \in Cpus : sending[c] # Nobody => at[sending[c]] \notin {"off", "init"}
    /\ \A c, d \in Cpus : at[c] = "init" /\ d > c => at[d] = "off"

RequestInv == CodeInv /\ RequestKept
CommandInv == MapInv /\ CommandsKept
KInv == RequestInv /\ CommandInv

LEMMA SameRequests ==
    ASSUME RequestInv, UNCHANGED <<kind, status, cache, code, x19, owed>>,
           at'[0] = at[0] \/ {at[0], at'[0]} \cap {"childIsr", "childEoi"} = {}
    PROVE  RequestInv'
BY SameVectors DEF RequestInv, CodeInv, RequestKept

LEMMA SameCommands ==
    ASSUME TypeInv, CommandInv, UNCHANGED <<ipicmds, sgi, sending, gic_cpu>>,
           NEW c \in Cpus, NEW where, GoTo(c, where),
           at[c] \notin {"off", "init", "ipi"}, where \notin {"off", "init"}
    PROVE  CommandInv'
<1> USE DEF CommandInv, TypeInv, GoTo
<1>1. MapInv'
  BY DEF MapInv
<1>2. CommandsKept'
  BY DEF CommandsKept, MapInv
<1> QED BY <1>1, <1>2

LEMMA InitKept == Init => KInv
<1> SUFFICES ASSUME Init PROVE KInv
  OBVIOUS
<1>1. RequestInv
  BY GicV2Assumption DEF Init, ChildInit, RequestInv, CodeInv, RequestKept
<1>2. CommandInv
  BY DEF Init, CommandInv, MapInv, CommandsKept, Nobody
<1> QED BY <1>1, <1>2 DEF KInv

LEMMA SetUpKept ==
    ASSUME IInv, KInv, gic_v2_init \/ \E c \in Cpus : gic_v2_gicc_init(c)
    PROVE  KInv'
<1>1. CASE gic_v2_init
  <2>1. UNCHANGED <<ipicmds, sgi, sending, gic_cpu, at>>
    BY <1>1 DEF gic_v2_init
  <2>2. CommandInv'
    BY <2>1 DEF KInv, CommandInv, MapInv, CommandsKept
  <2>3. RequestInv'
    BY <1>1, SameRequests DEF KInv, gic_v2_init, childVars
  <2> QED BY <2>2, <2>3 DEF KInv
<1>2. ASSUME NEW c \in Cpus, gic_v2_gicc_init(c) PROVE KInv'
  <2>1. gic_v2_cpunum(c) = Iface[c]
    <3>1. CASE Cardinality(Cpus) = 1
      <4>1. \E x : Cpus = {x}
        BY <3>1, GicV2Assumption, FS_Singleton
      <4>2. c = 0
        BY <4>1, GicV2Assumption
      <4> QED BY <3>1, <4>2, GicV2Assumption DEF gic_v2_cpunum
    <3> QED BY <3>1 DEF gic_v2_cpunum
  <2>2. gic_cpu' = [gic_cpu EXCEPT ![c] = Iface[c]] /\ UNCHANGED <<ipicmds, sgi, sending>>
    BY <1>2, <2>1 DEF gic_v2_gicc_init
  <2>3. \A d \in Cpus : \/ at'[d] = at[d]
                        \/ at'[d] = "init" /\ d = c + 1
                        \/ at'[d] = "run" /\ d = c
    BY <1>2 DEF gic_v2_gicc_init
  <2>4. Iface[c] \in Int
    BY GicV2Assumption
  <2>5. \A d \in Cpus : at[d] \notin {"off", "init"} => at'[d] = at[d]
    <3>1. at[c] = "init" /\ \A d \in Cpus : d = c + 1 => at[d] = "off"
      BY <1>2, GicV2Assumption DEF gic_v2_gicc_init, KInv, CommandInv, MapInv
    <3> QED BY <2>3, <3>1
  <2>6. MapInv'
    <3>1. ASSUME NEW d \in Cpus, NEW e \in Cpus, at'[d] = "init", e > d
          PROVE  at'[e] = "off"
      <4>1. at[c] = "init" /\ d \in Int /\ e \in Int /\ c \in Int
        BY <1>2, GicV2Assumption DEF gic_v2_gicc_init
      <4>2. d = c + 1
        BY <1>2, <2>3, <3>1, <4>1 DEF KInv, CommandInv, MapInv, gic_v2_gicc_init
      <4>3. at[e] = "off" /\ e # c + 1 /\ e # c
        BY <3>1, <4>1, <4>2 DEF KInv, CommandInv, MapInv
      <4> QED BY <1>2, <4>3 DEF gic_v2_gicc_init
    <3>2. /\ ipicmds' \subseteq Cpus /\ sending' \in [Cpus -> Cpus \union {Nobody}]
          /\ sgi' \in [Cpus -> SUBSET Cpus] /\ gic_cpu' \in [Cpus -> Int]
      BY <2>2, <2>4 DEF KInv, CommandInv, MapInv
    <3>3. ASSUME NEW d \in Cpus, at'[d] \notin {"off", "init"}
          PROVE  gic_cpu'[d] = Iface[d]
      BY <2>2, <2>3, <3>3 DEF KInv, CommandInv, MapInv
    <3>4. \A d \in Cpus : sending'[d] # Nobody => at'[sending'[d]] \notin {"off", "init"}
      BY <2>2, <2>5 DEF KInv, CommandInv, MapInv
    <3> QED BY <3>1, <3>2, <3>3, <3>4 DEF MapInv
  <2>7. CommandsKept'
    BY <2>2, <2>5 DEF KInv, CommandInv, MapInv, CommandsKept
  <2>8. RequestInv'
    <3>1. 0 \in Cpus
      BY GicV2Assumption
    <3>2. at'[0] = at[0] \/ {at[0], at'[0]} \cap {"childIsr", "childEoi"} = {}
      BY <2>3, <2>5, <3>1
    <3> QED BY <1>2, <3>2, SameRequests DEF KInv, gic_v2_gicc_init, childVars
  <2> QED BY <2>6, <2>7, <2>8 DEF KInv, CommandInv
<1> QED BY <1>1, <1>2

\* Between ChildId and ChildEoi the vector x19 is the boot CPU's.
LEMMA AtChild ==
    ASSUME IInv, NEW c \in Cpus, at[c] \in ChildStates
    PROVE  c = 0 /\ (x19 = NoVector <=> at[0] = "child") /\ x19 \in Vectors \union {NoVector}
BY DEF IInv, TypeInv, ChildInv, ChildStates

LEMMA RaiseKept ==
    ASSUME IInv, KInv, AssertLine \/ ChildRaise \/ ChildLatch PROVE KInv'
<1>1. CommandInv'
  BY DEF AssertLine, ChildRaise, ChildLatch, gicVars, KInv, CommandInv, MapInv, CommandsKept
<1>2. CASE AssertLine
  BY <1>1, <1>2, SameRequests DEF AssertLine, KInv
<1>3. CASE ChildRaise
  BY <1>1, <1>3, SameVectors DEF ChildRaise, Raise, gicVars, KInv, RequestInv, CodeInv, RequestKept
<1>4. CASE ChildLatch
  <2>1. kind = "pcie" /\ code = 0
    BY <1>4 DEF ChildLatch, Latch
  <2>2. PICK v \in status : code' = v + 1 /\ status' = status \ {v}
    BY <1>4 DEF ChildLatch, Latch
  <2>3. UNCHANGED <<kind, cache, owed, at, x19>>
    BY <1>4 DEF ChildLatch, Latch, gicVars
  <2>4. v \in Nat
    BY <2>2, TypesOfConstants DEF IInv, TypeInv
  <2>5. at[0] \notin {"childIsr", "childEoi"}
    BY <2>1, TypesOfConstants, GicV2Assumption
       DEF KInv, RequestInv, CodeInv, IInv, TypeInv, ChildInv, NoVector
  <2>6. CodeInv'
    BY <2>1, <2>2, <2>3, <2>4, <2>5, SameVectors DEF KInv, RequestInv, CodeInv
  <2>7. RequestKept'
    <3>1. owed \subseteq Nat
      BY TypesOfConstants DEF KInv, RequestInv, CodeInv, IInv, TypeInv
    <3> QED BY <2>1, <2>2, <2>3, <2>4, <2>5, <3>1 DEF KInv, RequestInv, RequestKept
  <2> QED BY <2>6, <2>7, <1>1 DEF KInv, RequestInv
<1> QED BY <1>1, <1>2, <1>3, <1>4 DEF KInv

LEMMA ServeKept ==
    ASSUME IInv, KInv, NEW c \in Cpus,
           IdentifySpi(c) \/ Isr(c) \/ interrupt_eoi_gic_v2(c)
    PROVE  KInv'
<1>1. PICK where \in States : GoTo(c, where) /\ where \notin {"off", "init", "childIsr", "childEoi"}
  BY DEF IdentifySpi, Isr, interrupt_eoi_gic_v2, States, ChildStates
<1>2. at[c] \in {"run", "isr", "eoi"}
  BY DEF IdentifySpi, Isr, interrupt_eoi_gic_v2
<1>3. UNCHANGED <<ipicmds, sgi, sending, gic_cpu, x19, childVars>>
  BY DEF IdentifySpi, Isr, interrupt_eoi_gic_v2, cpuRest
<1>4. CommandInv'
  BY <1>1, <1>2, <1>3, SameCommands DEF IInv, KInv
<1>5. at'[0] = at[0] \/ {at[0], at'[0]} \cap {"childIsr", "childEoi"} = {}
  BY <1>1, <1>2, GicV2Assumption DEF GoTo, IInv, TypeInv
<1> QED BY <1>3, <1>4, <1>5, SameRequests DEF KInv, childVars

\* The CPU that takes an IPI takes the commands after it.
LEMMA IpiKept ==
    ASSUME IInv, KInv, NEW c \in Cpus, IdentifyIpi(c) \/ TakeCommands(c)
    PROVE  KInv'
<1>1. PICK where \in {"ipi", "eoi"} : GoTo(c, where)
  BY DEF IdentifyIpi, TakeCommands
<1>2. at[c] \in {"run", "ipi"} /\ UNCHANGED <<sending, gic_cpu, x19, childVars>>
  BY DEF IdentifyIpi, TakeCommands, cpuRest
<1>3. at'[0] = at[0] \/ {at[0], at'[0]} \cap {"childIsr", "childEoi"} = {}
  BY <1>1, <1>2, GicV2Assumption DEF GoTo, IInv, TypeInv
<1>4. RequestInv'
  BY <1>2, <1>3, SameRequests DEF KInv, childVars
<1>5. ipicmds' \subseteq Cpus /\ sgi' \in [Cpus -> SUBSET Cpus]
  BY DEF IdentifyIpi, TakeCommands, KInv, CommandInv, MapInv
<1>6. MapInv'
  BY <1>1, <1>2, <1>5 DEF KInv, CommandInv, MapInv, GoTo, IInv, TypeInv
<1>7. CommandsKept'
  BY <1>2 DEF IdentifyIpi, TakeCommands, GoTo, KInv, CommandInv, MapInv, CommandsKept, IInv, TypeInv
<1> QED BY <1>4, <1>6, <1>7 DEF KInv, CommandInv

LEMMA SendKept ==
    ASSUME IInv, KInv, NEW c \in Cpus, NEW d \in Cpus, Send(c, d) PROVE KInv'
<1>1. UNCHANGED <<sgi, gic_cpu, at, x19, childVars>>
  BY DEF Send
<1>2. RequestInv'
  BY <1>1, SameRequests DEF KInv, childVars
<1>3. MapInv'
  BY <1>1 DEF Send, KInv, CommandInv, MapInv
<1>4. CommandsKept'
  <2>1. CASE d \in ipicmds
    BY <1>1, <2>1 DEF Send, KInv, CommandInv, CommandsKept
  <2>2. CASE d \notin ipicmds
    <3>1. sending' = [sending EXCEPT ![c] = d] /\ sending[c] = Nobody /\ ipicmds' = ipicmds \union {d}
      BY <2>2 DEF Send
    <3>2. sending'[c] = d
      BY <3>1 DEF KInv, CommandInv, MapInv
    <3>3. ASSUME NEW e \in ipicmds PROVE sgi[e] # {} \/ at[e] = "ipi" \/ \E b \in Cpus : sending'[b] = e
      <4>1. \A b \in Cpus : sending[b] = e => b # c
        BY <3>1, <3>3, GicV2Assumption DEF KInv, CommandInv, MapInv, Nobody
      <4> QED BY <3>1, <4>1 DEF KInv, CommandInv, MapInv, CommandsKept
    <3> QED BY <1>1, <3>1, <3>2, <3>3 DEF CommandsKept
  <2> QED BY <2>1, <2>2
<1> QED BY <1>2, <1>3, <1>4 DEF KInv, CommandInv

\* The interrupt reaches the interface of the CPU the commands are for.
LEMMA TriggerKept ==
    ASSUME IInv, KInv, NEW c \in Cpus, Trigger(c) PROVE KInv'
<1>1. UNCHANGED <<ipicmds, gic_cpu, at, x19, childVars>> /\ sending' = [sending EXCEPT ![c] = Nobody]
  BY DEF Trigger
<1>2. RequestInv'
  BY <1>1, SameRequests DEF KInv, childVars
<1>3. sending[c] \in Cpus /\ gic_cpu[sending[c]] = Iface[sending[c]]
  BY DEF Trigger, KInv, CommandInv, MapInv
<1>4. sgi' = [sgi EXCEPT ![sending[c]] = @ \union {c}]
  <2>1. \A d \in Cpus : Iface[d] = gic_cpu[sending[c]] <=> d = sending[c]
    BY <1>3, GicV2Assumption
  <2>2. sgi' = [d \in Cpus |-> IF Iface[d] = gic_cpu[sending[c]] THEN sgi[d] \union {c} ELSE sgi[d]]
    BY DEF Trigger
  <2>3. sgi \in [Cpus -> SUBSET Cpus]
    BY DEF KInv, CommandInv, MapInv
  <2>4. sgi' = [d \in Cpus |-> IF d = sending[c] THEN sgi[d] \union {c} ELSE sgi[d]]
    BY <2>1, <2>2
  <2> QED BY <2>3, <2>4
<1>5. MapInv'
  BY <1>1, <1>3, <1>4 DEF KInv, CommandInv, MapInv
<1>6. CommandsKept'
  <2> SUFFICES ASSUME NEW d \in ipicmds, at[d] # "ipi"
               PROVE  sgi'[d] # {} \/ \E b \in Cpus : sending'[b] = d
    BY <1>1 DEF CommandsKept
  <2>1. d \in Cpus /\ sgi \in [Cpus -> SUBSET Cpus] /\ sending \in [Cpus -> Cpus \union {Nobody}]
    BY DEF KInv, CommandInv, MapInv
  <2>2. CASE sending[c] = d
    BY <1>4, <2>1, <2>2
  <2>3. CASE sending[c] # d
    BY <1>1, <1>3, <1>4, <2>1, <2>3 DEF KInv, CommandInv, CommandsKept
  <2> QED BY <2>2, <2>3
<1> QED BY <1>2, <1>5, <1>6 DEF KInv, CommandInv

LEMMA MasksKept ==
    ASSUME IInv, KInv,
           \/ ChildMasks
           \/ \E i \in Shared : interrupt_unmask_gic_v2_spi(i)
           \/ \E i \in Spis : interrupt_mask_gic_v2_spi(i)
    PROVE  KInv'
<1>1. UNCHANGED <<ipicmds, sgi, sending, gic_cpu, at, x19, kind, status, cache, code, owed>>
  BY DEF ChildMasks, Mask, Unmask, gicVars, interrupt_unmask_gic_v2_spi,
         interrupt_mask_gic_v2_spi, childVars
<1>2. CommandInv'
  BY <1>1 DEF KInv, CommandInv, MapInv, CommandsKept
<1> QED BY <1>1, <1>2, SameRequests DEF KInv

\* The callouts of the cascaded controller: what the id callout reads and does
\* not return is kept, what it returns goes to its handler.
LEMMA IdentifiedKeeps ==
    ASSUME IInv, KInv, NEW v \in Vectors \union {NoVector}, Identified(v), UNCHANGED kind
    PROVE  /\ status \union cache \subseteq status' \union cache' \union {v}
           /\ code' = code
           /\ kind = "pcie" => v = code - 1
<1>1. CASE kind = "msi"
  BY <1>1 DEF Identified, interrupt_id_t18x_msi
<1>2. CASE kind = "pcie"
  BY <1>2 DEF Identified, interrupt_id_t18x_pcie
<1>3. CASE kind = "qoriq_v1"
  BY <1>3 DEF Identified, interrupt_id_qoriq_lsx_msi_v1
<1>4. CASE kind = "qoriq_v2"
  BY <1>4 DEF Identified, interrupt_id_qoriq_lsx_msi_v2
<1> QED BY <1>1, <1>2, <1>3, <1>4 DEF Identified

LEMMA ChildKept ==
    ASSUME IInv, KInv, NEW c \in Cpus, ChildId(c) \/ ChildIsr(c) \/ ChildEoi(c)
    PROVE  KInv'
<1>1. c = 0 /\ 0 \in Cpus /\ at \in [Cpus -> States]
  BY AtChild, GicV2Assumption DEF ChildId, ChildIsr, ChildEoi, ChildStates, IInv, TypeInv
<1>2. CommandInv'
  <2>1. PICK where \in States : GoTo(c, where) /\ where \notin {"off", "init"}
    BY DEF ChildId, ChildIsr, ChildEoi, States, ChildStates
  <2>2. at[c] \in ChildStates /\ UNCHANGED <<ipicmds, sgi, sending, gic_cpu>>
    BY DEF ChildId, ChildIsr, ChildEoi, ChildStates, cpuRest
  <2> QED BY <2>1, <2>2, SameCommands DEF ChildStates, IInv, KInv
<1>3. owed \subseteq Nat /\ code \in Nat /\ NoVector \notin Vectors /\ NoVector \notin owed
  BY TypesOfConstants DEF KInv, RequestInv, CodeInv, IInv, TypeInv, NoVector
<1>4. CASE ChildId(c)
  <2>1. PICK v \in Vectors \union {NoVector} :
            Identified(v) /\ x19' = v /\ GoTo(c, IF v = NoVector THEN "eoi" ELSE "childIsr")
    BY <1>4 DEF ChildId
  <2>2. UNCHANGED <<kind, owed>> /\ at[0] = "child"
    BY <1>1, <1>4 DEF ChildId
  <2>3. /\ status \union cache \subseteq status' \union cache' \union {v}
        /\ code' = code
        /\ kind = "pcie" => v = code - 1
    BY <2>1, <2>2, IdentifiedKeeps
  <2>4. at'[0] = IF v = NoVector THEN "eoi" ELSE "childIsr"
    BY <1>1, <2>1 DEF GoTo
  <2>5. CodeInv'
    BY <1>3, <2>1, <2>2, <2>3, <2>4, SameVectors DEF KInv, RequestInv, CodeInv, NoVector
  <2>6. RequestKept'
    BY <1>3, <2>1, <2>2, <2>3, <2>4 DEF KInv, RequestInv, RequestKept, CodeInv, NoVector
  <2> QED BY <1>2, <2>5, <2>6 DEF KInv, RequestInv
<1>5. CASE ChildIsr(c)
  <2>1. /\ UNCHANGED <<kind, status, cache, code, x19>> /\ owed' = owed \ {x19}
        /\ at[0] = "childIsr" /\ at'[0] = "childEoi"
    BY <1>1, <1>5 DEF ChildIsr, GoTo, cpuRest
  <2>2. CodeInv'
    BY <2>1, SameVectors DEF KInv, RequestInv, CodeInv
  <2>3. RequestKept'
    <3>1. code = 0 \/ code - 1 = x19
      BY <1>3, <2>1, TypesOfConstants DEF KInv, RequestInv, CodeInv, IInv, TypeInv, NoVector
    <3> QED BY <1>3, <2>1, <3>1 DEF KInv, RequestInv, RequestKept, NoVector
  <2> QED BY <1>2, <2>2, <2>3 DEF KInv, RequestInv
<1>6. CASE ChildEoi(c)
  <2>1. /\ UNCHANGED <<kind, status, cache, owed>>
        /\ at[0] = "childEoi" /\ at'[0] \in {"child", "eoi"}
    BY <1>1, <1>6 DEF ChildEoi, GoTo, cpuRest
  <2>2. code' = IF kind = "pcie" THEN 0 ELSE code
    BY <1>6 DEF ChildEoi, Ended, interrupt_eoi_t18x_pcie, IdLoop
  <2>3. CodeInv'
    BY <2>1, <2>2, SameVectors DEF KInv, RequestInv, CodeInv
  <2>4. RequestKept'
    BY <2>1, <2>2 DEF KInv, RequestInv, RequestKept
  <2> QED BY <1>2, <2>3, <2>4 DEF KInv, RequestInv
<1> QED BY <1>4, <1>5, <1>6

LEMMA StepKept == IInv /\ KInv /\ [Next]_vars => KInv'
<1> SUFFICES ASSUME IInv, KInv, [Next]_vars PROVE KInv'
  OBVIOUS
<1>1. CASE gic_v2_init
  BY <1>1, SetUpKept
<1>2. CASE AssertLine \/ ChildRaise \/ ChildLatch
  BY <1>2, RaiseKept
<1>3. CASE \/ ChildMasks
           \/ \E i \in Shared : interrupt_unmask_gic_v2_spi(i)
           \/ \E i \in Spis : interrupt_mask_gic_v2_spi(i)
  BY <1>3, MasksKept
<1>4. ASSUME NEW c \in Cpus, Service(c) PROVE KInv'
  BY <1>4, SetUpKept, ServeKept, IpiKept, ChildKept, TriggerKept DEF Service
<1>5. ASSUME NEW c \in Cpus, \E d \in Cpus : Send(c, d) PROVE KInv'
  BY <1>5, SendKept
<1>6. CASE UNCHANGED vars
  BY <1>6, SameRequests DEF vars, gicVars, childVars, KInv, CommandInv, MapInv, CommandsKept
<1> QED BY <1>1, <1>2, <1>3, <1>4, <1>5, <1>6 DEF Next

\* No request of a cascaded device is lost between status, code and cached
\* bits, and no command for a CPU is left without an interrupt that is pending
\* or about to be sent to the interface of that CPU: what ServedInTheEnd says
\* will be served is still there to be served.
THEOREM NothingIsLost == Spec => [](RequestKept /\ CommandsKept)
<1>1. Init => IInv /\ KInv
  BY InitInv, InitKept
<1>2. IInv /\ KInv /\ [Next]_vars => (IInv /\ KInv)'
  BY StepInv, StepKept
<1>3. KInv => RequestKept /\ CommandsKept
  BY DEF KInv, RequestInv, CommandInv
<1> QED BY <1>1, <1>2, <1>3, PTL DEF Spec
=============================================================================
