------------------------------ MODULE Cascade ------------------------------
(***************************************************************************)
(* The controllers behind one input of the GIC: the PCIe and MSI           *)
(* controllers of the T18x and the MSI controllers of the QorIQ LSx, each  *)
(* by its id, eoi, mask and unmask callouts                                *)
(* (callout_interrupt_t18x_pcie.S, _t18x_msi.S,                            *)
(* _qoriq_lsx_msi_v1.S, _qoriq_lsx_msi_v2.S).                              *)
(*                                                                         *)
(* External are the devices and the kernel, which runs one callout of a    *)
(* controller at a time, counts the masks of a vector, calls mask and      *)
(* unmask when the count leaves and reaches zero, and hands it to eoi.     *)
(***************************************************************************)
EXTENDS Integers, FiniteSetsExt, TLC

CONSTANTS
    Kinds,        \* the controllers tried
    VectorsOf,    \* kind -> the vectors with a device, from 0
    MaxRaise,     \* bound: requests of the devices
    MaxMask,      \* bound: the kernel's mask count of a vector
    MaxMasks      \* bound: calls of InterruptMask()

AllKinds == {"pcie", "msi", "qoriq_v1", "qoriq_v2"}
ASSUME CascadeAssumption ==
    /\ Kinds \subseteq AllKinds
    /\ VectorsOf \in [Kinds -> SUBSET Nat]
    /\ MaxRaise \in Nat /\ MaxMask \in Nat /\ MaxMasks \in Nat

VARIABLES
    kind,
    status,     \* T18X_MSI_STATUS, the QorIQ MSIR, or the PCIe messages waiting
    enable,     \* T18X_MSI_ENABLE or T18X_INTR_ENABLE0, as bit positions
    code,       \* T18X_INTR_CODE: 0, or one more than the vector
    gate,       \* bit 0 of T18X_INTR_MASK
    cache,      \* the rw data of the QorIQ callouts: bits read and not served
    count,      \* the kernel's mask count of each vector
    raised,     \* requests so far
    masks,      \* calls of InterruptMask() so far
    owed        \* vectors raised and not handled since

childVars == <<kind, status, enable, code, gate, cache, count, raised, masks, owed>>

Vectors == VectorsOf[kind]
NoVector == -1
Maskable == kind \in {"pcie", "msi"}
IdLoop == kind \in {"qoriq_v1", "qoriq_v2"}

\* PCIe codes 1 to 5 and 7 to 14 have consecutive bits of ENABLE0; code 6,
\* vector 5, has none and is always on.
BitOf(v) == IF kind # "pcie" THEN v ELSE IF v > 5 THEN v - 1 ELSE v
HasBit(v) == kind = "msi" \/ (kind = "pcie" /\ v # 5)
HwEnabled(v) == HasBit(v) => (IF kind = "pcie" /\ v > 5 THEN v - 1 \in enable ELSE v \in enable)

ChildInit ==
    /\ kind \in Kinds
    /\ status = {} /\ code = 0 /\ gate = TRUE /\ cache = {}
    /\ enable = {}
    /\ count = [v \in Vectors |-> IF Maskable THEN 1 ELSE 0]   \* until a driver attaches
    /\ raised = 0 /\ masks = 0 /\ owed = {}

-----------------------------------------------------------------------------
(* The devices and the hardware.                                           *)

Raise ==
    \E v \in Vectors :
        /\ raised < MaxRaise
        /\ status' = status \union {v} /\ owed' = owed \union {v} /\ raised' = raised + 1
        /\ UNCHANGED <<kind, enable, code, gate, cache, count, masks>>

\* INTR_CODE takes an enabled message when it is free.
Latch ==
    /\ kind = "pcie" /\ code = 0
    /\ \E v \in status : /\ HwEnabled(v)
                         /\ code' = v + 1 /\ status' = status \ {v}
    /\ UNCHANGED <<kind, enable, gate, cache, count, raised, masks, owed>>

\* What the GIC sees.
ChildLine == CASE kind = "msi"  -> \E v \in status : HwEnabled(v)
               [] kind = "pcie" -> code # 0 /\ gate
               [] OTHER         -> status # {}

-----------------------------------------------------------------------------
(* The callouts: Identify(v) says the id callout returns v.                *)

interrupt_id_t18x_msi(v) ==
    LET hit == {x \in status : x \in enable}
    IN  IF hit = {} THEN v = NoVector /\ UNCHANGED <<status, enable>>
        ELSE /\ v = Min(hit)
             /\ enable' = enable \ {v} /\ status' = status \ {v}

interrupt_id_t18x_pcie(v) ==
    /\ gate' = FALSE
    /\ v = code - 1
    /\ enable' = IF v # NoVector /\ HasBit(v) THEN enable \ {BitOf(v)} ELSE enable

\* Reading MSIR clears it; what is not returned now is kept in memory.
interrupt_id_qoriq_lsx_msi_v1(v) ==
    LET bits == cache \union status
    IN  /\ status' = {}
        /\ IF bits = {} THEN v = NoVector /\ UNCHANGED cache
           ELSE v = Min(bits) /\ cache' = bits \ {v}

\* Four registers of eight sources, all read before one is chosen.
Msir(k) == {v \in status : v \div 8 = k - 1}
interrupt_id_qoriq_lsx_msi_v2(v) ==
    LET bits == cache \union UNION {Msir(k) : k \in 1 .. 4}
    IN  /\ status' = status \ UNION {Msir(k) : k \in 1 .. 4}
        /\ IF bits = {} THEN v = NoVector /\ UNCHANGED cache
           ELSE v = Min(bits) /\ cache' = bits \ {v}

\* Mutant: what was kept is not looked at again.
IdentifiedForgets(v) ==
    \/ kind = "msi" /\ interrupt_id_t18x_msi(v) /\ UNCHANGED <<code, gate, cache>>
    \/ kind = "pcie" /\ interrupt_id_t18x_pcie(v) /\ UNCHANGED <<status, code, cache>>
    \/ /\ IdLoop /\ status' = {} /\ UNCHANGED <<enable, code, gate>>
       /\ IF status = {} THEN v = NoVector /\ UNCHANGED cache
          ELSE v = Min(status) /\ cache' = status \ {v}
Identified(v) ==
    \/ kind = "msi" /\ interrupt_id_t18x_msi(v) /\ UNCHANGED <<code, gate, cache>>
    \/ kind = "pcie" /\ interrupt_id_t18x_pcie(v) /\ UNCHANGED <<status, code, cache>>
    \/ /\ kind = "qoriq_v1" /\ interrupt_id_qoriq_lsx_msi_v1(v)
       /\ UNCHANGED <<enable, code, gate>>
    \/ /\ kind = "qoriq_v2" /\ interrupt_id_qoriq_lsx_msi_v2(v)
       /\ UNCHANGED <<enable, code, gate>>

interrupt_unmask_t18x_msi(v)  == enable' = enable \union {v}
interrupt_mask_t18x_msi(v)    == enable' = enable \ {v}
interrupt_unmask_t18x_pcie(v) == enable' = IF HasBit(v) THEN enable \union {BitOf(v)} ELSE enable
interrupt_mask_t18x_pcie(v)   == enable' = IF HasBit(v) THEN enable \ {BitOf(v)} ELSE enable

interrupt_eoi_t18x_msi(v) ==
    IF count[v] = 0 THEN interrupt_unmask_t18x_msi(v) ELSE UNCHANGED enable

\* The code register is free again, the gate opens.
interrupt_eoi_t18x_pcie(v) ==
    /\ code' = 0 /\ gate' = TRUE
    /\ IF count[v] = 0 THEN interrupt_unmask_t18x_pcie(v) ELSE UNCHANGED enable

\* Mutant: the mask count is not asked.
EndedAlways(v) ==
    \/ kind = "msi" /\ interrupt_unmask_t18x_msi(v) /\ UNCHANGED <<code, gate>>
    \/ kind = "pcie" /\ code' = 0 /\ gate' = TRUE /\ interrupt_unmask_t18x_pcie(v)
    \/ IdLoop /\ UNCHANGED <<enable, code, gate>>
\* The eoi callouts of the QorIQ controllers are empty.
Ended(v) ==
    \/ kind = "msi" /\ interrupt_eoi_t18x_msi(v) /\ UNCHANGED <<code, gate>>
    \/ kind = "pcie" /\ interrupt_eoi_t18x_pcie(v)
    \/ IdLoop /\ UNCHANGED <<enable, code, gate>>

interrupt_mask(v) ==
    IF kind = "msi" THEN interrupt_mask_t18x_msi(v) ELSE interrupt_mask_t18x_pcie(v)
interrupt_unmask(v) ==
    IF kind = "msi" THEN interrupt_unmask_t18x_msi(v) ELSE interrupt_unmask_t18x_pcie(v)

-----------------------------------------------------------------------------
(* InterruptMask() and InterruptUnmask() of a thread on any CPU.           *)

Mask ==
    \E v \in Vectors :
        /\ Maskable /\ count[v] < MaxMask /\ masks < MaxMasks
        /\ masks' = masks + 1
        /\ count' = [count EXCEPT ![v] = @ + 1]
        /\ IF count[v] = 0 THEN interrupt_mask(v) ELSE UNCHANGED enable
        /\ UNCHANGED <<kind, status, code, gate, cache, raised, owed>>

Unmask ==
    \E v \in Vectors :
        /\ Maskable /\ count[v] > 0
        /\ count' = [count EXCEPT ![v] = @ - 1]
        /\ IF count[v] = 1 THEN interrupt_unmask(v) ELSE UNCHANGED enable
        /\ UNCHANGED <<kind, status, code, gate, cache, raised, masks, owed>>
=============================================================================
