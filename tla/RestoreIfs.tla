----------------------------- MODULE RestoreIfs -----------------------------
(***************************************************************************)
(* Loading the boot image file system (IFS) and a second one (IFS2), or    *)
(* finding them still in RAM after the CPU was off with the RAM in         *)
(* self-refresh (restore_ifs.c, load_ifs.c, init_system_private.c).  The   *)
(* power may fail between any two steps; the RAM keeps what it holds, or   *)
(* loses it.                                                               *)
(*                                                                         *)
(* Memory that alloc_ram() can give is a sequence of slots, searched first *)
(* fit as find_ram() does; a slot holds one object.  The IFS has memory of *)
(* its own, which no search finds.                                         *)
(***************************************************************************)
EXTENDS Integers, Sequences, FiniteSetsExt

CONSTANTS
    Slots,       \* number of slots
    NumBoot,     \* bootable executables in the IFS
    MaxBootable, \* RIFS_MAX_BOOTABLE
    Options,     \* option settings to consider, the same at every boot
    MaxPower,    \* bound: times the power fails
    MaxFaults    \* bound: memory errors while the power is off

Slot == 1 .. Slots
Exe == 1 .. NumBoot
NoSlot == 0

\* rifs, cksum, ifs2, restore2, cksum2: the RIFS_FLAG_ bits; dst: the slot
\* RIFS_FLAG_IFS2_DST names, or NoSlot; secure: secure_system; compressed:
\* STARTUP_HDR_FLAGS1_COMPRESS_MASK.
OptionSet ==
    [rifs : BOOLEAN, cksum : BOOLEAN, ifs2 : BOOLEAN, restore2 : BOOLEAN,
     cksum2 : BOOLEAN, dst : {NoSlot} \union Slot, secure : BOOLEAN, compressed : BOOLEAN]

RestoreAssumption ==
    /\ Options \subseteq OptionSet
    /\ Slots \in Nat /\ NumBoot \in Nat /\ Slots >= NumBoot + 3

VARIABLES
    opt,       \* the options of this installation
    pc, i,     \* where the boot is, and its loop variable
    status,    \* rifs_restore_ifs()'s status
    free,      \* slots on the free list, in this boot
    mem,       \* what each slot holds
    image,     \* the IFS: signature there, all there, each executable's data
    info, info2, dst,   \* slots of rifs_info, rifs2_info and IFS2
    power, faults,
    completed  \* history: the last boot got as far as the kernel

ram == <<mem, image>>
restoreVars == <<opt, pc, i, status, free, mem, image, info, info2, dst, power, faults,
                 completed>>

\* What a slot may hold.  An info block that was never completed fails its
\* checksum; one of zeros passes it.
Junk == [kind |-> "junk"]
Zeros == [kind |-> "zeros"]
Info(valid, saved) == [kind |-> "info", valid |-> valid, saved |-> saved]
Info2 == [kind |-> "info2"]
Ifs2(whole) == [kind |-> "ifs2", whole |-> whole]
ExeData(e, good) == [kind |-> "data", exe |-> e, good |-> good]

Pristine == [e \in Exe |-> TRUE]
NoImage == [sig |-> FALSE, whole |-> FALSE, data |-> [e \in Exe |-> FALSE]]

\* The checksum over the whole IFS.
ImageGood == image.whole /\ image.data = Pristine
Ifs2Good == mem[dst] = Ifs2(TRUE)

Pcs == {"off", "rifs", "check", "copy", "verify", "clear", "load", "load_rest", "ifs2",
        "check2", "load2", "load2_rest", "save2", "bootstraps", "cksum", "kernel", "crashed"}

RestoreInit ==
    /\ opt \in Options
    /\ pc = "off" /\ i = 0 /\ status = 0 /\ free = Slot
    /\ mem = [s \in Slot |-> Junk]
    /\ image = NoImage
    /\ info = NoSlot /\ info2 = NoSlot /\ dst = NoSlot
    /\ power = 0 /\ faults = 0 /\ completed = FALSE

\* alloc_ram(NULL_PADDR, ...): the first free slot, zeroed on a secure system.
FirstFree == Min(free)
Without(s) == free \ {s}
Cleared(m, s) == IF opt.secure THEN [m EXCEPT ![s] = Zeros] ELSE m

-----------------------------------------------------------------------------
(* The power.                                                              *)

PowerOn ==
    /\ pc = "off"
    /\ pc' = IF opt.rifs THEN "rifs" ELSE "load"
    /\ free' = Slot /\ i' = 0 /\ status' = 0
    /\ info' = NoSlot /\ info2' = NoSlot /\ dst' = NoSlot
    /\ UNCHANGED <<opt, ram, power, faults, completed>>

PowerFails ==
    /\ pc # "off" /\ power < MaxPower
    /\ pc' = "off"
    /\ power' = power + 1
    /\ completed' = (pc = "kernel")
    /\ UNCHANGED <<opt, i, status, free, ram, info, info2, dst, faults>>

\* Self-refresh ended: the RAM holds nothing of the last boot.
RamLost ==
    /\ pc = "off" /\ power > 0 /\ faults < MaxFaults
    /\ mem' = [s \in Slot |-> Junk] /\ image' = NoImage
    /\ faults' = faults + 1
    /\ UNCHANGED <<opt, pc, i, status, free, info, info2, dst, power, completed>>

\* A memory error in one of the images, in its signature or elsewhere.
MemoryError ==
    /\ pc = "off" /\ power > 0 /\ faults < MaxFaults
    /\ \/ /\ \E sig \in BOOLEAN : image' = [image EXCEPT !.sig = @ /\ sig, !.whole = FALSE]
          /\ UNCHANGED mem
       \/ /\ \E s \in Slot, new \in {Junk, Ifs2(FALSE)} :
                mem[s].kind = "ifs2" /\ mem' = [mem EXCEPT ![s] = new]
          /\ UNCHANGED image
    /\ faults' = faults + 1
    /\ UNCHANGED <<opt, pc, i, status, free, info, info2, dst, power, completed>>

-----------------------------------------------------------------------------
(* rifs_restore_ifs()                                                      *)

AllocInfo ==
    /\ pc = "rifs"
    /\ info' = FirstFree /\ free' = Without(FirstFree)
    /\ mem' = Cleared(mem, FirstFree)
    /\ pc' = "check"
    /\ UNCHANGED <<opt, i, status, image, info2, dst, power, faults, completed>>

\* check_ifs_signature() and check_rifs_signature()
InfoValidSigOnly == mem[info].kind = "info"
InfoValid == mem[info].kind = "info" /\ mem[info].valid

Check ==
    /\ pc = "check"
    /\ IF image.sig /\ InfoValid
       THEN pc' = "copy" /\ i' = 1 /\ UNCHANGED status
       ELSE pc' = "clear" /\ status' = -1 /\ UNCHANGED i
    /\ UNCHANGED <<opt, free, ram, info, info2, dst, power, faults, completed>>

\* The writable data of each executable, from the copy the last boot saved or,
\* uncompressed, from the image it was loaded from.
NumSavedLessOne == Len(mem[info].saved) - 1
NumSaved == Len(mem[info].saved)

Source(e) == ~opt.compressed \/ mem[mem[info].saved[e]] = ExeData(e, TRUE)

Copy ==
    /\ pc = "copy"
    /\ IF i > NumSaved THEN pc' = "verify" /\ UNCHANGED <<i, image>>
       ELSE /\ image' = [image EXCEPT !.data[i] = Source(i)]
            /\ i' = i + 1
            /\ UNCHANGED pc
    /\ UNCHANGED <<opt, status, free, mem, info, info2, dst, power, faults, completed>>

Verify ==
    /\ pc = "verify"
    /\ status' = IF opt.cksum /\ ~ImageGood THEN -1 ELSE status
    /\ pc' = "clear"
    /\ UNCHANGED <<opt, i, free, ram, info, info2, dst, power, faults, completed>>

\* rifs_init(): the info is invalid until this boot has completed it again.
ClearedOnFailure(m) == IF status = -1 THEN [m EXCEPT ![info] = Info(FALSE, <<>>)] ELSE m
ClearedInfo(m) == [m EXCEPT ![info] = Info(FALSE, <<>>)]

Clear ==
    /\ pc = "clear"
    /\ mem' = ClearedInfo(mem)
    /\ pc' = IF status = -1 THEN "load" ELSE "ifs2"
    /\ UNCHANGED <<opt, i, status, free, image, info, info2, dst, power, faults, completed>>

\* load_ifs(): its head, with the signature, arrives first.
Load ==
    /\ pc = "load"
    /\ image' = [NoImage EXCEPT !.sig = TRUE]
    /\ pc' = "load_rest"
    /\ UNCHANGED <<opt, i, status, free, mem, info, info2, dst, power, faults, completed>>

LoadRest ==
    /\ pc = "load_rest"
    /\ image' = [sig |-> TRUE, whole |-> TRUE, data |-> Pristine]
    /\ pc' = "ifs2"
    /\ UNCHANGED <<opt, i, status, free, mem, info, info2, dst, power, faults, completed>>

-----------------------------------------------------------------------------
(* load_ifs2_nonbootable()                                                 *)

\* The default place is the first free one; the user's is not taken yet.
PlaceIfs2 ==
    /\ pc = "ifs2"
    /\ IF ~opt.ifs2
       THEN pc' = "bootstraps" /\ i' = 1 /\ UNCHANGED <<dst, free, mem>>
       ELSE /\ pc' = IF opt.restore2 THEN "check2" ELSE "load2"
            /\ IF opt.dst # NoSlot THEN dst' = opt.dst /\ UNCHANGED <<free, mem>>
               ELSE /\ dst' = FirstFree /\ free' = Without(FirstFree)
                    /\ mem' = Cleared(mem, FirstFree)
            /\ UNCHANGED i
    /\ UNCHANGED <<opt, status, image, info, info2, power, faults, completed>>

\* rifs_restore_ifs2(): a sum of zero is all that is asked of the info, and a
\* size of zero in it makes the image's checksum zero.
Sum2Zero(m, s) == m[s].kind \in {"info2", "zeros"}
Ifs2SumZeroSkipped(m, s) == TRUE
Ifs2SumZero(m, s) == m[s] = Zeros \/ m[dst] = Ifs2(TRUE)

Check2 ==
    /\ pc = "check2"
    /\ info2' = FirstFree /\ free' = Without(FirstFree)
    /\ LET m == Cleared(mem, FirstFree)
           accepted == /\ m[dst].kind = "ifs2"
                       /\ Sum2Zero(m, FirstFree)
                       /\ opt.cksum2 => Ifs2SumZero(m, FirstFree)
       IN  /\ mem' = m
           /\ pc' = IF accepted THEN "bootstraps" ELSE "load2"
    /\ i' = 1
    /\ UNCHANGED <<opt, status, image, info, dst, power, faults, completed>>

\* rifs_load_ifs2(): reserve the user's place, copy, then save the info.
PlaceReserved == Without(dst)

Load2 ==
    /\ pc = "load2"
    /\ free' = PlaceReserved
    /\ mem' = [mem EXCEPT ![dst] = Ifs2(FALSE)]
    /\ pc' = "load2_rest"
    /\ UNCHANGED <<opt, i, status, image, info, info2, dst, power, faults, completed>>

Load2Rest ==
    /\ pc = "load2_rest"
    /\ mem' = [mem EXCEPT ![dst] = Ifs2(TRUE)]
    /\ pc' = "save2"
    /\ UNCHANGED <<opt, i, status, free, image, info, info2, dst, power, faults, completed>>

Save2 ==
    /\ pc = "save2"
    /\ mem' = IF opt.restore2 THEN [mem EXCEPT ![info2] = Info2] ELSE mem
    /\ pc' = "bootstraps" /\ i' = 1
    /\ UNCHANGED <<opt, status, free, image, info, info2, dst, power, faults, completed>>

-----------------------------------------------------------------------------
(* load_bootstraps() and the rest of the boot.                             *)

\* rifs_save_elf32data(): the data of executable i, still as loaded, is saved
\* before its next_entry is written, when the one after it is known.
Linked(e) == e = i - 1

SaveData ==
    /\ pc = "bootstraps" /\ i <= NumBoot
    /\ i' = i + 1
    /\ LET slot == IF opt.compressed THEN FirstFree ELSE NoSlot
           saved == [mem EXCEPT ![info].saved = Append(@, slot)]
       IN  IF ~opt.rifs THEN UNCHANGED <<pc, free, mem>>
           ELSE IF i > MaxBootable THEN pc' = "crashed" /\ UNCHANGED <<free, mem>>
           ELSE /\ UNCHANGED pc
                /\ free' = Without(slot)
                /\ mem' = IF slot = NoSlot THEN saved
                          ELSE [saved EXCEPT ![slot] = ExeData(i, image.data[i])]
    /\ image' = [image EXCEPT !.data = [e \in Exe |-> @[e] /\ ~Linked(e)]]
    /\ UNCHANGED <<opt, status, info, info2, dst, power, faults, completed>>

\* rifs_set_cksum(), "as last thing we do"
SetCksum ==
    /\ pc = "bootstraps" /\ i > NumBoot
    /\ mem' = IF opt.rifs THEN [mem EXCEPT ![info].valid = TRUE] ELSE mem
    /\ pc' = "kernel"
    /\ UNCHANGED <<opt, i, status, free, image, info, info2, dst, power, faults, completed>>

\* The system runs: it writes the data of its executables and any memory the
\* startup program left free.
KernelRuns ==
    /\ pc = "kernel"
    /\ \/ /\ \E e \in Exe : image' = [image EXCEPT !.data[e] = FALSE]
          /\ UNCHANGED mem
       \/ /\ \E s \in free : mem' = [mem EXCEPT ![s] = Junk]
          /\ UNCHANGED image
    /\ UNCHANGED <<opt, pc, i, status, free, info, info2, dst, power, faults, completed>>

RestoreNext ==
    \/ PowerOn \/ PowerFails \/ RamLost \/ MemoryError
    \/ AllocInfo \/ Check \/ Copy \/ Verify \/ Clear \/ Load \/ LoadRest
    \/ PlaceIfs2 \/ Check2 \/ Load2 \/ Load2Rest \/ Save2
    \/ SaveData \/ SetCksum \/ KernelRuns

RestoreSpec == RestoreInit /\ [][RestoreNext]_restoreVars

TypeOK ==
    /\ opt \in Options /\ pc \in Pcs
    /\ i \in 0 .. NumBoot + 1 /\ status \in {-1, 0}
    /\ free \subseteq Slot /\ {info, info2} \intersect free = {}
    /\ \A s \in Slot : mem[s].kind \in {"junk", "zeros", "info", "info2", "ifs2", "data"}
    /\ image \in [sig : BOOLEAN, whole : BOOLEAN, data : [Exe -> BOOLEAN]]
    /\ {info, info2, dst} \subseteq {NoSlot} \union Slot
    /\ power \in 0 .. MaxPower /\ faults \in 0 .. MaxFaults /\ completed \in BOOLEAN

-----------------------------------------------------------------------------
(* Properties                                                              *)

AfterIfs == {"ifs2", "check2", "load2", "load2_rest", "save2"}

\* Whatever the last boot was doing when the power failed, this one starts the
\* executables of a complete, pristine IFS; a memory error can get past only
\* when the user turned the checksum off.
\* (rifs_restore_ifs(), rifs_init(), load_ifs())
PristineIfs ==
    pc \in AfterIfs \/ (pc = "bootstraps" /\ i = 1) => ImageGood \/ (faults > 0 /\ ~opt.cksum)

\* An info block that passes its checks, at any moment the power may fail, lists
\* every bootable executable and slots with their data as it was before they
\* ran, outside the memory the kernel may use.  (rifs_save_elf32data(),
\* rifs_set_cksum(), "Restore info is not initialized until after we have
\* checked the old data")
ValidInfoIsTrue ==
    \A s \in Slot :
        mem[s].kind = "info" /\ mem[s].valid =>
            /\ Len(mem[s].saved) = NumBoot
            /\ opt.compressed => \A e \in Exe : mem[mem[s].saved[e]] = ExeData(e, TRUE)

\* IFS2 as the boot goes on with it is complete, unless a memory error struck
\* and its checksum is off.  (rifs_restore_ifs2(), rifs_load_ifs2())
Ifs2Complete ==
    opt.ifs2 /\ pc = "bootstraps" => Ifs2Good \/ (faults > 0 /\ ~opt.cksum2)

\* Every boot goes on with two whole file systems, and leaves behind nothing
\* that passes for what it is not.  (restore_ifs.c)
BootsPristineIfs == PristineIfs /\ ValidInfoIsTrue /\ Ifs2Complete

\* No memory the kernel is given is the memory of IFS2: "Reserve space for our
\* 2nd IFS if it is a user specified location" (restore_ifs.c:159).
Ifs2Reserved ==
    opt.ifs2 /\ pc = "kernel" => dst \notin free

\* A step that loads what the last boot to the kernel has left in intact RAM.
\* (A secure system zeroes what it allocates and always loads.)
LoadsAgain ==
    /\ completed /\ faults = 0 /\ ~opt.secure
    /\ (opt.rifs /\ pc' = "load") \/ (opt.restore2 /\ pc' = "load2")

\* "We assume that the address will be the same everytime": after a boot that
\* got to the kernel, with the RAM intact, nothing is loaded again.
RestoreFindsLastBoot == [][~LoadsAgain]_restoreVars
=============================================================================
