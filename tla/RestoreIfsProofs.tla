-------------------------- MODULE RestoreIfsProofs --------------------------
(***************************************************************************)
(* A boot starts a complete, pristine IFS whatever the last one was doing  *)
(* when the power failed, and one that follows a complete boot finds all   *)
(* it left; for every number of executables, of power failures and of      *)
(* memory errors.                                                          *)
(***************************************************************************)
EXTENDS RestoreIfs, FiniteSetTheorems, NaturalsInduction, WellFoundedInduction, TLAPS

\* The user's place for IFS2 is not the one rifs_info gets, and an IFS2 that is
\* to be found again is where startup puts it (the other places break
\* Ifs2Complete and Ifs2Reserved).
PlacesAssumption ==
    \A o \in Options : (o.restore2 => o.dst = NoSlot) /\ (o.rifs => o.dst # 1)

Second == opt.ifs2 /\ opt.restore2

\* alloc_ram() gives the same slots at every boot: rifs_info the first, then
\* IFS2 where the user named no place, then rifs2_info.
InfoSlots == IF opt.rifs THEN {1} ELSE {}
DstSlot == IF opt.dst # NoSlot THEN opt.dst ELSE IF opt.rifs THEN 2 ELSE 1
Info2Slot == IF opt.rifs THEN 3 ELSE 2

RifsPcs == {"check", "copy", "verify", "clear"}
LoadPcs == {"load", "load_rest"}
Load2Pcs == {"load2", "load2_rest", "save2"}
Ifs2Pcs == {"check2"} \union Load2Pcs
BootPcs == {"bootstraps", "kernel"}

Typed ==
    /\ opt \in Options
    /\ pc \in {"off", "rifs", "ifs2", "crashed"} \union RifsPcs \union LoadPcs \union Ifs2Pcs \union BootPcs
    /\ i \in Nat /\ faults \in Nat /\ free \subseteq Slot
    /\ status \in {-1, 0}
    /\ mem = [s \in Slot |-> mem[s]]
    /\ image \in [sig : BOOLEAN, whole : BOOLEAN, data : [Exe -> BOOLEAN]]

Placed ==
    /\ pc \in {"rifs"} \union RifsPcs => opt.rifs
    /\ pc \in Ifs2Pcs => opt.ifs2
    /\ pc = "check2" => opt.restore2
    /\ pc \notin {"off", "rifs", "crashed"} /\ opt.rifs => info = 1
    /\ pc \in Ifs2Pcs \union BootPcs /\ opt.ifs2 => dst = DstSlot
    /\ pc \in Load2Pcs \union BootPcs /\ Second => info2 = Info2Slot

FreeSlots ==
    /\ pc = "rifs" => free = Slot
    /\ pc \in RifsPcs \union LoadPcs \union {"ifs2"} => free = Slot \ InfoSlots
    /\ pc = "check2" => free = Slot \ (InfoSlots \union {DstSlot})
    /\ pc = "load2" =>
          free \union {DstSlot} = (Slot \ (InfoSlots \union (IF opt.restore2 THEN {Info2Slot} ELSE {})))
                                  \union {DstSlot}
    /\ pc \in {"load2_rest", "save2"} =>
          free = Slot \ (InfoSlots \union {DstSlot} \union (IF opt.restore2 THEN {Info2Slot} ELSE {}))
    /\ pc \in BootPcs =>
          /\ opt.rifs => 1 \notin free
          /\ opt.ifs2 => DstSlot \notin free
          /\ Second => Info2Slot \notin free
    /\ pc = "bootstraps" => i \in 1 .. NumBoot + 1 /\ Cardinality(Slot \ free) <= i + 2

Valid == mem[1].kind = "info" /\ mem[1].valid

\* The info block, and the slots its list leads to.
Saved(n) ==
    /\ Len(mem[1].saved) = n
    /\ opt.compressed => \A e \in 1 .. n : /\ mem[1].saved[e] \in Slot \ {1}
                                           /\ mem[mem[1].saved[e]] = ExeData(e, TRUE)
SavedIsTaken == opt.compressed => \A e \in 1 .. Len(mem[1].saved) : mem[1].saved[e] \notin free

InfoSound ==
    /\ \A s \in Slot : mem[s].kind = "info" => s = 1 /\ opt.rifs
    /\ mem[1].kind = "info" => mem[1].valid \in BOOLEAN
    /\ Valid => Saved(NumBoot) /\ (pc = "kernel" => SavedIsTaken)
    /\ opt.rifs /\ pc \in LoadPcs \union {"ifs2"} \union Ifs2Pcs \union {"bootstraps"} =>
          /\ mem[1] = Info(FALSE, mem[1].saved)
          /\ mem[1].saved \in Seq({NoSlot} \union Slot)
    /\ opt.rifs /\ pc \in LoadPcs \union {"ifs2"} \union Ifs2Pcs => mem[1].saved = <<>>
    /\ opt.rifs /\ pc = "bootstraps" => Saved(i - 1) /\ SavedIsTaken

\* The IFS, as far as this boot has come.
Accepted == image.sig /\ (image.whole \/ (faults > 0 /\ ~opt.cksum))
ImageSound ==
    /\ Valid /\ image.sig => image.whole \/ faults > 0
    /\ pc \in {"rifs", "check", "copy", "verify"} => status = 0
    /\ pc = "copy" => Valid /\ image.sig /\ i \in 1 .. NumBoot + 1 /\ \A e \in Exe : e < i => image.data[e]
    /\ pc = "verify" => Valid /\ image.sig /\ image.data = Pristine
    /\ pc = "clear" /\ status = 0 => Accepted /\ image.data = Pristine
    /\ pc \in {"ifs2"} \union Ifs2Pcs => Accepted /\ image.data = Pristine
    /\ pc = "bootstraps" => Accepted /\ \A e \in Exe : e >= i - 1 => image.data[e]
    /\ pc = "kernel" => Accepted

\* IFS2, which rifs2_info vouches for.
SecondSound ==
    /\ \A s \in Slot : mem[s].kind = "zeros" => opt.secure
    /\ Second /\ faults = 0 /\ mem[Info2Slot].kind = "info2" =>
          mem[DstSlot] = Ifs2(TRUE) \/ (opt.secure /\ mem[DstSlot].kind # "ifs2")
    /\ pc = "check2" /\ opt.secure => mem[DstSlot] = Zeros
    /\ pc \in {"load2", "load2_rest"} /\ Second /\ faults = 0 => mem[Info2Slot].kind # "info2"
    /\ pc = "save2" => mem[DstSlot] = Ifs2(TRUE)
    /\ pc \in {"bootstraps"} /\ opt.ifs2 => mem[DstSlot] = Ifs2(TRUE) \/ (faults > 0 /\ ~opt.cksum2)
    /\ pc \in {"bootstraps"} /\ Second => mem[Info2Slot].kind = "info2"

\* What a boot that got to the kernel leaves, while the RAM is intact.
Intact == faults = 0 /\ ~opt.secure
LeftSound ==
    Intact /\ (pc = "kernel" \/ completed) =>
        /\ opt.rifs /\ pc \in {"kernel", "off", "rifs", "check"} => Valid /\ image.sig
        /\ pc = "verify" => ImageGood
        /\ pc \in {"copy"} => image.whole
        /\ pc = "clear" => status = 0
        /\ Second /\ pc \in {"kernel", "off", "rifs", "ifs2", "check2"} \union RifsPcs \union LoadPcs =>
              mem[DstSlot] = Ifs2(TRUE) /\ mem[Info2Slot].kind = "info2"

IInv == Typed /\ Placed /\ FreeSlots /\ InfoSound /\ ImageSound /\ SecondSound /\ LeftSound

-----------------------------------------------------------------------------
(* Slots.                                                                  *)

LEMMA LeastNat ==
    ASSUME NEW S, S \subseteq Nat, S # {}
    PROVE  \E n \in S : \A m \in S : n <= m
<1>1. IsWellFoundedOn(OpToRel(<, Nat), Nat)
  BY NatLessThanWellFounded
<1>2. PICK n \in S : \A m \in S : ~(<<m, n>> \in OpToRel(<, Nat))
  BY <1>1, WFMin
<1>3. ASSUME NEW m \in S PROVE n <= m
  <2>1. m \in Nat /\ n \in Nat
    OBVIOUS
  <2>2. <<m, n>> \in Nat \X Nat
    BY <2>1
  <2>3. ~(m < n)
    BY <1>2, <2>2 DEF OpToRel
  <2> QED BY <2>1, <2>3
<1> QED BY <1>3

LEMMA MinOf ==
    ASSUME NEW S, S \subseteq Nat, S # {}
    PROVE  Min(S) \in S /\ \A m \in S : Min(S) <= m
<1>1. \E n \in S : \A m \in S : n <= m
  BY LeastNat
<1> QED BY <1>1 DEF Min

LEMMA MinIs ==
    ASSUME NEW S, S \subseteq Nat, NEW n \in S, \A m \in S : n <= m
    PROVE  Min(S) = n
<1>1. Min(S) \in S /\ Min(S) <= n
  BY MinOf
<1>2. Min(S) \in Nat /\ n \in Nat /\ n <= Min(S)
  BY <1>1
<1> QED BY <1>1, <1>2

LEMMA SlotFacts ==
    ASSUME RestoreAssumption, PlacesAssumption, Typed
    PROVE  /\ opt.rifs \in BOOLEAN /\ opt.secure \in BOOLEAN /\ opt.cksum \in BOOLEAN
           /\ opt.dst \in {NoSlot} \union Slot
           /\ Slot \subseteq Nat /\ {1, 2, 3} \subseteq Slot /\ NoSlot \notin Slot
           /\ DstSlot \in Slot /\ Info2Slot \in Slot
           /\ opt.rifs => DstSlot # 1 /\ Info2Slot # 1
           /\ Second => DstSlot # Info2Slot /\ opt.dst = NoSlot
<1>1. opt \in OptionSet /\ (opt.restore2 => opt.dst = NoSlot) /\ (opt.rifs => opt.dst # 1)
  BY DEF RestoreAssumption, PlacesAssumption, Typed
<1>2. /\ opt.rifs \in BOOLEAN /\ opt.secure \in BOOLEAN /\ opt.cksum \in BOOLEAN
      /\ opt.dst \in {NoSlot} \union Slot
  BY <1>1 DEF OptionSet
<1>3. Slot \subseteq Nat /\ {1, 2, 3} \subseteq Slot /\ NoSlot \notin Slot
  BY DEF RestoreAssumption, Slot, NoSlot
<1>4. DstSlot \in Slot /\ Info2Slot \in Slot
  BY <1>2, <1>3 DEF DstSlot, Info2Slot
<1>5. opt.rifs => DstSlot # 1 /\ Info2Slot # 1
  BY <1>1 DEF DstSlot, Info2Slot
<1>6. Second => DstSlot # Info2Slot /\ opt.dst = NoSlot
  BY <1>1 DEF DstSlot, Info2Slot, Second
<1> QED BY <1>2, <1>3, <1>4, <1>5, <1>6

\* What is in a slot.
LEMMA Kinds ==
    /\ Junk.kind = "junk" /\ Zeros.kind = "zeros" /\ Info2.kind = "info2"
    /\ \A b : Ifs2(b).kind = "ifs2"
    /\ \A e, b : ExeData(e, b).kind = "data"
    /\ \A v, s : Info(v, s).kind = "info" /\ Info(v, s).valid = v /\ Info(v, s).saved = s
BY DEF Junk, Zeros, Info2, Ifs2, ExeData, Info

InfoBlocks == [kind : {"info"}, valid : BOOLEAN, saved : Seq({NoSlot} \union Slot)]

LEMMA InfoFields ==
    ASSUME NEW q \in InfoBlocks
    PROVE  q = Info(q.valid, q.saved)
BY DEF InfoBlocks, Info

LEMMA InfoCompleted ==
    ASSUME NEW saved \in Seq({NoSlot} \union Slot)
    PROVE  [Info(FALSE, saved) EXCEPT !.valid = TRUE] = Info(TRUE, saved)
<1> DEFINE r == Info(FALSE, saved)
           q == [r EXCEPT !.valid = TRUE]
<1>1. r \in InfoBlocks /\ r.saved = saved
  BY DEF Info, InfoBlocks
<1> HIDE DEF r
<1>2. q \in InfoBlocks /\ q.saved = saved /\ q.valid = TRUE
  BY <1>1 DEF InfoBlocks
<1> HIDE DEF q
<1>3. q = Info(TRUE, saved)
  BY <1>2, InfoFields
<1> QED BY <1>3 DEF q, r

LEMMA InfoExtended ==
    ASSUME NEW saved \in Seq({NoSlot} \union Slot), NEW slot \in {NoSlot} \union Slot
    PROVE  [Info(FALSE, saved) EXCEPT !.saved = Append(saved, slot)] = Info(FALSE, Append(saved, slot))
<1> DEFINE r == Info(FALSE, saved)
           a == Append(saved, slot)
           q == [r EXCEPT !.saved = a]
<1>1. r \in InfoBlocks /\ r.valid = FALSE
  BY DEF Info, InfoBlocks
<1>2. a \in Seq({NoSlot} \union Slot)
  OBVIOUS
<1> HIDE DEF r, a
<1>3. q \in InfoBlocks /\ q.saved = a /\ q.valid = FALSE
  BY <1>1, <1>2 DEF InfoBlocks
<1> HIDE DEF q
<1>4. q = Info(FALSE, a)
  BY <1>3, InfoFields
<1> QED BY <1>4 DEF q, r, a

LEMMA NoImageType == NoImage \in [sig : BOOLEAN, whole : BOOLEAN, data : [Exe -> BOOLEAN]]
BY DEF NoImage

LEMMA SlotWritten ==
    ASSUME mem = [s \in Slot |-> mem[s]], NEW slot \in Slot, NEW value,
           mem' = [mem EXCEPT ![slot] = value]
    PROVE  /\ mem' = [s \in Slot |-> mem'[s]] /\ mem'[slot] = value
           /\ \A s \in Slot : s # slot => mem'[s] = mem[s]
OBVIOUS

\* The options are those of the installation.
LEMMA SameOptions ==
    ASSUME opt' = opt
    PROVE  /\ DstSlot' = DstSlot /\ Info2Slot' = Info2Slot /\ InfoSlots' = InfoSlots
           /\ Second' = Second
BY DEF DstSlot, Info2Slot, InfoSlots, Second

LEMMA SameMemory ==
    ASSUME opt' = opt, mem' = mem
    PROVE  /\ Valid' = Valid /\ \A n : Saved(n)' = Saved(n)
           /\ free' = free => SavedIsTaken' = SavedIsTaken
BY DEF Valid, Saved, SavedIsTaken

\* Where the first search for memory goes, and the next.
LEMMA FirstPlaces ==
    ASSUME RestoreAssumption, PlacesAssumption, Typed, opt.dst = NoSlot
    PROVE  /\ free = Slot \ InfoSlots => FirstFree = DstSlot
           /\ free = Slot \ (InfoSlots \union {DstSlot}) => FirstFree = Info2Slot
<1>1. Slot \subseteq Nat /\ {1, 2, 3} \subseteq Slot /\ \A s \in Slot : s >= 1
  BY SlotFacts DEF Slot
<1>2. CASE opt.rifs
  <2>1. InfoSlots = {1} /\ DstSlot = 2 /\ Info2Slot = 3
    BY <1>2 DEF InfoSlots, DstSlot, Info2Slot
  <2>2. ASSUME free = Slot \ InfoSlots PROVE FirstFree = DstSlot
    <3>1. free \subseteq Nat /\ 2 \in free /\ \A m \in free : 2 <= m
      BY <1>1, <2>1, <2>2
    <3> QED BY <2>1, <3>1, MinIs DEF FirstFree
  <2>3. ASSUME free = Slot \ (InfoSlots \union {DstSlot}) PROVE FirstFree = Info2Slot
    <3>1. free \subseteq Nat /\ 3 \in free /\ \A m \in free : 3 <= m
      BY <1>1, <2>1, <2>3
    <3> QED BY <2>1, <3>1, MinIs DEF FirstFree
  <2> QED BY <2>2, <2>3
<1>3. CASE ~opt.rifs
  <2>1. InfoSlots = {} /\ DstSlot = 1 /\ Info2Slot = 2
    BY <1>3 DEF InfoSlots, DstSlot, Info2Slot
  <2>2. ASSUME free = Slot \ InfoSlots PROVE FirstFree = DstSlot
    <3>1. free \subseteq Nat /\ 1 \in free /\ \A m \in free : 1 <= m
      BY <1>1, <2>1, <2>2
    <3> QED BY <2>1, <3>1, MinIs DEF FirstFree
  <2>3. ASSUME free = Slot \ (InfoSlots \union {DstSlot}) PROVE FirstFree = Info2Slot
    <3>1. free \subseteq Nat /\ 2 \in free /\ \A m \in free : 2 <= m
      BY <1>1, <2>1, <2>3
    <3> QED BY <2>1, <3>1, MinIs DEF FirstFree
  <2> QED BY <2>2, <2>3
<1> QED BY <1>2, <1>3

LEMMA OneMore ==
    ASSUME NEW S, IsFiniteSet(S), NEW n \in Nat, Cardinality(S) <= n, NEW x
    PROVE  IsFiniteSet(S \union {x}) /\ Cardinality(S \union {x}) <= n + 1
<1>1. /\ IsFiniteSet(S \union {x})
      /\ Cardinality(S \union {x}) = Cardinality(S) \/ Cardinality(S \union {x}) = Cardinality(S) + 1
  BY FS_AddElement
<1>2. Cardinality(S) \in Nat
  BY FS_CardinalityType
<1> QED BY <1>1, <1>2

LEMMA TakenFinite ==
    ASSUME RestoreAssumption
    PROVE  IsFiniteSet(Slot \ free) /\ Cardinality(Slot \ free) \in Nat
<1>1. IsFiniteSet(Slot)
  BY FS_Interval DEF Slot, RestoreAssumption
<1>2. IsFiniteSet(Slot \ free)
  <2>1. Slot \ free \subseteq Slot
    OBVIOUS
  <2> QED BY <1>1, <2>1, FS_Subset
<1> QED BY <1>2, FS_CardinalityType

LEMMA FewTaken ==
    ASSUME NEW a, NEW b, NEW c, NEW U, U \subseteq {a, b, c}
    PROVE  Cardinality(U) <= 3
<1>1. IsFiniteSet({a}) /\ Cardinality({a}) <= 1
  <2>1. IsFiniteSet({a}) /\ Cardinality({a}) = 1
    BY FS_Singleton, Zenon
  <2> QED BY <2>1
<1>2. IsFiniteSet({a} \union {b}) /\ Cardinality({a} \union {b}) <= 1 + 1
  BY <1>1, OneMore
<1>3. IsFiniteSet({a} \union {b}) /\ Cardinality({a} \union {b}) <= 2
  BY <1>2
<1> DEFINE all == ({a} \union {b}) \union {c}
<1>4. IsFiniteSet(all) /\ Cardinality(all) <= 2 + 1
  BY <1>3, OneMore
<1>5. U \subseteq all
  OBVIOUS
<1> HIDE DEF all
<1>6. IsFiniteSet(U) /\ Cardinality(U) <= Cardinality(all)
  BY <1>4, <1>5, FS_Subset
<1>7. Cardinality(U) \in Nat /\ Cardinality(all) \in Nat
  BY <1>4, <1>6, FS_CardinalityType
<1> QED BY <1>4, <1>6, <1>7

\* The info block while the IFS2 is seen to, which leaves it alone.
InfoBlockPcs == LoadPcs \union {"ifs2"} \union Ifs2Pcs
LEMMA InfoStays ==
    ASSUME RestoreAssumption, InfoSound, opt' = opt,
           pc \in InfoBlockPcs, pc' \in InfoBlockPcs \union {"bootstraps"}, pc' = "bootstraps" => i' = 1,
           opt.rifs => mem'[1] = mem[1],
           \A s \in Slot : mem'[s].kind = "info" => mem'[s] = mem[s]
    PROVE  InfoSound' /\ ~Valid'
<1>1. 1 \in Slot
  BY DEF RestoreAssumption, Slot
<1>2. /\ opt.rifs => /\ mem'[1] = Info(FALSE, mem'[1].saved) /\ mem'[1].saved = <<>>
                     /\ mem'[1].valid = FALSE
      /\ ~opt.rifs => mem'[1].kind # "info"
  <2>1. opt.rifs => mem[1] = Info(FALSE, mem[1].saved) /\ mem[1].saved = <<>>
    BY DEF InfoSound, InfoBlockPcs
  <2>2. opt.rifs => mem[1].valid = FALSE
    BY <2>1 DEF Info
  <2> QED BY <1>1, <2>1, <2>2 DEF InfoSound
<1>3. ~Valid'
  BY <1>2 DEF Valid
<1>4. /\ \A s \in Slot : mem'[s].kind = "info" => s = 1 /\ opt.rifs
      /\ mem'[1].kind = "info" => mem'[1].valid \in BOOLEAN
  BY <1>1, <1>2 DEF InfoSound
<1>5. opt.rifs => mem'[1].saved \in Seq({NoSlot} \union Slot)
  <2>1. <<>> \in Seq({NoSlot} \union Slot)
    OBVIOUS
  <2> QED BY <1>2, <2>1
<1>6. ASSUME opt.rifs, pc' = "bootstraps" PROVE Saved(i - 1)' /\ SavedIsTaken'
  <2>1. i' - 1 = 0 /\ mem'[1].saved = <<>> /\ Len(<<>>) = 0
    BY <1>2, <1>6
  <2>2. SavedIsTaken'
    BY <2>1 DEF SavedIsTaken
  <2>3. Saved(0)'
    BY <2>1 DEF Saved
  <2> QED BY <2>1, <2>2, <2>3 DEF Saved
<1>7. pc' \notin LoadPcs \union {"ifs2"} \union Ifs2Pcs => pc' = "bootstraps"
  BY DEF InfoBlockPcs
<1> QED BY <1>2, <1>3, <1>4, <1>5, <1>6, <1>7 DEF InfoSound

LEMMA ImageStays ==
    ASSUME ImageSound, opt' = opt, image' = image, faults' = faults, ~Valid', Typed,
           pc \in {"ifs2"} \union Ifs2Pcs, pc' \in Ifs2Pcs \union {"bootstraps"}
    PROVE  ImageSound'
<1>1. Accepted /\ image.data = Pristine /\ (Accepted' <=> Accepted)
  BY DEF ImageSound, Accepted
<1>2. \A e \in Exe : image.data[e]
  BY <1>1 DEF Pristine
<1>3. pc' \notin {"rifs", "check", "copy", "verify", "clear", "kernel"}
  BY DEF Ifs2Pcs, Load2Pcs
<1> QED BY <1>1, <1>2, <1>3 DEF ImageSound

-----------------------------------------------------------------------------
(* One lemma per step.                                                     *)

LEMMA PowerOnStep == ASSUME RestoreAssumption, PlacesAssumption, IInv, PowerOn PROVE IInv'
<1> USE DEF RifsPcs, LoadPcs, Load2Pcs, Ifs2Pcs, BootPcs
<1>1. opt' = opt
  BY DEF PowerOn, ram
<1>2. DstSlot' = DstSlot /\ Info2Slot' = Info2Slot /\ InfoSlots' = InfoSlots /\ Second' = Second
  BY <1>1, SameOptions
<1>3. Valid' = Valid /\ (\A n : Saved(n)' = Saved(n)) /\ (free' = free => SavedIsTaken' = SavedIsTaken)
  BY <1>1, SameMemory DEF PowerOn, ram
<1>4. /\ pc = "off" /\ pc' = (IF opt.rifs THEN "rifs" ELSE "load") /\ free' = Slot /\ i' = 0 /\ status' = 0
      /\ mem' = mem /\ image' = image /\ faults' = faults /\ completed' = completed
  BY DEF PowerOn, ram
<1>20. Typed'
  BY <1>1, <1>2, <1>3, <1>4, SlotFacts, Kinds DEF IInv, Typed
<1>21. Placed'
  BY <1>1, <1>2, <1>3, <1>4, SlotFacts, Kinds DEF IInv, Placed
<1>22. FreeSlots'
  BY <1>2, <1>4 DEF FreeSlots, InfoSlots
<1>23. InfoSound'
  <2>1. (opt.rifs => pc' = "rifs") /\ pc' # "kernel"
    BY <1>4
  <2> QED BY <1>1, <1>3, <1>4, <2>1 DEF IInv, InfoSound
<1>24. ImageSound'
  BY <1>1, <1>2, <1>3, <1>4, SlotFacts, Kinds DEF IInv, ImageSound, Accepted
<1>25. SecondSound'
  BY <1>1, <1>2, <1>3, <1>4, SlotFacts, Kinds DEF IInv, SecondSound
<1>26. LeftSound'
  BY <1>1, <1>2, <1>3, <1>4, SlotFacts, Kinds DEF IInv, LeftSound, Intact
<1> QED BY <1>20, <1>21, <1>22, <1>23, <1>24, <1>25, <1>26 DEF IInv

LEMMA PowerFailsStep == ASSUME RestoreAssumption, PlacesAssumption, IInv, PowerFails PROVE IInv'
<1> USE DEF RifsPcs, LoadPcs, Load2Pcs, Ifs2Pcs, BootPcs
<1>1. opt' = opt
  BY DEF PowerFails, ram
<1>2. DstSlot' = DstSlot /\ Info2Slot' = Info2Slot /\ InfoSlots' = InfoSlots /\ Second' = Second
  BY <1>1, SameOptions
<1>3. Valid' = Valid /\ (\A n : Saved(n)' = Saved(n)) /\ (free' = free => SavedIsTaken' = SavedIsTaken)
  BY <1>1, SameMemory DEF PowerFails, ram
<1>4. Typed'
  BY <1>1, <1>2, <1>3, SlotFacts DEF IInv, Typed, PowerFails, ram
<1>5. Placed'
  BY <1>1, <1>2, <1>3, SlotFacts DEF IInv, Placed, PowerFails, ram
<1>6. FreeSlots'
  BY <1>1, <1>2, <1>3, SlotFacts DEF IInv, FreeSlots, Placed, PowerFails, ram
<1>7. InfoSound'
  BY <1>1, <1>2, <1>3, SlotFacts DEF IInv, InfoSound, Placed, PowerFails, ram
<1>8. ImageSound'
  BY <1>1, <1>2, <1>3, SlotFacts DEF IInv, ImageSound, Accepted, Typed, PowerFails, ram
<1>9. SecondSound'
  BY <1>1, <1>2, <1>3, SlotFacts DEF IInv, SecondSound, Placed, PowerFails, ram
<1>10. LeftSound'
  BY <1>1, <1>2, <1>3, SlotFacts DEF IInv, LeftSound, Intact, ImageSound, SecondSound, Accepted, InfoSound, PowerFails, ram
<1> QED BY <1>4, <1>5, <1>6, <1>7, <1>8, <1>9, <1>10 DEF IInv

LEMMA RamLostStep == ASSUME RestoreAssumption, PlacesAssumption, IInv, RamLost PROVE IInv'
<1> USE DEF RifsPcs, LoadPcs, Load2Pcs, Ifs2Pcs, BootPcs
<1>1. opt' = opt
  BY DEF RamLost, ram
<1>2. DstSlot' = DstSlot /\ Info2Slot' = Info2Slot /\ InfoSlots' = InfoSlots /\ Second' = Second
  BY <1>1, SameOptions
<1>3. /\ pc = "off" /\ pc' = "off" /\ faults' = faults + 1 /\ mem' = [s \in Slot |-> Junk] /\ image' = NoImage
      /\ i' = i /\ status' = status /\ free' = free
  BY DEF RamLost, ram
<1>4. /\ mem' = [s \in Slot |-> mem'[s]] /\ \A s \in Slot : mem'[s].kind = "junk"
  BY <1>3, Kinds
<1>5. 1 \in Slot /\ DstSlot \in Slot /\ Info2Slot \in Slot
  BY SlotFacts DEF IInv
<1>6. ~Valid' /\ mem'[1].kind # "info"
  BY <1>4, <1>5 DEF Valid
<1>7. faults' \in Nat /\ faults' > 0
  BY <1>3 DEF IInv, Typed
<1>20. Typed'
  BY <1>1, <1>3, <1>4, <1>7, NoImageType DEF IInv, Typed
<1>21. Placed'
  BY <1>1, <1>2, <1>3, <1>4, <1>5, <1>6, <1>7, SlotFacts, Kinds DEF IInv, Placed
<1>22. FreeSlots'
  BY <1>1, <1>2, <1>3, <1>4, <1>5, <1>6, <1>7, SlotFacts, Kinds DEF IInv, FreeSlots
<1>23. InfoSound'
  BY <1>1, <1>2, <1>3, <1>4, <1>5, <1>6, <1>7, SlotFacts, Kinds DEF IInv, InfoSound
<1>24. ImageSound'
  BY <1>1, <1>2, <1>3, <1>4, <1>5, <1>6, <1>7, SlotFacts, Kinds DEF IInv, ImageSound, Accepted
<1>25. SecondSound'
  BY <1>1, <1>2, <1>3, <1>4, <1>5, <1>6, <1>7, SlotFacts, Kinds DEF IInv, SecondSound
<1>26. LeftSound'
  BY <1>1, <1>2, <1>3, <1>4, <1>5, <1>6, <1>7, SlotFacts, Kinds DEF IInv, LeftSound, Intact
<1> QED BY <1>20, <1>21, <1>22, <1>23, <1>24, <1>25, <1>26 DEF IInv

LEMMA MemoryErrorStep == ASSUME RestoreAssumption, PlacesAssumption, IInv, MemoryError PROVE IInv'
<1> USE DEF RifsPcs, LoadPcs, Load2Pcs, Ifs2Pcs, BootPcs
<1>1. opt' = opt
  BY DEF MemoryError, ram
<1>2. DstSlot' = DstSlot /\ Info2Slot' = Info2Slot /\ InfoSlots' = InfoSlots /\ Second' = Second
  BY <1>1, SameOptions
<1>3. /\ pc = "off" /\ pc' = "off" /\ faults' = faults + 1
      /\ i' = i /\ status' = status /\ free' = free
  BY DEF MemoryError, ram
<1>4. /\ mem' = [s \in Slot |-> mem'[s]]
      /\ \A s \in Slot : mem'[s] = mem[s] \/ (mem[s].kind = "ifs2" /\ mem'[s] \in {Junk, Ifs2(FALSE)})
  <2>1. CASE mem' = mem
    BY <2>1 DEF IInv, Typed
  <2>2. CASE \E s \in Slot, new \in {Junk, Ifs2(FALSE)} : mem[s].kind = "ifs2" /\ mem' = [mem EXCEPT ![s] = new]
    BY <2>2, SlotWritten DEF IInv, Typed
  <2> QED BY <2>1, <2>2 DEF MemoryError
<1>5. 1 \in Slot /\ DstSlot \in Slot /\ Info2Slot \in Slot
  BY SlotFacts DEF IInv
<1>6. image' \in [sig : BOOLEAN, whole : BOOLEAN, data : [Exe -> BOOLEAN]]
  <2>1. CASE image' = image
    BY <2>1 DEF IInv, Typed
  <2>2. CASE \E sig \in BOOLEAN : image' = [image EXCEPT !.sig = image.sig /\ sig, !.whole = FALSE]
    BY <2>2 DEF IInv, Typed
  <2> QED BY <2>1, <2>2 DEF MemoryError
<1>7. faults' \in Nat /\ faults' > 0
  BY <1>3 DEF IInv, Typed
<1>8. \A s \in Slot : /\ (mem'[s].kind \in {"info", "zeros"} => mem'[s] = mem[s])
                      /\ (mem[s].kind # "ifs2" => mem'[s] = mem[s])
  BY <1>4, Kinds
<1>9. Valid' => Valid /\ mem'[1] = mem[1]
  <2> SUFFICES ASSUME Valid' PROVE Valid /\ mem'[1] = mem[1]
    OBVIOUS
  <2>1. mem'[1].kind = "info" /\ mem'[1].valid
    BY DEF Valid
  <2>2. mem'[1] = mem[1]
    BY <1>5, <1>8, <2>1
  <2> QED BY <2>1, <2>2 DEF Valid
<1>10. Valid' => Saved(NumBoot)'
  <2> SUFFICES ASSUME Valid' PROVE Saved(NumBoot)'
    OBVIOUS
  <2>1. Saved(NumBoot) /\ mem'[1] = mem[1]
    BY <1>9 DEF IInv, InfoSound
  <2>2. ASSUME opt.compressed, NEW e \in 1 .. NumBoot
        PROVE  mem[1].saved[e] \in Slot \ {1} /\ mem'[mem[1].saved[e]] = ExeData(e, TRUE)
    <3>1. mem[1].saved[e] \in Slot \ {1} /\ mem[mem[1].saved[e]] = ExeData(e, TRUE)
      BY <2>1, <2>2 DEF Saved
    <3>2. mem[mem[1].saved[e]].kind = "data"
      BY <3>1 DEF ExeData
    <3> QED BY <1>8, <3>1, <3>2
  <2> QED BY <1>1, <2>1, <2>2 DEF Saved
<1>20. Typed'
  BY <1>1, <1>3, <1>4, <1>6, <1>7 DEF IInv, Typed
<1>21. Placed'
  BY <1>1, <1>2, <1>3, <1>4, <1>5, <1>7, <1>8, <1>9, <1>10, SlotFacts, Kinds DEF IInv, Placed
<1>22. FreeSlots'
  BY <1>1, <1>2, <1>3, <1>4, <1>5, <1>7, <1>8, <1>9, <1>10, SlotFacts, Kinds DEF IInv, FreeSlots
<1>23. InfoSound'
  BY <1>1, <1>2, <1>3, <1>4, <1>5, <1>7, <1>8, <1>9, <1>10, SlotFacts, Kinds DEF IInv, InfoSound
<1>24. ImageSound'
  BY <1>1, <1>2, <1>3, <1>4, <1>5, <1>7, <1>8, <1>9, <1>10, SlotFacts, Kinds DEF IInv, ImageSound, Accepted
<1>25. SecondSound'
  <2>1. \A s \in Slot : mem'[s].kind = "zeros" => opt.secure
    BY <1>8 DEF IInv, SecondSound
  <2>2. faults' # 0
    BY <1>7
  <2> QED BY <1>1, <1>3, <2>1, <2>2 DEF SecondSound
<1>26. LeftSound'
  BY <1>1, <1>2, <1>3, <1>4, <1>5, <1>7, <1>8, <1>9, <1>10, SlotFacts, Kinds DEF IInv, LeftSound, Intact
<1> QED BY <1>20, <1>21, <1>22, <1>23, <1>24, <1>25, <1>26 DEF IInv

LEMMA AllocInfoStep == ASSUME RestoreAssumption, PlacesAssumption, IInv, AllocInfo PROVE IInv'
<1> USE DEF RifsPcs, LoadPcs, Load2Pcs, Ifs2Pcs, BootPcs
<1>1. opt' = opt
  BY DEF AllocInfo, ram
<1>2. DstSlot' = DstSlot /\ Info2Slot' = Info2Slot /\ InfoSlots' = InfoSlots /\ Second' = Second
  BY <1>1, SameOptions
<1>3. /\ pc = "rifs" /\ free = Slot /\ opt.rifs
  BY DEF IInv, AllocInfo, FreeSlots, Placed
<1>4. FirstFree = 1
  <2>1. free \subseteq Nat /\ 1 \in free /\ \A m \in free : 1 <= m
    BY <1>3, SlotFacts DEF IInv, Slot
  <2> QED BY <2>1, MinIs DEF FirstFree
<1>5. /\ pc' = "check" /\ free' = Slot \ {1} /\ info' = 1 /\ mem' = Cleared(mem, 1)
      /\ i' = i /\ status' = status /\ image' = image /\ faults' = faults /\ completed' = completed
  BY <1>3, <1>4, Zenon DEF AllocInfo, Without
<1>6. 1 \in Slot /\ DstSlot \in Slot \ {1} /\ Info2Slot \in Slot \ {1}
  BY <1>3, SlotFacts DEF IInv
<1>7. /\ mem' = [s \in Slot |-> mem'[s]] /\ mem'[1] = (IF opt.secure THEN Zeros ELSE mem[1])
      /\ \A s \in Slot : s # 1 => mem'[s] = mem[s]
  BY <1>5, <1>6, SlotWritten DEF Cleared, IInv, Typed
<1>8. Valid' => Valid /\ ~opt.secure
  BY <1>7, Kinds DEF Valid
<1>9. ~opt.secure => mem' = mem /\ Valid' = Valid /\ Saved(NumBoot)' = Saved(NumBoot)
  BY <1>1, <1>5, SameMemory DEF Cleared
<1>20. Typed'
  BY <1>1, <1>2, <1>3, <1>5, <1>6, <1>7, <1>8, <1>9, SlotFacts, Kinds DEF IInv, Typed
<1>21. Placed'
  BY <1>1, <1>2, <1>3, <1>5, <1>6, <1>7, <1>8, <1>9, SlotFacts, Kinds DEF IInv, Placed
<1>22. FreeSlots'
  BY <1>2, <1>3, <1>5 DEF FreeSlots, InfoSlots
<1>23. InfoSound'
  BY <1>1, <1>2, <1>3, <1>5, <1>6, <1>7, <1>8, <1>9, SlotFacts, Kinds DEF IInv, InfoSound
<1>24. ImageSound'
  BY <1>1, <1>2, <1>3, <1>5, <1>6, <1>7, <1>8, <1>9, SlotFacts, Kinds DEF IInv, ImageSound, Accepted
<1>25. SecondSound'
  BY <1>1, <1>2, <1>3, <1>5, <1>6, <1>7, <1>8, <1>9, SlotFacts, Kinds DEF IInv, SecondSound
<1>26. LeftSound'
  BY <1>1, <1>2, <1>3, <1>5, <1>6, <1>7, <1>8, <1>9, SlotFacts, Kinds DEF IInv, LeftSound, Intact
<1> QED BY <1>20, <1>21, <1>22, <1>23, <1>24, <1>25, <1>26 DEF IInv

LEMMA CheckStep == ASSUME RestoreAssumption, PlacesAssumption, IInv, Check PROVE IInv'
<1> USE DEF RifsPcs, LoadPcs, Load2Pcs, Ifs2Pcs, BootPcs
<1>1. opt' = opt
  BY DEF Check, ram
<1>2. DstSlot' = DstSlot /\ Info2Slot' = Info2Slot /\ InfoSlots' = InfoSlots /\ Second' = Second
  BY <1>1, SameOptions
<1>3. Valid' = Valid /\ (\A n : Saved(n)' = Saved(n)) /\ (free' = free => SavedIsTaken' = SavedIsTaken)
  BY <1>1, SameMemory DEF Check, ram
<1>4. /\ pc = "check" /\ status = 0 /\ opt.rifs /\ info = 1
  BY DEF IInv, Check, ImageSound, Placed
<1>5. /\ mem' = mem /\ image' = image /\ faults' = faults /\ completed' = completed /\ free' = free
      /\ \/ image.sig /\ Valid /\ pc' = "copy" /\ i' = 1 /\ status' = 0
         \/ ~(image.sig /\ Valid) /\ pc' = "clear" /\ status' = -1 /\ i' = i
  BY <1>4 DEF Check, InfoValid, Valid, ram
<1>6. info' = info
  BY DEF Check
<1>7. NumBoot \in Nat
  BY DEF RestoreAssumption
<1>8. Valid /\ image.sig => image.whole \/ faults > 0
  BY DEF IInv, ImageSound
<1>9. Intact /\ completed => Valid /\ image.sig /\ image.whole
  <2>1. Intact /\ completed => Valid /\ image.sig
    BY <1>4 DEF IInv, LeftSound
  <2>2. Intact => ~(faults > 0)
    BY DEF Intact
  <2> QED BY <1>8, <2>1, <2>2
<1>20. Typed'
  BY <1>1, <1>2, <1>3, <1>4, <1>5, <1>6, <1>7, <1>8, <1>9, SlotFacts, Kinds DEF IInv, Typed
<1>21. Placed'
  BY <1>1, <1>2, <1>3, <1>4, <1>5, <1>6, <1>7, <1>8, <1>9, SlotFacts, Kinds DEF IInv, Placed
<1>22. FreeSlots'
  BY <1>1, <1>2, <1>3, <1>4, <1>5, <1>6, <1>7, <1>8, <1>9, SlotFacts, Kinds DEF IInv, FreeSlots
<1>23. InfoSound'
  BY <1>1, <1>2, <1>3, <1>4, <1>5, <1>6, <1>7, <1>8, <1>9, SlotFacts, Kinds DEF IInv, InfoSound
<1>24. ImageSound'
  <2>1. pc' \in {"copy", "clear"} /\ (pc' = "clear" => status' = -1) /\ -1 # 0
    BY <1>5
  <2>2. pc' = "copy" => /\ status' = 0 /\ Valid /\ image.sig /\ i' = 1
                        /\ i' \in 1 .. NumBoot + 1 /\ \A e \in Exe : e < i' => image.data[e]
    BY <1>5, <1>7 DEF Exe
  <2> QED BY <1>1, <1>3, <1>5, <1>8, <2>1, <2>2 DEF ImageSound
<1>25. SecondSound'
  BY <1>1, <1>2, <1>3, <1>4, <1>5, <1>6, <1>7, <1>8, <1>9, SlotFacts, Kinds DEF IInv, SecondSound
<1>26. LeftSound'
  BY <1>1, <1>2, <1>3, <1>4, <1>5, <1>9 DEF IInv, LeftSound, Intact
<1> QED BY <1>20, <1>21, <1>22, <1>23, <1>24, <1>25, <1>26 DEF IInv

LEMMA CopyStep == ASSUME RestoreAssumption, PlacesAssumption, IInv, Copy PROVE IInv'
<1> USE DEF RifsPcs, LoadPcs, Load2Pcs, Ifs2Pcs, BootPcs
<1>1. opt' = opt
  BY DEF Copy, ram
<1>2. DstSlot' = DstSlot /\ Info2Slot' = Info2Slot /\ InfoSlots' = InfoSlots /\ Second' = Second
  BY <1>1, SameOptions
<1>3. Valid' = Valid /\ (\A n : Saved(n)' = Saved(n)) /\ (free' = free => SavedIsTaken' = SavedIsTaken)
  BY <1>1, SameMemory DEF Copy, ram
<1>4. /\ pc = "copy" /\ status = 0 /\ opt.rifs /\ info = 1 /\ Valid /\ image.sig
      /\ i \in 1 .. NumBoot + 1 /\ \A e \in Exe : e < i => image.data[e]
      /\ Saved(NumBoot)
  BY DEF IInv, Copy, ImageSound, Placed, InfoSound
<1>5. NumSaved = NumBoot /\ NumBoot \in Nat
  BY <1>4 DEF NumSaved, Saved, RestoreAssumption
<1>6. /\ mem' = mem /\ faults' = faults /\ completed' = completed /\ free' = free /\ status' = status /\ info' = info
  BY DEF Copy
<1>7. image.data \in [Exe -> BOOLEAN] /\ image \in [sig : BOOLEAN, whole : BOOLEAN, data : [Exe -> BOOLEAN]]
  BY DEF IInv, Typed
<1>8. CASE i > NumBoot
  <2>1. pc' = "verify" /\ i' = i /\ image' = image
    BY <1>4, <1>5, <1>8 DEF Copy
  <2>2. image.data = Pristine
    <3>1. \A e \in Exe : image.data[e] = TRUE
      BY <1>4, <1>5, <1>7, <1>8 DEF Exe
    <3> QED BY <1>7, <3>1 DEF Pristine
  <2>3. Typed' /\ Placed' /\ FreeSlots' /\ InfoSound' /\ SecondSound'
    BY <1>1, <1>2, <1>3, <1>4, <1>6, <2>1, SlotFacts DEF IInv, Typed, Placed, FreeSlots, InfoSound, SecondSound
  <2>4. ImageSound'
    BY <1>1, <1>3, <1>4, <1>6, <2>1, <2>2 DEF IInv, ImageSound
  <2>5. LeftSound'
    BY <1>1, <1>2, <1>4, <1>6, <2>1, <2>2 DEF IInv, LeftSound, Intact, ImageGood
  <2> QED BY <2>3, <2>4, <2>5 DEF IInv
<1>9. CASE ~(i > NumBoot)
  <2>1. pc' = "copy" /\ i' = i + 1 /\ image' = [image EXCEPT !.data[i] = Source(i)]
    BY <1>4, <1>5, <1>9 DEF Copy
  <2>2. i \in Exe /\ i' \in 1 .. NumBoot + 1
    BY <1>4, <1>5, <1>9, <2>1 DEF Exe
  <2>3. Source(i) = TRUE
    <3>1. opt.compressed => mem[mem[1].saved[i]] = ExeData(i, TRUE)
      BY <1>4, <2>2 DEF Saved, Exe
    <3> QED BY <1>4, <3>1 DEF Source
  <2>4. /\ image' \in [sig : BOOLEAN, whole : BOOLEAN, data : [Exe -> BOOLEAN]]
        /\ image'.sig = image.sig /\ image'.whole = image.whole
        /\ image'.data = [image.data EXCEPT ![i] = TRUE]
    BY <1>7, <2>1, <2>2, <2>3
  <2>5. \A e \in Exe : e < i' => image'.data[e]
    <3> SUFFICES ASSUME NEW e \in Exe, e < i' PROVE image'.data[e]
      OBVIOUS
    <3>1. CASE e = i
      BY <1>7, <2>2, <2>4, <3>1
    <3>2. CASE e # i
      <4>1. e < i
        BY <1>4, <2>1, <3>2 DEF Exe
      <4> QED BY <1>4, <1>7, <2>2, <2>4, <3>2, <4>1
    <3> QED BY <3>1, <3>2
  <2>6. Placed' /\ FreeSlots' /\ InfoSound' /\ SecondSound'
    BY <1>1, <1>2, <1>3, <1>4, <1>6, <2>1, SlotFacts DEF IInv, Placed, FreeSlots, InfoSound, SecondSound
  <2>7. Typed'
    BY <1>1, <1>4, <1>6, <2>1, <2>2, <2>4 DEF IInv, Typed
  <2>8. ImageSound'
    BY <1>1, <1>3, <1>4, <1>6, <2>1, <2>2, <2>4, <2>5 DEF IInv, ImageSound
  <2>9. LeftSound'
    BY <1>1, <1>2, <1>4, <1>6, <2>1, <2>4 DEF IInv, LeftSound, Intact
  <2> QED BY <2>6, <2>7, <2>8, <2>9 DEF IInv
<1> QED BY <1>8, <1>9

LEMMA VerifyStep == ASSUME RestoreAssumption, PlacesAssumption, IInv, Verify PROVE IInv'
<1> USE DEF RifsPcs, LoadPcs, Load2Pcs, Ifs2Pcs, BootPcs
<1>1. opt' = opt
  BY DEF Verify, ram
<1>2. DstSlot' = DstSlot /\ Info2Slot' = Info2Slot /\ InfoSlots' = InfoSlots /\ Second' = Second
  BY <1>1, SameOptions
<1>3. Valid' = Valid /\ (\A n : Saved(n)' = Saved(n)) /\ (free' = free => SavedIsTaken' = SavedIsTaken)
  BY <1>1, SameMemory DEF Verify, ram
<1>4. /\ pc = "verify" /\ pc' = "clear" /\ status = 0 /\ opt.rifs /\ Valid /\ image.sig /\ image.data = Pristine
      /\ image.whole \/ faults > 0
  BY DEF IInv, Verify, ImageSound, Placed
<1>5. ImageGood <=> image.whole
  BY <1>4 DEF ImageGood
<1>6. /\ mem' = mem /\ image' = image /\ faults' = faults /\ completed' = completed /\ free' = free
      /\ i' = i /\ info' = info
      /\ status' = (IF opt.cksum /\ ~image.whole THEN -1 ELSE 0)
  BY <1>4, <1>5 DEF Verify, ram
<1>7. status' = 0 => image.whole \/ (faults > 0 /\ ~opt.cksum)
  BY <1>4, <1>6
<1>20. Typed'
  BY <1>1, <1>2, <1>3, <1>4, <1>6, <1>7, SlotFacts, Kinds DEF IInv, Typed
<1>21. Placed'
  BY <1>1, <1>2, <1>3, <1>4, <1>6, <1>7, SlotFacts, Kinds DEF IInv, Placed
<1>22. FreeSlots'
  BY <1>1, <1>2, <1>3, <1>4, <1>6, <1>7, SlotFacts, Kinds DEF IInv, FreeSlots
<1>23. InfoSound'
  BY <1>1, <1>2, <1>3, <1>4, <1>6, <1>7, SlotFacts, Kinds DEF IInv, InfoSound
<1>24. ImageSound'
  BY <1>1, <1>2, <1>3, <1>4, <1>6, <1>7, SlotFacts, Kinds DEF IInv, ImageSound, Accepted
<1>25. SecondSound'
  BY <1>1, <1>2, <1>3, <1>4, <1>6, <1>7, SlotFacts, Kinds DEF IInv, SecondSound
<1>26. LeftSound'
  BY <1>1, <1>2, <1>4, <1>5, <1>6 DEF IInv, LeftSound, Intact
<1> QED BY <1>20, <1>21, <1>22, <1>23, <1>24, <1>25, <1>26 DEF IInv

LEMMA ClearStep == ASSUME RestoreAssumption, PlacesAssumption, IInv, Clear PROVE IInv'
<1> USE DEF RifsPcs, LoadPcs, Load2Pcs, Ifs2Pcs, BootPcs
<1>1. opt' = opt
  BY DEF Clear, ram
<1>2. DstSlot' = DstSlot /\ Info2Slot' = Info2Slot /\ InfoSlots' = InfoSlots /\ Second' = Second
  BY <1>1, SameOptions
<1>3. /\ pc = "clear" /\ opt.rifs /\ info = 1
      /\ pc' = (IF status = -1 THEN "load" ELSE "ifs2")
      /\ image' = image /\ faults' = faults /\ completed' = completed /\ free' = free
      /\ i' = i /\ info' = info /\ status' = status
  BY DEF IInv, Clear, Placed
<1>4. 1 \in Slot /\ DstSlot \in Slot \ {1} /\ Info2Slot \in Slot \ {1}
  BY <1>3, SlotFacts DEF IInv
<1>5. /\ mem' = [s \in Slot |-> mem'[s]] /\ mem'[1] = Info(FALSE, <<>>)
      /\ \A s \in Slot : s # 1 => mem'[s] = mem[s]
  <2>1. mem' = [mem EXCEPT ![1] = Info(FALSE, <<>>)]
    BY <1>3 DEF Clear, ClearedInfo
  <2> QED BY <1>4, <2>1, SlotWritten DEF IInv, Typed
<1>6. ~Valid' /\ mem'[1].kind = "info" /\ mem'[1].valid = FALSE /\ mem'[1].saved = <<>>
  BY <1>5 DEF Valid, Info
<1>7. status \in {-1, 0}
  BY DEF IInv, Typed
<1>20. Typed'
  BY <1>1, <1>2, <1>3, <1>4, <1>5, <1>6, <1>7, SlotFacts, Kinds DEF IInv, Typed
<1>21. Placed'
  BY <1>1, <1>2, <1>3, <1>4, <1>5, <1>6, <1>7, SlotFacts, Kinds DEF IInv, Placed
<1>22. FreeSlots'
  BY <1>1, <1>2, <1>3, <1>4, <1>5, <1>6, <1>7, SlotFacts, Kinds DEF IInv, FreeSlots
<1>23. InfoSound'
  <2>1. mem'[1] = Info(FALSE, mem'[1].saved) /\ mem'[1].saved \in Seq({NoSlot} \union Slot)
    <3>1. <<>> \in Seq({NoSlot} \union Slot)
      OBVIOUS
    <3> QED BY <1>5, <1>6, <3>1, Zenon
  <2>2. \A s \in Slot : mem'[s].kind = "info" => s = 1
    BY <1>5 DEF IInv, InfoSound
  <2>3. pc' \notin {"bootstraps", "kernel"}
    BY <1>3
  <2> QED BY <1>1, <1>3, <1>6, <2>1, <2>2, <2>3 DEF InfoSound
<1>24. ImageSound'
  BY <1>1, <1>2, <1>3, <1>4, <1>5, <1>6, <1>7, SlotFacts, Kinds DEF IInv, ImageSound, Accepted
<1>25. SecondSound'
  BY <1>1, <1>2, <1>3, <1>4, <1>5, <1>6, <1>7, SlotFacts, Kinds DEF IInv, SecondSound
<1>26. LeftSound'
  BY <1>1, <1>2, <1>3, <1>4, <1>5, <1>6, <1>7, SlotFacts, Kinds DEF IInv, LeftSound, Intact
<1> QED BY <1>20, <1>21, <1>22, <1>23, <1>24, <1>25, <1>26 DEF IInv

LEMMA LoadStep == ASSUME RestoreAssumption, PlacesAssumption, IInv, Load PROVE IInv'
<1> USE DEF RifsPcs, LoadPcs, Load2Pcs, Ifs2Pcs, BootPcs
<1>1. opt' = opt
  BY DEF Load, ram
<1>2. DstSlot' = DstSlot /\ Info2Slot' = Info2Slot /\ InfoSlots' = InfoSlots /\ Second' = Second
  BY <1>1, SameOptions
<1>3. Valid' = Valid /\ (\A n : Saved(n)' = Saved(n)) /\ (free' = free => SavedIsTaken' = SavedIsTaken)
  BY <1>1, SameMemory DEF Load, ram
<1>4. /\ pc = "load" /\ pc' = "load_rest" /\ image' = [NoImage EXCEPT !.sig = TRUE]
      /\ mem' = mem /\ faults' = faults /\ completed' = completed /\ free' = free
      /\ i' = i /\ info' = info /\ status' = status
  BY DEF Load
<1>5. image' \in [sig : BOOLEAN, whole : BOOLEAN, data : [Exe -> BOOLEAN]]
  BY <1>4, NoImageType
<1>6. ~Valid
  <2>1. CASE opt.rifs
    BY <1>4, <2>1, Kinds DEF IInv, InfoSound, Valid
  <2>2. CASE ~opt.rifs
    BY <2>2, SlotFacts DEF IInv, InfoSound, Valid
  <2> QED BY <2>1, <2>2
<1>20. Typed'
  BY <1>1, <1>2, <1>3, <1>4, <1>5, <1>6, SlotFacts, Kinds DEF IInv, Typed
<1>21. Placed'
  BY <1>1, <1>2, <1>3, <1>4, <1>5, <1>6, SlotFacts, Kinds DEF IInv, Placed
<1>22. FreeSlots'
  BY <1>1, <1>2, <1>3, <1>4, <1>5, <1>6, SlotFacts, Kinds DEF IInv, FreeSlots
<1>23. InfoSound'
  BY <1>1, <1>2, <1>3, <1>4, <1>5, <1>6, SlotFacts, Kinds DEF IInv, InfoSound
<1>24. ImageSound'
  BY <1>1, <1>2, <1>3, <1>4, <1>5, <1>6, SlotFacts, Kinds DEF IInv, ImageSound, Accepted
<1>25. SecondSound'
  BY <1>1, <1>2, <1>3, <1>4, <1>5, <1>6, SlotFacts, Kinds DEF IInv, SecondSound
<1>26. LeftSound'
  BY <1>1, <1>2, <1>3, <1>4, <1>5, <1>6, SlotFacts, Kinds DEF IInv, LeftSound, Intact
<1> QED BY <1>20, <1>21, <1>22, <1>23, <1>24, <1>25, <1>26 DEF IInv

LEMMA LoadRestStep == ASSUME RestoreAssumption, PlacesAssumption, IInv, LoadRest PROVE IInv'
<1> USE DEF RifsPcs, LoadPcs, Load2Pcs, Ifs2Pcs, BootPcs
<1>1. opt' = opt
  BY DEF LoadRest, ram
<1>2. DstSlot' = DstSlot /\ Info2Slot' = Info2Slot /\ InfoSlots' = InfoSlots /\ Second' = Second
  BY <1>1, SameOptions
<1>3. Valid' = Valid /\ (\A n : Saved(n)' = Saved(n)) /\ (free' = free => SavedIsTaken' = SavedIsTaken)
  BY <1>1, SameMemory DEF LoadRest, ram
<1>4. /\ pc = "load_rest" /\ pc' = "ifs2" /\ image' = [sig |-> TRUE, whole |-> TRUE, data |-> Pristine]
      /\ mem' = mem /\ faults' = faults /\ completed' = completed /\ free' = free
      /\ i' = i /\ info' = info /\ status' = status
  BY DEF LoadRest
<1>5. /\ image' \in [sig : BOOLEAN, whole : BOOLEAN, data : [Exe -> BOOLEAN]]
      /\ image'.sig = TRUE /\ image'.whole = TRUE /\ image'.data = Pristine
  BY <1>4 DEF Pristine
<1>20. Typed'
  BY <1>1, <1>2, <1>3, <1>4, <1>5, SlotFacts, Kinds DEF IInv, Typed
<1>21. Placed'
  BY <1>1, <1>2, <1>3, <1>4, <1>5, SlotFacts, Kinds DEF IInv, Placed
<1>22. FreeSlots'
  BY <1>1, <1>2, <1>3, <1>4, <1>5, SlotFacts, Kinds DEF IInv, FreeSlots
<1>23. InfoSound'
  BY <1>1, <1>2, <1>3, <1>4, <1>5, SlotFacts, Kinds DEF IInv, InfoSound
<1>24. ImageSound'
  BY <1>1, <1>2, <1>3, <1>4, <1>5, SlotFacts, Kinds DEF IInv, ImageSound, Accepted
<1>25. SecondSound'
  BY <1>1, <1>2, <1>3, <1>4, <1>5, SlotFacts, Kinds DEF IInv, SecondSound
<1>26. LeftSound'
  BY <1>1, <1>2, <1>3, <1>4, <1>5, SlotFacts, Kinds DEF IInv, LeftSound, Intact
<1> QED BY <1>20, <1>21, <1>22, <1>23, <1>24, <1>25, <1>26 DEF IInv

LEMMA PlaceIfs2Step == ASSUME RestoreAssumption, PlacesAssumption, IInv, PlaceIfs2 PROVE IInv'
<1> USE DEF RifsPcs, LoadPcs, Load2Pcs, Ifs2Pcs, BootPcs
<1>1. opt' = opt
  BY DEF PlaceIfs2, ram
<1>2. DstSlot' = DstSlot /\ Info2Slot' = Info2Slot /\ InfoSlots' = InfoSlots /\ Second' = Second
  BY <1>1, SameOptions
<1>3. /\ pc = "ifs2" /\ free = Slot \ InfoSlots
      /\ image' = image /\ faults' = faults /\ completed' = completed /\ info' = info /\ status' = status
  BY DEF IInv, PlaceIfs2, FreeSlots
<1>4. CASE ~opt.ifs2
  <2>1. /\ pc' = "bootstraps" /\ i' = 1 /\ dst' = dst /\ free' = free /\ mem' = mem
    BY <1>4 DEF PlaceIfs2
  <2>2. InfoSound' /\ ~Valid'
    BY <1>1, <1>3, <2>1, InfoStays DEF IInv, InfoBlockPcs
  <2>3. ImageSound'
    BY <1>1, <1>3, <2>1, <2>2, ImageStays DEF IInv
  <2>4. Typed' /\ Placed'
    BY <1>1, <1>2, <1>3, <1>4, <2>1 DEF IInv, Typed, Placed, Second
  <2>5. FreeSlots'
    <3>1. Cardinality(Slot \ free) <= 3 /\ 1 \in 1 .. NumBoot + 1
      <4>1. Slot \ free \subseteq {1, 1, 1}
        BY <1>3 DEF InfoSlots
      <4>2. 1 \in 1 .. NumBoot + 1
        BY DEF RestoreAssumption
      <4> QED BY <4>1, <4>2, FewTaken
    <3>2. opt.rifs => 1 \notin free
      BY <1>3 DEF InfoSlots
    <3> QED BY <1>1, <1>2, <1>4, <2>1, <3>1, <3>2 DEF FreeSlots, Second
  <2>6. SecondSound'
    BY <1>1, <1>2, <1>3, <1>4, <2>1 DEF IInv, SecondSound, Second
  <2>7. LeftSound'
    BY <1>1, <1>2, <1>3, <1>4, <2>1 DEF LeftSound, Second
  <2> QED BY <2>2, <2>3, <2>4, <2>5, <2>6, <2>7 DEF IInv
<1>5. CASE opt.ifs2 /\ opt.dst # NoSlot
  <2>1. ~opt.restore2
    BY <1>5 DEF IInv, Typed, PlacesAssumption
  <2>2. pc' = "load2" /\ i' = i /\ dst' = opt.dst /\ free' = free /\ mem' = mem
    BY <1>5, <2>1 DEF PlaceIfs2
  <2>3. InfoSound' /\ ~Valid'
    BY <1>1, <1>3, <2>2, InfoStays DEF IInv, InfoBlockPcs
  <2>4. ImageSound'
    BY <1>1, <1>3, <2>2, <2>3, ImageStays DEF IInv
  <2>5. Typed' /\ Placed'
    BY <1>1, <1>2, <1>3, <1>5, <2>1, <2>2 DEF IInv, Typed, Placed, Second, DstSlot
  <2>6. FreeSlots'
    BY <1>1, <1>2, <1>3, <2>1, <2>2 DEF FreeSlots
  <2>7. SecondSound'
    BY <1>1, <1>2, <1>3, <2>1, <2>2 DEF IInv, SecondSound, Second
  <2>8. LeftSound'
    BY <1>1, <1>2, <1>3, <2>1, <2>2 DEF LeftSound, Second
  <2> QED BY <2>3, <2>4, <2>5, <2>6, <2>7, <2>8 DEF IInv
<1>6. CASE opt.ifs2 /\ opt.dst = NoSlot
  <2>1. FirstFree = DstSlot
    BY <1>3, <1>6, FirstPlaces DEF IInv
  <2>2. /\ pc' = (IF opt.restore2 THEN "check2" ELSE "load2") /\ i' = i /\ dst' = DstSlot
        /\ free' = free \ {DstSlot} /\ mem' = Cleared(mem, DstSlot)
    BY <1>6, <2>1 DEF PlaceIfs2, Without
  <2>3. 1 \in Slot /\ DstSlot \in Slot /\ Info2Slot \in Slot
        /\ (opt.rifs => DstSlot # 1) /\ (Second => DstSlot # Info2Slot)
    BY SlotFacts DEF IInv
  <2>4. /\ mem' = [s \in Slot |-> mem'[s]] /\ mem'[DstSlot] = (IF opt.secure THEN Zeros ELSE mem[DstSlot])
        /\ \A s \in Slot : s # DstSlot => mem'[s] = mem[s]
    BY <2>2, <2>3, SlotWritten DEF Cleared, IInv, Typed
  <2>5. /\ \A s \in Slot : mem'[s].kind = "info" => mem'[s] = mem[s]
        /\ opt.rifs => mem'[1] = mem[1]
    BY <2>3, <2>4, Kinds
  <2>6. pc' \in {"check2", "load2"} /\ (pc' = "load2" => ~opt.restore2)
    BY <2>2
  <2>7. InfoSound' /\ ~Valid'
    BY <1>1, <1>3, <2>5, <2>6, InfoStays DEF IInv, InfoBlockPcs
  <2>8. ImageSound'
    BY <1>1, <1>3, <2>6, <2>7, ImageStays DEF IInv
  <2>9. Typed' /\ Placed'
    BY <1>1, <1>2, <1>3, <1>6, <2>2, <2>4, <2>6 DEF IInv, Typed, Placed, Second
  <2>10. FreeSlots'
    BY <1>1, <1>2, <1>3, <2>2, <2>6 DEF FreeSlots
  <2>11. SecondSound'
    <3>1. \A s \in Slot : mem'[s].kind = "zeros" => opt.secure
      BY <2>4 DEF IInv, SecondSound
    <3>2. opt.secure => mem'[DstSlot] = Zeros
      BY <2>4
    <3>3. Second => mem'[Info2Slot] = mem[Info2Slot]
      BY <2>3, <2>4
    <3>4. ~opt.secure => mem'[DstSlot] = mem[DstSlot]
      BY <2>4
    <3>5. Second /\ faults = 0 /\ mem'[Info2Slot].kind = "info2" =>
              mem'[DstSlot] = Ifs2(TRUE) \/ (opt.secure /\ mem'[DstSlot].kind # "ifs2")
      BY <3>2, <3>3, <3>4, Kinds DEF IInv, SecondSound
    <3> QED BY <1>1, <1>2, <1>3, <2>6, <3>1, <3>2, <3>5 DEF SecondSound, Second
  <2>12. LeftSound'
    <3>1. ~opt.secure => mem'[DstSlot] = mem[DstSlot] /\ (Second => mem'[Info2Slot] = mem[Info2Slot])
      BY <2>3, <2>4
    <3> QED BY <1>1, <1>2, <1>3, <2>6, <3>1 DEF IInv, LeftSound, Intact
  <2> QED BY <2>7, <2>8, <2>9, <2>10, <2>11, <2>12 DEF IInv
<1> QED BY <1>4, <1>5, <1>6

LEMMA Check2Step == ASSUME RestoreAssumption, PlacesAssumption, IInv, Check2 PROVE IInv'
<1> USE DEF RifsPcs, LoadPcs, Load2Pcs, Ifs2Pcs, BootPcs
<1>1. opt' = opt
  BY DEF Check2, ram
<1>2. DstSlot' = DstSlot /\ Info2Slot' = Info2Slot /\ InfoSlots' = InfoSlots /\ Second' = Second
  BY <1>1, SameOptions
<1>3. /\ pc = "check2" /\ Second /\ dst = DstSlot /\ free = Slot \ (InfoSlots \union {DstSlot})
      /\ image' = image /\ faults' = faults /\ completed' = completed /\ info' = info /\ status' = status
      /\ dst' = dst /\ i' = 1
  BY DEF IInv, Check2, FreeSlots, Placed, Second
<1>4. /\ 1 \in Slot /\ DstSlot \in Slot /\ Info2Slot \in Slot /\ (opt.rifs => Info2Slot # 1)
      /\ DstSlot # Info2Slot /\ opt.dst = NoSlot
  BY <1>3, SlotFacts DEF IInv
<1>5. FirstFree = Info2Slot
  BY <1>3, <1>4, FirstPlaces DEF IInv
<1>6. /\ info2' = Info2Slot /\ free' = free \ {Info2Slot} /\ mem' = Cleared(mem, Info2Slot)
      /\ pc' = IF /\ mem'[DstSlot].kind = "ifs2" /\ Sum2Zero(mem', Info2Slot)
                  /\ opt.cksum2 => mem'[Info2Slot] = Zeros \/ mem'[DstSlot] = Ifs2(TRUE)
               THEN "bootstraps" ELSE "load2"
  BY <1>3, <1>5 DEF Check2, Without, Ifs2SumZero
<1>7. /\ mem' = [s \in Slot |-> mem'[s]] /\ mem'[Info2Slot] = (IF opt.secure THEN Zeros ELSE mem[Info2Slot])
      /\ \A s \in Slot : s # Info2Slot => mem'[s] = mem[s]
  BY <1>4, <1>6, SlotWritten DEF Cleared, IInv, Typed
<1>8. /\ \A s \in Slot : mem'[s].kind = "info" => mem'[s] = mem[s]
      /\ opt.rifs => mem'[1] = mem[1]
      /\ mem'[DstSlot] = mem[DstSlot]
  BY <1>4, <1>7, Kinds
<1>9. pc' \in {"bootstraps", "load2"}
  BY <1>6
<1>10. InfoSound' /\ ~Valid'
  BY <1>1, <1>3, <1>8, <1>9, InfoStays DEF IInv, InfoBlockPcs
<1>11. ImageSound'
  BY <1>1, <1>3, <1>9, <1>10, ImageStays DEF IInv
<1>12. ASSUME pc' = "bootstraps"
       PROVE  /\ ~opt.secure /\ mem[Info2Slot].kind = "info2" /\ mem' = mem
              /\ opt.cksum2 => mem[DstSlot] = Ifs2(TRUE)
  <2>1. /\ mem[DstSlot].kind = "ifs2" /\ Sum2Zero(mem', Info2Slot)
        /\ opt.cksum2 => mem'[Info2Slot] = Zeros \/ mem[DstSlot] = Ifs2(TRUE)
    BY <1>6, <1>8, <1>12
  <2>2. ~opt.secure
    BY <1>3, <2>1, Kinds DEF IInv, SecondSound
  <2>3. mem' = mem
    BY <1>6, <2>2 DEF Cleared
  <2>4. mem[Info2Slot].kind \in {"info2", "zeros"} /\ mem[Info2Slot].kind # "zeros"
    BY <1>4, <2>1, <2>2, <2>3 DEF Sum2Zero, IInv, SecondSound
  <2>5. mem[Info2Slot] # Zeros
    BY <2>4, Kinds
  <2> QED BY <2>1, <2>2, <2>3, <2>4, <2>5
<1>13. ASSUME pc' = "load2", faults = 0 PROVE mem'[Info2Slot].kind # "info2"
  <2>1. CASE opt.secure
    BY <1>7, <2>1, Kinds
  <2>2. CASE ~opt.secure
    <3>1. SUFFICES ASSUME mem[Info2Slot].kind = "info2" PROVE FALSE
      BY <1>7, <2>2
    <3>2. mem[DstSlot] = Ifs2(TRUE)
      BY <1>3, <1>13, <2>2, <3>1 DEF IInv, SecondSound
    <3>3. mem'[DstSlot] = Ifs2(TRUE) /\ mem'[Info2Slot].kind = "info2"
      BY <1>7, <1>8, <2>2, <3>1, <3>2
    <3> QED BY <1>6, <1>13, <3>3, Kinds DEF Sum2Zero
  <2> QED BY <2>1, <2>2
<1>20. Typed'
  BY <1>1, <1>3, <1>6, <1>7, <1>9 DEF IInv, Typed
<1>21. Placed'
  BY <1>1, <1>2, <1>3, <1>4, <1>6, <1>7, <1>9, SlotFacts, Kinds DEF IInv, Placed
<1>22. FreeSlots'
  <2>1. Cardinality(Slot \ free') <= 3
    <3>1. Slot \ free' \subseteq {1, DstSlot, Info2Slot}
      BY <1>3, <1>6 DEF InfoSlots
    <3> QED BY <3>1, FewTaken
  <2>2. 1 \in 1 .. NumBoot + 1
    BY DEF RestoreAssumption
  <2>3. /\ opt.rifs => 1 \notin free'
        /\ DstSlot \notin free' /\ Info2Slot \notin free'
    BY <1>3, <1>6 DEF InfoSlots
  <2>4. free' = Slot \ (InfoSlots \union {DstSlot} \union {Info2Slot})
    BY <1>3, <1>6
  <2>5. pc' = "load2" => free' \union {DstSlot} = (Slot \ (InfoSlots \union {Info2Slot})) \union {DstSlot}
    BY <2>4
  <2> QED BY <1>1, <1>2, <1>3, <1>9, <2>1, <2>2, <2>3, <2>5 DEF FreeSlots, Second
<1>23. InfoSound'
  BY <1>10
<1>24. ImageSound'
  BY <1>11
<1>25. SecondSound'
  <2>1. \A s \in Slot : mem'[s].kind = "zeros" => opt.secure
    BY <1>7 DEF IInv, SecondSound
  <2>2. CASE pc' = "bootstraps"
    <3>1. mem' = mem /\ ~opt.secure /\ mem[Info2Slot].kind = "info2"
      BY <1>12, <2>2
    <3>2. faults = 0 => mem[DstSlot] = Ifs2(TRUE)
      BY <1>3, <3>1 DEF IInv, SecondSound
    <3>3. mem[DstSlot] = Ifs2(TRUE) \/ (faults > 0 /\ ~opt.cksum2)
      <4>1. faults = 0 \/ faults > 0
        BY DEF IInv, Typed
      <4> QED BY <1>12, <2>2, <3>2, <4>1
    <3> QED BY <1>1, <1>2, <1>3, <2>1, <2>2, <3>1, <3>2, <3>3 DEF SecondSound
  <2>3. CASE pc' = "load2"
    BY <1>1, <1>2, <1>3, <1>13, <2>1, <2>3 DEF SecondSound
  <2> QED BY <1>9, <2>2, <2>3
<1>26. LeftSound'
  BY <1>9 DEF LeftSound
<1> QED BY <1>20, <1>21, <1>22, <1>23, <1>24, <1>25, <1>26 DEF IInv

LEMMA Load2Step == ASSUME RestoreAssumption, PlacesAssumption, IInv, Load2 PROVE IInv'
<1> USE DEF RifsPcs, LoadPcs, Load2Pcs, Ifs2Pcs, BootPcs
<1>1. opt' = opt
  BY DEF Load2, ram
<1>2. DstSlot' = DstSlot /\ Info2Slot' = Info2Slot /\ InfoSlots' = InfoSlots /\ Second' = Second
  BY <1>1, SameOptions
<1>3. /\ pc = "load2" /\ pc' = "load2_rest" /\ opt.ifs2 /\ dst = DstSlot
      /\ image' = image /\ faults' = faults /\ completed' = completed /\ info' = info /\ status' = status
      /\ dst' = dst /\ info2' = info2 /\ i' = i
  BY DEF IInv, Load2, Placed
<1>4. free' = free \ {DstSlot} /\ mem' = [mem EXCEPT ![DstSlot] = Ifs2(FALSE)]
  BY <1>3 DEF Load2, PlaceReserved, Without
<1>5. /\ 1 \in Slot /\ DstSlot \in Slot /\ Info2Slot \in Slot /\ (opt.rifs => DstSlot # 1)
      /\ (Second => DstSlot # Info2Slot)
  BY <1>3, SlotFacts DEF IInv
<1>6. /\ mem' = [s \in Slot |-> mem'[s]] /\ mem'[DstSlot] = Ifs2(FALSE)
      /\ \A s \in Slot : s # DstSlot => mem'[s] = mem[s]
  BY <1>4, <1>5, SlotWritten DEF IInv, Typed
<1>7. /\ \A s \in Slot : mem'[s].kind \in {"info", "zeros"} => mem'[s] = mem[s]
      /\ opt.rifs => mem'[1] = mem[1]
      /\ Second => mem'[Info2Slot] = mem[Info2Slot]
  BY <1>5, <1>6, Kinds
<1>10. InfoSound' /\ ~Valid'
  BY <1>1, <1>3, <1>7, InfoStays DEF IInv, InfoBlockPcs
<1>11. ImageSound'
  BY <1>1, <1>3, <1>10, ImageStays DEF IInv
<1>20. Typed'
  BY <1>1, <1>3, <1>4, <1>6 DEF IInv, Typed
<1>21. Placed'
  BY <1>1, <1>2, <1>3, <1>4, <1>5, <1>6, <1>7, SlotFacts, Kinds DEF IInv, Placed
<1>22. FreeSlots'
  <2>1. DEFINE J == IF opt.restore2 THEN {Info2Slot} ELSE {}
  <2>2. free \union {DstSlot} = (Slot \ (InfoSlots \union J)) \union {DstSlot}
    BY <1>3 DEF IInv, FreeSlots
  <2>3. free' = Slot \ (InfoSlots \union {DstSlot} \union J)
    <3> HIDE DEF J
    <3> QED BY <1>4, <2>2
  <2> QED BY <1>1, <1>2, <1>3, <2>3 DEF FreeSlots
<1>23. InfoSound'
  BY <1>10
<1>24. ImageSound'
  BY <1>11
<1>25. SecondSound'
  <2>1. \A s \in Slot : mem'[s].kind = "zeros" => opt.secure
    BY <1>7 DEF IInv, SecondSound
  <2>2. Second /\ faults = 0 => mem'[Info2Slot].kind # "info2"
    BY <1>3, <1>7 DEF IInv, SecondSound
  <2> QED BY <1>1, <1>2, <1>3, <2>1, <2>2 DEF SecondSound
<1>26. LeftSound'
  BY <1>3 DEF LeftSound
<1> QED BY <1>20, <1>21, <1>22, <1>23, <1>24, <1>25, <1>26 DEF IInv

LEMMA Load2RestStep == ASSUME RestoreAssumption, PlacesAssumption, IInv, Load2Rest PROVE IInv'
<1> USE DEF RifsPcs, LoadPcs, Load2Pcs, Ifs2Pcs, BootPcs
<1>1. opt' = opt
  BY DEF Load2Rest, ram
<1>2. DstSlot' = DstSlot /\ Info2Slot' = Info2Slot /\ InfoSlots' = InfoSlots /\ Second' = Second
  BY <1>1, SameOptions
<1>3. /\ pc = "load2_rest" /\ pc' = "save2" /\ opt.ifs2 /\ dst = DstSlot
      /\ image' = image /\ faults' = faults /\ completed' = completed /\ info' = info /\ status' = status
      /\ dst' = dst /\ info2' = info2 /\ i' = i /\ free' = free
  BY DEF IInv, Load2Rest, Placed
<1>4. mem' = [mem EXCEPT ![DstSlot] = Ifs2(TRUE)]
  BY <1>3 DEF Load2Rest
<1>5. /\ 1 \in Slot /\ DstSlot \in Slot /\ Info2Slot \in Slot /\ (opt.rifs => DstSlot # 1)
      /\ (Second => DstSlot # Info2Slot)
  BY <1>3, SlotFacts DEF IInv
<1>6. /\ mem' = [s \in Slot |-> mem'[s]] /\ mem'[DstSlot] = Ifs2(TRUE)
      /\ \A s \in Slot : s # DstSlot => mem'[s] = mem[s]
  BY <1>4, <1>5, SlotWritten DEF IInv, Typed
<1>7. /\ \A s \in Slot : mem'[s].kind \in {"info", "zeros"} => mem'[s] = mem[s]
      /\ opt.rifs => mem'[1] = mem[1]
  BY <1>5, <1>6, Kinds
<1>10. InfoSound' /\ ~Valid'
  BY <1>1, <1>3, <1>7, InfoStays DEF IInv, InfoBlockPcs
<1>11. ImageSound'
  BY <1>1, <1>3, <1>10, ImageStays DEF IInv
<1>20. Typed'
  BY <1>1, <1>3, <1>6 DEF IInv, Typed
<1>21. Placed'
  BY <1>1, <1>2, <1>3, <1>4, <1>5, <1>6, <1>7, SlotFacts, Kinds DEF IInv, Placed
<1>22. FreeSlots'
  BY <1>1, <1>2, <1>3, <1>4, <1>5, <1>6, <1>7, SlotFacts, Kinds DEF IInv, FreeSlots
<1>23. InfoSound'
  BY <1>10
<1>24. ImageSound'
  BY <1>11
<1>25. SecondSound'
  <2>1. \A s \in Slot : mem'[s].kind = "zeros" => opt.secure
    BY <1>7 DEF IInv, SecondSound
  <2> QED BY <1>1, <1>2, <1>3, <1>6, <2>1 DEF SecondSound
<1>26. LeftSound'
  BY <1>3 DEF LeftSound
<1> QED BY <1>20, <1>21, <1>22, <1>23, <1>24, <1>25, <1>26 DEF IInv

LEMMA Save2Step == ASSUME RestoreAssumption, PlacesAssumption, IInv, Save2 PROVE IInv'
<1> USE DEF RifsPcs, LoadPcs, Load2Pcs, Ifs2Pcs, BootPcs
<1>1. opt' = opt
  BY DEF Save2, ram
<1>2. DstSlot' = DstSlot /\ Info2Slot' = Info2Slot /\ InfoSlots' = InfoSlots /\ Second' = Second
  BY <1>1, SameOptions
<1>3. /\ pc = "save2" /\ pc' = "bootstraps" /\ opt.ifs2 /\ dst = DstSlot /\ (Second <=> opt.restore2)
      /\ image' = image /\ faults' = faults /\ completed' = completed /\ info' = info /\ status' = status
      /\ dst' = dst /\ info2' = info2 /\ i' = 1 /\ free' = free
      /\ mem[DstSlot] = Ifs2(TRUE)
  BY DEF IInv, Save2, Placed, Second, SecondSound
<1>4. mem' = IF Second THEN [mem EXCEPT ![Info2Slot] = Info2] ELSE mem
  BY <1>3 DEF IInv, Save2, Placed
<1>5. /\ 1 \in Slot /\ DstSlot \in Slot /\ Info2Slot \in Slot /\ (opt.rifs => Info2Slot # 1)
      /\ (Second => DstSlot # Info2Slot)
  BY <1>3, SlotFacts DEF IInv
<1>6. /\ mem' = [s \in Slot |-> mem'[s]] /\ (Second => mem'[Info2Slot] = Info2)
      /\ \A s \in Slot : mem'[s] = mem[s] \/ (s = Info2Slot /\ mem'[s] = Info2)
  <2>1. CASE Second
    BY <1>4, <1>5, <2>1, SlotWritten DEF IInv, Typed
  <2>2. CASE ~Second
    BY <1>4, <2>2 DEF IInv, Typed
  <2> QED BY <2>1, <2>2
<1>7. /\ \A s \in Slot : mem'[s].kind \in {"info", "zeros"} => mem'[s] = mem[s]
      /\ opt.rifs => mem'[1] = mem[1]
      /\ mem'[DstSlot] = Ifs2(TRUE)
  <2>1. \A s \in Slot : mem'[s].kind \in {"info", "zeros"} => mem'[s] = mem[s]
    BY <1>6, Kinds
  <2>2. opt.rifs => mem'[1] = mem[1]
    BY <1>5, <1>6
  <2>3. mem'[DstSlot] = mem[DstSlot]
    BY <1>4, <1>5, <1>6
  <2> QED BY <1>3, <2>1, <2>2, <2>3
<1>10. InfoSound' /\ ~Valid'
  BY <1>1, <1>3, <1>7, InfoStays DEF IInv, InfoBlockPcs
<1>11. ImageSound'
  BY <1>1, <1>3, <1>10, ImageStays DEF IInv
<1>20. Typed'
  BY <1>1, <1>3, <1>6 DEF IInv, Typed
<1>21. Placed'
  BY <1>1, <1>2, <1>3, <1>5, <1>6, <1>7, SlotFacts, Kinds DEF IInv, Placed
<1>22. FreeSlots'
  <2>1. free = Slot \ (InfoSlots \union {DstSlot} \union (IF opt.restore2 THEN {Info2Slot} ELSE {}))
    BY <1>3 DEF IInv, FreeSlots
  <2>2. Cardinality(Slot \ free) <= 3
    <3>1. Slot \ free \subseteq {1, DstSlot, Info2Slot}
      BY <2>1 DEF InfoSlots
    <3> QED BY <3>1, FewTaken
  <2>3. 1 \in 1 .. NumBoot + 1
    BY DEF RestoreAssumption
  <2>4. (opt.rifs => 1 \notin free) /\ DstSlot \notin free /\ (Second => Info2Slot \notin free)
    BY <1>3, <2>1 DEF InfoSlots
  <2> QED BY <1>1, <1>2, <1>3, <2>2, <2>3, <2>4 DEF FreeSlots
<1>23. InfoSound'
  BY <1>10
<1>24. ImageSound'
  BY <1>11
<1>25. SecondSound'
  <2>1. \A s \in Slot : mem'[s].kind = "zeros" => opt.secure
    BY <1>7 DEF IInv, SecondSound
  <2>2. Second => mem'[Info2Slot].kind = "info2"
    BY <1>6, Kinds
  <2> QED BY <1>1, <1>2, <1>3, <1>7, <2>1, <2>2 DEF SecondSound
<1>26. LeftSound'
  BY <1>3 DEF LeftSound
<1> QED BY <1>20, <1>21, <1>22, <1>23, <1>24, <1>25, <1>26 DEF IInv

LEMMA SaveDataStep == ASSUME RestoreAssumption, PlacesAssumption, IInv, SaveData PROVE IInv'
<1> USE DEF RifsPcs, LoadPcs, Load2Pcs, Ifs2Pcs, BootPcs
<1>1. opt' = opt
  BY DEF SaveData, ram
<1>2. DstSlot' = DstSlot /\ Info2Slot' = Info2Slot /\ InfoSlots' = InfoSlots /\ Second' = Second
  BY <1>1, SameOptions
<1>3. /\ pc = "bootstraps" /\ i \in 1 .. NumBoot /\ i' = i + 1 /\ NumBoot \in Nat
      /\ faults' = faults /\ completed' = completed /\ info' = info /\ status' = status
      /\ dst' = dst /\ info2' = info2
      /\ image' = [image EXCEPT !.data = [e \in Exe |-> image.data[e] /\ ~Linked(e)]]
  BY DEF IInv, SaveData, FreeSlots, RestoreAssumption
<1>4. /\ image' \in [sig : BOOLEAN, whole : BOOLEAN, data : [Exe -> BOOLEAN]]
      /\ image'.sig = image.sig /\ image'.whole = image.whole
      /\ \A e \in Exe : e >= i' - 1 => image'.data[e]
      /\ i \in Exe /\ image.data[i] = TRUE
  <2>1. [e \in Exe |-> image.data[e] /\ ~Linked(e)] \in [Exe -> BOOLEAN]
    OBVIOUS
  <2>2. /\ image' \in [sig : BOOLEAN, whole : BOOLEAN, data : [Exe -> BOOLEAN]]
        /\ image'.sig = image.sig /\ image'.whole = image.whole
        /\ image'.data = [e \in Exe |-> image.data[e] /\ ~Linked(e)]
    BY <1>3, <2>1 DEF IInv, Typed
  <2>3. \A e \in Exe : e >= i - 1 => image.data[e]
    BY <1>3 DEF IInv, ImageSound
  <2>4. \A e \in Exe : e >= i' - 1 => e >= i - 1 /\ e # i - 1
    BY <1>3 DEF Exe
  <2>5. i \in Exe /\ i >= i - 1
    BY <1>3 DEF Exe
  <2>6. image.data[i] = TRUE
    BY <2>3, <2>5 DEF IInv, Typed
  <2> QED BY <2>2, <2>3, <2>4, <2>5, <2>6 DEF Linked
<1>5. 1 \in Slot /\ DstSlot \in Slot /\ Info2Slot \in Slot /\ NoSlot \notin Slot /\ Slot \subseteq Nat
  BY SlotFacts DEF IInv
<1>6. Accepted' <=> Accepted
  BY <1>1, <1>3, <1>4 DEF Accepted
<1>7. CASE ~opt.rifs
  <2>1. pc' = pc /\ free' = free /\ mem' = mem
    BY <1>3, <1>7 DEF SaveData
  <2>2. Valid' = Valid /\ ~Valid
    BY <1>5, <1>7, <2>1 DEF IInv, InfoSound, Valid
  <2>3. FreeSlots'
    <3>1. Cardinality(Slot \ free') <= i' + 2
      <4>1. Cardinality(Slot \ free) <= i + 2
        BY <1>3 DEF IInv, FreeSlots
      <4>2. Cardinality(Slot \ free) \in Nat
        BY TakenFinite DEF IInv, Typed
      <4> QED BY <1>3, <2>1, <4>1, <4>2
    <3> QED BY <1>1, <1>2, <1>3, <2>1, <3>1 DEF IInv, FreeSlots
  <2>4. Typed' /\ Placed'
    BY <1>1, <1>2, <1>3, <1>4, <2>1 DEF IInv, Typed, Placed
  <2>5. InfoSound'
    BY <1>1, <1>3, <1>7, <2>1, <2>2 DEF IInv, InfoSound
  <2>6. ImageSound'
    BY <1>1, <1>3, <1>4, <1>6, <2>1, <2>2 DEF IInv, ImageSound
  <2>7. SecondSound'
    BY <1>1, <1>2, <1>3, <2>1 DEF IInv, SecondSound
  <2>8. LeftSound'
    BY <1>3, <2>1 DEF LeftSound
  <2> QED BY <2>3, <2>4, <2>5, <2>6, <2>7, <2>8 DEF IInv
<1>8. CASE opt.rifs /\ i > MaxBootable
  <2>1. pc' = "crashed" /\ free' = free /\ mem' = mem
    BY <1>3, <1>8 DEF SaveData
  <2>2. Valid' = Valid /\ ~Valid
    <3>1. mem[1] = Info(FALSE, mem[1].saved)
      BY <1>3, <1>8 DEF IInv, InfoSound
    <3> QED BY <2>1, <3>1 DEF Valid, Info
  <2>3. FreeSlots' /\ Typed' /\ Placed'
    BY <1>1, <1>2, <1>3, <1>4, <2>1 DEF IInv, Typed, Placed, FreeSlots
  <2>4. InfoSound' /\ ImageSound' /\ LeftSound'
    BY <1>1, <1>3, <2>1, <2>2 DEF IInv, InfoSound, ImageSound, LeftSound
  <2>5. SecondSound'
    BY <1>1, <1>2, <1>3, <2>1 DEF IInv, SecondSound
  <2> QED BY <2>3, <2>4, <2>5 DEF IInv
<1>9. CASE opt.rifs /\ ~(i > MaxBootable)
  <2> DEFINE slot == IF opt.compressed THEN FirstFree ELSE NoSlot
             old == mem[1].saved
             block == Info(FALSE, Append(old, slot))
  <2>1. /\ info = 1 /\ mem[1] = Info(FALSE, old) /\ old \in Seq({NoSlot} \union Slot)
        /\ Saved(i - 1) /\ SavedIsTaken
        /\ 1 \notin free /\ (opt.ifs2 => DstSlot \notin free) /\ (Second => Info2Slot \notin free)
        /\ (opt.ifs2 => DstSlot # 1) /\ (Second => Info2Slot # 1)
    BY <1>3, <1>9, SlotFacts DEF IInv, InfoSound, Placed, FreeSlots
  <2>2. FirstFree \in free
    <3>1. free # {}
      <4>1. SUFFICES ASSUME free = {} PROVE FALSE
        OBVIOUS
      <4>2. Cardinality(Slot) = Slots
        BY FS_Interval DEF Slot, RestoreAssumption
      <4>3. Slot \ free = Slot
        BY <4>1
      <4>4. Slots <= i + 2
        BY <1>3, <4>2, <4>3 DEF IInv, FreeSlots
      <4> QED BY <1>3, <4>4 DEF RestoreAssumption
    <3>2. free \subseteq Nat
      BY <1>5 DEF IInv, Typed
    <3> QED BY <3>1, <3>2, MinOf DEF FirstFree
  <2>3. FirstFree \in Slot
    BY <2>2 DEF IInv, Typed
  <2>4. slot \in {NoSlot} \union Slot
    BY <2>3
  <2>5. /\ pc' = pc /\ free' = free \ {slot}
        /\ mem' = IF slot = NoSlot THEN [mem EXCEPT ![1] = block]
                  ELSE [[mem EXCEPT ![1] = block] EXCEPT ![slot] = ExeData(i, TRUE)]
    <3>1. [mem EXCEPT ![1].saved = Append(@, slot)] = [mem EXCEPT ![1] = block]
      <4>1. [mem[1] EXCEPT !.saved = Append(old, slot)] = block
        BY <2>1, <2>4, InfoExtended
      <4> QED BY <4>1
    <3>2. image.data[i] = TRUE
      BY <1>4
    <3> HIDE DEF block, old
    <3> QED BY <1>3, <1>9, <2>1, <3>1, <3>2 DEF SaveData, Without
  <2>6. slot # 1 /\ (opt.ifs2 => slot # DstSlot) /\ (Second => slot # Info2Slot)
    BY <1>5, <2>1, <2>2, Zenon DEF NoSlot
  <2> HIDE DEF slot, block
  <2>7. /\ mem' = [s \in Slot |-> mem'[s]] /\ mem'[1] = block
        /\ \A s \in Slot : s # 1 /\ s # slot => mem'[s] = mem[s]
        /\ slot # NoSlot => mem'[slot] = ExeData(i, TRUE)
    <3>1. CASE slot = NoSlot
      <4>1. mem' = [mem EXCEPT ![1] = block]
        BY <2>5, <3>1
      <4> QED BY <1>5, <3>1, <4>1, SlotWritten DEF IInv, Typed
    <3>2. CASE slot # NoSlot
      <4>1. slot \in Slot
        BY <2>4, <3>2
      <4>2. mem' = [[mem EXCEPT ![1] = block] EXCEPT ![slot] = ExeData(i, TRUE)]
        BY <2>5, <3>2
      <4>3. mem = [s \in Slot |-> mem[s]]
        BY DEF IInv, Typed
      <4> QED BY <1>5, <2>6, <4>1, <4>2, <4>3
    <3> QED BY <3>1, <3>2
  <2>8. /\ mem'[1].kind = "info" /\ mem'[1].valid = FALSE /\ mem'[1].saved = Append(old, slot)
        /\ mem'[1] = Info(FALSE, mem'[1].saved) /\ mem'[1].saved \in Seq({NoSlot} \union Slot)
        /\ ~Valid'
    <3> HIDE DEF old
    <3>1. Append(old, slot) \in Seq({NoSlot} \union Slot)
      BY <2>1, <2>4
    <3>2. mem'[1].kind = "info" /\ mem'[1].valid = FALSE /\ mem'[1].saved = Append(old, slot)
      BY <2>7 DEF block, Info
    <3>3. mem'[1] = Info(FALSE, mem'[1].saved)
      BY <2>7, <3>2, Zenon DEF block
    <3> QED BY <3>1, <3>2, <3>3 DEF Valid
  <2>9. /\ Len(Append(old, slot)) = i /\ Append(old, slot)[i] = slot
        /\ \A e \in 1 .. i - 1 : Append(old, slot)[e] = old[e]
    <3>1. Len(old) = i - 1 /\ old \in Seq({NoSlot} \union Slot)
      BY <2>1 DEF Saved
    <3> HIDE DEF old
    <3> QED BY <1>3, <2>4, <3>1
  <2>10. opt.compressed => slot = FirstFree /\ slot \in free /\ slot \in Slot /\ slot # NoSlot
    BY <1>5, <2>2, <2>3 DEF slot
  <2>11. ASSUME opt.compressed, NEW e \in 1 .. i
         PROVE  /\ Append(old, slot)[e] \in Slot \ {1}
                /\ Append(old, slot)[e] \notin free'
                /\ mem'[Append(old, slot)[e]] = ExeData(e, TRUE)
    <3>1. CASE e = i
      BY <2>5, <2>6, <2>7, <2>9, <2>10, <2>11, <3>1
    <3>2. CASE e # i
      <4>1. e \in 1 .. i - 1 /\ e \in 1 .. Len(old)
        BY <1>3, <2>1, <3>2 DEF Saved
      <4>2. old[e] \in Slot \ {1} /\ mem[old[e]] = ExeData(e, TRUE) /\ old[e] \notin free
        BY <2>1, <2>11, <4>1 DEF Saved, SavedIsTaken
      <4>3. Append(old, slot)[e] = old[e] /\ old[e] # slot
        BY <2>9, <2>10, <2>11, <4>1, <4>2
      <4> QED BY <2>5, <2>7, <4>2, <4>3
    <3> QED BY <3>1, <3>2
  <2>12. Saved(i - 1)' /\ SavedIsTaken'
    <3> HIDE DEF old
    <3>1. i' - 1 = i
      BY <1>3
    <3>2. Len(mem'[1].saved) = i
      BY <2>8, <2>9
    <3>3. ASSUME opt.compressed, NEW e \in 1 .. i
          PROVE  /\ mem'[1].saved[e] \in Slot \ {1} /\ mem'[1].saved[e] \notin free'
                 /\ mem'[mem'[1].saved[e]] = ExeData(e, TRUE)
      BY <2>8, <2>11, <3>3
    <3>4. Saved(i - 1)'
      BY <1>1, <3>1, <3>2, <3>3 DEF Saved
    <3>5. SavedIsTaken'
      BY <1>1, <3>2, <3>3 DEF SavedIsTaken
    <3> QED BY <3>4, <3>5
  <2>13. Typed' /\ Placed'
    BY <1>1, <1>2, <1>3, <1>4, <2>5, <2>7 DEF IInv, Typed, Placed
  <2>14. FreeSlots'
    <3>1. Cardinality(Slot \ free') <= i' + 2
      <4>1. Slot \ free' \subseteq (Slot \ free) \union {slot}
        BY <2>5
      <4>2. Cardinality(Slot \ free) <= i + 2 /\ i + 2 \in Nat
        BY <1>3 DEF IInv, FreeSlots
      <4>3. IsFiniteSet(Slot \ free)
        BY TakenFinite DEF IInv, Typed
      <4>4. IsFiniteSet((Slot \ free) \union {slot}) /\ Cardinality((Slot \ free) \union {slot}) <= (i + 2) + 1
        BY <4>2, <4>3, OneMore
      <4>5. /\ Cardinality(Slot \ free') <= Cardinality((Slot \ free) \union {slot})
            /\ Cardinality(Slot \ free') \in Nat /\ Cardinality((Slot \ free) \union {slot}) \in Nat
        BY <4>1, <4>4, FS_Subset, FS_CardinalityType
      <4> QED BY <1>3, <4>4, <4>5
    <3>2. i' \in 1 .. NumBoot + 1
      BY <1>3
    <3> QED BY <1>1, <1>2, <1>3, <2>1, <2>5, <3>1, <3>2 DEF IInv, FreeSlots
  <2>15. InfoSound'
    <3>1. ASSUME NEW s \in Slot, mem'[s].kind = "info" PROVE s = 1
      <4>1. CASE s = slot
        <5>1. mem'[s].kind = "data"
          BY <1>5, <2>7, <4>1 DEF ExeData
        <5> QED BY <3>1, <5>1
      <4>2. CASE s # slot
        BY <2>7, <3>1, <4>2 DEF IInv, InfoSound
      <4> QED BY <4>1, <4>2
    <3> QED BY <1>1, <1>3, <1>9, <2>5, <2>8, <2>12, <3>1 DEF InfoSound
  <2>16. ImageSound'
    BY <1>1, <1>3, <1>4, <1>6, <2>5, <2>8 DEF IInv, ImageSound
  <2>17. SecondSound'
    <3>1. ASSUME NEW s \in Slot, mem'[s].kind = "zeros" PROVE opt.secure
      <4>1. CASE s = slot
        <5>1. mem'[s].kind = "data"
          BY <1>5, <2>7, <4>1 DEF ExeData
        <5> QED BY <3>1, <5>1
      <4>2. CASE s = 1
        BY <2>8, <3>1, <4>2
      <4>3. CASE s # slot /\ s # 1
        BY <2>7, <3>1, <4>3 DEF IInv, SecondSound
      <4> QED BY <4>1, <4>2, <4>3
    <3>2. /\ opt.ifs2 => mem'[DstSlot] = mem[DstSlot]
          /\ Second => mem'[Info2Slot] = mem[Info2Slot]
      BY <1>5, <2>1, <2>6, <2>7
    <3> QED BY <1>1, <1>2, <1>3, <2>5, <3>1, <3>2 DEF IInv, SecondSound, Second
  <2>18. LeftSound'
    BY <1>3, <2>5 DEF LeftSound
  <2> QED BY <2>13, <2>14, <2>15, <2>16, <2>17, <2>18 DEF IInv
<1> QED BY <1>7, <1>8, <1>9

LEMMA SetCksumStep == ASSUME RestoreAssumption, PlacesAssumption, IInv, SetCksum PROVE IInv'
<1> USE DEF RifsPcs, LoadPcs, Load2Pcs, Ifs2Pcs, BootPcs
<1>1. opt' = opt
  BY DEF SetCksum, ram
<1>2. DstSlot' = DstSlot /\ Info2Slot' = Info2Slot /\ InfoSlots' = InfoSlots /\ Second' = Second
  BY <1>1, SameOptions
<1>3. /\ pc = "bootstraps" /\ i = NumBoot + 1 /\ pc' = "kernel" /\ NumBoot \in Nat
      /\ image' = image /\ faults' = faults /\ completed' = completed /\ free' = free
      /\ i' = i /\ info' = info /\ status' = status /\ dst' = dst /\ info2' = info2
      /\ mem' = (IF opt.rifs THEN [mem EXCEPT ![info].valid = TRUE] ELSE mem)
  BY DEF IInv, SetCksum, FreeSlots, RestoreAssumption
<1>4. 1 \in Slot /\ DstSlot \in Slot /\ Info2Slot \in Slot /\ Slot \subseteq Nat
  BY SlotFacts DEF IInv
<1>5. opt.rifs => /\ mem[1] = Info(FALSE, mem[1].saved) /\ info = 1 /\ Saved(NumBoot) /\ SavedIsTaken
                  /\ DstSlot # 1 /\ Info2Slot # 1
  <2>1. i - 1 = NumBoot
    BY <1>3
  <2>2. opt.rifs => Saved(i - 1) /\ SavedIsTaken
    BY <1>3 DEF IInv, InfoSound
  <2>3. opt.rifs => mem[1] = Info(FALSE, mem[1].saved) /\ info = 1
    BY <1>3 DEF IInv, InfoSound, Placed
  <2> QED BY <2>1, <2>2, <2>3, SlotFacts DEF IInv
<1>6. CASE opt.rifs
  <2>1. mem' = [mem EXCEPT ![1] = Info(TRUE, mem[1].saved)]
    <3>1. mem' = [mem EXCEPT ![1] = [mem[1] EXCEPT !.valid = TRUE]]
      BY <1>3, <1>5, <1>6
    <3>2. [Info(FALSE, mem[1].saved) EXCEPT !.valid = TRUE] = Info(TRUE, mem[1].saved)
      <4>1. mem[1].saved \in Seq({NoSlot} \union Slot)
        BY <1>3, <1>6 DEF IInv, InfoSound
      <4> QED BY <4>1, InfoCompleted
    <3> QED BY <1>5, <1>6, <3>1, <3>2
  <2>2. /\ mem' = [s \in Slot |-> mem'[s]] /\ mem'[1] = Info(TRUE, mem[1].saved)
        /\ \A s \in Slot : s # 1 => mem'[s] = mem[s]
    BY <1>4, <2>1, SlotWritten DEF IInv, Typed
  <2>3. Valid' /\ mem'[1].kind = "info" /\ mem'[1].valid = TRUE /\ mem'[1].saved = mem[1].saved
    BY <2>2 DEF Valid, Info
  <2>4. Saved(NumBoot)' /\ SavedIsTaken'
    <3>1. SavedIsTaken'
      BY <1>1, <1>3, <1>5, <1>6, <2>3 DEF SavedIsTaken
    <3>2. ASSUME opt.compressed, NEW e \in 1 .. NumBoot
          PROVE  mem[1].saved[e] \in Slot \ {1} /\ mem'[mem[1].saved[e]] = ExeData(e, TRUE)
      <4>1. mem[1].saved[e] \in Slot \ {1} /\ mem[mem[1].saved[e]] = ExeData(e, TRUE)
        BY <1>5, <1>6, <3>2 DEF Saved
      <4> QED BY <2>2, <4>1
    <3>3. Len(mem[1].saved) = NumBoot
      BY <1>5, <1>6 DEF Saved
    <3>4. Saved(NumBoot)'
      BY <1>1, <2>3, <3>2, <3>3 DEF Saved
    <3> QED BY <3>1, <3>4
  <2>5. Typed' /\ Placed' /\ FreeSlots'
    BY <1>1, <1>2, <1>3, <2>2 DEF IInv, Typed, Placed, FreeSlots
  <2>6. InfoSound'
    BY <1>1, <1>3, <1>6, <2>2, <2>3, <2>4 DEF IInv, InfoSound
  <2>7. ImageSound'
    BY <1>1, <1>3 DEF IInv, ImageSound, Accepted
  <2>8. SecondSound'
    BY <1>1, <1>2, <1>3, <1>4, <1>5, <1>6, <2>2, <2>3 DEF IInv, SecondSound
  <2>9. LeftSound'
    <3>1. image.sig
      BY <1>3 DEF IInv, ImageSound, Accepted
    <3>2. Intact /\ Second => mem[DstSlot] = Ifs2(TRUE) /\ mem[Info2Slot].kind = "info2"
      BY <1>3 DEF IInv, SecondSound, Second, Intact
    <3> QED BY <1>1, <1>2, <1>3, <1>4, <1>5, <1>6, <2>2, <2>3, <3>1, <3>2 DEF LeftSound, Intact
  <2> QED BY <2>5, <2>6, <2>7, <2>8, <2>9 DEF IInv
<1>7. CASE ~opt.rifs
  <2>1. mem' = mem
    BY <1>3, <1>7
  <2>2. Valid' = Valid /\ (\A n : Saved(n)' = Saved(n)) /\ SavedIsTaken' = SavedIsTaken
    BY <1>1, <1>3, <2>1, SameMemory
  <2>3. ~Valid
    BY <1>4, <1>7 DEF IInv, InfoSound, Valid
  <2>5. Typed' /\ Placed' /\ FreeSlots'
    BY <1>1, <1>2, <1>3, <2>1 DEF IInv, Typed, Placed, FreeSlots
  <2>6. InfoSound'
    BY <1>1, <1>3, <1>7, <2>1, <2>2, <2>3 DEF IInv, InfoSound
  <2>7. ImageSound'
    BY <1>1, <1>3, <2>2, <2>3 DEF IInv, ImageSound, Accepted
  <2>8. SecondSound'
    BY <1>1, <1>2, <1>3, <2>1 DEF IInv, SecondSound
  <2>9. LeftSound'
    <3>2. Intact /\ Second => mem[DstSlot] = Ifs2(TRUE) /\ mem[Info2Slot].kind = "info2"
      BY <1>3 DEF IInv, SecondSound, Second, Intact
    <3> QED BY <1>1, <1>2, <1>3, <1>7, <2>1, <3>2 DEF LeftSound, Intact
  <2> QED BY <2>5, <2>6, <2>7, <2>8, <2>9 DEF IInv
<1> QED BY <1>6, <1>7

LEMMA KernelRunsStep == ASSUME RestoreAssumption, PlacesAssumption, IInv, KernelRuns PROVE IInv'
<1> USE DEF RifsPcs, LoadPcs, Load2Pcs, Ifs2Pcs, BootPcs
<1>1. opt' = opt
  BY DEF KernelRuns, ram
<1>2. DstSlot' = DstSlot /\ Info2Slot' = Info2Slot /\ InfoSlots' = InfoSlots /\ Second' = Second
  BY <1>1, SameOptions
<1>3. /\ pc = "kernel" /\ pc' = "kernel"
      /\ faults' = faults /\ completed' = completed /\ free' = free
      /\ i' = i /\ info' = info /\ status' = status /\ dst' = dst /\ info2' = info2
  BY DEF KernelRuns
<1>4. 1 \in Slot /\ DstSlot \in Slot /\ Info2Slot \in Slot
  BY SlotFacts DEF IInv
<1>5. /\ image' \in [sig : BOOLEAN, whole : BOOLEAN, data : [Exe -> BOOLEAN]]
      /\ image'.sig = image.sig /\ image'.whole = image.whole
  <2>1. CASE image' = image
    BY <2>1 DEF IInv, Typed
  <2>2. CASE \E e \in Exe : image' = [image EXCEPT !.data[e] = FALSE]
    BY <2>2 DEF IInv, Typed
  <2> QED BY <2>1, <2>2 DEF KernelRuns
<1>6. /\ mem' = [s \in Slot |-> mem'[s]]
      /\ \A s \in Slot : mem'[s] = mem[s] \/ (s \in free /\ mem'[s] = Junk)
  <2>1. CASE mem' = mem
    BY <2>1 DEF IInv, Typed
  <2>2. CASE \E s \in free : mem' = [mem EXCEPT ![s] = Junk]
    <3>1. PICK s \in Slot : s \in free /\ mem' = [mem EXCEPT ![s] = Junk]
      BY <2>2 DEF IInv, Typed
    <3> QED BY <3>1, SlotWritten DEF IInv, Typed
  <2> QED BY <2>1, <2>2 DEF KernelRuns
<1>7. /\ opt.rifs => mem'[1] = mem[1]
      /\ Second => mem'[DstSlot] = mem[DstSlot] /\ mem'[Info2Slot] = mem[Info2Slot]
  BY <1>3, <1>4, <1>6 DEF IInv, FreeSlots, Second
<1>8. \A s \in Slot : mem'[s].kind \in {"info", "zeros"} => mem'[s] = mem[s]
  BY <1>6, Kinds
<1>9. Valid' <=> Valid
  <2>1. CASE opt.rifs
    BY <1>7, <2>1 DEF Valid
  <2>2. CASE ~opt.rifs
    <3>1. mem[1].kind # "info"
      BY <1>4, <2>2 DEF IInv, InfoSound
    <3>2. mem'[1].kind # "info"
      BY <1>4, <1>8, <3>1
    <3> QED BY <3>1, <3>2 DEF Valid
  <2> QED BY <2>1, <2>2
<1>10. Valid => opt.rifs /\ Saved(NumBoot) /\ SavedIsTaken
  BY <1>3, <1>4 DEF IInv, InfoSound, Valid
<1>11. Valid' => Saved(NumBoot)' /\ SavedIsTaken'
  <2> SUFFICES ASSUME Valid PROVE Saved(NumBoot)' /\ SavedIsTaken'
    BY <1>9
  <2>1. mem'[1] = mem[1] /\ Saved(NumBoot) /\ SavedIsTaken
    BY <1>7, <1>10
  <2>2. SavedIsTaken'
    BY <1>1, <1>3, <2>1 DEF SavedIsTaken
  <2>3. ASSUME opt.compressed, NEW e \in 1 .. NumBoot
        PROVE  mem[1].saved[e] \in Slot \ {1} /\ mem'[mem[1].saved[e]] = ExeData(e, TRUE)
    <3>1. mem[1].saved[e] \in Slot \ {1} /\ mem[1].saved[e] \notin free /\ mem[mem[1].saved[e]] = ExeData(e, TRUE)
      BY <2>1, <2>3 DEF Saved, SavedIsTaken
    <3> QED BY <1>6, <3>1
  <2> QED BY <1>1, <2>1, <2>2, <2>3 DEF Saved
<1>20. Typed'
  BY <1>1, <1>3, <1>5, <1>6 DEF IInv, Typed
<1>21. Placed'
  BY <1>1, <1>2, <1>3, <1>4, <1>5, <1>6, <1>7, <1>8, <1>9, <1>11, SlotFacts, Kinds DEF IInv, Placed
<1>22. FreeSlots'
  BY <1>1, <1>2, <1>3, <1>4, <1>5, <1>6, <1>7, <1>8, <1>9, <1>11, SlotFacts, Kinds DEF IInv, FreeSlots
<1>23. InfoSound'
  BY <1>1, <1>3, <1>4, <1>7, <1>8, <1>11 DEF IInv, InfoSound
<1>24. ImageSound'
  BY <1>1, <1>2, <1>3, <1>4, <1>5, <1>6, <1>7, <1>8, <1>9, <1>11, SlotFacts, Kinds DEF IInv, ImageSound, Accepted
<1>25. SecondSound'
  BY <1>1, <1>2, <1>3, <1>7, <1>8 DEF IInv, SecondSound
<1>26. LeftSound'
  BY <1>1, <1>2, <1>3, <1>5, <1>7, <1>9 DEF IInv, LeftSound, Intact
<1> QED BY <1>20, <1>21, <1>22, <1>23, <1>24, <1>25, <1>26 DEF IInv

-----------------------------------------------------------------------------
(* The invariant and what it implies.                                      *)

LEMMA InitStep == ASSUME RestoreAssumption, PlacesAssumption, RestoreInit PROVE IInv
<1> USE DEF RifsPcs, LoadPcs, Load2Pcs, Ifs2Pcs, BootPcs
<1>1. /\ opt \in Options /\ pc = "off" /\ i = 0 /\ status = 0 /\ free = Slot /\ faults = 0
      /\ mem = [s \in Slot |-> Junk] /\ image = NoImage /\ completed = FALSE
  BY DEF RestoreInit
<1>2. Typed
  BY <1>1, NoImageType DEF Typed
<1>3. 1 \in Slot /\ DstSlot \in Slot /\ Info2Slot \in Slot
  BY <1>2, SlotFacts
<1>4. \A s \in Slot : mem[s].kind = "junk"
  BY <1>1, Kinds
<1>5. ~Valid
  BY <1>3, <1>4 DEF Valid
<1>6. Placed /\ FreeSlots
  BY <1>1 DEF Placed, FreeSlots
<1>7. InfoSound
  BY <1>1, <1>3, <1>4, <1>5 DEF InfoSound
<1>8. ImageSound
  BY <1>1, <1>5 DEF ImageSound
<1>9. SecondSound
  BY <1>1, <1>3, <1>4 DEF SecondSound
<1>10. LeftSound
  BY <1>1 DEF LeftSound
<1> QED BY <1>2, <1>6, <1>7, <1>8, <1>9, <1>10 DEF IInv

LEMMA SameStep == ASSUME IInv, UNCHANGED restoreVars PROVE IInv'
<1>1. /\ opt' = opt /\ pc' = pc /\ i' = i /\ status' = status /\ free' = free
      /\ mem' = mem /\ image' = image /\ info' = info /\ info2' = info2 /\ dst' = dst
      /\ faults' = faults /\ completed' = completed
  BY DEF restoreVars, ram
<1>2. DstSlot' = DstSlot /\ Info2Slot' = Info2Slot /\ InfoSlots' = InfoSlots /\ Second' = Second
  BY <1>1, SameOptions
<1>3. Valid' = Valid /\ (\A n : Saved(n)' = Saved(n)) /\ SavedIsTaken' = SavedIsTaken
  BY <1>1, SameMemory
<1>4. Typed' /\ Placed' /\ FreeSlots'
  BY <1>1, <1>2 DEF IInv, Typed, Placed, FreeSlots
<1>5. InfoSound' /\ ImageSound'
  BY <1>1, <1>3 DEF IInv, InfoSound, ImageSound, Accepted
<1>6. SecondSound'
  BY <1>1, <1>2 DEF IInv, SecondSound
<1>7. ImageGood' <=> ImageGood
  BY <1>1 DEF ImageGood
<1>8. LeftSound'
  BY <1>1, <1>2, <1>3, <1>7 DEF IInv, LeftSound, Intact
<1> QED BY <1>4, <1>5, <1>6, <1>8 DEF IInv

LEMMA NextStep == ASSUME RestoreAssumption, PlacesAssumption, IInv, [RestoreNext]_restoreVars PROVE IInv'
BY PowerOnStep, PowerFailsStep, RamLostStep, MemoryErrorStep, AllocInfoStep, CheckStep, CopyStep,
   VerifyStep, ClearStep, LoadStep, LoadRestStep, PlaceIfs2Step, Check2Step, Load2Step,
   Load2RestStep, Save2Step, SaveDataStep, SetCksumStep, KernelRunsStep, SameStep
   DEF RestoreNext

LEMMA InvPristine == ASSUME IInv PROVE PristineIfs
<1>1. ASSUME pc \in AfterIfs PROVE Accepted /\ image.data = Pristine
  BY <1>1 DEF IInv, ImageSound, AfterIfs, Ifs2Pcs, Load2Pcs
<1>2. ASSUME pc = "bootstraps", i = 1 PROVE Accepted /\ image.data = Pristine
  <2>1. Accepted /\ \A e \in Exe : e >= 0 => image.data[e]
    BY <1>2 DEF IInv, ImageSound
  <2>2. \A e \in Exe : e >= 0
    BY DEF Exe
  <2>3. image.data \in [Exe -> BOOLEAN]
    BY DEF IInv, Typed
  <2> QED BY <2>1, <2>2, <2>3 DEF Pristine
<1> QED BY <1>1, <1>2 DEF PristineIfs, ImageGood, Accepted

LEMMA InvInfo == ASSUME IInv PROVE ValidInfoIsTrue
<1>1. ASSUME NEW s \in Slot, mem[s].kind = "info", mem[s].valid PROVE s = 1 /\ Saved(NumBoot)
  BY <1>1 DEF IInv, InfoSound, Valid
<1> QED BY <1>1 DEF ValidInfoIsTrue, Saved, Exe

LEMMA InvIfs2 == ASSUME IInv PROVE Ifs2Complete
BY DEF IInv, Placed, SecondSound, Ifs2Complete, Ifs2Good, BootPcs

\* A boot that follows a complete one accepts what it finds.
LEMMA FindsIt ==
    ASSUME RestoreAssumption, PlacesAssumption, IInv, RestoreNext
    PROVE  ~LoadsAgain
<1> SUFFICES ASSUME completed, Intact, (opt.rifs /\ pc' = "load") \/ (opt.restore2 /\ pc' = "load2")
             PROVE  FALSE
  BY DEF LoadsAgain, Intact
<1>1. (PowerOn \/ Clear) \/ (PlaceIfs2 \/ Check2)
  BY DEF RestoreNext, PowerOn, PowerFails, RamLost, MemoryError, AllocInfo, Check, Copy, Verify, Clear, Load,
         LoadRest, PlaceIfs2, Check2, Load2, Load2Rest, Save2, SaveData, SetCksum, KernelRuns
<1>2. CASE PowerOn
  BY <1>2 DEF PowerOn
<1>3. CASE Clear
  <2>1. pc = "clear" /\ (pc' = IF status = -1 THEN "load" ELSE "ifs2")
    BY <1>3 DEF Clear
  <2>2. status = 0
    BY <2>1 DEF IInv, LeftSound
  <2> QED BY <2>1, <2>2
<1>4. CASE PlaceIfs2
  BY <1>4 DEF PlaceIfs2
<1>5. CASE Check2
  <2>1. pc = "check2" /\ opt.ifs2 /\ opt.restore2 /\ Second /\ dst = DstSlot
    BY <1>5 DEF Check2, IInv, Placed, Ifs2Pcs, Second
  <2>2. mem[DstSlot] = Ifs2(TRUE) /\ mem[Info2Slot].kind = "info2"
    BY <2>1 DEF IInv, LeftSound
  <2>3. FirstFree = Info2Slot
    <3>1. opt.dst = NoSlot
      BY <2>1, SlotFacts DEF IInv
    <3>2. free = Slot \ (InfoSlots \union {DstSlot})
      BY <2>1 DEF IInv, FreeSlots
    <3> QED BY <3>1, <3>2, FirstPlaces DEF IInv
  <2>4. Cleared(mem, FirstFree) = mem
    BY DEF Cleared, Intact
  <2>5. mem[dst].kind = "ifs2" /\ Sum2Zero(mem, FirstFree) /\ Ifs2SumZero(mem, FirstFree)
    BY <2>1, <2>2, <2>3, Kinds DEF Sum2Zero, Ifs2SumZero
  <2>6. pc' = "bootstraps"
    BY <1>5, <2>4, <2>5, Zenon DEF Check2
  <2> QED BY <2>1, <2>6
<1> QED BY <1>1, <1>2, <1>3, <1>4, <1>5

\* The invariant of the boots: where each object is, what an info block that
\* passes its checks lists, and how much of the IFS and of IFS2 is there.
\* (rifs_restore_ifs(), load_ifs(), load_ifs2_nonbootable(), rifs_set_cksum())
THEOREM Invariant == ASSUME RestoreAssumption, PlacesAssumption PROVE RestoreSpec => []IInv
<1>1. RestoreInit => IInv
  BY InitStep
<1>2. IInv /\ [RestoreNext]_restoreVars => IInv'
  BY NextStep
<1> QED BY <1>1, <1>2, PTL DEF RestoreSpec

\* Whenever the power failed, and whatever the memory lost, the executables
\* that start are those of a complete, pristine IFS; an info block that passes
\* its checks is true; and IFS2 is complete: but for memory errors where the
\* user turned the checksum off.  (rifs_restore_ifs(), rifs_restore_ifs2())
THEOREM BootsPristine ==
    ASSUME RestoreAssumption, PlacesAssumption
    PROVE  RestoreSpec => []BootsPristineIfs
<1>1. IInv => BootsPristineIfs
  BY InvPristine, InvInfo, InvIfs2 DEF BootsPristineIfs
<1> QED BY <1>1, Invariant, PTL

\* After a boot that got to the kernel, with the RAM intact, a boot loads
\* neither the IFS nor IFS2 again.
\* ("We assume that the address will be the same everytime", restore_ifs.c)
THEOREM FindsLastBoot ==
    ASSUME RestoreAssumption, PlacesAssumption
    PROVE  RestoreSpec => RestoreFindsLastBoot
<1>1. IInv /\ [RestoreNext]_restoreVars => [~LoadsAgain]_restoreVars
  BY FindsIt
<1> QED BY <1>1, Invariant, PTL DEF RestoreSpec, RestoreFindsLastBoot
=============================================================================
