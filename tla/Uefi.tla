------------------------------- MODULE Uefi -------------------------------
(***************************************************************************)
(* A boot from UEFI firmware: as an application, startup reads the memory  *)
(* map (init_raminfo_uefi.c) and ends the boot services then, or with      *)
(* "lateexit" just before the kernel (uefi.c, uefi_io.c, startnext.c); or  *)
(* the entry point ends them first and the map it kept is read afterwards  *)
(* (efi_entry_point.c, init_raminfo_efi.c).                                *)
(***************************************************************************)
EXTENDS Integers, Sequences, SequencesExt, FiniteSets

CONSTANTS Maps,         \* memory maps at entry: the type of each page
          MaxEvents     \* firmware activity during the boot

UEFI_EXIT_RETRY_MAX == 2
Never == {"reserved", "runtime", "acpi", "other"}       \* not RAM, to the end
Recorded == {"loader", "boot", "runtime", "acpi"}
PageTypes == {"free", "loader", "boot"} \union Never

VARIABLES way, late, io, own, \* how startup runs; uefi_io_init() was called; its image
          pages, same, svc, events,       \* the firmware: its map; the key is its
          con, saved, suspended,        \* ConOut, cur_ConOut, suspend_cnt
          irq,                  \* interrupts enabled
          hook, cnt, retry,     \* uefi_exit_boot_services_f, uefi_init_cnt
          purpose, todo,        \* which routine reads the map; its next step
          size, buf, map,       \* map_size in entries; desc
          usable, avoid, mine      \* what the RAM manager was told; what it gave out
ASSUME MapsAssumption == \A m \in Maps : m \in Seq(PageTypes)

boot == <<way, late, io, own>>
fw == <<pages, same, svc, events>>
out == <<con, saved, suspended, irq>>
exit == <<hook, cnt, retry>>
look == <<purpose, size, buf, map>>
told == <<usable, avoid, mine>>
uefiVars == <<boot, fw, out, exit, look, todo, told>>

Pages == DOMAIN pages

-----------------------------------------------------------------------------
(* External: the firmware.  An allocation anywhere makes the key old.      *)

Claim(p, type) == pages' = [pages EXCEPT ![p] = type] /\ same' = FALSE

\* A driver or timer of the firmware allocates or frees.
Event == /\ svc /\ events < MaxEvents /\ events' = events + 1 /\ todo \notin {"kernel", "crash"}
         /\ \E p \in Pages : \/ pages[p] = "free" /\ Claim(p, "boot")
                             \/ pages[p] = "boot" /\ Claim(p, "free")
         /\ UNCHANGED <<boot, svc, out, exit, look, todo, told>>

\* The map as descriptors: runs of pages of one type.
Descriptors(types) ==
    LET upto[p \in 0 .. Len(types)] ==
            IF p = 0 THEN <<>>
            ELSE LET before == upto[p - 1]
                     n == Len(before)
                 IN  IF p > 1 /\ types[p - 1] = types[p]
                     THEN [before EXCEPT ![n].n = @ + 1]
                     ELSE Append(before, [type |-> types[p], start |-> p, n |-> 1])
    IN  upto[Len(types)]

UefiCrash == todo' = "crash"

-----------------------------------------------------------------------------
(* Reading the map, the same in all three routines.                        *)

Query == /\ todo = "query" /\ size' = Len(Descriptors(pages)) /\ todo' = "alloc"
         /\ UNCHANGED <<boot, fw, out, exit, purpose, buf, map, told>>

\* One entry more, for the allocation makes at least one.
Alloc == /\ todo = "alloc"
         /\ \/ \E p \in Pages : /\ pages[p] = "free" /\ Claim(p, "loader")
                                /\ buf' = p /\ size' = size + 1 /\ todo' = "get"
            \/ /\ \A p \in Pages : pages[p] # "free"
               /\ todo' = (IF purpose = "stub" THEN "returned" ELSE "crash")
               /\ UNCHANGED <<pages, same, buf, size>>
         /\ UNCHANGED <<boot, svc, events, out, exit, purpose, map, told>>

\* Too small by now: again with the size it gives; the stub keeps the
\* buffer.  The firmware may leave interrupts enabled.
Get == /\ todo = "get"
       /\ LET descs == Descriptors(pages)
          IN  IF Len(descs) <= size
              THEN /\ map' \in {descs, Reverse(descs)} /\ same' = TRUE /\ todo' = "use"
                   /\ irq' \in BOOLEAN /\ UNCHANGED <<size, buf, pages>>
              ELSE /\ size' = Len(descs) /\ todo' = "alloc" /\ UNCHANGED <<map, irq>>
                   /\ IF purpose = "stub" THEN UNCHANGED <<buf, pages, same>>
                      ELSE buf' = 0 /\ Claim(buf, "free")
       /\ UNCHANGED <<boot, svc, events, con, saved, suspended, exit, purpose, told>>

-----------------------------------------------------------------------------
(* What the RAM manager is told.                                           *)

\* A range grows while the next descriptor continues it.
Start0 == [closed |-> {}, start |-> 0, end |-> 0]
MergeAcross(r, d) == [r EXCEPT !.start = IF r.start = 0 THEN d.start ELSE @, !.end = d.start + d.n]
Merge(r, d) == IF d.start = r.end THEN [r EXCEPT !.end = @ + d.n]
               ELSE [closed |-> r.closed \union r.start .. (r.end - 1),
                     start |-> d.start, end |-> d.start + d.n]
IsRam(d) == d.type \in Recorded \union {"free"}
Ram(descs) ==
    LET r[k \in 0 .. Len(descs)] == IF k = 0 THEN Start0
                                    ELSE IF IsRam(descs[k]) THEN Merge(r[k - 1], descs[k]) ELSE r[k - 1]
        last == r[Len(descs)]
    IN  last.closed \union (last.start .. (last.end - 1))
PagesOf(descs, types) == UNION {d.start .. (d.start + d.n - 1) : d \in {x \in Range(descs) : x.type \in types}}

\* Loader and boot services memory is free once startup is done; the
\* firmware's own is taken for good.
AvoidNone(descs) == {}
Avoided(descs) == PagesOf(descs, {"loader", "boot"})
do_raminfo ==
    /\ todo = "use" /\ purpose = "raminfo"
    /\ IF PagesOf(map, {"other"}) # {} THEN UefiCrash /\ UNCHANGED told
       ELSE /\ usable' = Ram(map) \ PagesOf(map, {"runtime", "acpi"}) /\ avoid' = Avoided(map)
            /\ todo' = "told" /\ UNCHANGED mine
    /\ UNCHANGED <<boot, fw, out, exit, look>>

\* The heap sort, once, by start address.
efi_sort_map(descs) ==
    LET order == CHOOSE p \in [DOMAIN descs -> DOMAIN descs] :
                    \A i, j \in DOMAIN descs : i < j => descs[p[i]].start < descs[p[j]].start
    IN  [i \in DOMAIN descs |-> descs[order[i]]]

\* All that is not free is avoided, then added, and the usable part taken.
init_raminfo_efi ==
    /\ todo = "raminfo" /\ purpose = "stub"
    /\ LET walk == efi_sort_map(map)
       IN  /\ usable' = Ram(walk) \ PagesOf(walk, Recorded)
           /\ avoid' = PagesOf(walk, Recorded \union {"reserved", "other"})
    /\ todo' = "startup" /\ UNCHANGED <<boot, fw, out, exit, look, mine>>

-----------------------------------------------------------------------------
(* Ending the boot services.                                               *)

\* External: with the key of the map as it is; the table's console goes.
ExitBootServices == same

\* efi_entry_point(): tried once; on failure back to the firmware.
efi_entry_point ==
    /\ todo = "use" /\ purpose = "stub"
    /\ IF ExitBootServices THEN svc' = FALSE /\ con' = FALSE /\ irq' = FALSE /\ todo' = "raminfo"
       ELSE todo' = "returned" /\ UNCHANGED <<svc, con, irq>>
    /\ UNCHANGED <<boot, pages, same, events, saved, suspended, exit, look, told>>

\* The call, from init_raminfo_uefi() and from startnext(): the last of
\* those that asked for it ends the services.
uefi_exit_boot_services ==
    /\ todo \in {"told", "next"}
    /\ IF ~hook THEN /\ todo' = (IF todo = "told" THEN "startup" ELSE "kernel")
                     /\ UNCHANGED <<cnt, purpose, irq, retry>>
       ELSE /\ cnt' = cnt - 1
            /\ IF cnt = 1 THEN /\ todo' = "query" /\ retry' = 0 /\ UNCHANGED irq
                               /\ purpose' = (IF todo = "told" THEN "exit" ELSE "last exit")
               ELSE /\ irq' = FALSE /\ UNCHANGED <<purpose, retry>>
                    /\ todo' = (IF todo = "told" THEN "startup" ELSE "kernel")
    /\ UNCHANGED <<boot, fw, con, saved, suspended, hook, size, buf, map, told>>

\* ExitBootServices(), and again with a new map when the key was old; the
\* third repetition is the last, and then the services count as ended.
Ended == /\ con' = FALSE /\ hook' = FALSE /\ irq' = FALSE
         /\ todo' = (IF purpose = "exit" THEN "startup" ELSE "kernel")
UseUnchecked == /\ todo = "use" /\ purpose \in {"exit", "last exit"}
                /\ svc' = (svc /\ ~ExitBootServices) /\ Ended
                /\ UNCHANGED <<boot, pages, same, events, saved, suspended, cnt, retry, look, told>>
Use == /\ todo = "use" /\ purpose \in {"exit", "last exit"}
       /\ IF ExitBootServices
          THEN svc' = FALSE /\ Ended /\ UNCHANGED <<pages, same, buf, retry>>
          ELSE /\ Claim(buf, "free") /\ buf' = 0 /\ retry' = retry + 1 /\ UNCHANGED svc
               /\ IF retry' <= UEFI_EXIT_RETRY_MAX THEN todo' = "query" /\ UNCHANGED <<con, hook, irq>>
                  ELSE Ended
       /\ UNCHANGED <<boot, events, saved, suspended, cnt, purpose, size, map, told>>

-----------------------------------------------------------------------------
(* The rest of startup, as far as it touches the firmware or memory.       *)

\* On the firmware's console: interrupts are masked again after the call.
uefi_print_char == /\ todo = "startup" /\ io /\ con /\ irq' = FALSE
                   /\ UNCHANGED <<boot, fw, con, saved, suspended, exit, look, todo, told>>
\* One allocation stands for all.
alloc_ram == /\ todo = "startup" /\ mine = {} /\ \E p \in usable \ avoid : mine' = {p}
             /\ UNCHANGED <<boot, fw, out, exit, look, todo, usable, avoid>>

\* start_aps() runs between these; they do nothing without uefi_io_init().
uefi_io_suspend == /\ todo = "startup" /\ io /\ ~suspended
                   /\ suspended' = TRUE /\ saved' = con /\ con' = FALSE
                   /\ UNCHANGED <<boot, fw, irq, exit, look, todo, told>>
ResumeOn == /\ todo = "startup" /\ suspended /\ suspended' = FALSE /\ con' = TRUE
            /\ UNCHANGED <<boot, fw, saved, irq, exit, look, todo, told>>
uefi_io_resume == /\ todo = "startup" /\ suspended /\ suspended' = FALSE /\ con' = saved
                  /\ UNCHANGED <<boot, fw, saved, irq, exit, look, todo, told>>
startnext == /\ todo = "startup" /\ ~suspended /\ todo' = "next"
             /\ UNCHANGED <<boot, fw, out, exit, look, told>>

\* uefi_init() asks for the exit, "lateexit" for one more.
UefiInit == /\ way \in {"stub", "uefi"} /\ io \in BOOLEAN /\ late \in BOOLEAN
            /\ (late => io) /\ (io => way = "uefi")
            /\ pages \in Maps /\ own = {p \in Pages : pages[p] = "loader"}
            /\ same = FALSE /\ svc = TRUE /\ events = 0
            /\ con = TRUE /\ saved = FALSE /\ suspended = FALSE /\ irq = FALSE
            /\ hook = (way = "uefi") /\ retry = 0
            /\ cnt = (IF way = "uefi" THEN IF late THEN 2 ELSE 1 ELSE 0)
            /\ purpose = (IF way = "uefi" THEN "raminfo" ELSE "stub") /\ todo = "query"
            /\ size = 0 /\ buf = 0 /\ map = <<>>
            /\ usable = {} /\ avoid = {} /\ mine = {}
UefiNext == \/ Event \/ Query \/ Alloc \/ Get \/ do_raminfo \/ init_raminfo_efi \/ efi_entry_point
            \/ uefi_exit_boot_services \/ Use \/ uefi_print_char \/ alloc_ram
            \/ uefi_io_suspend \/ uefi_io_resume \/ startnext
UefiSpec == UefiInit /\ [][UefiNext]_uefiVars

-----------------------------------------------------------------------------
(* Properties.                                                             *)

Exhausted == retry > UEFI_EXIT_RETRY_MAX
Used == IF todo = "kernel" THEN usable \union mine ELSE mine

\* What startup takes and what it leaves to the kernel is never memory the
\* firmware keeps; until the kernel runs it is not startup's own; and
\* while the firmware still allocates, nothing is taken, except for
\* "lateexit" and after an exit that gave up.
MemoryIsOurs ==
    /\ \A p \in Used : pages[p] \notin Never
    /\ todo # "kernel" => mine \intersect own = {}
    /\ svc /\ ~late /\ ~Exhausted => Used = {}

\* The kernel starts with interrupts masked and, unless the exit gave up,
\* with no boot services behind it; the console is never used after them.
ServicesEnded == /\ todo = "kernel" => ~irq /\ ~con /\ (svc => Exhausted)
                 /\ con => svc

\* Nothing startup takes or leaves to the kernel is memory the firmware keeps,
\* or, before the kernel runs, startup's own; and the kernel has no boot
\* services behind it unless the exit gave up (init_raminfo_uefi.c, uefi.c).
FirmwareLetGo == MemoryIsOurs /\ ServicesEnded

\* "Could not exit boot services" (uefi.c:115) is a crash: no kernel starts
\* while the firmware's boot services live.
ExitsOrCrashes == todo = "kernel" => ~svc
=============================================================================
