-------------------------- MODULE SmpHandOffProofs --------------------------
(***************************************************************************)
(* The safety properties of SmpStartup, for any number of cores, any       *)
(* affinity table, any -P values and any wrap of the boot core's counter;  *)
(* and the hand-over to the kernel: what is shown of the start-up program  *)
(* still holds while the cores go on into the callout's loop and the       *)
(* kernel starts them.                                                     *)
(***************************************************************************)
EXTENDS SmpHandOff, FiniteSetTheorems, TLAPS

Starting == {"start_aps", "mmu", "psci", "wait_ap"}
Finishing == {"flags", "alloc", "write", "hook2"}
Handing == {"transfer_aps", "announce", "wait_pending"}
Over == {"startnext", "kernel"}

Active(c) == ap[c] \in {"entry", "read", "adjust", "cpuinfo", "report"}
Gone(c) == ap[c] \in {"clean", "parked"}

\* The loop variable and the hook fit the place the boot core is at.
LoopInv ==
    /\ bsp = "init_smp" => numCpu = 1
    /\ bsp = "hook" => hook # "transfer_aps" /\ (hook = "dummy" => numCpu = 1)
    /\ bsp \in Finishing => hook # "start_aps" /\ (hook = "dummy" => numCpu = 1)
    /\ bsp \in Starting \union Handing => idx \in 1 .. numCpu
    /\ bsp \in {"mmu", "psci", "wait_ap", "announce", "wait_pending"} => idx < numCpu

\* A number is on its way to memory only before the core that reads it runs.
StartingInv ==
    /\ csLine # 0 => bsp = "mmu" /\ csLine = idx + 1
    /\ bsp = "mmu" => WriteBack(csLine, cpu_starting) = idx + 1
    /\ bsp = "psci" => cpu_starting = idx + 1

\* A core between its start and its report is the one the boot core waits for.
ActiveInv ==
    \A c \in Secondary :
        Active(c) => /\ bsp \in {"wait_ap", "crashed"}
                     /\ idx \in 1 .. numCpu - 1 /\ Affinity[idx] = c
                     /\ cpu_starting = idx + 1

\* While it waits, that core exists and is on.
StartedInv ==
    bsp = "wait_ap" =>
        /\ Affinity[idx] \in Secondary
        /\ Active(Affinity[idx]) \/ ap[Affinity[idx]] = "available"
        /\ Numbered(Affinity[idx]) => num[Affinity[idx]] = idx

Reported(i) ==
    /\ Affinity[i] \in Secondary
    /\ ap[Affinity[i]] = "available" /\ num[Affinity[i]] = i

\* The CPUs started and not yet asked to leave.
Waiting(i) ==
    \/ bsp \in Starting /\ i < idx
    \/ bsp \in Finishing
    \/ bsp \in {"transfer_aps", "announce"} /\ i >= idx
    \/ bsp = "wait_pending" /\ i > idx

\* They wait, each under its number.
ReportedInv == \A i \in 1 .. numCpu - 1 : Waiting(i) => Reported(i)

\* One core answers a request, and no zero outlives it.
RequestInv ==
    /\ bsp # "wait_pending" => pendingLine = {}
    /\ bsp = "announce" => pending = 1
    /\ bsp = "wait_pending" =>
        /\ Affinity[idx] \in Secondary /\ num[Affinity[idx]] = idx
        /\ ap[Affinity[idx]] \in {"available", "startnext", "callout", "clean", "parked"}
        /\ ap[Affinity[idx]] # "clean" => pendingLine = {}
        /\ ~Gone(Affinity[idx]) => pending = 1
        /\ pendingLine \subseteq {Affinity[idx]}
        /\ pendingLine # {} => pending = 1

\* The CPUs before the one asked to leave are in the callout for good.
ParkedInv ==
    \A i \in 1 .. numCpu - 1 :
        (bsp \in Handing /\ i < idx) \/ bsp \in Over =>
            Affinity[i] \in Secondary /\ Gone(Affinity[i]) /\ num[Affinity[i]] = i

\* The page is written before a core is let go, and only the core that was
\* asked is on its way.
PageInv ==
    /\ bsp \in {"hook2"} \union Handing \union Over => page = "written"
    /\ syspage_available # 0 => bsp \in Handing \union Over
    /\ bsp \in {"transfer_aps", "announce"} => syspage_available < idx
    /\ bsp = "wait_pending" => syspage_available = idx
    /\ bsp \in Over => syspage_available < numCpu
    /\ \A c \in Secondary :
         /\ ap[c] \in {"startnext", "callout"} => bsp = "wait_pending" /\ num[c] = idx
         /\ Gone(c) => bsp \in Handing \union Over

IInv ==
    /\ TypeOK /\ OwnNumber
    /\ LoopInv /\ StartingInv /\ ActiveInv /\ StartedInv
    /\ ReportedInv /\ RequestInv /\ ParkedInv /\ PageInv

LEMMA InitSmpInv == ASSUME IInv, InitSmp PROVE IInv'
<1> USE SmpAssumption DEF IInv, InitSmp, csVars, pendingVars, BspGoes
<1>1. (TypeOK /\ LoopInv /\ StartingInv /\ ActiveInv /\ StartedInv /\ ReportedInv /\
      RequestInv /\ ParkedInv /\ PageInv)'
  BY SMTT(20) DEF TypeOK, BspPcs, ApPcs, LoopInv, Starting, Finishing, Handing, StartingInv,
     WriteBack, ActiveInv, Active, StartedInv, Numbered, ReportedInv, Waiting,
     Reported, RequestInv, Gone, ParkedInv, Over, PageInv
<1>2. OwnNumber'
  BY SMTT(20) DEF OwnNumber, Numbered, TypeOK, BspPcs, ApPcs, LoopInv, Starting, Finishing, Handing
<1> QED BY <1>1, <1>2

LEMMA CallHookInv == ASSUME IInv, CallHook PROVE IInv'
<1> USE SmpAssumption DEF IInv, CallHook, csVars, pendingVars
<1>1. (TypeOK /\ LoopInv /\ StartingInv /\ ActiveInv /\ OwnNumber /\ StartedInv /\
      ReportedInv /\ RequestInv /\ ParkedInv /\ PageInv)'
  BY SMTT(20) DEF TypeOK, BspPcs, ApPcs, LoopInv, Starting, Finishing, Handing, StartingInv,
     WriteBack, ActiveInv, Active, OwnNumber, Numbered, StartedInv, ReportedInv,
     Waiting, Reported, RequestInv, Gone, ParkedInv, Over, PageInv
<1> QED BY <1>1

LEMMA StartNextInv == ASSUME IInv, StartNext PROVE IInv'
<1> USE SmpAssumption DEF IInv, StartNext, pendingVars
<1>1. (TypeOK /\ LoopInv /\ StartingInv /\ ActiveInv /\ OwnNumber /\ StartedInv /\
      ReportedInv /\ RequestInv /\ ParkedInv /\ PageInv)'
  BY SMTT(20) DEF TypeOK, BspPcs, ApPcs, LoopInv, Starting, Finishing, Handing, StartingInv,
     WriteBack, ActiveInv, Active, OwnNumber, Numbered, StartedInv, ReportedInv,
     Waiting, Reported, RequestInv, Gone, ParkedInv, Over, PageInv
<1> QED BY <1>1

LEMMA BoardMmuDisableInv == ASSUME IInv, BoardMmuDisable PROVE IInv'
<1> USE SmpAssumption DEF IInv, BoardMmuDisable, pendingVars, BspGoes, WriteBack
<1>1. (LoopInv /\ StartingInv /\ ActiveInv /\ OwnNumber /\ StartedInv /\ ReportedInv /\
      RequestInv /\ ParkedInv /\ PageInv)'
  BY SMTT(20) DEF LoopInv, Starting, Finishing, Handing, StartingInv, ActiveInv, Active, OwnNumber,
     Numbered, StartedInv, ReportedInv, Waiting, Reported, RequestInv, Gone,
     ParkedInv, Over, PageInv
<1>2. TypeOK'
  <2>1. WriteBack(csLine, cpu_starting) \in 0 .. BoardCpus
    BY DEF TypeOK
  <2>2. cpu_starting' \in 0 .. BoardCpus /\ csLine' \in 0 .. BoardCpus
    BY <2>1
  <2>3. bsp' \in BspPcs /\ dcache' \in BOOLEAN
    BY DEF BspPcs
  <2>4. UNCHANGED <<hook, idx, count, numCpu, page, ap, num, syspage_available, pendingVars>>
    OBVIOUS
  <2> HIDE DEF BoardMmuDisable, WriteBack
  <2> QED BY <2>2, <2>3, <2>4 DEF TypeOK, pendingVars
<1> QED BY <1>1, <1>2

LEMMA PsciSuccessInv == ASSUME IInv, PsciSuccess PROVE IInv'
<1> USE SmpAssumption DEF IInv, PsciSuccess, csVars, pendingVars, BspGoes, CpuOnAllowed
<1>1. (TypeOK /\ LoopInv /\ StartingInv /\ OwnNumber /\ StartedInv /\ ReportedInv /\
      RequestInv /\ ParkedInv /\ PageInv)'
  BY SMTT(20) DEF TypeOK, BspPcs, ApPcs, LoopInv, Starting, Finishing, Handing, StartingInv,
     WriteBack, OwnNumber, Numbered, StartedInv, Active, ReportedInv, Waiting,
     Reported, RequestInv, Gone, ParkedInv, Over, PageInv
<1>2. ActiveInv'
  BY SMTT(20) DEF ActiveInv, Active, TypeOK, BspPcs, ApPcs, LoopInv, Starting, Finishing, Handing,
     StartingInv, WriteBack
<1> QED BY <1>1, <1>2

LEMMA PsciFailureInv == ASSUME IInv, PsciFailure PROVE IInv'
<1> USE SmpAssumption DEF IInv, PsciFailure, csVars, pendingVars, BspGoes
<1>1. (TypeOK /\ LoopInv /\ StartingInv /\ ActiveInv /\ OwnNumber /\ StartedInv /\
      ReportedInv /\ RequestInv /\ ParkedInv /\ PageInv)'
  BY SMTT(20) DEF TypeOK, BspPcs, ApPcs, LoopInv, Starting, Finishing, Handing, StartingInv,
     WriteBack, ActiveInv, Active, OwnNumber, Numbered, StartedInv, ReportedInv,
     Waiting, Reported, RequestInv, Gone, ParkedInv, Over, PageInv
<1> QED BY <1>1

LEMMA WaitApInv == ASSUME IInv, WaitAp PROVE IInv'
<1> USE SmpAssumption DEF IInv, WaitAp, csVars, pendingVars
<1>1. (LoopInv /\ StartingInv /\ ActiveInv /\ OwnNumber /\ StartedInv /\ ReportedInv /\
      RequestInv /\ ParkedInv /\ PageInv)'
  BY SMTT(20) DEF LoopInv, Starting, Finishing, Handing, TypeOK, BspPcs, ApPcs, StartingInv,
     WriteBack, ActiveInv, Active, OwnNumber, Numbered, StartedInv, ReportedInv,
     Waiting, Reported, RequestInv, Gone, ParkedInv, Over, PageInv
<1>2. TypeOK'
  BY SMTT(20) DEF TypeOK, BspPcs, ApPcs, LoopInv, Starting, Finishing, Handing
<1> QED BY <1>1, <1>2

LEMMA PropagateFlagsInv == ASSUME IInv, PropagateFlags PROVE IInv'
<1> USE SmpAssumption DEF IInv, PropagateFlags, csVars, pendingVars, BspGoes
<1>1. (TypeOK /\ LoopInv /\ StartingInv /\ ActiveInv /\ OwnNumber /\ StartedInv /\
      ReportedInv /\ RequestInv /\ ParkedInv /\ PageInv)'
  BY SMTT(20) DEF TypeOK, BspPcs, ApPcs, LoopInv, Starting, Finishing, Handing, StartingInv,
     WriteBack, ActiveInv, Active, OwnNumber, Numbered, StartedInv, ReportedInv,
     Waiting, Reported, RequestInv, Gone, ParkedInv, Over, PageInv
<1> QED BY <1>1

LEMMA AllocSyspageInv == ASSUME IInv, AllocSyspage PROVE IInv'
<1> USE SmpAssumption DEF IInv, AllocSyspage, csVars, pendingVars, BspGoes
<1>1. (TypeOK /\ LoopInv /\ StartingInv /\ ActiveInv /\ OwnNumber /\ StartedInv /\
      ReportedInv /\ RequestInv /\ ParkedInv /\ PageInv)'
  BY SMTT(20) DEF TypeOK, BspPcs, ApPcs, LoopInv, Starting, Finishing, Handing, StartingInv,
     WriteBack, ActiveInv, Active, OwnNumber, Numbered, StartedInv, ReportedInv,
     Waiting, Reported, RequestInv, Gone, ParkedInv, Over, PageInv
<1> QED BY <1>1

LEMMA WriteSyspageInv == ASSUME IInv, WriteSyspage PROVE IInv'
<1> USE SmpAssumption DEF IInv, WriteSyspage, csVars, pendingVars, BspGoes
<1>1. (TypeOK /\ LoopInv /\ StartingInv /\ ActiveInv /\ OwnNumber /\ StartedInv /\
      ReportedInv /\ RequestInv /\ ParkedInv /\ PageInv)'
  BY SMTT(20) DEF TypeOK, BspPcs, ApPcs, LoopInv, Starting, Finishing, Handing, StartingInv,
     WriteBack, ActiveInv, Active, OwnNumber, Numbered, StartedInv, ReportedInv,
     Waiting, Reported, RequestInv, Gone, ParkedInv, Over, PageInv
<1> QED BY <1>1

LEMMA CallTransferHookInv == ASSUME IInv, CallTransferHook PROVE IInv'
<1> USE SmpAssumption DEF IInv, CallTransferHook, csVars, pendingVars
<1>1. (TypeOK /\ LoopInv /\ StartingInv /\ ActiveInv /\ OwnNumber /\ StartedInv /\
      ReportedInv /\ RequestInv /\ PageInv)'
  BY SMTT(20) DEF TypeOK, BspPcs, ApPcs, LoopInv, Starting, Finishing, Handing, StartingInv,
     WriteBack, ActiveInv, Active, OwnNumber, Numbered, StartedInv, ReportedInv,
     Waiting, Reported, RequestInv, Gone, PageInv, Over
<1>2. ParkedInv'
  BY SMTT(20) DEF ParkedInv, Gone, Handing, Over, TypeOK, BspPcs, ApPcs, LoopInv, Starting, Finishing
<1> QED BY <1>1, <1>2

LEMMA TransferNextInv == ASSUME IInv, TransferNext PROVE IInv'
<1> USE SmpAssumption DEF IInv, TransferNext, csVars
<1>1. (TypeOK /\ LoopInv /\ StartingInv /\ ActiveInv /\ OwnNumber /\ StartedInv /\
      ReportedInv /\ RequestInv /\ ParkedInv)'
  BY SMTT(20) DEF TypeOK, BspPcs, ApPcs, LoopInv, Starting, Finishing, Handing, StartingInv,
     WriteBack, ActiveInv, Active, OwnNumber, Numbered, StartedInv, ReportedInv,
     Waiting, Reported, RequestInv, Gone, ParkedInv, Over
<1>2. PageInv'
  BY SMTT(20) DEF PageInv, Gone, Handing, Over, TypeOK, BspPcs, ApPcs, LoopInv, Starting, Finishing
<1> QED BY <1>1, <1>2

LEMMA AnnounceInv == ASSUME IInv, Announce PROVE IInv'
<1> USE SmpAssumption DEF IInv, Announce, csVars, pendingVars, BspGoes
<1>1. (LoopInv /\ StartingInv /\ ActiveInv /\ OwnNumber /\ StartedInv /\ ParkedInv /\
      PageInv)'
  BY SMTT(20) DEF LoopInv, Starting, Finishing, Handing, StartingInv, WriteBack, ActiveInv, Active,
     OwnNumber, Numbered, StartedInv, ParkedInv, Gone, Over, PageInv
<1>2. TypeOK'
  BY SMTT(20) DEF TypeOK, BspPcs, ApPcs, LoopInv, Starting, Finishing, Handing
<1>3. ReportedInv'
  <2>1. \A i \in 1 .. numCpu - 1 : i > idx => Reported(i)
    <3>1. bsp = "announce" /\ ReportedInv /\ TypeOK
      OBVIOUS
    <3> HIDE DEF Announce, IInv
    <3> QED BY SMTT(20), <3>1 DEF ReportedInv, Waiting, TypeOK
  <2>2. \A i : Reported(i)' <=> Reported(i)
    BY DEF Reported
  <2> QED BY <2>1, <2>2 DEF ReportedInv, Waiting, Starting, Finishing
<1>4. RequestInv'
  <2>1. idx \in 1 .. numCpu - 1
    BY DEF LoopInv, Handing, TypeOK
  <2>2. Reported(idx)
    <3>1. bsp = "announce" /\ ReportedInv /\ TypeOK
      OBVIOUS
    <3> HIDE DEF Announce, IInv
    <3> QED BY SMTT(20), <2>1, <3>1 DEF ReportedInv, Waiting, TypeOK
  <2>3. pending = 1 /\ pendingLine = {}
    BY DEF RequestInv
  <2> QED BY SMTT(20), <2>2, <2>3 DEF RequestInv, Reported, Gone
<1> QED BY <1>1, <1>2, <1>3, <1>4

LEMMA WaitPendingInv == ASSUME IInv, WaitPending PROVE IInv'
<1> USE SmpAssumption DEF IInv, WaitPending, csVars, pendingVars, BspGoes
<1>1. (LoopInv /\ StartingInv /\ ActiveInv /\ OwnNumber /\ StartedInv /\ ReportedInv /\
      RequestInv)'
  BY SMTT(20) DEF LoopInv, Starting, Finishing, Handing, TypeOK, BspPcs, ApPcs, StartingInv,
     WriteBack, ActiveInv, Active, OwnNumber, Numbered, StartedInv, ReportedInv,
     Waiting, Reported, RequestInv, Gone
<1>2. TypeOK'
  BY SMTT(20) DEF TypeOK, BspPcs, ApPcs, LoopInv, Starting, Finishing, Handing
<1>3. ParkedInv'
  BY SMTT(20) DEF ParkedInv, Gone, Handing, Over, TypeOK, BspPcs, ApPcs, RequestInv
<1>4. PageInv'
  BY SMTT(30) DEF TypeOK, BspPcs, ApPcs, LoopInv, Starting, Finishing, Handing, StartingInv,
     WriteBack, ActiveInv, Active, OwnNumber, Numbered, StartedInv, ReportedInv,
     Waiting, Reported, RequestInv, Gone, ParkedInv, Over, PageInv
<1> QED BY <1>1, <1>2, <1>3, <1>4

LEMMA StartKernelInv == ASSUME IInv, StartKernel PROVE IInv'
<1> USE SmpAssumption DEF IInv, StartKernel, csVars, pendingVars, BspGoes
<1>1. (TypeOK /\ LoopInv /\ StartingInv /\ ActiveInv /\ OwnNumber /\ StartedInv /\
      ReportedInv /\ RequestInv /\ ParkedInv /\ PageInv)'
  BY SMTT(20) DEF TypeOK, BspPcs, ApPcs, LoopInv, Starting, Finishing, Handing, StartingInv,
     WriteBack, ActiveInv, Active, OwnNumber, Numbered, StartedInv, ReportedInv,
     Waiting, Reported, RequestInv, Gone, ParkedInv, Over, PageInv
<1> QED BY <1>1

LEMMA ApEntryInv == ASSUME IInv, NEW c \in Secondary, ApEntry(c) PROVE IInv'
<1> USE SmpAssumption DEF IInv, ApEntry, bspVars, csVars, pendingVars, ApGoes
<1>1. (TypeOK /\ LoopInv /\ StartingInv /\ ActiveInv /\ OwnNumber /\ StartedInv /\
      ReportedInv /\ RequestInv /\ ParkedInv /\ PageInv)'
  BY SMTT(20) DEF TypeOK, BspPcs, ApPcs, LoopInv, Starting, Finishing, Handing, StartingInv,
     WriteBack, ActiveInv, Active, OwnNumber, Numbered, StartedInv, ReportedInv,
     Waiting, Reported, RequestInv, Gone, ParkedInv, Over, PageInv
<1> QED BY <1>1

LEMMA ApReadNumInv == ASSUME IInv, NEW c \in Secondary, ApReadNum(c) PROVE IInv'
<1> USE SmpAssumption DEF IInv, ApReadNum, bspVars, csVars, pendingVars, ApGoes
<1>1. (LoopInv /\ StartingInv /\ ActiveInv /\ ReportedInv /\ RequestInv /\ ParkedInv /\
      PageInv)'
  BY SMTT(20) DEF LoopInv, Starting, Finishing, Handing, StartingInv, WriteBack, ActiveInv, Active,
     ReportedInv, Waiting, Reported, RequestInv, Gone, ParkedInv, Over, PageInv
<1>2. TypeOK'
  BY SMTT(20) DEF TypeOK, BspPcs, ApPcs, ActiveInv, Active
<1>3. OwnNumber'
  BY SMTT(20) DEF OwnNumber, Numbered, TypeOK, BspPcs, ApPcs, ActiveInv, Active
<1>4. StartedInv'
  BY SMTT(20) DEF StartedInv, Active, Numbered, TypeOK, BspPcs, ApPcs, ActiveInv
<1> QED BY <1>1, <1>2, <1>3, <1>4

LEMMA ApAdjustInv == ASSUME IInv, NEW c \in Secondary, ApAdjust(c) PROVE IInv'
<1> USE SmpAssumption DEF IInv, ApAdjust, bspVars, csVars, pendingVars, ApGoes
<1>1. (TypeOK /\ LoopInv /\ StartingInv /\ ActiveInv /\ OwnNumber /\ StartedInv /\
      ReportedInv /\ RequestInv /\ ParkedInv /\ PageInv)'
  BY SMTT(20) DEF TypeOK, BspPcs, ApPcs, LoopInv, Starting, Finishing, Handing, StartingInv,
     WriteBack, ActiveInv, Active, OwnNumber, Numbered, StartedInv, ReportedInv,
     Waiting, Reported, RequestInv, Gone, ParkedInv, Over, PageInv
<1> QED BY <1>1

LEMMA ApCpuinfoInv == ASSUME IInv, NEW c \in Secondary, ApCpuinfo(c) PROVE IInv'
<1> USE SmpAssumption DEF IInv, ApCpuinfo, bspVars, csVars, pendingVars, ApGoes
<1>1. (TypeOK /\ LoopInv /\ StartingInv /\ ActiveInv /\ OwnNumber /\ StartedInv /\
      ReportedInv /\ RequestInv /\ ParkedInv /\ PageInv)'
  BY SMTT(20) DEF TypeOK, BspPcs, ApPcs, LoopInv, Starting, Finishing, Handing, StartingInv,
     WriteBack, ActiveInv, Active, OwnNumber, Numbered, StartedInv, ReportedInv,
     Waiting, Reported, RequestInv, Gone, ParkedInv, Over, PageInv
<1> QED BY <1>1

LEMMA ApReportInv == ASSUME IInv, NEW c \in Secondary, ApReport(c) PROVE IInv'
<1> USE SmpAssumption DEF IInv, ApReport, bspVars, pendingVars, ApGoes
<1>1. (TypeOK /\ LoopInv /\ ActiveInv /\ OwnNumber /\ StartedInv /\ ReportedInv /\
      RequestInv /\ ParkedInv /\ PageInv)'
  BY SMTT(20) DEF TypeOK, BspPcs, ApPcs, LoopInv, Starting, Finishing, Handing, ActiveInv, Active,
     OwnNumber, Numbered, StartedInv, ReportedInv, Waiting, Reported, RequestInv,
     Gone, ParkedInv, Over, PageInv
<1>2. StartingInv'
  BY SMTT(20) DEF StartingInv, WriteBack, TypeOK, BspPcs, ApPcs, ActiveInv, Active
<1> QED BY <1>1, <1>2

LEMMA ApSeesSyspageInv == ASSUME IInv, NEW c \in Secondary, ApSeesSyspage(c) PROVE IInv'
<1> USE SmpAssumption DEF IInv, ApSeesSyspage, bspVars, csVars, pendingVars, ApGoes
<1>1. (TypeOK /\ LoopInv /\ StartingInv /\ ActiveInv /\ OwnNumber /\ RequestInv /\
      ParkedInv)'
  BY SMTT(20) DEF TypeOK, BspPcs, ApPcs, LoopInv, Starting, Finishing, Handing, StartingInv,
     WriteBack, ActiveInv, Active, OwnNumber, Numbered, RequestInv, Gone, ParkedInv,
     Over
<1>2. StartedInv'
  BY SMTT(30) DEF TypeOK, BspPcs, ApPcs, LoopInv, Starting, Finishing, Handing, StartingInv,
     WriteBack, ActiveInv, Active, OwnNumber, Numbered, StartedInv, ReportedInv,
     Waiting, Reported, RequestInv, Gone, ParkedInv, Over, PageInv
<1>3. ReportedInv'
  BY SMTT(20) DEF ReportedInv, Waiting, Reported, Starting, Finishing, TypeOK, BspPcs, ApPcs, PageInv,
     Gone, Handing, Over
<1>4. PageInv'
  BY SMTT(30) DEF TypeOK, BspPcs, ApPcs, LoopInv, Starting, Finishing, Handing, StartingInv,
     WriteBack, ActiveInv, Active, OwnNumber, Numbered, StartedInv, ReportedInv,
     Waiting, Reported, RequestInv, Gone, ParkedInv, Over, PageInv
<1> QED BY <1>1, <1>2, <1>3, <1>4

LEMMA ApStartNextInv == ASSUME IInv, NEW c \in Secondary, ApStartNext(c) PROVE IInv'
<1> USE SmpAssumption DEF IInv, ApStartNext, bspVars, csVars, pendingVars, ApGoes
<1>1. (TypeOK /\ LoopInv /\ StartingInv /\ ActiveInv /\ OwnNumber /\ StartedInv /\
      ReportedInv /\ RequestInv /\ ParkedInv /\ PageInv)'
  BY SMTT(20) DEF TypeOK, BspPcs, ApPcs, LoopInv, Starting, Finishing, Handing, StartingInv,
     WriteBack, ActiveInv, Active, OwnNumber, Numbered, StartedInv, ReportedInv,
     Waiting, Reported, RequestInv, Gone, ParkedInv, Over, PageInv
<1> QED BY <1>1

LEMMA ApClearPendingInv == ASSUME IInv, NEW c \in Secondary, ApClearPending(c) PROVE IInv'
<1> USE SmpAssumption DEF IInv, ApClearPending, bspVars, csVars, ApGoes
<1>1. (TypeOK /\ LoopInv /\ StartingInv /\ ActiveInv /\ OwnNumber /\ StartedInv /\
      ReportedInv /\ ParkedInv /\ PageInv)'
  BY SMTT(20) DEF TypeOK, BspPcs, ApPcs, LoopInv, Starting, Finishing, Handing, StartingInv,
     WriteBack, ActiveInv, Active, OwnNumber, Numbered, StartedInv, ReportedInv,
     Waiting, Reported, ParkedInv, Gone, Over, PageInv
<1>2. RequestInv'
  BY SMTT(30) DEF TypeOK, BspPcs, ApPcs, LoopInv, Starting, Finishing, Handing, StartingInv,
     WriteBack, ActiveInv, Active, OwnNumber, Numbered, StartedInv, ReportedInv,
     Waiting, Reported, RequestInv, Gone, ParkedInv, Over, PageInv
<1> QED BY <1>1, <1>2

LEMMA ApCleanPendingInv == ASSUME IInv, NEW c \in Secondary, ApCleanPending(c) PROVE IInv'
<1> USE SmpAssumption DEF IInv, ApCleanPending, bspVars, csVars, ApGoes, CleanLine
<1>1. (TypeOK /\ LoopInv /\ StartingInv /\ ActiveInv /\ OwnNumber /\ StartedInv /\
      ReportedInv /\ RequestInv /\ ParkedInv /\ PageInv)'
  BY SMTT(20) DEF TypeOK, BspPcs, ApPcs, LoopInv, Starting, Finishing, Handing, StartingInv,
     WriteBack, ActiveInv, Active, OwnNumber, Numbered, StartedInv, ReportedInv,
     Waiting, Reported, RequestInv, Gone, ParkedInv, Over, PageInv
<1> QED BY <1>1

LEMMA EvictLineInv == ASSUME IInv, EvictLine PROVE IInv'
<1> USE SmpAssumption DEF IInv, EvictLine, bspVars, csVars, pendingVars, CleanLine
<1>1. (TypeOK /\ LoopInv /\ StartingInv /\ OwnNumber /\ StartedInv /\ ReportedInv /\
      RequestInv /\ ParkedInv /\ PageInv)'
  BY SMTT(60) DEF TypeOK, BspPcs, ApPcs, LoopInv, Starting, Finishing, Handing, StartingInv,
     WriteBack, OwnNumber, Numbered, StartedInv, Active, ReportedInv, Waiting,
     Reported, RequestInv, Gone, ParkedInv, Over, PageInv
<1>2. ActiveInv'
  BY SMTT(20) DEF ActiveInv, Active, TypeOK, BspPcs, ApPcs, StartingInv, WriteBack
<1> QED BY <1>1, <1>2

LEMMA InitInv == Init => IInv
BY SmpAssumption DEF Init, IInv, TypeOK, BspPcs, ApPcs, OwnNumber, Numbered, LoopInv, Starting,
   Finishing, Handing, StartingInv, WriteBack, ActiveInv, Active, StartedInv, ReportedInv,
   Waiting, RequestInv, ParkedInv, Over, PageInv, Gone

LEMMA StutterInv == ASSUME IInv, UNCHANGED vars PROVE IInv'
BY DEF vars, bspVars, csVars, pendingVars, IInv, TypeOK, OwnNumber, Numbered, LoopInv,
   StartingInv, ActiveInv, Active, StartedInv, ReportedInv, Reported, RequestInv, ParkedInv,
   PageInv, Gone, Waiting, Starting, Finishing, Handing, Over

LEMMA StepInv == IInv /\ [Next]_vars => IInv'
<1> SUFFICES ASSUME IInv, [Next]_vars PROVE IInv'
  OBVIOUS
<1>1. CASE Bsp
  BY <1>1, InitSmpInv, CallHookInv, StartNextInv, BoardMmuDisableInv, PsciSuccessInv,
     PsciFailureInv, WaitApInv, PropagateFlagsInv, AllocSyspageInv, WriteSyspageInv,
     CallTransferHookInv, TransferNextInv, AnnounceInv, WaitPendingInv, StartKernelInv
     DEF Bsp
<1>2. ASSUME NEW c \in Secondary, Ap(c) PROVE IInv'
  BY <1>2, ApEntryInv, ApReadNumInv, ApAdjustInv, ApCpuinfoInv, ApReportInv,
     ApSeesSyspageInv, ApStartNextInv, ApClearPendingInv, ApCleanPendingInv DEF Ap
<1>3. CASE EvictLine
  BY <1>3, EvictLineInv
<1>4. CASE UNCHANGED vars
  BY <1>4, StutterInv
<1> QED BY <1>1, <1>2, <1>3, <1>4 DEF Next

\* The state invariants of a boot, at every one of its steps.
THEOREM Invariant == Spec => []IInv
BY InitInv, StepInv, PTL DEF Spec

\* The flags hold numbers of CPUs, and no core takes one the page has no room
\* for (init_smp.c, smp_start.S).
THEOREM TypeCorrect == Spec => []TypeOK
<1>1. IInv => TypeOK
  BY DEF IInv
<1> QED BY Invariant, <1>1, PTL

\* No two cores use the one stack the secondary cores share (smp_start.S:52).
THEOREM StackIsExclusive == Spec => []StackExclusive
<1>1. IInv => StackExclusive
  <2> SUFFICES ASSUME IInv, NEW c \in Secondary, NEW d \in Secondary, OnStack(c), OnStack(d)
               PROVE  c = d
    BY DEF StackExclusive
  <2>1. CASE Active(c) /\ Active(d)
    BY SmpAssumption, <2>1 DEF IInv, ActiveInv, TypeOK, Secondary
  <2>2. CASE ap[c] = "startnext" /\ ap[d] = "startnext"
    BY <2>2 DEF IInv, PageInv, OwnNumber, Numbered
  <2>3. ~(Active(c) /\ ap[d] = "startnext") /\ ~(Active(d) /\ ap[c] = "startnext")
    BY DEF IInv, ActiveInv, PageInv
  <2> QED BY <2>1, <2>2, <2>3 DEF OnStack, Active
<1> QED BY Invariant, <1>1, PTL

\* A core has the number of the CPU it was switched on as, although the number
\* may still be in the boot core's cache when it is (board_mmu_disable()).
THEOREM NumbersAreOwn == Spec => []OwnNumber
<1>1. IInv => OwnNumber
  BY DEF IInv
<1> QED BY Invariant, <1>1, PTL

\* The system page has one writer while the secondary cores register.
THEOREM SyspageHasOneWriter == Spec => []SyspageOneWriter
<1>1. IInv => SyspageOneWriter
  BY SmpAssumption DEF IInv, ActiveInv, Active, TypeOK, SyspageOneWriter, Secondary
<1> QED BY Invariant, <1>1, PTL

\* A core enters the callout only in the finished system page.
THEOREM CalloutIsInPlace == Spec => []CalloutInPlace
<1>1. IInv => CalloutInPlace
  BY DEF IInv, PageInv, Gone, Handing, Over, CalloutInPlace, InCallout
<1> QED BY Invariant, <1>1, PTL

\* The kernel finds every CPU of the page in the callout, and no other core on.
THEOREM KernelGetsMachine == Spec => []KernelOwnsMachine
<1>1. IInv => KernelOwnsMachine
  BY DEF IInv, TypeOK, ApPcs, ParkedInv, PageInv, ActiveInv, Active, OwnNumber, Numbered,
         Gone, Over, KernelOwnsMachine, InCallout
<1> QED BY Invariant, <1>1, PTL

\* A zero of smp.pending left in a cache belongs to the request in progress.
THEOREM NoZeroIsStale == Spec => []NoStaleZero
<1>1. IInv => NoStaleZero
  BY DEF IInv, RequestInv, NoStaleZero
<1> QED BY Invariant, <1>1, PTL

-----------------------------------------------------------------------------
(* The refinement: CPUs register, and leave, one at a time and in order.   *)

\* Two CPUs are never given the same core.
OneCorePerCpu ==
    \A i, j \in 1 .. BoardCpus - 1 :
        Affinity[i] \in Secondary /\ Affinity[i] = Affinity[j] => i = j

\* Before the page is written no core has left; before init_smp() none is on.
EarlyInv ==
    /\ page = "written" => bsp \in {"hook2"} \union Handing \union Over
    /\ bsp = "init_smp" => \A c \in Secondary : ap[c] = "off"

RInv == IInv /\ EarlyInv

LEMMA EarlyStep == ASSUME RInv, [Next]_vars PROVE EarlyInv'
<1> USE DEF RInv, EarlyInv, Handing, Over
<1>1. CASE Bsp
  BY <1>1 DEF Bsp, BspGoes, InitSmp, CallHook, StartNext, BoardMmuDisable, PsciSuccess,
     PsciFailure, WaitAp, PropagateFlags, AllocSyspage, WriteSyspage, CallTransferHook,
     TransferNext, Announce, WaitPending, StartKernel
<1>2. ASSUME NEW c \in Secondary, Ap(c) PROVE EarlyInv'
  <2>1. bsp # "init_smp" /\ UNCHANGED <<bsp, page>>
    BY <1>2 DEF Ap, ApGoes, ApEntry, ApReadNum, ApAdjust, ApCpuinfo, ApReport, ApSeesSyspage,
       ApStartNext, ApClearPending, ApCleanPending, bspVars
  <2> QED BY <2>1
<1>3. CASE EvictLine
  BY <1>3 DEF EvictLine, bspVars
<1>4. CASE UNCHANGED vars
  BY <1>4 DEF vars, bspVars
<1> QED BY <1>1, <1>2, <1>3, <1>4 DEF Next

LEMMA RInvariant == Spec => []RInv
<1>1. Init => RInv
  BY InitInv DEF Init, RInv, EarlyInv
<1>2. RInv /\ [Next]_vars => RInv'
  BY StepInv, EarlyStep DEF RInv
<1> QED BY <1>1, <1>2, PTL DEF Spec

\* A step of the boot core that moves no core moves no CPU.
LEMMA SameStates == ASSUME UNCHANGED ap
                    PROVE  UNCHANGED [i \in 1 .. BoardCpus - 1 |-> StateOf(i)]
<1>1. \A i \in 1 .. BoardCpus - 1 : StateOf(i)' = StateOf(i)
  BY DEF StateOf
<1> QED BY <1>1

\* A step of one core moves the one CPU it is.
LEMMA OneMoves ==
    ASSUME OneCorePerCpu, TypeOK, NEW k \in 1 .. BoardCpus - 1, Affinity[k] \in Secondary,
           NEW q, ap' = [ap EXCEPT ![Affinity[k]] = q]
    PROVE  [i \in 1 .. BoardCpus - 1 |-> StateOf(i)]'
           = [[i \in 1 .. BoardCpus - 1 |-> StateOf(i)] EXCEPT ![k] = StateOf(k)']
<1>1. ASSUME NEW i \in 1 .. BoardCpus - 1, i # k PROVE StateOf(i)' = StateOf(i)
  <2>1. Affinity[i] \in Secondary => Affinity[i] # Affinity[k]
    BY <1>1 DEF OneCorePerCpu
  <2>2. Affinity[i] \in Secondary => ap'[Affinity[i]] = ap[Affinity[i]]
    BY <2>1 DEF TypeOK
  <2>3. CASE Affinity[i] \in Secondary
    <3>1. ap'[Affinity[i]] = ap[Affinity[i]] /\ ap[Affinity[i]] \in ApPcs
      BY <2>2, <2>3 DEF TypeOK
    <3>2. PICK r : r = ap[Affinity[i]]
      OBVIOUS
    <3> QED BY <2>3, <3>1, <3>2 DEF StateOf, ApPcs
  <2>4. CASE Affinity[i] \notin Secondary
    BY <2>4 DEF StateOf
  <2> QED BY <2>3, <2>4
<1> QED BY <1>1

\* The start-up steps, seen from outside.
LEMMA BspImplements ==
    ASSUME OneCorePerCpu, RInv, RInv', Bsp PROVE [Promise!Next]_(Promise!vars)
<1> DEFINE S == [i \in 1 .. BoardCpus - 1 |-> StateOf(i)]
<1> USE SmpAssumption DEF RInv, IInv, EarlyInv
<1>0. Promise!Numbers = 1 .. BoardCpus - 1
  BY DEF Promise!Numbers
<1>1. CASE InitSmp
  <2>1. UNCHANGED S
    BY <1>1, SameStates DEF InitSmp
  <2>2. \A i \in 1 .. BoardCpus - 1 : S[i] = "off"
    BY <1>1 DEF InitSmp, BspGoes, StateOf
  <2>3. numCpu' \in 1 .. BoardCpus /\ page # "written" /\ UNCHANGED page
    BY <1>1 DEF InitSmp, BspGoes, TypeOK, Handing, Over
  <2> HIDE DEF S
  <2>4. Promise!Choose
    BY <1>0, <1>1, <2>1, <2>2, <2>3 DEF Promise!Choose, InitSmp, BspGoes, S
  <2> QED BY <2>4 DEF Promise!Next
<1>2. CASE CallHook \/ StartNext \/ BoardMmuDisable \/ PropagateFlags \/ AllocSyspage
           \/ CallTransferHook \/ TransferNext \/ Announce \/ WaitPending
  <2>1. UNCHANGED <<ap, numCpu>> /\ (page' = "written" <=> page = "written")
    BY <1>2 DEF CallHook, StartNext, BoardMmuDisable, PropagateFlags, AllocSyspage,
       CallTransferHook, TransferNext, Announce, WaitPending, BspGoes, Handing, Over
  <2>2. bsp \notin {"kernel", "crashed"} /\ bsp' \notin {"kernel", "crashed"}
    BY <1>2 DEF CallHook, StartNext, BoardMmuDisable, PropagateFlags, AllocSyspage,
       CallTransferHook, TransferNext, Announce, WaitPending, BspGoes
  <2>3. UNCHANGED S
    BY <2>1, SameStates
  <2> QED BY <2>1, <2>2, <2>3 DEF Promise!vars
<1>3. CASE PsciSuccess
  <2>1. idx \in 1 .. numCpu - 1 /\ idx \in 1 .. BoardCpus - 1 /\ Affinity[idx] \in Secondary
    BY <1>3 DEF PsciSuccess, BspGoes, LoopInv, Starting, TypeOK, CpuOnAllowed
  <2>2. PICK k \in 1 .. BoardCpus - 1 : k = idx
    BY <2>1
  <2>3. ap' = [ap EXCEPT ![Affinity[k]] = "entry"] /\ ap[Affinity[k]] = "off"
    BY <1>3, <2>2 DEF PsciSuccess, CpuOnAllowed
  <2>4. S' = [S EXCEPT ![k] = StateOf(k)']
    BY <2>1, <2>2, <2>3, OneMoves
  <2>5. S[k] = "off" /\ StateOf(k)' = "building"
    BY <2>1, <2>2, <2>3 DEF StateOf, TypeOK
  <2>6. \A j \in 1 .. BoardCpus - 1 : j < k => S[j] = "waiting"
    BY <1>3, <2>1, <2>2 DEF PsciSuccess, BspGoes, ReportedInv, Waiting, Starting, Reported,
       StateOf, TypeOK
  <2>7. bsp = "psci" /\ bsp' = "wait_ap" /\ page # "written" /\ UNCHANGED <<numCpu, page>>
    BY <1>3 DEF PsciSuccess, BspGoes, Handing, Over
  <2> HIDE DEF S
  <2>8. Promise!Begin(k)
    BY <1>0, <2>1, <2>2, <2>4, <2>5, <2>6, <2>7
       DEF Promise!Begin, Promise!Before, Promise!Move, S, TypeOK
  <2> QED BY <1>0, <2>8 DEF Promise!Next
<1>4. CASE PsciFailure \/ (WaitAp /\ bsp' = "crashed")
  <2>1. bsp \in {"psci", "wait_ap"} /\ bsp' = "crashed" /\ UNCHANGED <<ap, numCpu, page>>
    BY <1>4 DEF PsciFailure, WaitAp, BspGoes
  <2>2. UNCHANGED S /\ page # "written"
    BY <2>1, SameStates DEF Handing, Over
  <2> HIDE DEF S
  <2>3. Promise!Crash
    BY <2>1, <2>2 DEF Promise!Crash, S
  <2> QED BY <2>3 DEF Promise!Next
<1>5. CASE WaitAp /\ bsp' # "crashed"
  <2>1. bsp = "wait_ap" /\ bsp' \in {"wait_ap", "start_aps"} /\ UNCHANGED <<ap, numCpu, page>>
    BY <1>5 DEF WaitAp
  <2>2. UNCHANGED S
    BY <2>1, SameStates
  <2> QED BY <2>1, <2>2 DEF Promise!vars
<1>6. CASE WriteSyspage
  <2>1. bsp = "write" /\ bsp' = "hook2" /\ page' = "written" /\ UNCHANGED <<ap, numCpu>>
    BY <1>6 DEF WriteSyspage, BspGoes
  <2>2. UNCHANGED S /\ page # "written"
    BY <2>1, SameStates DEF Handing, Over
  <2>3. \A i \in 1 .. BoardCpus - 1 : i < numCpu => S[i] = "waiting"
    BY SMTT(40), <2>1 DEF ReportedInv, Waiting, Finishing, Reported, StateOf, TypeOK
  <2> HIDE DEF S
  <2>4. Promise!Publish
    BY <1>0, <2>1, <2>2, <2>3 DEF Promise!Publish, Promise!Before, S
  <2> QED BY <2>4 DEF Promise!Next
<1>7. CASE StartKernel
  <2>1. bsp = "startnext" /\ bsp' = "kernel" /\ page = "written" /\ UNCHANGED <<ap, numCpu, page>>
    BY <1>7 DEF StartKernel, BspGoes, PageInv, Over
  <2>2. UNCHANGED S
    BY <2>1, SameStates
  <2>3. \A i \in 1 .. BoardCpus - 1 : i < numCpu => S[i] = "parked"
    BY SMTT(40), <2>1 DEF ParkedInv, Over, Gone, StateOf, TypeOK
  <2> HIDE DEF S
  <2>4. Promise!Boot
    BY <1>0, <2>1, <2>2, <2>3 DEF Promise!Boot, Promise!Before, S
  <2> QED BY <2>4 DEF Promise!Next
<1> QED BY <1>1, <1>2, <1>3, <1>4, <1>5, <1>6, <1>7 DEF Bsp

\* A step of a core that stays in its phase moves no CPU.
LEMMA SamePhase ==
    ASSUME TypeOK, NEW c \in Secondary, NEW q, ap' = [ap EXCEPT ![c] = q],
           \/ ap[c] \in {"entry", "read", "adjust", "cpuinfo"}
              /\ q \in {"read", "adjust", "cpuinfo", "report"}
           \/ ap[c] = "startnext" /\ q = "callout"
           \/ ap[c] = "clean" /\ q = "parked"
    PROVE  UNCHANGED [i \in 1 .. BoardCpus - 1 |-> StateOf(i)]
<1>1. ASSUME NEW i \in 1 .. BoardCpus - 1 PROVE StateOf(i)' = StateOf(i)
  <2>1. CASE Affinity[i] \notin Secondary
    BY <2>1 DEF StateOf
  <2>2. CASE Affinity[i] = c
    <3>1. ap'[Affinity[i]] = q
      BY <2>2 DEF TypeOK
    <3> QED BY <2>2, <3>1 DEF StateOf
  <2>3. CASE Affinity[i] \in Secondary /\ Affinity[i] # c
    <3>1. ap'[Affinity[i]] = ap[Affinity[i]] /\ ap[Affinity[i]] \in ApPcs
      BY <2>3 DEF TypeOK
    <3>2. PICK r : r = ap[Affinity[i]]
      OBVIOUS
    <3> QED BY <2>3, <3>1, <3>2 DEF StateOf, ApPcs
  <2> QED BY <2>1, <2>2, <2>3
<1> QED BY <1>1

\* A core that knows its number is the core of that CPU.
LEMMA NumberOf ==
    ASSUME IInv, NEW c \in Secondary, Numbered(c)
    PROVE  num[c] \in 1 .. numCpu - 1 /\ num[c] \in 1 .. BoardCpus - 1 /\ Affinity[num[c]] = c
<1>1. num[c] \in 1 .. numCpu - 1 /\ Affinity[num[c]] = c
  BY DEF IInv, OwnNumber
<1>2. numCpu \in 1 .. BoardCpus /\ BoardCpus \in Nat
  BY SmpAssumption DEF IInv, TypeOK
<1> QED BY <1>1, <1>2

\* The steps of the other cores, seen from outside.
LEMMA ApImplements ==
    ASSUME OneCorePerCpu, RInv, RInv', NEW c \in Secondary, Ap(c)
    PROVE  [Promise!Next]_(Promise!vars)
<1> DEFINE S == [i \in 1 .. BoardCpus - 1 |-> StateOf(i)]
<1> USE SmpAssumption DEF RInv, IInv, EarlyInv
<1>0. Promise!Numbers = 1 .. BoardCpus - 1
  BY DEF Promise!Numbers
<1>1. UNCHANGED <<bsp, numCpu, page, idx>>
  BY DEF Ap, ApGoes, ApEntry, ApReadNum, ApAdjust, ApCpuinfo, ApReport, ApSeesSyspage,
     ApStartNext, ApClearPending, ApCleanPending, bspVars
<1>2. CASE ApEntry(c) \/ ApReadNum(c) \/ ApAdjust(c) \/ ApCpuinfo(c) \/ ApStartNext(c)
           \/ ApCleanPending(c)
  <2>1. PICK q : /\ ap' = [ap EXCEPT ![c] = q]
                 /\ \/ ap[c] \in {"entry", "read", "adjust", "cpuinfo"}
                       /\ q \in {"read", "adjust", "cpuinfo", "report"}
                    \/ ap[c] = "startnext" /\ q = "callout"
                    \/ ap[c] = "clean" /\ q = "parked"
    BY <1>2 DEF ApGoes, ApEntry, ApReadNum, ApAdjust, ApCpuinfo, ApStartNext, ApCleanPending
  <2>2. UNCHANGED S
    BY <2>1, SamePhase
  <2> QED BY <1>1, <2>2 DEF Promise!vars
<1>3. CASE ApReport(c)
  <2>1. ap[c] = "report" /\ ap' = [ap EXCEPT ![c] = "available"]
    BY <1>3 DEF ApReport, ApGoes
  <2>2. PICK k \in 1 .. BoardCpus - 1 : k = idx /\ Affinity[k] = c
    BY <2>1 DEF ActiveInv, Active, TypeOK
  <2>3. S' = [S EXCEPT ![k] = StateOf(k)']
    BY <2>1, <2>2, OneMoves
  <2>4. S[k] = "building" /\ StateOf(k)' = "waiting"
    BY <2>1, <2>2 DEF StateOf, TypeOK
  <2> HIDE DEF S
  <2>5. Promise!Registered(k)
    BY <1>0, <1>1, <2>3, <2>4 DEF Promise!Registered, Promise!Move, S
  <2> QED BY <1>0, <2>5 DEF Promise!Next
<1>4. CASE ApSeesSyspage(c)
  <2>1. /\ ap[c] = "available" /\ ap' = [ap EXCEPT ![c] = "startnext"]
        /\ syspage_available = num[c]
    BY <1>4 DEF ApSeesSyspage, ApGoes
  <2>2. PICK k \in 1 .. BoardCpus - 1 : k = num[c] /\ Affinity[k] = c /\ k \in 1 .. numCpu - 1
    BY <2>1, NumberOf DEF Numbered
  <2>3. S' = [S EXCEPT ![k] = StateOf(k)']
    BY <2>1, <2>2, OneMoves
  <2>4. S[k] = "waiting" /\ StateOf(k)' = "leaving"
    BY <2>1, <2>2 DEF StateOf, TypeOK
  <2>5. bsp = "wait_pending" /\ idx = k
    <3>1. bsp' = "wait_pending" /\ num'[c] = idx'
      BY <2>1 DEF PageInv, TypeOK
    <3> QED BY <1>1, <1>4, <2>2, <3>1 DEF ApSeesSyspage
  <2>6. page = "written" /\ \A j \in 1 .. BoardCpus - 1 : j < k => S[j] = "parked"
    <3>1. page = "written"
      BY <2>5 DEF PageInv, Handing
    <3>2. ASSUME NEW j \in 1 .. BoardCpus - 1, j < k PROVE S[j] = "parked"
      <4>1. j \in 1 .. numCpu - 1 /\ j < idx
        BY SMTT(40), <2>2, <2>5, <3>2 DEF TypeOK
      <4>2. Affinity[j] \in Secondary /\ ap[Affinity[j]] \in {"clean", "parked"}
        BY <2>5, <4>1 DEF ParkedInv, Handing, Gone
      <4> QED BY <4>2 DEF StateOf
    <3> QED BY <3>1, <3>2
  <2> HIDE DEF S
  <2>7. Promise!Leave(k)
    BY <1>0, <1>1, <2>2, <2>3, <2>4, <2>5, <2>6
       DEF Promise!Leave, Promise!Before, Promise!Move, S
  <2> QED BY <1>0, <2>7 DEF Promise!Next
<1>5. CASE ApClearPending(c)
  <2>1. ap[c] = "callout" /\ ap' = [ap EXCEPT ![c] = "clean"]
    BY <1>5 DEF ApClearPending, ApGoes
  <2>2. PICK k \in 1 .. BoardCpus - 1 : k = num[c] /\ Affinity[k] = c
    BY <2>1, NumberOf DEF Numbered
  <2>3. S' = [S EXCEPT ![k] = StateOf(k)']
    BY <2>1, <2>2, OneMoves
  <2>4. S[k] = "leaving" /\ StateOf(k)' = "parked"
    BY <2>1, <2>2 DEF StateOf, TypeOK
  <2> HIDE DEF S
  <2>5. Promise!Park(k)
    BY <1>0, <1>1, <2>3, <2>4 DEF Promise!Park, Promise!Move, S
  <2> QED BY <1>0, <2>5 DEF Promise!Next
<1> QED BY <1>2, <1>3, <1>4, <1>5 DEF Ap

LEMMA InitImplements == Init => Promise!Init
BY SmpAssumption DEF Init, Promise!Init, Promise!Numbers, StateOf

LEMMA StepImplements ==
    ASSUME OneCorePerCpu, RInv, RInv', [Next]_vars PROVE [Promise!Next]_(Promise!vars)
<1>1. CASE Bsp
  BY <1>1, BspImplements
<1>2. ASSUME NEW c \in Secondary, Ap(c) PROVE [Promise!Next]_(Promise!vars)
  BY <1>2, ApImplements
<1>3. CASE EvictLine \/ UNCHANGED vars
  <2>1. UNCHANGED <<bsp, numCpu, page, ap>>
    BY <1>3 DEF EvictLine, vars, bspVars
  <2>2. UNCHANGED [i \in 1 .. BoardCpus - 1 |-> StateOf(i)]
    BY <2>1, SameStates
  <2> QED BY <2>1, <2>2 DEF Promise!vars
<1> QED BY <1>1, <1>2, <1>3 DEF Next

\* When no two CPUs are given the same core, the boot is one of BringUp: the
\* CPUs register one at a time and in order, the system page is published when
\* all have, they leave one at a time and in order, then the kernel starts
\* (start_aps(), transfer_aps()).
THEOREM BringUpImplemented == OneCorePerCpu => (Spec => ImplementsBringUp)
<1> SUFFICES ASSUME OneCorePerCpu PROVE Spec => ImplementsBringUp
  OBVIOUS
<1>1. RInv /\ RInv' /\ [Next]_vars => [Promise!Next]_(Promise!vars)
  BY StepImplements
<1> QED BY InitImplements, RInvariant, <1>1, PTL DEF Spec, ImplementsBringUp, Promise!Spec

-----------------------------------------------------------------------------
(* The hand-over to the kernel.                                            *)

\* A CPU that may still store exclusively has loaded what is there, and no
\* more than that word is in its hands.
ExclusiveInv ==
    \A c \in Secondary :
        /\ pc[c] = "exchange" /\ c \in monitor => startAddr = x4[c] /\ x4[c] # Spin!None
        /\ pc[c] = "put back" => x4[c] = Spin!Shutdown

\* A shut-down ends the starts.
ShutdownInv ==
    /\ startAddr = Spin!Shutdown => shutdown
    /\ shutdown => startAddr # Spin!Entry
    /\ \A c \in Secondary : x4[c] = Spin!Shutdown => shutdown

\* Nothing is stored before the kernel runs, and only parked cores are in the
\* loop.
KernelInv ==
    /\ startAddr # Spin!None \/ shutdown => bsp = "kernel"
    /\ \A c \in Secondary : /\ x4[c] # Spin!None => bsp = "kernel"
                            /\ pc[c] = "kernel" => bsp = "kernel"
                            /\ pc[c] # "outside" => ap[c] = "parked"

InKernel == {c \in Secondary : pc[c] = "kernel"}

SpinInv == SpinTypeOK /\ OnePerAddress /\ ShutdownKept /\ ExclusiveInv /\ ShutdownInv /\ KernelInv
HInv == IInv /\ SpinInv

LEMMA SecondaryFinite == IsFiniteSet(Secondary)
<1>1. 1 \in Int /\ NumCores - 1 \in Int
  BY SmpAssumption
<1> QED BY <1>1, FS_Interval DEF Secondary

LEMMA InKernelFinite == IsFiniteSet(InKernel) /\ Cardinality(InKernel) \in Nat
<1>1. InKernel \subseteq Secondary
  BY DEF InKernel
<1>2. IsFiniteSet(InKernel)
  BY <1>1, SecondaryFinite, FS_Subset
<1> QED BY <1>2, FS_CardinalityType

\* A step that lets no CPU into the kernel leaves their number alone.
LEMMA SameInKernel ==
    ASSUME \A c \in Secondary : pc'[c] = "kernel" <=> pc[c] = "kernel"
    PROVE  InKernel' = InKernel
BY DEF InKernel, Secondary

\* OnePerAddress, in the terms of InKernel, before a step and after it.
CountInv == Cardinality(InKernel) + (IF startAddr = Spin!Entry THEN 1 ELSE 0) = starts

LEMMA Count == (OnePerAddress <=> CountInv) /\ (OnePerAddress' <=> CountInv')
<1>1. OnePerAddress <=> CountInv
  BY Zenon DEF OnePerAddress, Spin!OnePerAddress, CountInv, InKernel, Cardinality,
     Spin!Cardinality
<1>2. OnePerAddress' <=> CountInv'
  BY Zenon DEF OnePerAddress, Spin!OnePerAddress, CountInv, InKernel, Cardinality,
     Spin!Cardinality
<1> QED BY <1>1, <1>2

\* What a store, a shut-down or a release does to the two sides of CountInv.
LEMMA OneMoreStart ==
    ASSUME CountInv, InKernel' = InKernel, starts' = starts + 1,
           startAddr # Spin!Entry, startAddr' = Spin!Entry
    PROVE  CountInv'
<1>1. Cardinality(InKernel) + 0 = starts
  BY DEF CountInv
<1>2. Cardinality(InKernel) + 1 = starts + 1
  BY <1>1, InKernelFinite
<1> QED BY <1>2 DEF CountInv

LEMMA NoMoreStarts ==
    ASSUME CountInv, InKernel' = InKernel, starts' = starts,
           startAddr # Spin!Entry, startAddr' # Spin!Entry
    PROVE  CountInv'
BY DEF CountInv

LEMMA OneReleased ==
    ASSUME CountInv, Cardinality(InKernel') = Cardinality(InKernel) + 1, starts' = starts,
           startAddr = Spin!Entry, startAddr' # Spin!Entry
    PROVE  CountInv'
<1>1. Cardinality(InKernel) + 1 = starts
  BY DEF CountInv
<1>2. Cardinality(InKernel') + 0 = starts'
  BY <1>1, InKernelFinite
<1> QED BY <1>2 DEF CountInv

USE DEF Spin!None, Spin!Entry, Spin!Shutdown

\* The start-up steps do not touch the loop, and let no parked core go.
LEMMA StartupSpin == ASSUME HInv, StartupStep PROVE SpinInv'
<1> USE DEF HInv, SpinInv, StartupStep, spinVars
<1>1. /\ bsp = "kernel" => bsp' = "kernel"
      /\ \A c \in Secondary : ap[c] = "parked" => ap'[c] = "parked"
  <2>1. CASE Bsp
    <3>1. bsp # "kernel"
      BY <2>1 DEF Bsp, BspGoes, InitSmp, CallHook, StartNext, BoardMmuDisable,
         PsciSuccess, PsciFailure, WaitAp, PropagateFlags, AllocSyspage,
         WriteSyspage, CallTransferHook, TransferNext, Announce, WaitPending, StartKernel
    <3>2. CASE PsciSuccess
      BY <3>1, <3>2 DEF PsciSuccess, CpuOnAllowed, IInv, TypeOK
    <3>3. CASE ~PsciSuccess
      <4>1. UNCHANGED ap
        BY <2>1, <3>3 DEF Bsp, InitSmp, CallHook, StartNext, BoardMmuDisable,
           PsciFailure, WaitAp, PropagateFlags, AllocSyspage,
           WriteSyspage, CallTransferHook, TransferNext, Announce, WaitPending, StartKernel
      <4> QED BY <3>1, <4>1
    <3> QED BY <3>2, <3>3
  <2>2. ASSUME NEW c \in Secondary, Ap(c)
        PROVE  /\ bsp = "kernel" => bsp' = "kernel"
               /\ \A d \in Secondary : ap[d] = "parked" => ap'[d] = "parked"
    BY <2>2 DEF IInv, TypeOK, Ap, ApGoes, ApEntry, ApReadNum, ApAdjust, ApCpuinfo, ApReport,
       ApSeesSyspage, ApStartNext, ApClearPending, ApCleanPending, bspVars
  <2>3. CASE EvictLine
    BY <2>3 DEF EvictLine, bspVars
  <2> QED BY <2>1, <2>2, <2>3 DEF Next
<1>2. (SpinTypeOK /\ OnePerAddress /\ ShutdownKept /\ ExclusiveInv /\ ShutdownInv)'
  BY DEF SpinTypeOK, Spin!TypeOK, OnePerAddress, Spin!OnePerAddress, ShutdownKept,
     Spin!ShutdownKept, ExclusiveInv, ShutdownInv
<1>3. KernelInv'
  BY <1>1 DEF KernelInv
<1> QED BY <1>2, <1>3

\* A CPU enters the loop with nothing in its hands.
LEMMA EnterLoopSpin == ASSUME HInv, NEW c \in Secondary, EnterLoop(c) PROVE SpinInv'
<1> USE DEF HInv, SpinInv, SpinTypeOK, Spin!TypeOK, Spin!Pcs
<1>1. /\ pc[c] = "outside" /\ pc' = [pc EXCEPT ![c] = "load"] /\ ap[c] = "parked"
      /\ UNCHANGED <<vars, startAddr, x4, monitor, event, starts, shutdown>>
  BY DEF EnterLoop, Spin!Enter, Spin!Goes
<1>2. (SpinTypeOK /\ ShutdownKept /\ ExclusiveInv /\ ShutdownInv)'
  BY <1>1 DEF ShutdownKept, Spin!ShutdownKept, ExclusiveInv, ShutdownInv
<1>3. InKernel' = InKernel
  BY <1>1, SameInKernel
<1>4. OnePerAddress'
  BY <1>1, <1>3 DEF OnePerAddress, Spin!OnePerAddress, InKernel
<1>5. KernelInv'
  BY <1>1 DEF KernelInv, vars, bspVars
<1> QED BY <1>2, <1>4, <1>5

\* The kernel stores an address, or -1, where the last one has been taken.
LEMMA KernelSpin == ASSUME HInv, KernelStep PROVE SpinInv'
<1> USE DEF HInv, SpinInv, SpinTypeOK, Spin!TypeOK, Spin!Pcs
<1>1. bsp = "kernel" /\ UNCHANGED <<vars, pc, x4>> /\ startAddr = Spin!None /\ ~shutdown
  BY DEF KernelStep, Spin!KernelStart, Spin!KernelShutdown
<1>2. monitor' = {} /\ event' \subseteq Secondary
  BY DEF KernelStep, Spin!KernelStart, Spin!KernelShutdown, Spin!Store
<1>3. InKernel' = InKernel
  BY <1>1, SameInKernel
<1>4. CountInv
  BY Count, Zenon
<1>5. KernelInv'
  BY <1>1 DEF KernelInv, vars, bspVars
<1>6. CASE Spin!KernelStart(numCpu - 1)
  <2>1. startAddr' = Spin!Entry /\ starts' = starts + 1 /\ shutdown' = shutdown
    BY <1>6 DEF Spin!KernelStart, Spin!Store
  <2>2. SpinTypeOK'
    <3>1. starts' \in Nat
      <4>1. starts \in Nat
        OBVIOUS
      <4> HIDE DEF HInv, SpinInv, SpinTypeOK, Spin!TypeOK
      <4> QED BY <2>1, <4>1
    <3>2. shutdown' \in BOOLEAN
      BY <2>1, Zenon
    <3>3. startAddr' \in {Spin!None, Spin!Entry, Spin!Shutdown}
      BY <2>1
    <3> QED BY <1>1, <1>2, <3>1, <3>2, <3>3
  <2>3. (ShutdownKept /\ ExclusiveInv /\ ShutdownInv)'
    BY <1>1, <1>2, <2>1 DEF ShutdownKept, Spin!ShutdownKept, ExclusiveInv, ShutdownInv
  <2>4. CountInv'
    <3>1. startAddr # Spin!Entry
      BY <1>1
    <3> HIDE DEF HInv, SpinInv, SpinTypeOK, Spin!TypeOK
    <3> QED BY <1>3, <1>4, <2>1, <3>1, OneMoreStart
  <2> QED BY <1>5, <2>2, <2>3, <2>4, Count
<1>7. CASE Spin!KernelShutdown
  <2>1. startAddr' = Spin!Shutdown /\ starts' = starts /\ shutdown' = TRUE
    BY <1>7 DEF Spin!KernelShutdown, Spin!Store
  <2>2. SpinTypeOK'
    BY <1>1, <1>2, <2>1
  <2>3. (ShutdownKept /\ ExclusiveInv /\ ShutdownInv)'
    BY <1>1, <1>2, <2>1 DEF ShutdownKept, Spin!ShutdownKept, ExclusiveInv, ShutdownInv
  <2>4. CountInv'
    <3>1. startAddr # Spin!Entry /\ startAddr' # Spin!Entry
      BY <1>1, <2>1
    <3> HIDE DEF HInv, SpinInv, SpinTypeOK, Spin!TypeOK
    <3> QED BY <1>3, <1>4, <2>1, <3>1, NoMoreStarts
  <2> QED BY <1>5, <2>2, <2>3, <2>4, Count
<1> QED BY <1>6, <1>7 DEF KernelStep

\* The steps of the loop that take nothing.
LEMMA WaitSpin ==
    ASSUME HInv, NEW c \in Secondary, UNCHANGED vars,
           \/ Spin!LoadExclusive(c) \/ Spin!WaitForEvent(c) \/ Spin!StoreFails(c)
           \/ Spin!SendEvent(c) \/ Spin!LoseMonitor(c)
    PROVE  SpinInv'
<1> USE DEF HInv, SpinInv, SpinTypeOK, Spin!TypeOK, Spin!Pcs
<1>1. UNCHANGED <<startAddr, starts, shutdown>>
  BY DEF Spin!LoadExclusive, Spin!WaitForEvent, Spin!StoreFails, Spin!SendEvent, Spin!LoseMonitor
<1>2. /\ pc[c] # "kernel" /\ pc[c] # "outside" /\ pc'[c] # "kernel"
      /\ \A d \in Secondary \ {c} : pc'[d] = pc[d] /\ x4'[d] = x4[d]
  BY DEF Spin!LoadExclusive, Spin!WaitForEvent, Spin!StoreFails, Spin!SendEvent, Spin!LoseMonitor,
     Spin!Goes
<1>3. SpinTypeOK'
  BY DEF Spin!LoadExclusive, Spin!WaitForEvent, Spin!StoreFails, Spin!SendEvent, Spin!LoseMonitor,
     Spin!Goes
<1>4. ShutdownKept' /\ ExclusiveInv' /\ ShutdownInv'
  <2>1. ShutdownKept'
    <3>1. pc[c] # "put back"
      BY DEF Spin!LoadExclusive, Spin!WaitForEvent, Spin!StoreFails, Spin!SendEvent,
         Spin!LoseMonitor, Spin!Goes
    <3> QED BY <1>1, <1>2, <3>1 DEF ShutdownKept, Spin!ShutdownKept
  <2>2. CASE Spin!LoadExclusive(c)
    <3>1. /\ x4' = [x4 EXCEPT ![c] = startAddr] /\ monitor' = monitor \union {c}
          /\ pc'[c] = (IF startAddr = Spin!None THEN "wfe" ELSE "exchange")
      BY <2>2 DEF Spin!LoadExclusive
    <3>2. ExclusiveInv'
      BY <1>1, <1>2, <3>1 DEF ExclusiveInv
    <3>3. ShutdownInv'
      BY <1>1, <1>2, <3>1 DEF ShutdownInv
    <3> QED BY <2>1, <3>2, <3>3
  <2>3. CASE ~Spin!LoadExclusive(c)
    <3>1. UNCHANGED x4 /\ monitor' \subseteq monitor /\ pc'[c] \in {"load", "halt", pc[c]}
      BY <2>3 DEF Spin!WaitForEvent, Spin!StoreFails, Spin!SendEvent, Spin!LoseMonitor, Spin!Goes
    <3>2. ExclusiveInv'
      BY <1>1, <1>2, <3>1 DEF ExclusiveInv
    <3>3. ShutdownInv'
      BY <1>1, <3>1 DEF ShutdownInv
    <3> QED BY <2>1, <3>2, <3>3
  <2> QED BY <2>2, <2>3
<1>5. InKernel' = InKernel
  BY <1>2, SameInKernel
<1>6. OnePerAddress'
  BY <1>1, <1>5 DEF OnePerAddress, Spin!OnePerAddress, InKernel
<1>7. KernelInv'
  <2>1. x4'[c] \in {x4[c], startAddr} /\ pc'[c] # "outside"
    BY DEF Spin!LoadExclusive, Spin!WaitForEvent, Spin!StoreFails, Spin!SendEvent,
       Spin!LoseMonitor, Spin!Goes
  <2> QED BY <1>1, <1>2, <2>1 DEF KernelInv, vars, bspVars
<1> QED BY <1>3, <1>4, <1>6, <1>7

\* The -1 goes back to where it came from.
LEMMA PutBackSpin ==
    ASSUME HInv, NEW c \in Secondary, UNCHANGED vars, Spin!PutBack(c) PROVE SpinInv'
<1> USE DEF HInv, SpinInv, SpinTypeOK, Spin!TypeOK, Spin!Pcs
<1>1. /\ pc[c] = "put back" /\ pc' = [pc EXCEPT ![c] = "sev"] /\ x4[c] = Spin!Shutdown /\ shutdown
      /\ startAddr' = Spin!Shutdown /\ monitor' = {} /\ event' = event \union monitor
      /\ UNCHANGED <<x4, starts, shutdown>>
  BY DEF Spin!PutBack, Spin!Goes, Spin!Store, ExclusiveInv, ShutdownInv
<1>2. SpinTypeOK'
  BY <1>1
<1>3. (ShutdownKept /\ ExclusiveInv /\ ShutdownInv)'
  BY <1>1 DEF ShutdownKept, Spin!ShutdownKept, ExclusiveInv, ShutdownInv
<1>4. InKernel' = InKernel
  BY <1>1, SameInKernel
<1>5. OnePerAddress'
  BY <1>1, <1>4 DEF OnePerAddress, Spin!OnePerAddress, InKernel, ShutdownInv
<1>6. KernelInv'
  BY <1>1 DEF KernelInv, vars, bspVars
<1> QED BY <1>2, <1>3, <1>5, <1>6

\* The store-exclusive takes the word that is there: an address lets one more
\* CPU go, a -1 is in that CPU's hands.
LEMMA StoreExclusiveSpin ==
    ASSUME HInv, NEW c \in Secondary, UNCHANGED vars, Spin!StoreExclusive(c) PROVE SpinInv'
<1> USE DEF HInv, SpinInv, SpinTypeOK, Spin!TypeOK, Spin!Pcs
<1>1. /\ pc[c] = "exchange" /\ pc' = [pc EXCEPT ![c] = Spin!Taken(c)]
      /\ startAddr = x4[c] /\ x4[c] # Spin!None
      /\ startAddr' = Spin!None /\ monitor' = {} /\ event' = event \union (monitor \ {c})
      /\ UNCHANGED <<x4, starts, shutdown>>
  BY DEF Spin!StoreExclusive, Spin!Goes, ExclusiveInv
<1>2. \/ x4[c] = Spin!Shutdown /\ pc' = [pc EXCEPT ![c] = "put back"]
      \/ x4[c] = Spin!Entry /\ pc' = [pc EXCEPT ![c] = "kernel"]
  BY <1>1 DEF Spin!Taken
<1>3. SpinTypeOK'
  BY <1>1, <1>2
<1>4. (ShutdownKept /\ ExclusiveInv /\ ShutdownInv)'
  BY <1>1, <1>2 DEF ShutdownKept, Spin!ShutdownKept, ExclusiveInv, ShutdownInv
<1>5. OnePerAddress'
  <2>1. CASE x4[c] = Spin!Shutdown
    <3>1. InKernel' = InKernel
      BY <1>1, <1>2, <2>1, SameInKernel
    <3>2. CountInv'
      BY <1>1, <2>1, <3>1, Count DEF CountInv
    <3> QED BY <3>2, Count
  <2>2. CASE x4[c] = Spin!Entry
    <3>1. InKernel' = InKernel \union {c} /\ c \notin InKernel
      BY <1>1, <1>2, <2>2 DEF InKernel, Secondary
    <3>2. Cardinality(InKernel') = Cardinality(InKernel) + 1
      BY <3>1, InKernelFinite, FS_AddElement
    <3>3. CountInv
      BY Count, Zenon
    <3>4. CountInv'
      <4>1. startAddr = Spin!Entry /\ startAddr' # Spin!Entry /\ starts' = starts
        BY <1>1, <2>2
      <4> HIDE DEF HInv, SpinInv, SpinTypeOK, Spin!TypeOK
      <4> QED BY <3>2, <3>3, <4>1, OneReleased
    <3> QED BY <3>4, Count
  <2> QED BY <1>2, <2>1, <2>2
<1>6. KernelInv'
  BY <1>1, <1>2 DEF KernelInv, vars, bspVars
<1> QED BY <1>3, <1>4, <1>5, <1>6

LEMMA HandOffInitInv == HandOffInit => HInv
<1> SUFFICES ASSUME HandOffInit PROVE HInv
  OBVIOUS
<1>1. IInv
  BY InitInv DEF HandOffInit
<1>2. SpinTypeOK /\ ShutdownKept /\ ExclusiveInv /\ ShutdownInv /\ KernelInv
  BY DEF HandOffInit, Spin!Init, SpinTypeOK, Spin!TypeOK, Spin!Pcs, ShutdownKept,
     Spin!ShutdownKept, ExclusiveInv, ShutdownInv, KernelInv
<1>3. OnePerAddress
  <2>1. InKernel = {}
    BY DEF HandOffInit, Spin!Init, InKernel
  <2>2. Cardinality(InKernel) = 0
    BY <2>1, FS_EmptySet
  <2>3. CountInv
    BY <2>2 DEF HandOffInit, Spin!Init, CountInv
  <2> QED BY <2>3, Count
<1> QED BY <1>1, <1>2, <1>3 DEF HInv, SpinInv

LEMMA HandOffStepInv == HInv /\ [HandOffNext]_allVars => HInv'
<1> SUFFICES ASSUME HInv, [HandOffNext]_allVars PROVE HInv'
  OBVIOUS
<1>1. CASE StartupStep
  BY <1>1, StepInv, StartupSpin DEF StartupStep, HInv
<1>2. ASSUME UNCHANGED vars PROVE IInv'
  BY <1>2, StutterInv DEF HInv
<1>3. CASE KernelStep
  BY <1>2, <1>3, KernelSpin DEF KernelStep, HInv
<1>4. ASSUME NEW c \in Secondary, EnterLoop(c) PROVE HInv'
  BY <1>2, <1>4, EnterLoopSpin DEF EnterLoop, HInv
<1>5. ASSUME NEW c \in Secondary, SpinStep(c) PROVE HInv'
  BY <1>2, <1>5, WaitSpin, PutBackSpin, StoreExclusiveSpin DEF SpinStep, Spin!Cpu, HInv
<1>6. CASE UNCHANGED allVars
  <2>1. UNCHANGED vars /\ UNCHANGED spinVars
    BY <1>6 DEF allVars
  <2>2. SpinInv'
    BY <2>1 DEF HInv, SpinInv, SpinTypeOK, Spin!TypeOK, OnePerAddress, Spin!OnePerAddress,
       ShutdownKept, Spin!ShutdownKept, ExclusiveInv, ShutdownInv, KernelInv, spinVars, vars,
       bspVars
  <2> QED BY <1>2, <2>1, <2>2 DEF HInv
<1> QED BY <1>1, <1>3, <1>4, <1>5, <1>6 DEF HandOffNext

\* The invariants of the start-up program and of the loop hold together in the
\* composed system.
THEOREM HandOffInvariant == HandOffSpec => []HInv
BY HandOffInitInv, HandOffStepInv, PTL DEF HandOffSpec

\* Each address the kernel stores releases one CPU, a shut-down is kept for
\* all, and a CPU runs the kernel only after the hand-over and only if the
\* system page lists it (callout_smp_spin.S, startnext.c).
THEOREM HandedOver == HandOffSpec => []HandedOverOnce
<1>1. HInv => HandedOverOnce
  <2> SUFFICES ASSUME HInv PROVE HandedOverOnce
    OBVIOUS
  <2>1. KernelAfterHandOff
    <3> SUFFICES ASSUME NEW c \in Secondary, pc[c] = "kernel"
                 PROVE  bsp = "kernel" /\ ap[c] = "parked" /\ num[c] \in 1 .. numCpu - 1
      BY DEF KernelAfterHandOff
    <3>1. bsp = "kernel" /\ ap[c] = "parked"
      BY DEF HInv, SpinInv, KernelInv
    <3>2. num[c] \in 1 .. numCpu - 1
      BY <3>1 DEF HInv, IInv, OwnNumber, Numbered
    <3> QED BY <3>1, <3>2
  <2> QED BY <2>1 DEF HInv, SpinInv, HandedOverOnce
<1> QED BY HandOffInvariant, <1>1, PTL
LEMMA StartupSafe == HandOffSpec => Init /\ [][Next]_vars
<1>1. HandOffInit => Init
  BY DEF HandOffInit
<1>2. [HandOffNext]_allVars => [Next]_vars
  BY DEF HandOffNext, StartupStep, KernelStep, EnterLoop, SpinStep, allVars, vars
<1> QED BY <1>1, <1>2, PTL DEF HandOffSpec

\* What happens in the loop leaves the promise of the bring-up alone: the
\* composed system implements BringUp too, when no two CPUs are given the same
\* core.
THEOREM ComposedBringUp == OneCorePerCpu => (HandOffSpec => ImplementsBringUp)
<1> SUFFICES ASSUME OneCorePerCpu PROVE HandOffSpec => ImplementsBringUp
  OBVIOUS
<1>1. Init => RInv
  BY InitInv DEF Init, RInv, EarlyInv
<1>2. RInv /\ [Next]_vars => RInv'
  BY StepInv, EarlyStep DEF RInv
<1>3. RInv /\ RInv' /\ [Next]_vars => [Promise!Next]_(Promise!vars)
  BY StepImplements
<1> QED BY StartupSafe, InitImplements, <1>1, <1>2, <1>3, PTL
        DEF ImplementsBringUp, Promise!Spec

=============================================================================
