----------------------------- MODULE MCDevices -----------------------------
(***************************************************************************)
(* What startup, the kernel's callouts and wdtkick ask of devices: the     *)
(* console, the clock that keeps the date, the timer, the watchdog, and    *)
(* the ways to release the other cores of boards that have no hand-off of  *)
(* their own.  The five share no state, so a behaviour is one of one part; *)
(* the last two take turns in the same variables.                        *)
(***************************************************************************)
EXTENDS Watchdog, Console, Qtime, FiniteSets, TLC

VARIABLES
    part, s1, s2, s3, s4, s5, s6, s7, s8, s9, s10, s11, s12, s13, s14, s15, s16, s17

-----------------------------------------------------------------------------
MCChips == {"8250", "8250_32b", "pl011", "linflexd", "tegra", "geni"}

NoConsole ==
    /\ chip = "none" /\ mmio = FALSE /\ stage = "none" /\ call = NoCall /\ asked = 0 /\ prev = "none"
    /\ tx = <<>> /\ sent = <<>> /\ lost = {} /\ powered = FALSE /\ cmd = "idle" /\ done = FALSE
    /\ rx = <<>> /\ rxcall = "none" /\ arrived = 0 /\ keys = <<>> /\ eaten = <<>> /\ brk = FALSE
    /\ switches = 0 /\ faults = 0

-----------------------------------------------------------------------------
\* Every clock with its settings; dates around leap days and year ends.
D(y, m, d, h) == [year |-> y, mon |-> m, day |-> d, hour |-> h, min |-> 59, sec |-> 58]
Dates == {D(1970, 1, 1, 0), D(1972, 2, 29, 13), D(1972, 3, 1, 11), D(1999, 12, 31, 23),
          D(2000, 2, 29, 12), D(2000, 3, 1, 1), D(2001, 1, 1, 0), D(2039, 6, 15, 14),
          D(2069, 11, 30, 22), D(2070, 1, 1, 5), D(2096, 12, 31, 20), D(2099, 12, 31, 9)}
Old(s) == {d \in s : d.year < 2070}
With(c, o, b, h, r, s) == {[chip |-> c, osc |-> o, binary |-> b, h24 |-> h, cent_reg |-> r, date |-> d] : d \in s}
Set(c, b, h, r, s) == With(c, 1, b, h, r, s)
\* An mc146818 that does not run, an IXP200, a ds1743 that must be started.
Halted == {D(1999, 12, 31, 23)}
MCReadings ==
    UNION {Set("mc146818", b, h, -1, Old(Dates)) : b, h \in BOOLEAN}
    \union UNION {Set("mc146818", b, TRUE, 50, Dates) : b \in BOOLEAN}
    \union UNION {Set(c, FALSE, TRUE, -1, Old(Dates)) : c \in {"rtc72423", "m48t5x", "m48t37", "ds1386"}}
    \union UNION {Set(c, FALSE, TRUE, 1, Dates) : c \in {"ds1743", "ds15x1", "m48t37", "ds1386"}}
    \union UNION {With("mc146818", o, TRUE, TRUE, 50, Halted) : o \in {0, 2, 3, 4}}
    \union With("ds1743", 0, FALSE, TRUE, 1, Halted)

Clock == INSTANCE Rtc WITH
    Readings <- MCReadings, Lo <- 3, Tens <- 2, MaxTicks <- 3,
    reading <- s1, t <- s2, frozen <- s3, uip <- s4, rose <- s5, at <- s6, got <- s7, pass
    <- s8, ticks <- s9, seen <- s10, result <- s11, osc <- s12

\* The date and the running clock share nothing: one of them varies.
DateOrTime == s1.date \in Halted \/ s2 = Clock!Age - 1

-----------------------------------------------------------------------------
\* Three cores, numbered apart from the order of their nodes; a tree that
\* lacks a release address, and one that lacks an id.
MCCores == {"a", "b", "c"}
MCIdOf == "a" :> 2 @@ "b" :> 1 @@ "c" :> 3
Node(i, p) == [id |-> i, props |-> p]
Both == {"release", "reg"}
Tree(third) == 0 :> Node(0, {}) @@ 1 :> Node(2, Both) @@ 2 :> Node(1, Both) @@ 3 :> Node(3, third)
MCTrees == {Tree(Both), Tree({"reg"}), Tree({"release"})}
MCPsciNodes == {[cpu_on |-> o, conduit |-> c] : o \in BOOLEAN, c \in {"smc", "hvc"}}

Release == INSTANCE CpuRelease WITH
    Methods <- {"psci", "spin", "fdt"}, Cores <- MCCores, IdOf <- MCIdOf,
    Trees <- MCTrees, PsciNodes <- MCPsciNodes,
    method <- s1, tree <- s2, psci <- s3, shared <- s4, todo <- s5, cpu <- s6, num <- s7,
    counted <- s8, start_addr <- s9, released <- s10, shim_id <- s11, ev <- s12, pc <- s13,
    index <- s14, excl <- s15, asked <- s16, refused <- s17

-----------------------------------------------------------------------------
\* Command lines that repeat an option, give numbers out of range or
\* negative, ask for another service, and kick as late as can be or later.
Huge == 99
MCLines == {<<>>, <<<<"t", 4>>>>, <<<<"t", 5>>>>, <<<<"t", 6>>>>, <<<<"t", 18>>>>, <<<<"t", 0>>>>, <<<<"t", -1>>>>,
            <<<<"t", 4>>, <<"p", 12>>>>, <<<<"p", 9>>, <<"t", 5>>>>, <<<<"t", 5>>, <<"p", 11>>, <<"i", 2>>>>,
            <<<<"t", 7>>, <<"t", Huge>>, <<"t", 5>>>>, <<<<"i", Huge>>, <<"t", 5>>, <<"p", 11>>>>,
            <<<<"i", 0>>, <<"t", 5>>>>, <<<<"p", Huge>>, <<"t", 3>>, <<"p", -5>>>>}

NoDog ==
    /\ line = <<>> /\ optind = 1 /\ wdi = 0 /\ pc = "none" /\ prio = 0 /\ denied = FALSE
    /\ wait = 0 /\ late = 0 /\ on = FALSE /\ left = 1 /\ inTime = FALSE

-----------------------------------------------------------------------------
\* Words of four digits and a little more than eight; frequencies that
\* divide a power of ten, that do not, and that are too long by a digit.
MCFreqs == (1 .. 40) \union {96, 125, 192, 256, 640, 997, 998, 999, 1000, 1001, 1024, 1920, 5000, 9998, 9999}

NoTime ==
    /\ phase = "none" /\ option = 0 /\ cntfrq = 0 /\ clock = 0 /\ suppressed = FALSE /\ host = FALSE
    /\ qtime = [epoch |-> None] /\ freq = 0 /\ quot = 0 /\ period = 0 /\ scale = 0
    /\ argument = <<>> /\ answer = 0

-----------------------------------------------------------------------------
others == <<s1, s2, s3, s4, s5, s6, s7, s8, s9, s10, s11, s12, s13, s14, s15, s16, s17>>
devices == <<part, vars, consoleVars, qtimeVars, others>>

NoOthers == /\ s1 = 0 /\ s2 = 0 /\ s3 = 0 /\ s4 = 0 /\ s5 = 0 /\ s6 = 0 /\ s7 = 0 /\ s8 = 0
            /\ s9 = 0 /\ s10 = 0 /\ s11 = 0 /\ s12 = 0 /\ s13 = 0 /\ s14 = 0 /\ s15 = 0
            /\ s16 = 0 /\ s17 = 0
DevicesInit ==
    \/ part = "console" /\ ConsoleInit /\ NoDog /\ NoTime /\ NoOthers
    \/ part = "dog" /\ Init /\ NoConsole /\ NoTime /\ NoOthers
    \/ part = "time" /\ QtimeInit /\ NoDog /\ NoConsole /\ NoOthers
    \/ /\ NoDog /\ NoConsole /\ NoTime
       /\ \/ part = "release" /\ Release!Init
          \/ /\ part = "clock" /\ Clock!Init /\ DateOrTime
             /\ s13 = 0 /\ s14 = 0 /\ s15 = 0 /\ s16 = 0 /\ s17 = 0

DevicesNext ==
    /\ UNCHANGED part
    /\ \/ part = "console" /\ ConsoleNext /\ UNCHANGED <<vars, qtimeVars, others>>
       \/ part = "dog" /\ Next /\ UNCHANGED <<consoleVars, qtimeVars, others>>
       \/ part = "time" /\ QtimeNext /\ UNCHANGED <<vars, consoleVars, others>>
       \/ /\ UNCHANGED <<vars, consoleVars, qtimeVars>>
          /\ \/ part = "release" /\ Release!Next
             \/ part = "clock" /\ Clock!Next /\ UNCHANGED <<s13, s14, s15, s16, s17>>

\* The fairness of each part, as its module states it.
Fairness ==
    /\ WF_devices(part = "console" /\ Routine /\ UNCHANGED <<part, vars, qtimeVars, others>>)
    /\ WF_devices(part = "console" /\ Send /\ UNCHANGED <<part, vars, qtimeVars, others>>)
    /\ WF_devices(part = "release" /\ Release!Boot /\ UNCHANGED <<part, vars, consoleVars, qtimeVars>>)
    /\ \A c \in MCCores :
          WF_devices(part = "release" /\ Release!Core(c) /\ UNCHANGED <<part, vars, consoleVars, qtimeVars>>)
DevicesSpec == DevicesInit /\ [][DevicesNext]_devices /\ Fairness

-----------------------------------------------------------------------------
(* The properties of each part; its module states and explains each.       *)
\* The time read is one the clock showed during the call, never a mixture of
\* two ("Loop while time inconsistent"), and becomes its seconds since 1970;
\* the registers are left counting (hw_rtc_*.c, calc_time_t.c).
TimeIsTrue == part = "clock" => Clock!TimeIsTrue /\ Clock!DateIsTrue

\* Every start that was asked for leads to a running core, the one meant and
\* no other, unless it is refused: no signal is lost to a core that is not
\* asleep yet (spin_smp.c, spin_shim.S).
AskedFor(i) == part = "release" /\ i \in s16
Answered(i) == part = "release" => s17 \/ Release!Meant(i) \intersect Release!Running # {}
StartsTheOneAsked == part = "release" => Release!StartsTheOneAsked
AskedRuns == []StartsTheOneAsked /\ \A i \in 1 .. 3 : []<>(AskedFor(i) => Answered(i))
=============================================================================
