------------------------------ MODULE Watchdog ------------------------------
(***************************************************************************)
(* wdtkick (support/wdtkick/main.c), the process that pets the watchdog of *)
(* the secure firmware: it reads its options, asks for what it needs, and  *)
(* then makes one SMC and sleeps, for ever.  Time passes in milliseconds.  *)
(* External: the firmware's watchdog, which is on or off as the firmware   *)
(* left it and counts down from Timeout; the scheduler, which runs a       *)
(* thread that no busy thread outranks within Lag; and what the process    *)
(* manager grants.                                                         *)
(***************************************************************************)
EXTENDS Integers, Sequences

CONSTANTS
    Lines,       \* command lines: options with their numbers
    OutOfRange,  \* a number that strtoul() answers with ERANGE
    Timeout, Lag,
    Rivals,      \* the highest priority of threads that do not sleep
    DelayWrap    \* 2^32: delay() takes an unsigned int

WatchdogAssumption ==
    /\ \A l \in Lines : l \in Seq({"i", "t", "p"} \X Int)
    /\ Timeout \in Nat /\ Lag \in Nat /\ Rivals \in Int /\ DelayWrap \in Nat \ {0}
ASSUME WatchdogAssumption

PSCI_ARM_WDT_SMC_ID == 1

VARIABLES
    line,        \* argv
    optind,      \* the option that getopt() looks at next
    wdi,         \* smc_id, kick_time and priority
    pc,
    prio,        \* the priority the thread runs at
    denied,      \* pthread_setschedparam() has failed
    wait,        \* what is left of delay()
    late,        \* how long the thread has been ready to run
    on, left,    \* the watchdog: counts, what is left of its period
    inTime       \* history: there was time for a first kick

proc == <<line, optind, wdi, pc, prio, denied, inTime>>
vars == <<proc, wait, late, on, left>>

Init ==
    /\ line \in Lines /\ optind = 1
    /\ wdi = [i |-> PSCI_ARM_WDT_SMC_ID, t |-> -1, p |-> 10]
    /\ pc = "parse" /\ prio = 10 /\ denied = FALSE /\ wait = 0 /\ late = 0
    /\ on \in BOOLEAN /\ left \in 1 .. Timeout /\ inTime = FALSE

\* Slip: errno is not looked at.
ParseUnchecked(opt, number) == [wdi EXCEPT ![opt] = number]
\* The last number of each option counts; one out of range is passed over.
Parse(opt, number) == IF number = OutOfRange THEN wdi ELSE [wdi EXCEPT ![opt] = number]

wd_parse_options ==
    /\ pc = "parse"
    /\ IF optind <= Len(line)
       THEN wdi' = Parse(line[optind][1], line[optind][2]) /\ optind' = optind + 1 /\ UNCHANGED pc
       ELSE pc' = "evaluate" /\ UNCHANGED <<wdi, optind>>
    /\ UNCHANGED <<line, prio, denied, wait, late, on, left, inTime>>

\* -1 is the kick time of a command line without one.
wd_evaluate_params ==
    /\ pc = "evaluate"
    /\ pc' = IF wdi.i = 0 \/ wdi.t = -1 THEN "exit" ELSE "configure"
    /\ UNCHANGED <<line, optind, wdi, prio, denied, wait, late, on, left, inTime>>

\* The ability, the I/O level and the background are needed; the process goes
\* on when only its priority is refused.
wd_configure_thread ==
    /\ pc = "configure"
    /\ \/ pc' = "exit" /\ UNCHANGED <<prio, denied, inTime>>
       \/ /\ pc' = "loop" /\ inTime' = (left > Lag)
          /\ \/ prio' = wdi.p /\ UNCHANGED denied
             \/ wdi.p # prio /\ denied' = TRUE /\ UNCHANGED prio
    /\ late' = 0
    /\ UNCHANGED <<line, optind, wdi, wait, on, left>>

\* SMCWD_PET, then delay().
smc_call(id) == left' = IF on /\ id = PSCI_ARM_WDT_SMC_ID THEN Timeout ELSE left
delay(ms) == wait' = ms % DelayWrap
Kick ==
    /\ pc = "loop" /\ wait = 0
    /\ smc_call(wdi.i) /\ delay(wdi.t) /\ late' = 0
    /\ UNCHANGED <<proc, on>>

\* A millisecond.  When the count is at 0 the board has been reset.
Sleeps == pc = "loop" /\ wait > 0
Tick ==
    /\ Sleeps \/ prio < Rivals \/ late < Lag
    /\ IF Sleeps THEN wait' = wait - 1 /\ UNCHANGED late
       ELSE late' = (IF late > Lag THEN late ELSE late + 1) /\ UNCHANGED wait
    /\ left' = IF on THEN left - 1 ELSE left
    /\ UNCHANGED <<proc, on>>

Next ==
    /\ left > 0
    /\ wd_parse_options \/ wd_evaluate_params \/ wd_configure_thread \/ Kick \/ Tick

Spec == Init /\ [][Next]_vars

-----------------------------------------------------------------------------
\* The number an option was last given that is one.
Gives(k, o) == line[k][1] = o /\ line[k][2] # OutOfRange
Asked(o, default) ==
    LET given == {k \in 1 .. Len(line) : Gives(k, o)}
    IN  IF given = {} THEN default ELSE line[CHOOSE k \in given : \A j \in given : j <= k][2]

\* Once wdtkick has reached its loop in time, the watchdog never resets the
\* board, if the command line asks for the firmware's watchdog, a priority
\* that is granted and not outranked, and kicks that leave time for the
\* thread to be late.
DogIsFed ==
    /\ pc = "loop" /\ inTime /\ ~denied
    /\ Asked("i", PSCI_ARM_WDT_SMC_ID) = PSCI_ARM_WDT_SMC_ID
    /\ Asked("p", 10) >= Rivals /\ Asked("t", -1) \in 0 .. Timeout - Lag - 1
    => left > 0
=============================================================================
