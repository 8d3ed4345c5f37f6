-------------------------------- MODULE Qtime --------------------------------
(***************************************************************************)
(* The time section of the system page: init_qtime() sets it up once       *)
(* (alloc_qtime.c, init_qtime_v8gt.c), turns the frequency of the timer    *)
(* into a period with a decimal exponent (invert_timer_freq.c), and the    *)
(* library converts ticks and nanoseconds with it (timer_tick2ns.c,        *)
(* timer_ns2tick.c).  The machine's words are smaller than the code's.     *)
(***************************************************************************)
EXTENDS Integers

CONSTANTS
    UINT_MAX,    \* of the period, the frequency and the loop
    UlongWrap,   \* 2^64 in the code: unsigned long arithmetic is modulo this
    Nano,        \* 9 in the code: the digits of a nanosecond
    Freqs,       \* what -f or cntfrq_el0 may say
    Ticks, Nanos,\* arguments of the conversions
    Clocks       \* what tells the boot time: startup info or an RTC

\* UINT_MAX / 10 - 10 is a bound on the period.
QtimeAssumption ==
    /\ UINT_MAX \in Nat /\ UINT_MAX >= 110 /\ UlongWrap \in Nat \ {0} /\ Nano \in Nat
    /\ Freqs \subseteq 1 .. UINT_MAX /\ Ticks \subseteq Nat /\ Nanos \subseteq Nat
ASSUME QtimeAssumption

None == -1

VARIABLES
    phase,
    option, cntfrq,      \* timer_freq as -f left it; the register
    clock, suppressed,   \* the boot time; MISC_FLAG_SUPPRESS_BOOTTIME
    host,                \* the processor is in EL2 host mode
    qtime,               \* the section; None until it is allocated
    freq, quot, period, scale,   \* invert_timer_freq()
    argument, answer     \* the last conversion

look == <<option, cntfrq, clock, suppressed, host>>
loop == <<freq, quot, period, scale>>
qtimeVars == <<phase, look, qtime, loop, argument, answer>>

QtimeInit ==
    /\ phase = "init"
    /\ option \in Freqs \union {0} /\ cntfrq \in Freqs \union {0} /\ (option # 0 => cntfrq = 0)
    /\ clock \in Clocks /\ suppressed \in BOOLEAN /\ host \in BOOLEAN
    /\ qtime = [epoch |-> None]
    /\ freq = 0 /\ quot = 0 /\ period = 0 /\ scale = 0
    /\ argument = <<>> /\ answer = 0

\* The section is allocated and given its boot time once.
alloc_qtime ==
    IF qtime.epoch # None THEN qtime
    ELSE [epoch |-> 1970, boot_time |-> IF suppressed THEN 0 ELSE clock,
          intr |-> 0, cycles_per_sec |-> 0, timer_period |-> 0, timer_scale |-> 0]

\* Slip: a large frequency is not shortened.
ShortenedNever(f) == [freq |-> f, scale |-> 0]

\* So that ten times a remainder fits.
Shortened(f) ==
    IF f > UINT_MAX \div 10 THEN [freq |-> f \div 10, scale |-> -1] ELSE [freq |-> f, scale |-> 0]

\* Without an option the frequency is the register's; none at all is fatal.
init_qtime_v8gt(vcnt_intr, hvcnt_intr) ==
    LET hz == IF option = 0 THEN cntfrq ELSE option
    IN  /\ phase = "init"
        /\ IF hz = 0 THEN phase' = "crash" /\ qtime' = alloc_qtime /\ UNCHANGED loop
           ELSE /\ qtime' = [alloc_qtime EXCEPT !.intr = IF host THEN hvcnt_intr ELSE vcnt_intr,
                                                !.cycles_per_sec = hz]
                /\ phase' = "divide" /\ freq' = Shortened(hz).freq
                /\ scale' = Shortened(hz).scale /\ quot' = 1 /\ period' = 0
        /\ UNCHANGED <<look, argument, answer>>
init_qtime == init_qtime_v8gt(27, 28)

\* One digit of the long division of 1 by the frequency.
invert_timer_freq ==
    LET digits == (period * 10 + quot \div freq) % (UINT_MAX + 1)
        rem == quot % freq
        stop == digits >= UINT_MAX \div 10 - 10 \/ rem = 0
    IN  /\ phase = "divide"
        /\ period' = digits
        /\ IF stop THEN /\ phase' = "timed" /\ UNCHANGED <<scale, quot>>
                        /\ qtime' = [qtime EXCEPT !.timer_period = digits, !.timer_scale = scale]
           ELSE /\ scale' = scale - 1 /\ quot' = (rem * 10) % (UINT_MAX + 1)
                /\ UNCHANGED <<phase, qtime>>
        /\ UNCHANGED <<look, freq, argument, answer>>

-----------------------------------------------------------------------------
(* The conversions.                                                        *)

\* Slip: the product as it comes out.
ProductUnchecked(p, ticks) == (p * ticks) % UlongWrap

\* The product, or 0 when it does not come back by division; a division by 0
\* gives 0 on this machine.
Product(p, ticks) ==
    LET ns == (p * ticks) % UlongWrap
    IN  IF p # 0 /\ ns \div p = ticks THEN ns ELSE 0

Ten[k \in Nat] == IF k = 0 THEN 1 ELSE 10 * Ten[k - 1]

\* The period and the nanoseconds after k divisions of both by ten; where
\* nothing is left the product is taken anew.
Passes(ticks, power) ==
    LET pass[k \in 0 .. power] ==
            IF k = 0
            THEN [period |-> qtime.timer_period, ns |-> Product(qtime.timer_period, ticks)]
            ELSE LET before == pass[k - 1]
                     p == before.period \div 10
                     ns == before.ns \div 10
                 IN  [period |-> p, ns |-> IF ns = 0 THEN Product(p, ticks) ELSE ns]
    IN  pass[power].ns
timer_tick2ns(ticks) ==
    LET power == -Nano - qtime.timer_scale
    IN  IF power >= 0 THEN Passes(ticks, power)
        ELSE (Passes(ticks, 0) * Ten[-power]) % UlongWrap

timer_ns2tick(ns) ==
    LET tick == timer_tick2ns(1) IN IF tick = 0 THEN None ELSE ns \div tick

Convert ==
    /\ phase = "timed"
    /\ \/ \E t \in Ticks : argument' = <<"ticks", t>> /\ answer' = timer_tick2ns(t)
       \/ \E n \in Nanos : argument' = <<"ns", n>> /\ answer' = timer_ns2tick(n)
    /\ UNCHANGED <<phase, look, qtime, loop>>

QtimeNext == init_qtime \/ invert_timer_freq \/ Convert
QtimeSpec == QtimeInit /\ [][QtimeNext]_qtimeVars

-----------------------------------------------------------------------------
Hz == qtime.cycles_per_sec
Power == -Nano - qtime.timer_scale

\* The period is 1/frequency cut after as many digits as fit, whatever the
\* frequency: one unit more would be too long, it is not too long itself but
\* for the last digit of a shortened frequency, and it is exact or could not
\* take a digit more (invert_timer_freq.c: "the highest possible precision").
PeriodIsExact ==
    phase = "timed" =>
        LET p == qtime.timer_period
            one == Ten[-qtime.timer_scale]
        IN  /\ p \in 1 .. UINT_MAX
            /\ (p + 1) * Hz > one
            /\ p * Hz <= one + (IF Hz > UINT_MAX \div 10 THEN 9 * p ELSE 0)
            /\ p >= UINT_MAX \div 10 - 10 \/ p * (IF Hz > UINT_MAX \div 10 THEN 10 * (Hz \div 10) ELSE Hz) = one

\* Ticks in nanoseconds are never more than they last, and fall short by less
\* than one per tick and one more when nothing overflows: 0 says that it did
\* or that it is less than one.
ConversionsAgree ==
    argument # <<>> /\ Power >= 0 =>
        LET exact == qtime.timer_period * argument[2]
            unit == Ten[Power]
        IN  /\ argument[1] = "ticks" =>
                  /\ answer * unit <= exact
                  /\ answer = 0 \/ (answer + 1 + argument[2]) * unit > exact
                  /\ exact >= unit /\ exact < UlongWrap => answer > 0
            /\ argument[1] = "ns" /\ answer # None => timer_tick2ns(1) * answer <= argument[2]

\* The period is the inverse of the frequency "to the highest possible
\* precision" (invert_timer_freq.c), and conversions both ways agree with it:
\* 0 where they overflow, never longer than they last (timer_tick2ns.c).
TicksAgree == PeriodIsExact /\ ConversionsAgree
=============================================================================
