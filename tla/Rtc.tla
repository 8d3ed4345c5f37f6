-------------------------------- MODULE Rtc --------------------------------
(***************************************************************************)
(* Reading the time-of-day chip once at startup: hw_rtc_*.c, bcd2bin.c and *)
(* calc_time_t.c.  The chip counts on while its registers are read one by  *)
(* one, so the routine must notice or prevent an update half way; and it   *)
(* turns the registers of seven chips, each with conventions of its own,   *)
(* into seconds since 1970.                                                *)
(***************************************************************************)
EXTENDS Integers, Sequences, FiniteSets, SequencesExt

CONSTANTS Readings,     \* what is read: [chip, osc, binary, h24, cent_reg, date]
          Lo, Tens,     \* the clock of the model: Lo * Tens seconds a minute,
          MaxTicks      \* two minutes an hour, two hours a century; its ticks

VARIABLES reading,      \* the chip, its settings and the date it shows
          t,            \* the time of the running clock, in seconds
          osc,          \* what drives it: the bits of SRA, or whether it runs
          frozen,       \* what the registers show when updates are stopped, or -1
          uip, rose,    \* mc146818: UIP; it rose since it was first looked at
          at,           \* the next register to read; 0 before the call
          got,          \* what the registers read so far showed
          pass, ticks,  \* ticks during this pass and in all
          seen,         \* times the clock has shown since the call began
          result        \* the time read, or -1
vars == <<reading, t, osc, frozen, uip, rose, at, got, pass, ticks, seen, result>>

Minute == Lo * Tens
Hour == 2 * Minute
Age == 2 * Hour
chip == reading.chip

-----------------------------------------------------------------------------
(* The seven ways of reading.                                              *)

\* A register of the time v; the hour's stands for all up to the year's.
Register(r, v) ==
    CASE r = "lo" -> v % Lo
      [] r = "tens" -> (v % Minute) \div Lo
      [] r = "sec" -> v % Minute
      [] r = "min" -> (v % Hour) \div Minute
      [] r = "hour" -> (v % Age) \div Hour
      [] r = "cent" -> v \div Age

\* The century is read where there is one, with the rest or after the loop.
HasCentury == \/ chip \in {"ds1743", "ds15x1"}
              \/ chip \in {"mc146818", "m48t37", "ds1386"} /\ reading.cent_reg >= 0
cent == IF HasCentury THEN <<"cent">> ELSE <<>>

rtc_time_mc146818Once == <<"uip", "sec", "min", "hour">> \o cent
rtc_time_mc146818 == <<"uip", "sec", "min", "hour", "uip">> \o cent
rtc_time_rtc72423 == <<"lo", "tens", "min", "hour", "lo">>
rtc_time_ds1743 == <<"sec", "min", "hour">> \o cent
rtc_time_ds15x1 == <<"sec", "min", "hour">> \o cent \o <<"sec">>
rtc_time_m48t5x == <<"sec", "min", "hour", "sec">>
rtc_time_m48t37 == <<"sec", "min", "hour">> \o cent \o <<"sec">>
rtc_time_ds1386 == <<"sec", "min", "hour", "sec">> \o cent
Order == CASE chip = "mc146818" -> rtc_time_mc146818
           [] chip = "rtc72423" -> rtc_time_rtc72423
           [] chip = "ds1743" -> rtc_time_ds1743
           [] chip = "ds15x1" -> rtc_time_ds15x1
           [] chip = "m48t5x" -> rtc_time_m48t5x
           [] chip = "m48t37" -> rtc_time_m48t37
           [] chip = "ds1386" -> rtc_time_ds1386

\* Bits 6 and 5 of an mc146818's SRA: 1 lets a clock with a crystal of 32 kHz
\* run; those of an ATI IXP200 read 0 whatever is written to them.
IXP200 == 4
Runs == osc \in {1, IXP200}
Divider == osc % IXP200

Shown == IF frozen = -1 THEN t ELSE frozen

\* ds1743 stops the registers and starts its oscillator; ds15x1 makes sure that
\* they are updated.
TransferUnset == UNCHANGED <<frozen, osc>>
Transfer == /\ frozen' = CASE chip = "ds1743" -> Shown
                           [] chip = "ds15x1" -> -1
                           [] OTHER -> frozen
            /\ osc' = IF chip = "ds1743" THEN 1 ELSE osc
chip_access == /\ at = 0 /\ at' = 1 /\ Transfer
               /\ seen' = {t} /\ pass' = 0
               /\ chip = "mc146818" => Divider = 1
               /\ UNCHANGED <<reading, t, uip, rose, got, ticks, result>>

\* "Bail if the clock is not running": set the bits, and if that can be seen put
\* them back and answer 0; if not they are none.
TestDivider == /\ at = 0 /\ chip = "mc146818" /\ Divider # 1
               /\ at' = -1 /\ osc' = (IF osc = IXP200 THEN osc ELSE 3)
               /\ seen' = {t}
               /\ UNCHANGED <<reading, t, frozen, uip, rose, got, pass, ticks, result>>
Bail == /\ at = -1
        /\ IF Divider # 0 THEN at' = Len(Order) + 1 /\ osc' = reading.osc /\ result' = 0
                          ELSE at' = 1 /\ UNCHANGED <<osc, result>>
        /\ UNCHANGED <<reading, t, frozen, uip, rose, got, pass, ticks, seen>>

Again == at' = 1 /\ got' = <<>> /\ pass' = 0 /\ rose' = FALSE
Proceed(r, v) == /\ at' = at + 1
                 /\ got' = [q \in DOMAIN got \union {r} |-> IF q = r THEN v ELSE got[q]]
                 /\ IF at = 1 THEN pass' = 0 /\ rose' = FALSE ELSE UNCHANGED <<pass, rose>>

\* A register that is read again says whether the time is consistent.
Read ==
    /\ at \in 1 .. Len(Order)
    /\ LET r == Order[at]
           v == IF r = "uip" THEN uip ELSE Register(r, Shown)
           changed == r \in DOMAIN got /\ got[r] # v
       IN  IF (r = "uip" /\ uip) \/ changed THEN Again ELSE Proceed(r, v)
    /\ UNCHANGED <<reading, t, osc, frozen, uip, ticks, seen, result>>

\* The century of an mc146818 in BCD is not what was read.
KnowsCentury == HasCentury /\ (chip = "mc146818" => reading.binary)
Value == (IF chip = "rtc72423" THEN got.lo + Lo * got.tens ELSE got.sec)
         + Minute * got.min + Hour * got.hour + (IF KnowsCentury THEN Age * got.cent ELSE 0)

\* ds1743 lets the chip update again.
Finish == /\ at = Len(Order) + 1 /\ result = -1 /\ result' = Value
          /\ frozen' = (IF chip = "ds1743" THEN -1 ELSE frozen)
          /\ UNCHANGED <<reading, t, osc, uip, rose, at, got, pass, ticks, seen>>

-----------------------------------------------------------------------------
(* The chip, external.  An mc146818 raises UIP before it updates; a pass   *)
(* is shorter than that window, and than ten seconds.                      *)

Tick == /\ Runs /\ result = -1 /\ ticks < MaxTicks /\ pass + 1 < Lo
        /\ chip = "mc146818" => uip
        /\ t' = t + 1 /\ ticks' = ticks + 1 /\ pass' = pass + 1
        /\ seen' = seen \union {t + 1}
        /\ UNCHANGED <<reading, osc, frozen, uip, rose, at, got, result>>
UipRises == /\ chip = "mc146818" /\ Runs /\ ~uip /\ uip' = TRUE /\ rose' = TRUE
            /\ UNCHANGED <<reading, t, osc, frozen, at, got, pass, ticks, seen, result>>
UipFalls == /\ chip = "mc146818" /\ uip /\ ~(rose /\ at \in 2 .. 5)
            /\ uip' = FALSE
            /\ UNCHANGED <<reading, t, osc, frozen, rose, at, got, pass, ticks, seen, result>>

\* The call begins in the last hour of a century or shortly before it.
Init == /\ reading \in Readings
        /\ t \in Hour - MaxTicks .. Age - 1 /\ osc = reading.osc
        /\ frozen \in IF chip = "ds15x1" THEN {-1, 0} ELSE {-1}
        /\ uip \in IF chip = "mc146818" /\ Runs THEN BOOLEAN ELSE {FALSE}
        /\ rose = FALSE /\ at = 0 /\ got = <<>> /\ pass = 0 /\ ticks = 0 /\ seen = {} /\ result = -1
Next == chip_access \/ TestDivider \/ Bail \/ Read \/ Finish \/ Tick \/ UipRises \/ UipFalls
Spec == Init /\ [][Next]_vars

-----------------------------------------------------------------------------
(* From the registers to seconds since 1970, as days and seconds of a day. *)

Bcd(n) == 16 * (n \div 10) + (n % 10)
bcd2bin(a) == 1000 * ((a \div 4096) % 16) + 100 * ((a \div 256) % 16)
              + 10 * ((a \div 16) % 16) + (a % 16)

\* What the registers hold: BCD or, in an mc146818, binary; 12-hour format
\* there counts 12, 1 .. 11 with bit 7 for the afternoon.
Coded(n) == IF reading.binary THEN n ELSE Bcd(n)
Held == LET d == reading.date
            h == IF d.hour % 12 = 0 THEN 12 ELSE d.hour % 12
        IN  [sec |-> Coded(d.sec), min |-> Coded(d.min), mday |-> Coded(d.day),
             mon |-> Coded(d.mon), year |-> Coded(d.year % 100), cent |-> Coded(d.year \div 100),
             hour |-> IF reading.h24 THEN Coded(d.hour)
                      ELSE Coded(h) + (IF d.hour >= 12 THEN 128 ELSE 0)]
Decoded(n) == IF reading.binary THEN n ELSE bcd2bin(n)

PivotLate(year) == IF year < 50 THEN year + 100 ELSE year
Pivot(year) == IF year < 70 THEN year + 100 ELSE year
MonthAsHeld(mon) == mon
MonthFromZero(mon) == mon - 1

\* The century register's value, as each routine takes it.
Century ==
    CASE chip = "mc146818" /\ ~reading.binary -> bcd2bin(reading.cent_reg)
      [] chip = "m48t37" -> IF Held.cent > 19 THEN bcd2bin(Held.cent) ELSE 19
      [] OTHER -> Decoded(Held.cent)
Year == LET y == Decoded(Held.year) IN
        CASE ~HasCentury -> Pivot(y)
          [] HasCentury /\ chip \in {"ds1743", "m48t37"} -> y + 100 * (Century - 19)
          [] HasCentury /\ chip \notin {"ds1743", "m48t37"} -> y + (IF Century = 20 THEN 100 ELSE 0)
Tm == [sec |-> Decoded(Held.sec), min |-> Decoded(Held.min), mday |-> Decoded(Held.mday),
       mon |-> IF chip = "rtc72423" THEN MonthAsHeld(Decoded(Held.mon))
               ELSE MonthFromZero(Decoded(Held.mon)),
       year |-> Year,
       hour |-> LET h == Held.hour IN
                IF reading.h24 THEN Decoded(h)
                ELSE Decoded(h % 128) + (IF h >= 128 THEN 12 ELSE 0)]

MonthDays == <<0, 31, 59, 90, 120, 151, 181, 212, 243, 273, 304, 334>>
IsLeap(year) == year % 4 = 0 /\ (year % 100 # 0 \/ year % 400 = 0)
\* crash() ends the boot on a month that is none.
calc_time_t(tm) ==
    LET year == tm.year - 70 IN
    IF tm.mon \notin 0 .. 11 THEN [crash |-> TRUE]
    ELSE [crash |-> FALSE,
          days |-> year * 365 + (year + 1) \div 4 + MonthDays[tm.mon + 1]
                   + (IF tm.mon >= 2 /\ IsLeap(tm.year + 1900) THEN 1 ELSE 0) + tm.mday - 1,
          secs |-> 3600 * tm.hour + 60 * tm.min + tm.sec]

\* And back: the years, then the months that fit in a number of days, one after
\* the other, and the days that are left.
Within(length, days) ==
    LET count[n \in Nat, left \in Nat] ==
            IF n \notin DOMAIN length \/ length[n] > left THEN [n |-> n, left |-> left]
            ELSE count[n + 1, left - length[n]]
    IN  count[0, days]

\* Every fourth year is a leap year, as from 1970 to 2099.
MaxYears == 130
YearLength == [year \in 0 .. MaxYears - 1 |-> IF (year + 2) % 4 = 0 THEN 366 ELSE 365]
mdays(year) == <<31, IF (year + 2) % 4 = 0 THEN 29 ELSE 28, 31, 30, 31, 30, 31, 31, 30, 31, 30, 31>>
_gmtime(timer) ==
    LET years == Within(YearLength, timer.days)
        months == Within([mon \in 0 .. 11 |-> mdays(years.n)[mon + 1]], years.left)
    IN  [sec |-> timer.secs % 60, min |-> (timer.secs \div 60) % 60, hour |-> timer.secs \div 3600,
         mday |-> months.left + 1, mon |-> months.n, year |-> years.n + 70]

-----------------------------------------------------------------------------
(* Properties.                                                             *)

\* A clock that does not run is not read (hw_rtc_mc146818.c:57): 0, January 1970.
Stopped == chip = "mc146818" /\ ~Runs /\ result = 0

\* These two read the century after the loop that keeps the rest consistent
\* (hw_rtc_mc146818.c:103, hw_rtc_ds1386.c:74): if it turns in between the time
\* is a century late.
CenturyTurned == /\ chip \in {"mc146818", "ds1386"} /\ KnowsCentury
                 /\ Age \in seen /\ result - Age \in seen

\* The time read is one the clock showed during the call, never a mixture
\* of two (hw_rtc_*.c "Loop while time inconsistent"), but for these two cases;
\* and the chip is left counting, if it was, with its divider as it was.
TimeIsTrue ==
    result # -1 =>
        /\ \/ result \in {IF KnowsCentury THEN v ELSE v % Age : v \in seen}
           \/ Stopped \/ CenturyTurned
        /\ frozen = -1 /\ (Runs \/ Stopped)
        /\ chip = "mc146818" => osc = reading.osc

\* The days since 1970 by the calendar.
DaysBefore(year, mon) ==
    LET Length(m) == IF m = 2 THEN (IF IsLeap(year) THEN 29 ELSE 28)
                     ELSE IF m \in {4, 6, 9, 11} THEN 30 ELSE 31
    IN  FoldLeft(LAMBDA sum, m : sum + Length(m), 0, [m \in 1 .. mon - 1 |-> m])
Calendar(d) ==
    [crash |-> FALSE, secs |-> 3600 * d.hour + 60 * d.min + d.sec,
     days |-> 365 * (d.year - 1970) + Cardinality({y \in 1970 .. d.year - 1 : IsLeap(y)})
              + DaysBefore(d.year, d.mon) + d.day - 1]

\* Where the code departs from the calendar: rtc72423 is a month late; 12
\* o'clock in 12-hour format; the BCD century of an mc146818 is taken from
\* the number of its register.
Departs == LET d == reading.date IN
           \/ chip = "rtc72423"
           \/ (~reading.h24 /\ d.hour \in {0, 12})
           \/ (chip = "mc146818" /\ HasCentury /\ ~reading.binary)

\* From 1970 to 2099 and but for these, the date becomes its seconds; and
\* _gmtime() makes of seconds the time that calc_time_t() made them of.
DateIsTrue ==
    \/ result = -1 \/ Stopped \/ Departs
    \/ /\ calc_time_t(Tm) = Calendar(reading.date)
       /\ _gmtime(calc_time_t(Tm)) = Tm

\* calc_time_t() crashes only on a register that holds no month
\* (calc_time_t.c:47 "Month returned by RTC is out of bounds").
MonthInBounds == result # -1 /\ ~Stopped => ~calc_time_t(Tm).crash
=============================================================================
