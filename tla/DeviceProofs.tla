---------------------------- MODULE DeviceProofs ----------------------------
(***************************************************************************)
(* The watchdog is fed in time, for every command line, period of the      *)
(* watchdog, lateness of the scheduler and width of delay()'s argument;    *)
(* the console neither loses, repeats nor reorders what it should not, for *)
(* every number of characters and keys, depth of the transmitter and       *)
(* patience of the waits; and ticks are converted to nanoseconds by a      *)
(* period that is the inverse of the frequency, for every frequency and    *)
(* width of the words.                                                     *)
(***************************************************************************)
EXTENDS Watchdog, Console, Qtime, NaturalsInduction, WellFoundedInduction, TLAPS

-----------------------------------------------------------------------------
(* The watchdog.                                                           *)

DogOptions == {"i", "t", "p"}
DogDefault == [i |-> PSCI_ARM_WDT_SMC_ID, t |-> -1, p |-> 10]

DogTyped ==
    /\ line \in Seq(DogOptions \X Int) /\ optind \in 1 .. Len(line) + 1
    /\ wdi \in [DogOptions -> Int] /\ prio \in Int /\ wait \in Nat /\ late \in Nat
    /\ denied \in BOOLEAN /\ on \in BOOLEAN /\ inTime \in BOOLEAN /\ left \in Int
    /\ pc \in {"parse", "evaluate", "configure", "loop", "exit"}

\* What the first options have left of o: the default where none gave it, else
\* what the last of those that did gave.
Holds(o) ==
    \/ wdi[o] = DogDefault[o] /\ \A k \in 1 .. optind - 1 : ~Gives(k, o)
    \/ \E k \in 1 .. optind - 1 :
          Gives(k, o) /\ wdi[o] = line[k][2] /\ \A j \in k + 1 .. optind - 1 : ~Gives(j, o)
ReadInOrder ==
    /\ \A o \in DogOptions : Holds(o)
    /\ pc # "parse" => optind = Len(line) + 1

\* In the loop there is always more left of the watchdog than the thread may
\* still sleep and be late.
Asks ==
    wdi.i = PSCI_ARM_WDT_SMC_ID /\ wdi.p >= Rivals /\ wdi.t \in 0 .. Timeout - Lag - 1
LeavesTime ==
    /\ pc \in {"parse", "evaluate", "configure"} => wait = 0
    /\ pc = "loop" => denied \/ prio = wdi.p
    /\ pc = "loop" /\ inTime /\ ~denied /\ Asks =>
           /\ late <= Lag /\ (wait > 0 => late = 0)
           /\ left > (IF on THEN wait + Lag - late ELSE 0)

DogInv == DogTyped /\ ReadInOrder /\ LeavesTime

LEMMA ReadIsAsked ==
    ASSUME DogTyped, ReadInOrder, pc # "parse", NEW o \in DogOptions
    PROVE  wdi[o] = Asked(o, DogDefault[o])
<1> DEFINE given == {k \in 1 .. Len(line) : Gives(k, o)}
<1>1. Holds(o) /\ optind = Len(line) + 1 /\ Len(line) \in Nat
  BY DEF DogTyped, ReadInOrder
<1>2. CASE given = {}
  <2>1. wdi[o] = DogDefault[o]
    BY <1>1, <1>2 DEF Holds
  <2> QED BY <1>2, <2>1 DEF Asked
<1>3. CASE given # {}
  <2>1. PICK k \in 1 .. Len(line) :
           Gives(k, o) /\ wdi[o] = line[k][2] /\ \A j \in k + 1 .. Len(line) : ~Gives(j, o)
    BY <1>1, <1>3 DEF Holds
  <2>2. k \in given /\ \A j \in given : j <= k
    BY <1>1, <2>1
  <2>3. \A m \in given : (\A j \in given : j <= m) => m = k
    BY <1>1, <2>2
  <2>4. (CHOOSE m \in given : \A j \in given : j <= m) = k
    BY <2>2, <2>3
  <2> QED BY <1>3, <2>1, <2>4 DEF Asked
<1> QED BY <1>2, <1>3

LEMMA InvFeeds == ASSUME WatchdogAssumption, DogInv PROVE DogIsFed
<1> SUFFICES ASSUME pc = "loop", inTime, ~denied,
                    Asked("i", PSCI_ARM_WDT_SMC_ID) = PSCI_ARM_WDT_SMC_ID,
                    Asked("p", 10) >= Rivals, Asked("t", -1) \in 0 .. Timeout - Lag - 1
             PROVE  left > 0
  BY DEF DogIsFed
<1>1. \A o \in DogOptions : wdi[o] = Asked(o, DogDefault[o])
  BY ReadIsAsked DEF DogInv
<1>2. wdi["i"] = Asked("i", PSCI_ARM_WDT_SMC_ID) /\ wdi["p"] = Asked("p", 10)
      /\ wdi["t"] = Asked("t", -1)
  BY <1>1 DEF DogOptions, DogDefault
<1>3. Asks
  BY <1>2 DEF Asks
<1> QED BY <1>3 DEF DogInv, LeavesTime, DogTyped, WatchdogAssumption

-----------------------------------------------------------------------------
LEMMA DogInitInv == WatchdogAssumption /\ Init => DogInv
<1> SUFFICES ASSUME WatchdogAssumption, Init PROVE DogInv
  OBVIOUS
<1>1. DogTyped
  <2>1. line \in Seq(DogOptions \X Int) /\ Len(line) \in Nat
    BY DEF Init, WatchdogAssumption, DogOptions
  <2>2. wdi \in [DogOptions -> Int]
    BY DEF Init, DogOptions, PSCI_ARM_WDT_SMC_ID
  <2>3. optind \in 1 .. Len(line) + 1
    BY <2>1 DEF Init
  <2>4. on \in BOOLEAN /\ denied \in BOOLEAN /\ inTime \in BOOLEAN
    BY Zenon DEF Init
  <2>5. prio \in Int /\ wait \in Nat /\ late \in Nat /\ left \in Int /\ pc = "parse"
    BY DEF Init, WatchdogAssumption
  <2> QED BY <2>1, <2>2, <2>3, <2>4, <2>5 DEF DogTyped
<1>2. ReadInOrder
  BY DEF Init, ReadInOrder, Holds, DogDefault, DogOptions
<1>3. LeavesTime
  BY DEF Init, LeavesTime
<1> QED BY <1>1, <1>2, <1>3 DEF DogInv

LEMMA ParseKeeps == ASSUME WatchdogAssumption, DogInv, wd_parse_options PROVE DogInv'
<1>1. CASE optind <= Len(line)
  <2> DEFINE opt == line[optind][1]
             number == line[optind][2]
  <2>1. /\ wdi' = Parse(opt, number) /\ optind' = optind + 1 /\ pc' = pc /\ pc = "parse"
        /\ UNCHANGED <<line, prio, denied, wait, late, on, left, inTime>>
    BY <1>1 DEF wd_parse_options
  <2>2. opt \in DogOptions /\ number \in Int /\ optind \in 1 .. Len(line)
    BY <1>1 DEF DogInv, DogTyped
  <2> HIDE DEF opt, number
  <2>3. DogTyped'
    BY <2>1, <2>2 DEF DogInv, DogTyped, Parse
  <2>4. ASSUME NEW o \in DogOptions PROVE Holds(o)'
    <3>1. /\ Holds(o) /\ \A k : Gives(k, o)' <=> Gives(k, o)
          /\ optind \in Nat /\ optind' - 1 = optind
      BY <2>1, <2>2 DEF DogInv, DogTyped, ReadInOrder, Gives
    <3>2. CASE Gives(optind, o)
      <4>1. opt = o /\ number # OutOfRange
        BY <3>2 DEF Gives, opt, number
      <4>2. wdi'[o] = line'[optind][2]
        BY <2>1, <2>2, <4>1 DEF DogInv, DogTyped, Parse, number
      <4>3. PICK n : n = optind
        OBVIOUS
      <4>4. n \in 1 .. optind' - 1 /\ \A j \in n + 1 .. optind' - 1 : ~Gives(j, o)'
        BY <2>2, <3>1, <4>3
      <4>5. Gives(n, o)' /\ wdi'[o] = line'[n][2]
        BY <3>1, <3>2, <4>2, <4>3
      <4> QED BY <4>4, <4>5 DEF Holds
    <3>3. CASE ~Gives(optind, o)
      <4>1. opt # o \/ number = OutOfRange
        BY <3>3 DEF Gives, opt, number
      <4>2. wdi'[o] = wdi[o]
        BY <2>1, <2>2, <4>1 DEF DogInv, DogTyped, Parse
      <4>3. \A k \in 1 .. optind : Gives(k, o) => k \in 1 .. optind - 1
        BY <3>1, <3>3
      <4> QED BY <2>1, <3>1, <4>2, <4>3 DEF Holds
    <3> QED BY <3>2, <3>3
  <2>5. ReadInOrder' /\ LeavesTime'
    BY <2>1, <2>4 DEF DogInv, ReadInOrder, LeavesTime
  <2> QED BY <2>3, <2>5 DEF DogInv
<1>2. CASE ~(optind <= Len(line))
  <2>1. pc' = "evaluate" /\ pc = "parse"
        /\ UNCHANGED <<wdi, optind, line, prio, denied, wait, late, on, left, inTime>>
    BY <1>2 DEF wd_parse_options
  <2>2. DogTyped' /\ LeavesTime' /\ optind' = Len(line') + 1
    BY <1>2, <2>1 DEF DogInv, DogTyped, LeavesTime
  <2>3. \A o \in DogOptions : Holds(o)'
    BY <2>1 DEF DogInv, ReadInOrder, Holds, Gives
  <2> QED BY <2>2, <2>3 DEF DogInv, ReadInOrder
<1> QED BY <1>1, <1>2

LEMMA ReadStays ==
    ASSUME ReadInOrder, pc # "parse", UNCHANGED <<line, optind, wdi>>
    PROVE  ReadInOrder'
<1>1. \A o \in DogOptions : Holds(o)'
  BY DEF ReadInOrder, Holds, Gives
<1> QED BY <1>1 DEF ReadInOrder

LEMMA EvaluateKeeps == ASSUME DogInv, wd_evaluate_params PROVE DogInv'
<1>1. DogTyped' /\ LeavesTime'
  BY DEF wd_evaluate_params, DogInv, DogTyped, LeavesTime
<1>2. ReadInOrder'
  BY ReadStays DEF wd_evaluate_params, DogInv
<1> QED BY <1>1, <1>2 DEF DogInv

LEMMA ConfigureKeeps == ASSUME WatchdogAssumption, DogInv, wd_configure_thread PROVE DogInv'
<1>1. DogTyped'
  <2>1. wdi["p"] \in Int /\ wdi.p = wdi["p"]
    BY DEF DogInv, DogTyped, DogOptions
  <2>2. prio' \in Int /\ pc' \in {"exit", "loop"} /\ denied' \in BOOLEAN
    BY <2>1 DEF wd_configure_thread, DogInv, DogTyped
  <2>3. inTime' = inTime \/ inTime' = (left > Lag)
    BY DEF wd_configure_thread
  <2>4. inTime' \in BOOLEAN
    <3>1. inTime \in BOOLEAN
      BY DEF DogInv, DogTyped
    <3>2. (left > Lag) = TRUE \/ (left > Lag) = FALSE
      OBVIOUS
    <3> QED BY <2>3, <3>1, <3>2, Zenon
  <2> QED BY <2>2, <2>4 DEF wd_configure_thread, DogInv, DogTyped
<1>2. ReadInOrder'
  BY ReadStays DEF wd_configure_thread, DogInv
<1>3. LeavesTime'
  BY DEF wd_configure_thread, DogInv, DogTyped, LeavesTime, DogOptions, WatchdogAssumption
<1> QED BY <1>1, <1>2, <1>3 DEF DogInv

LEMMA KickKeeps == ASSUME WatchdogAssumption, DogInv, left > 0, Kick PROVE DogInv'
<1>1. /\ pc = "loop" /\ late' = 0 /\ wait' = wdi.t % DelayWrap
      /\ left' = IF on /\ wdi.i = PSCI_ARM_WDT_SMC_ID THEN Timeout ELSE left
      /\ UNCHANGED <<line, optind, wdi, pc, prio, denied, inTime, on>>
  BY DEF Kick, smc_call, delay, proc
<1>2. wdi.t \in Int /\ wait' \in Nat /\ (wdi.t >= 0 => wait' <= wdi.t)
  <2>1. wdi.t \in Int
    BY DEF DogInv, DogTyped, DogOptions
  <2>2. \A n \in Int, w \in Nat \ {0} : n % w \in Nat /\ (n >= 0 => n % w <= n)
    OBVIOUS
  <2> QED BY <1>1, <2>1, <2>2 DEF WatchdogAssumption
<1>3. DogTyped'
  BY <1>1, <1>2 DEF DogInv, DogTyped, WatchdogAssumption
<1>4. ReadInOrder'
  BY <1>1, ReadStays DEF DogInv
<1>5. LeavesTime'
  BY <1>1, <1>2 DEF DogInv, DogTyped, LeavesTime, Asks, WatchdogAssumption
<1> QED BY <1>3, <1>4, <1>5 DEF DogInv

LEMMA TickKeeps == ASSUME WatchdogAssumption, DogInv, left > 0, Tick PROVE DogInv'
<1>1. /\ Sleeps \/ prio < Rivals \/ late < Lag
      /\ IF Sleeps THEN wait' = wait - 1 /\ late' = late
         ELSE late' = (IF late > Lag THEN late ELSE late + 1) /\ wait' = wait
      /\ left' = IF on THEN left - 1 ELSE left
      /\ UNCHANGED <<line, optind, wdi, pc, prio, denied, inTime, on>>
  BY DEF Tick, proc
<1>2. DogTyped'
  BY <1>1 DEF DogInv, DogTyped, Sleeps
<1>3. ReadInOrder'
  <2>1. CASE pc = "parse"
    <3>1. \A o \in DogOptions : Holds(o)'
      BY <1>1 DEF DogInv, ReadInOrder, Holds, Gives
    <3> QED BY <1>1, <2>1, <3>1 DEF ReadInOrder
  <2>2. CASE pc # "parse"
    BY <1>1, <2>2, ReadStays DEF DogInv
  <2> QED BY <2>1, <2>2
<1>4. LeavesTime'
  BY <1>1 DEF DogInv, DogTyped, LeavesTime, Asks, Sleeps, WatchdogAssumption, DogOptions
<1> QED BY <1>2, <1>3, <1>4 DEF DogInv

-----------------------------------------------------------------------------
\* At every step wdtkick has read its options in order, runs at the priority it
\* asked for unless that was refused, and leaves the watchdog more time than
\* it sleeps and is late (main of wdtkick/main.c).
THEOREM DogInvariant == Spec => []DogInv
<1>1. ASSUME DogInv, [Next]_vars PROVE DogInv'
  <2>1. CASE UNCHANGED vars
    <3>1. \A o \in DogOptions : Holds(o)'
      BY <1>1, <2>1 DEF vars, proc, DogInv, ReadInOrder, Holds, Gives
    <3>2. ReadInOrder'
      BY <1>1, <2>1, <3>1 DEF vars, proc, DogInv, ReadInOrder
    <3>3. DogTyped' /\ LeavesTime'
      BY <1>1, <2>1 DEF vars, proc, DogInv, DogTyped, LeavesTime, Asks
    <3> QED BY <3>2, <3>3 DEF DogInv
  <2>2. CASE Next
    BY <1>1, <2>2, WatchdogAssumption, ParseKeeps, EvaluateKeeps, ConfigureKeeps, KickKeeps,
       TickKeeps DEF Next
  <2> QED BY <1>1, <2>1, <2>2
<1> QED BY <1>1, DogInitInv, WatchdogAssumption, PTL DEF Spec

\* Once wdtkick is in its loop in time, a command line that asks for the
\* firmware's watchdog, a priority that is granted and not outranked, and kicks
\* that leave time for the thread to be late keeps the board from a reset for
\* ever, options repeated or out of range included (wdtkick/main.c).
THEOREM DogStaysFed == Spec => []DogIsFed
<1> QED BY DogInvariant, InvFeeds, WatchdogAssumption, PTL

-----------------------------------------------------------------------------
(* The console: what every step keeps.                                     *)

GeniTodos == {<<"old", "start", "finish">>, <<"start", "finish">>, <<"finish">>}
LateTodos == {<<"write", "wait">>, <<"wait">>}
EarlyTodos == {<<"wait", "write">>, <<"write">>}

\* The characters that the routines have written or given up on.
Pending == call.todo \in EarlyTodos \union {<<"write", "wait">>, <<"old", "start", "finish">>,
                                            <<"start", "finish">>}
Written == IF Pending THEN asked - 1 ELSE asked

OutputTyped ==
    /\ chip \in {"8250", "8250_32b", "pl011", "linflexd", "tegra", "geni"}
    /\ stage \in {"init", "startup", "kernel"}
    /\ call \in [todo : {<<>>} \union GeniTodos \union LateTodos \union EarlyTodos, left : Nat]
    /\ asked \in Nat /\ tx \in Seq(Nat) /\ sent \in Seq(Nat)
    /\ \A l \in lost : l[2] \in Excuses
    /\ prev \in {"waited", "put", "timeout", "done"} /\ cmd \in {"idle", "active", "stuck"}

\* The routine in progress is the one of this chip at this stage.
RightCall ==
    /\ Busy => asked > 0
    /\ stage = "init" => ~Busy /\ asked = 0
    /\ stage = "kernel" => asked > 0
    /\ Busy => (chip = "geni" <=> call.todo \in GeniTodos)
    /\ Busy => ((chip = "linflexd" /\ stage = "kernel") <=> call.todo \in LateTodos)
    /\ call.todo = <<"wait", "write">> /\ call.left # 0 =>
           stage = "kernel" /\ chip \in {"8250", "8250_32b"}

\* There is room where a routine has waited for it; a LINFlexD's wait is the
\* one of the character before.
HasRoom ==
    /\ call.todo = <<"write">> => Len(tx) < Depth
    /\ chip = "linflexd" =>
           /\ prev # "done"
           /\ stage = "startup" /\ asked > 0 /\ ~Busy => prev = "put"
           /\ stage = "kernel" /\ prev = "waited" /\ call.todo # <<"wait">> => Len(tx) < Depth

\* A GENI holds one character, while its command runs, and none between calls.
OneCommand ==
    chip = "geni" =>
        /\ Len(tx) <= 1 /\ (tx # <<>> => cmd # "idle") /\ (done => cmd = "idle")
        /\ call.todo = <<"start", "finish">> => tx = <<>>
        /\ ~Busy /\ asked > 0 => tx = <<>>

\* The characters to w are sent or in the transmitter, in order, or lost.
Ordered ==
    /\ \A i, j \in 1 .. Len(sent) : i < j => sent[i] < sent[j]
    /\ \A i, j \in 1 .. Len(tx) : i < j => tx[i] < tx[j]
    /\ \A i \in 1 .. Len(sent), j \in 1 .. Len(tx) : sent[i] < tx[j]
Chars == ToSet(sent) \union ToSet(tx)
Missing == {l[1] : l \in lost}
Kept(w) ==
    /\ Ordered
    /\ Chars \union Missing \subseteq 0 .. w /\ Chars \intersect Missing = {}
    /\ 1 .. w \subseteq Chars \union Missing

OutputInv == OutputTyped /\ RightCall /\ HasRoom /\ OneCommand /\ Kept(Written)

Item == [key : Nat, null : BOOLEAN, brk : BOOLEAN, packed : BOOLEAN]

\* A break is a null; a GENI alone packs keys, and never waits to eat one.
InputTyped ==
    /\ arrived \in Nat /\ rxcall \in {"none", "eat"} /\ keys \in Seq(Nat)
    /\ rx \in Seq(Item) /\ eaten \in Seq(Item)
    /\ rxcall = "eat" => rx # <<>> /\ rx[1].null = TRUE
    /\ \A i \in 1 .. Len(rx) : rx[i].brk = TRUE => rx[i].null = TRUE
    /\ chip # "geni" => \A i \in 1 .. Len(rx) : rx[i].packed = FALSE
KeysInOrder ==
    /\ \A i, j \in 1 .. Len(keys) : i < j => keys[i] < keys[j]
    /\ \A i, j \in 1 .. Len(rx) : i < j => rx[i].key < rx[j].key
    /\ \A i \in 1 .. Len(keys), j \in 1 .. Len(rx) : keys[i] < rx[j].key
    /\ \A i \in 1 .. Len(keys) : keys[i] <= arrived
    /\ \A i \in 1 .. Len(rx) : rx[i].key <= arrived
    /\ \A e \in ToSet(eaten) : e.null = TRUE
KeysOf(q) == {item.key : item \in ToSet(q)}
AllKeys == ToSet(keys) \union KeysOf(rx) \union KeysOf(eaten)
NoneSkipped == chip # "geni" => 1 .. arrived \subseteq AllKeys
InputInv == InputTyped /\ KeysInOrder /\ NoneSkipped

ConsoleInv == OutputInv /\ InputInv

-----------------------------------------------------------------------------
(* What is written, given up on or garbled.                                *)

LEMMA SendKept ==
    ASSUME NEW w \in Nat, Kept(w), tx \in Seq(Nat), sent \in Seq(Nat), tx # <<>>,
           sent' = Append(sent, tx[1]), tx' = Tail(tx), lost' = lost
    PROVE  Kept(w)' /\ tx' \in Seq(Nat) /\ sent' \in Seq(Nat) /\ Len(tx') = Len(tx) - 1
<1>1. /\ Len(tx) \in Nat \ {0} /\ Len(tx') = Len(tx) - 1 /\ tx' \in Seq(Nat)
      /\ \A i \in 1 .. Len(tx') : tx'[i] = tx[i + 1]
  OBVIOUS
<1>2. /\ sent' \in Seq(Nat) /\ Len(sent') = Len(sent) + 1 /\ Len(sent) \in Nat
      /\ \A i \in 1 .. Len(sent) : sent'[i] = sent[i]
      /\ sent'[Len(sent) + 1] = tx[1]
  OBVIOUS
<1>3. Chars' = Chars
  <2>1. ToSet(sent') = ToSet(sent) \union {tx[1]}
    <3>1. DOMAIN sent = 1 .. Len(sent) /\ DOMAIN sent' = 1 .. Len(sent) + 1
      BY <1>2
    <3> QED BY <1>2, <3>1 DEF ToSet
  <2>2. ToSet(tx) = {tx[1]} \union ToSet(tx')
    <3>1. DOMAIN tx = 1 .. Len(tx) /\ DOMAIN tx' = 1 .. Len(tx')
      BY <1>1
    <3>2. \A i \in 1 .. Len(tx) : i = 1 \/ (i - 1 \in 1 .. Len(tx') /\ tx[i] = tx'[i - 1])
      BY <1>1
    <3>3. \A i \in 1 .. Len(tx') : i + 1 \in 1 .. Len(tx)
      BY <1>1
    <3>4. 1 \in 1 .. Len(tx)
      BY <1>1
    <3>5. \A n : n \in ToSet(tx) <=> \E i \in 1 .. Len(tx) : n = tx[i]
      BY <3>1 DEF ToSet
    <3>6. \A n : n \in ToSet(tx') <=> \E i \in 1 .. Len(tx') : n = tx'[i]
      BY <3>1 DEF ToSet
    <3>7. ASSUME NEW n \in ToSet(tx) PROVE n = tx[1] \/ n \in ToSet(tx')
      <4>1. PICK i \in 1 .. Len(tx) : n = tx[i]
        BY <3>5, <3>7
      <4> QED BY <3>2, <3>6, <4>1
    <3>8. ASSUME NEW n \in ToSet(tx') PROVE n \in ToSet(tx)
      BY <1>1, <3>3, <3>5, <3>6
    <3>9. tx[1] \in ToSet(tx)
      BY <3>4, <3>5
    <3> QED BY <3>7, <3>8, <3>9
  <2> QED BY <2>1, <2>2 DEF Chars
<1>4. Ordered'
  <2>1. \A i \in 1 .. Len(sent), j \in 1 .. Len(tx) : sent[i] < tx[j]
    BY DEF Kept, Ordered
  <2>2. \A i, j \in 1 .. Len(sent) : i < j => sent[i] < sent[j]
    BY DEF Kept, Ordered
  <2>3. \A i, j \in 1 .. Len(tx) : i < j => tx[i] < tx[j]
    BY DEF Kept, Ordered
  <2>4. \A i, j \in 1 .. Len(sent') : i < j => sent'[i] < sent'[j]
    <3> SUFFICES ASSUME NEW i \in 1 .. Len(sent) + 1, NEW j \in 1 .. Len(sent) + 1, i < j
                 PROVE  sent'[i] < sent'[j]
      BY <1>2
    <3>1. i \in 1 .. Len(sent)
      BY <1>2
    <3>2. CASE j \in 1 .. Len(sent)
      BY <1>2, <2>2, <3>1, <3>2
    <3>3. CASE j = Len(sent) + 1
      <4>1. 1 \in 1 .. Len(tx)
        BY <1>1
      <4> QED BY <1>2, <2>1, <3>1, <3>3, <4>1
    <3>4. Len(sent) \in Nat
      OBVIOUS
    <3>5. \A k \in Nat : \A m \in 1 .. k + 1 : m \in 1 .. k \/ m = k + 1
      OBVIOUS
    <3> QED BY <3>2, <3>3, <3>4, <3>5
  <2>5. \A i, j \in 1 .. Len(tx') : i < j => tx'[i] < tx'[j]
    BY <1>1, <2>3
  <2>6. \A i \in 1 .. Len(sent'), j \in 1 .. Len(tx') : sent'[i] < tx'[j]
    BY <1>1, <1>2, <2>1, <2>3
  <2> QED BY <2>4, <2>5, <2>6 DEF Ordered
<1>5. Missing' = Missing
  BY DEF Missing
<1> QED BY <1>1, <1>2, <1>3, <1>4, <1>5 DEF Kept

LEMMA PutKept ==
    ASSUME NEW w \in Nat, Kept(w), tx \in Seq(Nat), sent \in Seq(Nat),
           tx' = Append(tx, w + 1), sent' = sent, lost' = lost
    PROVE  Kept(w + 1)' /\ tx' \in Seq(Nat) /\ Len(tx') = Len(tx) + 1
<1>1. /\ tx' \in Seq(Nat) /\ Len(tx') = Len(tx) + 1 /\ Len(tx) \in Nat
      /\ \A i \in 1 .. Len(tx) : tx'[i] = tx[i]
      /\ tx'[Len(tx) + 1] = w + 1
  OBVIOUS
<1>2. DOMAIN tx = 1 .. Len(tx) /\ DOMAIN tx' = 1 .. Len(tx) + 1 /\ DOMAIN sent = 1 .. Len(sent)
  BY <1>1
<1>3. Chars' = Chars \union {w + 1}
  <2>1. ToSet(tx') = ToSet(tx) \union {w + 1}
    BY <1>1, <1>2 DEF ToSet
  <2> QED BY <2>1 DEF Chars
<1>4. \A n \in Chars : n \in Int /\ n < w + 1
  BY DEF Kept
<1>5. /\ \A i \in 1 .. Len(tx) : tx[i] < w + 1
      /\ \A i \in 1 .. Len(sent) : sent[i] < w + 1
  BY <1>2, <1>4 DEF Chars, ToSet
<1>6. Ordered'
  <2>1. Ordered
    BY DEF Kept
  <2>2. \A i, j \in 1 .. Len(tx') : i < j => tx'[i] < tx'[j]
    <3> SUFFICES ASSUME NEW i \in 1 .. Len(tx) + 1, NEW j \in 1 .. Len(tx) + 1, i < j
                 PROVE  tx'[i] < tx'[j]
      BY <1>1
    <3>1. i \in 1 .. Len(tx)
      BY <1>1
    <3>2. CASE j \in 1 .. Len(tx)
      BY <1>1, <2>1, <3>1, <3>2 DEF Ordered
    <3>3. CASE j = Len(tx) + 1
      BY <1>1, <1>5, <3>1, <3>3
    <3>4. Len(tx) \in Nat
      OBVIOUS
    <3>5. \A k \in Nat : \A m \in 1 .. k + 1 : m \in 1 .. k \/ m = k + 1
      OBVIOUS
    <3> QED BY <3>2, <3>3, <3>4, <3>5
  <2>3. \A i \in 1 .. Len(sent'), j \in 1 .. Len(tx') : sent'[i] < tx'[j]
    BY <1>1, <1>5, <2>1 DEF Ordered
  <2> QED BY <2>1, <2>2, <2>3 DEF Ordered
<1>7. Missing' = Missing
  BY DEF Missing
<1> QED BY <1>1, <1>3, <1>6, <1>7 DEF Kept

LEMMA LoseKept ==
    ASSUME NEW w \in Nat, NEW why, Kept(w),
           lost' = lost \union {<<w + 1, why>>}, tx' = tx, sent' = sent
    PROVE  Kept(w + 1)'
<1>1. Missing' = Missing \union {w + 1}
  <2>1. \A l \in lost' : l \in lost \/ l[1] = w + 1
    OBVIOUS
  <2>2. \A l \in lost : l \in lost'
    OBVIOUS
  <2>3. \E l \in lost' : l[1] = w + 1
    BY <<w + 1, why>> \in lost'
  <2> QED BY <2>1, <2>2, <2>3, Zenon DEF Missing
<1>2. Chars' = Chars /\ Ordered'
  BY DEF Chars, Kept, Ordered
<1> QED BY <1>1, <1>2 DEF Kept

LEMMA GarbleKept ==
    ASSUME NEW w \in Nat, NEW why, Kept(w), tx \in Seq(Nat), sent \in Seq(Nat),
           lost' = lost \union {<<c, why>> : c \in ToSet(tx)}, tx' = <<>>, sent' = sent
    PROVE  Kept(w)' /\ tx' \in Seq(Nat) /\ (tx = <<>> => lost' = lost)
           /\ \A l \in lost' \ lost : l[2] = why
<1>1. ToSet(tx') = {} /\ Len(tx') = 0 /\ tx' \in Seq(Nat) /\ (tx = <<>> => ToSet(tx) = {})
  BY DEF ToSet
<1>2. Missing' = Missing \union ToSet(tx)
  <2>1. \A l \in lost' : l \in lost \/ l[1] \in ToSet(tx)
    OBVIOUS
  <2>2. \A l \in lost : l \in lost'
    OBVIOUS
  <2>3. ASSUME NEW c \in ToSet(tx) PROVE \E l \in lost' : l[1] = c
    BY <<c, why>> \in lost'
  <2> QED BY <2>1, <2>2, <2>3, Zenon DEF Missing
<1>3. ToSet(sent) \intersect ToSet(tx) = {}
  <2>1. DOMAIN sent = 1 .. Len(sent) /\ DOMAIN tx = 1 .. Len(tx)
    OBVIOUS
  <2>2. \A i \in 1 .. Len(sent), j \in 1 .. Len(tx) :
           sent[i] \in Nat /\ tx[j] \in Nat /\ sent[i] < tx[j]
    BY DEF Kept, Ordered
  <2>3. ASSUME NEW i \in 1 .. Len(sent), NEW j \in 1 .. Len(tx) PROVE sent[i] # tx[j]
    <3>1. PICK a \in Nat : a = sent[i]
      BY <2>2, Zenon
    <3>2. PICK b \in Nat : b = tx[j]
      BY <2>2, Zenon
    <3>3. a < b
      BY <2>2, <3>1, <3>2, Zenon
    <3>4. a # b
      BY <3>3
    <3> QED BY <3>1, <3>2, <3>4, Zenon
  <2> QED BY <2>1, <2>3 DEF ToSet
<1>4. Chars' = ToSet(sent)
  BY <1>1 DEF Chars
<1>5. Ordered'
  BY <1>1 DEF Kept, Ordered
<1>6. Kept(w)'
  BY <1>2, <1>3, <1>4, <1>5 DEF Kept, Chars
<1> QED BY <1>1, <1>6

-----------------------------------------------------------------------------
(* The routines' steps.                                                    *)

LEMMA Tails ==
    /\ Tail(<<"wait", "write">>) = <<"write">> /\ Tail(<<"write">>) = <<>>
    /\ Tail(<<"write", "wait">>) = <<"wait">> /\ Tail(<<"wait">>) = <<>>
    /\ Tail(<<"old", "start", "finish">>) = <<"start", "finish">>
    /\ Tail(<<"start", "finish">>) = <<"finish">> /\ Tail(<<"finish">>) = <<>>
<1>1. \A a : Tail(<<a>>) = <<>>
  OBVIOUS
<1>2. \A a, b : Tail(<<a, b>>) = <<b>>
  OBVIOUS
<1>3. \A a, b, c : Tail(<<a, b, c>>) = <<b, c>>
  OBVIOUS
<1> QED BY <1>1, <1>2, <1>3

LEMMA StepIs ==
    ASSUME OutputTyped, Busy
    PROVE  /\ Step = "wait" => call.todo \in {<<"wait", "write">>, <<"wait">>}
           /\ Step = "write" => call.todo \in {<<"write">>, <<"write", "wait">>}
           /\ Step = "old" => call.todo = <<"old", "start", "finish">>
           /\ Step = "start" => call.todo = <<"start", "finish">>
           /\ Step = "finish" => call.todo = <<"finish">>
BY DEF OutputTyped, Busy, Step, GeniTodos, LateTodos, EarlyTodos

LEMMA Lengths ==
    /\ \A a : Len(<<a>>) = 1
    /\ \A a, b : Len(<<a, b>>) = 2
    /\ \A a, b, c : Len(<<a, b, c>>) = 3
OBVIOUS

LEMMA WrittenIs ==
    ASSUME OutputInv
    PROVE  \E w \in Nat : /\ w = Written /\ Kept(w)
                          /\ (Pending => asked = w + 1) /\ (~Pending => asked = w)
<1>1. Pending => Busy
  BY DEF Pending, Busy, EarlyTodos
<1>2. Written \in Nat
  BY <1>1 DEF OutputInv, OutputTyped, RightCall, Written
<1> QED BY <1>2 DEF OutputInv, OutputTyped, Written

LEMMA Concluded ==
    ASSUME NEW w, OutputTyped', RightCall', HasRoom', OneCommand', Kept(w)', Written' = w
    PROVE  OutputInv'
BY DEF OutputInv, Kept

LEMMA SameExcuses ==
    ASSUME OutputTyped, UNCHANGED chip, \A l \in lost' \ lost : l[2] \in Excuses
    PROVE  \A l \in lost' : l[2] \in Excuses'
BY DEF OutputTyped, Excuses

LEMMA OutputStays ==
    ASSUME OutputInv, UNCHANGED <<chip, stage, call, asked, prev, tx, sent, lost, cmd, done>>
    PROVE  OutputInv'
<1>1. OutputTyped'
  BY DEF OutputInv, OutputTyped, Excuses
<1>2. RightCall' /\ HasRoom' /\ OneCommand'
  BY DEF OutputInv, RightCall, HasRoom, OneCommand, Busy
<1>3. Kept(Written)'
  BY DEF OutputInv, Kept, Ordered, Chars, Missing, Written, Pending
<1> QED BY <1>1, <1>2, <1>3 DEF OutputInv

LEMMA SendOutput == ASSUME OutputInv, Send PROVE OutputInv'
<1>1. /\ tx # <<>> /\ sent' = Append(sent, tx[1]) /\ tx' = Tail(tx) /\ lost' = lost
      /\ UNCHANGED <<chip, stage, call, asked, prev>>
      /\ chip = "geni" => cmd' = "idle" /\ done' = TRUE
      /\ chip # "geni" => cmd' = cmd /\ done' = done
  BY DEF Send
<1>2. PICK w \in Nat : w = Written /\ Kept(w)
  BY WrittenIs
<1>3. Kept(w)' /\ tx' \in Seq(Nat) /\ sent' \in Seq(Nat) /\ Len(tx') = Len(tx) - 1
  BY <1>1, <1>2, SendKept DEF OutputInv, OutputTyped
<1>4. OutputTyped'
  BY <1>1, <1>3 DEF OutputInv, OutputTyped, Excuses
<1>5. Len(tx) \in Nat /\ (Len(tx) <= 1 => tx' = <<>>)
  BY <1>1, <1>3 DEF OutputInv, OutputTyped
<1>6. RightCall' /\ HasRoom'
  BY <1>1, <1>3, <1>5, ConsoleAssumption
     DEF OutputInv, RightCall, HasRoom, Busy, ConsoleAssumption
<1>7. OneCommand'
  BY <1>1, <1>3, <1>5 DEF OutputInv, OneCommand, Busy
<1>8. Written' = w
  BY <1>1, <1>2 DEF Written, Pending
<1> QED BY <1>3, <1>4, <1>6, <1>7, <1>8, Concluded

LEMMA StuckOutput == ASSUME OutputInv, GetStuck PROVE OutputInv'
<1>1. /\ cmd = "active" /\ cmd' = "stuck"
      /\ UNCHANGED <<chip, stage, call, asked, prev, tx, sent, lost, done>>
  BY DEF GetStuck
<1>2. OutputTyped'
  BY <1>1 DEF OutputInv, OutputTyped, Excuses
<1>3. RightCall' /\ HasRoom' /\ OneCommand'
  BY <1>1 DEF OutputInv, RightCall, HasRoom, OneCommand, Busy
<1>4. Kept(Written)'
  BY <1>1 DEF OutputInv, Kept, Ordered, Chars, Missing, Written, Pending
<1> QED BY <1>2, <1>3, <1>4 DEF OutputInv

\* Every init routine leaves the transmitter alone, empties an empty one or,
\* on a GENI, cancels its command.
LEMMA InitsAre ==
    ASSUME OutputTyped, NEW baud, InitChip(baud)
    PROVE  \/ UNCHANGED <<tx, lost, cmd>>
           \/ \E why : /\ lost' = lost \union {<<c, why>> : c \in ToSet(tx)} /\ tx' = <<>>
                       /\ \/ tx = <<>> /\ cmd' = cmd
                          \/ chip = "geni" /\ why \in {"cancelled", "aborted"} /\ cmd' = "idle"
BY DEF OutputTyped, InitChip, init_8250_common, init_8250_32b_common, init_pl011, init_linflexd,
       qrb2210_init_uart, LeaveAlone, Garble

LEMMA InitOutput == ASSUME OutputInv, InitConsole PROVE OutputInv'
<1>1. PICK baud : InitChip(baud)
  BY DEF InitConsole
<1>2. /\ stage = "init" /\ stage' = "startup"
      /\ UNCHANGED <<chip, call, asked, prev, sent, done>>
  BY DEF InitConsole
<1>3. PICK w \in Nat : w = Written /\ Kept(w)
  BY WrittenIs
<1>4. Written' = w
  BY <1>2, <1>3 DEF Written, Pending
<1>5. ~Busy /\ asked = 0 /\ ~Busy'
  BY <1>2 DEF OutputInv, RightCall, Busy
<1>6. RightCall'
  BY <1>2, <1>5 DEF OutputInv, RightCall
<1>7. CASE UNCHANGED <<tx, lost, cmd>>
  <2>1. OutputTyped'
    BY <1>2, <1>7 DEF OutputInv, OutputTyped, Excuses
  <2>2. HasRoom' /\ OneCommand'
    BY <1>2, <1>5, <1>7 DEF OutputInv, HasRoom, OneCommand, Busy
  <2>3. Kept(w)'
    BY <1>2, <1>3, <1>7 DEF Kept, Ordered, Chars, Missing
  <2> QED BY <1>4, <1>6, <2>1, <2>2, <2>3, Concluded
<1>8. ASSUME NEW why, lost' = lost \union {<<c, why>> : c \in ToSet(tx)}, tx' = <<>>,
             \/ tx = <<>> /\ cmd' = cmd
             \/ chip = "geni" /\ why \in {"cancelled", "aborted"} /\ cmd' = "idle"
      PROVE  OutputInv'
  <2>1. /\ Kept(w)' /\ tx' \in Seq(Nat) /\ (tx = <<>> => lost' = lost)
        /\ \A l \in lost' \ lost : l[2] = why
    BY <1>2, <1>3, <1>8, GarbleKept DEF OutputInv, OutputTyped
  <2>2. \A l \in lost' : l[2] \in Excuses'
    <3>1. \A l \in lost' \ lost : l[2] \in Excuses
      BY <1>8, <2>1 DEF Excuses
    <3> QED BY <1>2, <3>1, SameExcuses DEF OutputInv
  <2>3. OutputTyped'
    BY <1>2, <1>8, <2>1, <2>2 DEF OutputInv, OutputTyped
  <2>4. HasRoom' /\ OneCommand'
    BY <1>2, <1>5, <1>8 DEF OutputInv, OutputTyped, HasRoom, OneCommand, Busy
  <2> QED BY <1>4, <1>6, <2>1, <2>3, <2>4, Concluded
<1> QED BY <1>1, <1>7, <1>8, InitsAre DEF OutputInv

LEMMA KernelOutput == ASSUME OutputInv, StartKernel PROVE OutputInv'
<1>1. /\ stage = "startup" /\ ~Busy /\ asked = Puts /\ stage' = "kernel"
      /\ UNCHANGED <<chip, call, asked, prev, tx, sent, lost, cmd, done>>
  BY DEF StartKernel, output
<1>2. asked > 0
  BY <1>1, ConsoleAssumption DEF ConsoleAssumption
<1>3. OutputTyped'
  BY <1>1 DEF OutputInv, OutputTyped, Excuses
<1>4. RightCall' /\ HasRoom' /\ OneCommand'
  BY <1>1, <1>2 DEF OutputInv, RightCall, HasRoom, OneCommand, Busy
<1>5. Kept(Written)'
  BY <1>1 DEF OutputInv, Kept, Ordered, Chars, Missing, Written, Pending
<1> QED BY <1>3, <1>4, <1>5 DEF OutputInv

LEMMA WriteOutput == ASSUME OutputInv, Write1 PROVE OutputInv'
<1>1. /\ stage # "init" /\ ~Busy /\ asked' = asked + 1
      /\ call' = (IF stage = "startup" THEN Put ELSE Display)
      /\ UNCHANGED <<chip, stage, prev, tx, sent, lost, cmd, done>>
  BY DEF Write1
<1>2. PICK w \in Nat : w = Written /\ Kept(w) /\ asked = w
  BY <1>1, WrittenIs DEF Pending, Busy, EarlyTodos
<1>3. /\ call' = [todo |-> call'.todo, left |-> call'.left] /\ call'.left \in Nat
      /\ call'.todo = IF chip = "geni" THEN IF stage = "startup" THEN <<"old", "start", "finish">>
                                            ELSE <<"start", "finish">>
                      ELSE IF chip = "linflexd" /\ stage = "kernel" THEN <<"write", "wait">>
                      ELSE <<"wait", "write">>
      /\ call'.todo = <<"wait", "write">> /\ call'.left # 0 =>
             stage = "kernel" /\ chip \in {"8250", "8250_32b"}
  BY <1>1, ConsoleAssumption
     DEF OutputInv, OutputTyped, Put, Display, WaitThenWrite, put_8250, put_8250_32b, put_pl011,
         put_linflexd, put_tegra, qrb2210_uart_put_char, display_char_8250, display_char_8250_32b,
         display_char_pl011, display_char_linflexd, display_char_tegra, qrb2210_uart_display_char,
         ConsoleAssumption
<1>4. OutputTyped'
  BY <1>1, <1>2, <1>3 DEF OutputInv, OutputTyped, Excuses, GeniTodos, LateTodos, EarlyTodos
<1>5. Busy' /\ Pending' /\ Written' = w
  BY <1>1, <1>2, <1>3 DEF Busy, Pending, Written, EarlyTodos
<1>6. RightCall'
  <2>1. chip = "geni" <=> call'.todo \in GeniTodos
    BY <1>3 DEF GeniTodos
  <2>2. (chip = "linflexd" /\ stage = "kernel") <=> call'.todo \in LateTodos
    BY <1>3 DEF LateTodos
  <2> QED BY <1>1, <1>2, <1>3, <1>5, <2>1, <2>2 DEF OutputInv, RightCall
<1>7. call'.todo # <<"write">> /\ call'.todo # <<"wait">>
      /\ (call'.todo = <<"start", "finish">> => stage = "kernel")
  <2>1. stage \in {"startup", "kernel"}
    BY <1>1 DEF OutputInv, OutputTyped
  <2> QED BY <1>3, <2>1
<1>8. HasRoom' /\ OneCommand'
  <2>1. call.todo # <<"wait">>
    BY <1>1 DEF Busy
  <2>2. HasRoom'
    BY <1>1, <1>2, <1>5, <1>7, <2>1 DEF OutputInv, HasRoom
  <2>3. OneCommand'
    BY <1>1, <1>2, <1>5, <1>7 DEF OutputInv, OneCommand, RightCall
  <2> QED BY <2>2, <2>3
<1>9. Kept(w)'
  BY <1>1, <1>2 DEF Kept, Ordered, Chars, Missing
<1> QED BY <1>4, <1>5, <1>6, <1>8, <1>9, Concluded

\* A step done, the rest of the routine to go.
LEMMA Gone ==
    ASSUME OutputTyped, NEW how, Goes(how)
    PROVE  /\ call'.todo = Tail(call.todo) /\ call'.left = call.left
           /\ call' = [todo |-> Tail(call.todo), left |-> call.left]
           /\ prev' = IF Len(call.todo) = 1 THEN how ELSE prev
BY DEF OutputTyped, Goes

LEMMA WaitOutput == ASSUME OutputInv, Wait PROVE OutputInv'
<1>1. /\ Busy /\ Step = "wait"
      /\ UNCHANGED <<chip, stage, asked, tx, sent, cmd, done>>
      /\ \/ /\ call.left = 1 /\ call' = NoCall /\ prev' = "timeout"
            /\ lost' = IF Len(call.todo) = 2 THEN lost \union {<<asked, "timeout">>} ELSE lost
         \/ lost' = lost /\ Ready /\ Goes("waited")
         \/ /\ lost' = lost /\ prev' = prev
            /\ call' = [call EXCEPT !.left = IF @ = 0 THEN 0 ELSE @ - 1]
  BY DEF Wait, Stops
<1>2. PICK w \in Nat : /\ w = Written /\ Kept(w)
                       /\ (Pending => asked = w + 1) /\ (~Pending => asked = w)
  BY WrittenIs
<1>3. OutputTyped /\ RightCall /\ HasRoom /\ OneCommand
  BY DEF OutputInv
<1>4. \/ call.todo = <<"wait", "write">> /\ asked = w + 1 /\ chip # "geni"
         /\ ~(chip = "linflexd" /\ stage = "kernel")
      \/ call.todo = <<"wait">> /\ asked = w /\ chip = "linflexd" /\ stage = "kernel"
  <2>1. CASE call.todo = <<"wait", "write">>
    <3>1. Pending /\ call.todo \notin GeniTodos /\ call.todo \notin LateTodos
      BY <2>1 DEF Pending, EarlyTodos, GeniTodos, LateTodos
    <3> QED BY <1>1, <1>2, <1>3, <2>1, <3>1 DEF RightCall
  <2>2. CASE call.todo = <<"wait">>
    <3>1. ~Pending /\ call.todo \in LateTodos
      BY <2>2 DEF Pending, EarlyTodos, LateTodos
    <3> QED BY <1>1, <1>2, <1>3, <2>2, <3>1 DEF RightCall
  <2> QED BY <1>1, <1>3, <2>1, <2>2, StepIs
<1>5. stage # "init" /\ asked > 0
  BY <1>1, <1>3 DEF RightCall
<1>6. CASE /\ call.left = 1 /\ call' = NoCall /\ prev' = "timeout"
           /\ lost' = IF Len(call.todo) = 2 THEN lost \union {<<asked, "timeout">>} ELSE lost
  <2>1. call'.todo = <<>> /\ call'.left = 0 /\ ~Busy' /\ ~Pending' /\ Written' = asked
    BY <1>1, <1>6 DEF NoCall, Busy, Pending, Written, EarlyTodos
  <2>2. RightCall' /\ HasRoom' /\ OneCommand'
    BY <1>1, <1>3, <1>4, <1>5, <1>6, <2>1 DEF RightCall, HasRoom, OneCommand
  <2>3. CASE call.todo = <<"wait", "write">> /\ asked = w + 1
    <3>1. lost' = lost \union {<<w + 1, "timeout">>} /\ chip \in {"8250", "8250_32b"}
      BY <1>3, <1>6, <2>3, Lengths DEF RightCall
    <3>2. Kept(w + 1)'
      BY <1>1, <1>2, <3>1, LoseKept
    <3>3. \A l \in lost' : l[2] \in Excuses'
      <4>1. \A l \in lost' \ lost : l[2] \in Excuses
        BY <3>1 DEF Excuses
      <4> QED BY <1>1, <1>3, <4>1, SameExcuses
    <3>4. OutputTyped'
      BY <1>1, <1>3, <1>6, <3>3 DEF OutputTyped, NoCall
    <3> QED BY <2>1, <2>2, <2>3, <3>2, <3>4, Concluded
  <2>4. CASE call.todo = <<"wait">> /\ asked = w
    <3>1. lost' = lost
      BY <1>6, <2>4, Lengths
    <3>2. OutputTyped'
      BY <1>1, <1>3, <1>6, <3>1 DEF OutputTyped, NoCall, Excuses
    <3>3. Kept(w)'
      BY <1>1, <1>2, <3>1 DEF Kept, Ordered, Chars, Missing
    <3> QED BY <2>1, <2>2, <2>4, <3>2, <3>3, Concluded
  <2> QED BY <1>4, <2>3, <2>4
<1>7. CASE lost' = lost /\ Ready /\ Goes("waited")
  <2>1. /\ call'.todo = Tail(call.todo) /\ call'.left = call.left
        /\ call' = [todo |-> Tail(call.todo), left |-> call.left]
        /\ prev' = IF Len(call.todo) = 1 THEN "waited" ELSE prev
    BY <1>3, <1>7, Gone
  <2>2. Kept(w)'
    BY <1>1, <1>2, <1>7 DEF Kept, Ordered, Chars, Missing
  <2>3. Len(tx) < Depth
    <3>1. tx = <<>> => Len(tx) = 0
      OBVIOUS
    <3> QED BY <1>7, <3>1, ConsoleAssumption DEF Ready, ConsoleAssumption
  <2>4. CASE call.todo = <<"wait", "write">> /\ asked = w + 1
    <3>1. call'.todo = <<"write">> /\ prev' = prev
      BY <2>1, <2>4, Tails, Lengths
    <3>2. Busy' /\ Pending' /\ Written' = w
      BY <1>1, <2>4, <3>1 DEF Busy, Pending, Written, EarlyTodos
    <3>3. OutputTyped'
      BY <1>1, <1>3, <1>7, <2>1, <3>1 DEF OutputTyped, EarlyTodos, Excuses
    <3>4. RightCall'
      BY <1>1, <1>3, <1>4, <1>5, <2>1, <2>4, <3>1, <3>2
         DEF RightCall, EarlyTodos, LateTodos, GeniTodos
    <3>5. HasRoom' /\ OneCommand'
      BY <1>1, <1>3, <1>4, <2>3, <2>4, <3>1, <3>2 DEF HasRoom, OneCommand
    <3> QED BY <2>2, <3>2, <3>3, <3>4, <3>5, Concluded
  <2>5. CASE call.todo = <<"wait">> /\ asked = w
    <3>1. call'.todo = <<>> /\ prev' = "waited"
      BY <2>1, <2>5, Tails, Lengths
    <3>2. ~Busy' /\ ~Pending' /\ Written' = w
      BY <1>1, <2>5, <3>1 DEF Busy, Pending, Written, EarlyTodos
    <3>3. OutputTyped'
      BY <1>1, <1>3, <1>7, <2>1, <3>1 DEF OutputTyped, Excuses
    <3>4. RightCall' /\ HasRoom' /\ OneCommand'
      BY <1>1, <1>3, <1>4, <1>5, <2>3, <2>5, <3>1, <3>2 DEF RightCall, HasRoom, OneCommand
    <3> QED BY <2>2, <3>2, <3>3, <3>4, Concluded
  <2> QED BY <1>4, <2>4, <2>5
<1>8. CASE /\ lost' = lost /\ prev' = prev
           /\ call' = [call EXCEPT !.left = IF @ = 0 THEN 0 ELSE @ - 1]
  <2>1. /\ call'.todo = call.todo /\ call'.left \in Nat /\ (call'.left # 0 => call.left # 0)
        /\ call' = [todo |-> call.todo, left |-> call'.left]
    <3>1. call = [todo |-> call.todo, left |-> call.left] /\ call.left \in Nat
      BY <1>3 DEF OutputTyped
    <3>2. call' = [todo |-> call.todo, left |-> IF call.left = 0 THEN 0 ELSE call.left - 1]
      BY <1>8, <3>1
    <3> QED BY <3>1, <3>2
  <2>2. OutputTyped'
    BY <1>1, <1>3, <1>8, <2>1 DEF OutputTyped, Excuses
  <2>3. RightCall' /\ HasRoom' /\ OneCommand'
    BY <1>1, <1>3, <1>8, <2>1 DEF RightCall, HasRoom, OneCommand, Busy
  <2>4. Kept(w)'
    BY <1>1, <1>2, <1>8 DEF Kept, Ordered, Chars, Missing
  <2>5. Written' = w
    BY <1>1, <1>2, <2>1 DEF Written, Pending
  <2> QED BY <2>2, <2>3, <2>4, <2>5, Concluded
<1> QED BY <1>1, <1>6, <1>7, <1>8

LEMMA DataOutput == ASSUME OutputInv, WriteData PROVE OutputInv'
<1> DEFINE how == IF stage = "startup" THEN "put" ELSE "waited"
<1>1. /\ Busy /\ Step = "write" /\ Goes(how)
      /\ UNCHANGED <<chip, stage, asked, sent, cmd, done>>
      /\ \/ Len(tx) < Depth /\ tx' = Append(tx, asked) /\ lost' = lost
         \/ Len(tx) = Depth /\ lost' = lost \union {<<asked, prev>>} /\ tx' = tx
         \/ chip \in Like8250 /\ lost' = lost \union {<<asked, "off">>} /\ tx' = tx
  BY DEF WriteData
<1> HIDE DEF how
<1>2. PICK w \in Nat : w = Written /\ Kept(w) /\ (Pending => asked = w + 1)
  BY WrittenIs
<1>3. OutputTyped /\ RightCall /\ HasRoom /\ OneCommand
  BY DEF OutputInv
<1>4. call.todo \in {<<"write">>, <<"write", "wait">>} /\ asked = w + 1
  <2>1. call.todo \in {<<"write">>, <<"write", "wait">>}
    BY <1>1, <1>3, StepIs
  <2> QED BY <1>2, <2>1 DEF Pending, EarlyTodos
<1>5. /\ chip # "geni" /\ stage # "init"
      /\ (chip = "linflexd" /\ stage = "kernel") <=> call.todo = <<"write", "wait">>
  <2>1. /\ call.todo \notin GeniTodos
        /\ call.todo = <<"write", "wait">> <=> call.todo \in LateTodos
    BY <1>4 DEF GeniTodos, LateTodos
  <2> QED BY <1>1, <1>3, <2>1 DEF RightCall
<1>6. /\ call'.todo = Tail(call.todo) /\ call' = [todo |-> Tail(call.todo), left |-> call.left]
      /\ prev' = IF Len(call.todo) = 1 THEN how ELSE prev
  BY <1>1, <1>3, Gone
<1>7. \/ call.todo = <<"write">> /\ call'.todo = <<>> /\ prev' = how
      \/ call.todo = <<"write", "wait">> /\ call'.todo = <<"wait">> /\ prev' = prev
  <2>1. CASE call.todo = <<"write">>
    BY <1>6, <2>1, Tails, Lengths
  <2>2. CASE call.todo = <<"write", "wait">>
    BY <1>6, <2>2, Tails, Lengths
  <2> QED BY <1>4, <2>1, <2>2
<1>8. ~Pending' /\ Written' = w + 1 /\ RightCall'
  <2>1. ~Pending' /\ Written' = w + 1
    <3>1. ~Pending'
      <4>1. CASE call'.todo = <<>>
        BY <4>1 DEF Pending, EarlyTodos
      <4>2. CASE call'.todo = <<"wait">>
        BY <4>2 DEF Pending, EarlyTodos
      <4> QED BY <1>7, <4>1, <4>2, Zenon
    <3> QED BY <1>1, <1>4, <3>1, Zenon DEF Written
  <2>2. CASE call'.todo = <<>>
    BY <1>1, <1>3, <1>5, <2>1, <2>2 DEF RightCall, Busy
  <2>3. CASE call'.todo = <<"wait">>
    <3>1. chip = "linflexd" /\ stage = "kernel" /\ Busy'
      BY <1>5, <1>7, <2>3 DEF Busy
    <3> QED BY <1>1, <1>3, <2>1, <2>3, <3>1 DEF RightCall, GeniTodos, LateTodos
  <2> QED BY <1>7, <2>2, <2>3
<1>9. HasRoom' /\ OneCommand'
  <2>1. stage \in {"startup", "kernel"} /\ how = IF stage = "startup" THEN "put" ELSE "waited"
    BY <1>3, <1>5 DEF OutputTyped, how
  <2>2. CASE call.todo = <<"write">>
    <3>1. call'.todo = <<>> /\ prev' = how /\ ~(chip = "linflexd" /\ stage = "kernel")
      BY <1>5, <1>7, <2>2
    <3> QED BY <1>1, <1>3, <1>5, <2>1, <3>1 DEF HasRoom, OneCommand
  <2>3. CASE call.todo = <<"write", "wait">>
    <3>1. call'.todo = <<"wait">> /\ prev' = prev /\ stage = "kernel"
      BY <1>5, <1>7, <2>3
    <3> QED BY <1>1, <1>3, <1>5, <3>1 DEF HasRoom, OneCommand
  <2> QED BY <1>4, <2>2, <2>3
<1>10. tx' \in Seq(Nat) /\ Kept(w + 1)' /\ \A l \in lost' : l[2] \in Excuses'
  <2>1. tx \in Seq(Nat) /\ sent \in Seq(Nat)
    BY <1>3 DEF OutputTyped
  <2>2. CASE Len(tx) < Depth /\ tx' = Append(tx, asked) /\ lost' = lost
    <3>1. tx' \in Seq(Nat) /\ Kept(w + 1)'
      BY <1>1, <1>2, <1>4, <2>1, <2>2, PutKept
    <3>2. \A l \in lost' : l[2] \in Excuses'
      BY <1>1, <1>3, <2>2, SameExcuses
    <3> QED BY <3>1, <3>2
  <2>3. CASE Len(tx) = Depth /\ lost' = lost \union {<<asked, prev>>} /\ tx' = tx
    <3>1. ~(Len(tx) < Depth)
      BY <2>3, ConsoleAssumption DEF ConsoleAssumption
    <3>2. chip = "linflexd" /\ prev \in {"put", "timeout"}
      BY <1>3, <1>4, <1>5, <3>1 DEF HasRoom, OutputTyped
    <3>3. \A l \in lost' \ lost : l[2] \in Excuses
      BY <2>3, <3>2 DEF Excuses
    <3>4. Kept(w + 1)'
      BY <1>1, <1>2, <1>4, <2>3, LoseKept
    <3> QED BY <1>1, <1>3, <2>1, <2>3, <3>3, <3>4, SameExcuses
  <2>4. CASE chip \in Like8250 /\ lost' = lost \union {<<asked, "off">>} /\ tx' = tx
    <3>1. \A l \in lost' \ lost : l[2] \in Excuses
      BY <2>4 DEF Excuses, Like8250
    <3>2. Kept(w + 1)'
      BY <1>1, <1>2, <1>4, <2>4, LoseKept
    <3> QED BY <1>1, <1>3, <2>1, <2>4, <3>1, <3>2, SameExcuses
  <2> QED BY <1>1, <2>2, <2>3, <2>4
<1>11. OutputTyped'
  <2>1. prev' \in {"waited", "put", "timeout", "done"}
    BY <1>3, <1>7 DEF OutputTyped, how
  <2>2. call' \in [todo : {<<>>} \union LateTodos, left : Nat]
    BY <1>3, <1>6, <1>7 DEF OutputTyped, LateTodos
  <2> QED BY <1>1, <1>3, <1>10, <2>1, <2>2 DEF OutputTyped
<1> QED BY <1>8, <1>9, <1>10, <1>11, Concluded

LEMMA ClearOutput == ASSUME OutputInv, ClearOld PROVE OutputInv'
<1>1. /\ Busy /\ Step = "old" /\ UNCHANGED <<chip, stage, asked, sent, done>>
      /\ \/ cmd = "idle" /\ Goes("put") /\ UNCHANGED <<tx, lost, cmd>>
         \/ call.left > 1 /\ Waited
         \/ cmd # "idle" /\ done /\ Goes("put") /\ UNCHANGED <<tx, lost, cmd>>
         \/ Goes("put") /\ Abort
  BY DEF ClearOld
<1>2. PICK w \in Nat : w = Written /\ Kept(w)
  BY WrittenIs
<1>3. OutputTyped /\ RightCall /\ HasRoom /\ OneCommand
  BY DEF OutputInv
<1>4. call.todo = <<"old", "start", "finish">>
  BY <1>1, <1>3, StepIs
<1>5. chip = "geni" /\ Pending /\ stage # "init"
  BY <1>1, <1>3, <1>4 DEF RightCall, GeniTodos, Pending
<1>6. CASE call.left > 1 /\ Waited
  <2>1. /\ call' = [todo |-> call.todo, left |-> call'.left] /\ call'.left \in Nat
        /\ call'.todo = call.todo /\ UNCHANGED <<prev, tx, lost, cmd>>
    BY <1>3, <1>6 DEF Waited, OutputTyped
  <2>2. OutputTyped'
    BY <1>1, <1>3, <2>1 DEF OutputTyped, Excuses
  <2>3. RightCall' /\ HasRoom' /\ OneCommand'
    BY <1>1, <1>3, <1>4, <2>1 DEF RightCall, HasRoom, OneCommand, Busy
  <2>4. Kept(w)'
    BY <1>1, <1>2, <2>1 DEF Kept, Ordered, Chars, Missing
  <2>5. Written' = w
    BY <1>1, <1>2, <2>1 DEF Written, Pending
  <2> QED BY <2>2, <2>3, <2>4, <2>5, Concluded
<1>7. ASSUME Goes("put"), cmd' \in {"idle", "active", "stuck"}, tx' = <<>>, Kept(w)', done' => cmd' = "idle",
             \A l \in lost' : l[2] \in Excuses'
      PROVE  OutputInv'
  <2>1. /\ call' = [todo |-> <<"start", "finish">>, left |-> call.left] /\ prev' = prev
        /\ call'.todo = <<"start", "finish">>
    BY <1>3, <1>4, <1>7, Gone, Tails, Lengths
  <2>2. OutputTyped'
    BY <1>1, <1>3, <1>7, <2>1 DEF OutputTyped, GeniTodos
  <2>3. Busy' /\ Pending' /\ Written' = w
    BY <1>1, <1>2, <1>5, <2>1 DEF Busy, Pending, Written
  <2>4. RightCall'
    BY <1>1, <1>3, <1>5, <2>1, <2>3 DEF RightCall, GeniTodos, LateTodos
  <2>5. HasRoom' /\ OneCommand'
    BY <1>1, <1>5, <1>7, <2>1, <2>3 DEF HasRoom, OneCommand
  <2> QED BY <1>7, <2>2, <2>3, <2>4, <2>5, Concluded
<1>8. CASE cmd = "idle" /\ Goes("put") /\ UNCHANGED <<tx, lost, cmd>>
  <2>1. tx = <<>>
    BY <1>3, <1>5, <1>8 DEF OneCommand
  <2>2. Kept(w)'
    BY <1>1, <1>2, <1>8 DEF Kept, Ordered, Chars, Missing
  <2>3. \A l \in lost' : l[2] \in Excuses'
    BY <1>1, <1>3, <1>8, SameExcuses
  <2> QED BY <1>1, <1>7, <1>8, <2>1, <2>2, <2>3
<1>9. CASE Goes("put") /\ Abort
  <2>1. cmd' = "idle" /\ tx' = <<>> /\ lost' = lost \union {<<c, "aborted">> : c \in ToSet(tx)}
    BY <1>9 DEF Abort, Garble
  <2>2. Kept(w)' /\ \A l \in lost' \ lost : l[2] = "aborted"
    <3>1. tx \in Seq(Nat) /\ sent \in Seq(Nat) /\ sent' = sent
      BY <1>1, <1>3 DEF OutputTyped
    <3> QED BY <1>2, <2>1, <3>1, GarbleKept
  <2>3. \A l \in lost' : l[2] \in Excuses'
    <3>1. \A l \in lost' \ lost : l[2] \in Excuses
      BY <1>5, <2>2 DEF Excuses
    <3> QED BY <1>1, <1>3, <3>1, SameExcuses
  <2> QED BY <1>7, <1>9, <2>1, <2>2, <2>3
<1>10. ~(cmd # "idle" /\ done)
  BY <1>3, <1>5 DEF OneCommand
<1> QED BY <1>1, <1>6, <1>8, <1>9, <1>10

LEMMA StartOutput == ASSUME OutputInv, StartCommand PROVE OutputInv'
<1>1. /\ Busy /\ Step = "start" /\ Goes("put") /\ UNCHANGED <<chip, stage, asked, sent>>
      /\ lost' = lost \union {<<c, "overrun">> : c \in ToSet(tx)}
      /\ tx' = <<asked>> /\ cmd' = "active" /\ done' = FALSE
  BY DEF StartCommand
<1>2. PICK w \in Nat : w = Written /\ Kept(w) /\ (Pending => asked = w + 1)
  BY WrittenIs
<1>3. OutputTyped /\ RightCall /\ HasRoom /\ OneCommand
  BY DEF OutputInv
<1>4. call.todo = <<"start", "finish">>
  BY <1>1, <1>3, StepIs
<1>5. chip = "geni" /\ asked = w + 1 /\ stage # "init"
  BY <1>1, <1>2, <1>3, <1>4 DEF RightCall, GeniTodos, Pending
<1>6. tx = <<>> /\ ToSet(tx) = {}
  BY <1>3, <1>4, <1>5 DEF OneCommand, ToSet
<1>7. lost' = lost /\ tx' = Append(tx, w + 1)
  BY <1>1, <1>5, <1>6
<1>8. Kept(w + 1)' /\ tx' \in Seq(Nat) /\ Len(tx') = 1
  BY <1>1, <1>2, <1>3, <1>6, <1>7, PutKept DEF OutputTyped
<1>9. /\ call' = [todo |-> <<"finish">>, left |-> call.left] /\ prev' = prev
      /\ call'.todo = <<"finish">>
  BY <1>1, <1>3, <1>4, Gone, Tails, Lengths
<1>10. OutputTyped'
  BY <1>1, <1>3, <1>7, <1>8, <1>9 DEF OutputTyped, GeniTodos, Excuses
<1>11. Busy' /\ ~Pending' /\ Written' = w + 1
  BY <1>1, <1>5, <1>9 DEF Busy, Pending, Written, EarlyTodos
<1>12. RightCall'
  BY <1>1, <1>3, <1>5, <1>9, <1>11 DEF RightCall, GeniTodos, LateTodos
<1>13. HasRoom' /\ OneCommand'
  BY <1>1, <1>5, <1>8, <1>9, <1>11 DEF HasRoom, OneCommand
<1> QED BY <1>8, <1>10, <1>11, <1>12, <1>13, Concluded

LEMMA FinishOutput == ASSUME OutputInv, Finish PROVE OutputInv'
<1>1. /\ Busy /\ Step = "finish" /\ UNCHANGED <<chip, stage, asked, sent>>
      /\ \/ done /\ Goes("done") /\ done' = FALSE /\ UNCHANGED <<tx, lost, cmd>>
         \/ call.left > 1 /\ Waited /\ done' = done
         \/ Goes("timeout") /\ Abort /\ done' = FALSE
  BY DEF Finish
<1>2. PICK w \in Nat : w = Written /\ Kept(w) /\ (~Pending => asked = w)
  BY WrittenIs
<1>3. OutputTyped /\ RightCall /\ HasRoom /\ OneCommand
  BY DEF OutputInv
<1>4. call.todo = <<"finish">>
  BY <1>1, <1>3, StepIs
<1>5. chip = "geni" /\ asked = w /\ stage # "init" /\ asked > 0
  BY <1>1, <1>2, <1>3, <1>4 DEF RightCall, GeniTodos, EarlyTodos, Pending
<1>6. CASE call.left > 1 /\ Waited /\ done' = done
  <2>1. /\ call' = [todo |-> call.todo, left |-> call'.left] /\ call'.left \in Nat
        /\ call'.todo = call.todo /\ UNCHANGED <<prev, tx, lost, cmd>>
    BY <1>3, <1>6 DEF Waited, OutputTyped
  <2>2. OutputTyped'
    BY <1>1, <1>3, <2>1 DEF OutputTyped, Excuses
  <2>3. RightCall' /\ HasRoom' /\ OneCommand'
    BY <1>1, <1>3, <1>4, <1>6, <2>1 DEF RightCall, HasRoom, OneCommand, Busy
  <2>4. Kept(w)'
    BY <1>1, <1>2, <2>1 DEF Kept, Ordered, Chars, Missing
  <2>5. Written' = w
    BY <1>1, <1>2, <2>1 DEF Written, Pending
  <2> QED BY <2>2, <2>3, <2>4, <2>5, Concluded
<1>7. ASSUME NEW how \in {"done", "timeout"}, Goes(how), tx' = <<>>, Kept(w)', done' = FALSE,
             cmd' \in {"idle", "active", "stuck"}, \A l \in lost' : l[2] \in Excuses'
      PROVE  OutputInv'
  <2>1. call' = [todo |-> <<>>, left |-> call.left] /\ call'.todo = <<>> /\ prev' = how
    BY <1>3, <1>4, <1>7, Gone, Tails, Lengths
  <2>2. OutputTyped'
    BY <1>1, <1>3, <1>7, <2>1 DEF OutputTyped
  <2>3. ~Busy' /\ ~Pending' /\ Written' = w
    BY <1>1, <1>5, <2>1 DEF Busy, Pending, Written, EarlyTodos
  <2>4. RightCall'
    BY <1>1, <1>3, <1>5, <2>1, <2>3 DEF RightCall
  <2>5. HasRoom' /\ OneCommand'
    BY <1>1, <1>5, <1>7, <2>1, <2>3 DEF HasRoom, OneCommand
  <2> QED BY <1>7, <2>2, <2>3, <2>4, <2>5, Concluded
<1>8. CASE done /\ Goes("done") /\ done' = FALSE /\ UNCHANGED <<tx, lost, cmd>>
  <2>1. tx = <<>>
    BY <1>3, <1>5, <1>8 DEF OneCommand
  <2>2. Kept(w)'
    BY <1>1, <1>2, <1>8 DEF Kept, Ordered, Chars, Missing
  <2>3. \A l \in lost' : l[2] \in Excuses'
    BY <1>1, <1>3, <1>8, SameExcuses
  <2>4. cmd' \in {"idle", "active", "stuck"}
    BY <1>3, <1>8 DEF OutputTyped
  <2> QED BY <1>7, <1>8, <2>1, <2>2, <2>3, <2>4
<1>9. CASE Goes("timeout") /\ Abort /\ done' = FALSE
  <2>1. cmd' = "idle" /\ tx' = <<>> /\ lost' = lost \union {<<c, "aborted">> : c \in ToSet(tx)}
    BY <1>9 DEF Abort, Garble
  <2>2. Kept(w)' /\ \A l \in lost' \ lost : l[2] = "aborted"
    <3>1. tx \in Seq(Nat) /\ sent \in Seq(Nat) /\ sent' = sent
      BY <1>1, <1>3 DEF OutputTyped
    <3> QED BY <1>2, <2>1, <3>1, GarbleKept
  <2>3. \A l \in lost' : l[2] \in Excuses'
    <3>1. \A l \in lost' \ lost : l[2] \in Excuses
      BY <1>5, <2>2 DEF Excuses
    <3> QED BY <1>1, <1>3, <3>1, SameExcuses
  <2> QED BY <1>7, <1>9, <2>1, <2>2, <2>3
<1> QED BY <1>1, <1>6, <1>8, <1>9

-----------------------------------------------------------------------------
(* Keys.                                                                   *)

LEMMA InputStays == ASSUME InputInv, UNCHANGED <<chip, input>> PROVE InputInv'
<1>1. UNCHANGED <<chip, rx, rxcall, arrived, keys, eaten>>
  BY DEF input
<1> QED BY <1>1 DEF InputInv, InputTyped, KeysInOrder, NoneSkipped, AllKeys

\* One more key, or break, at the end of the receiver's.
LEMMA OneArrives ==
    ASSUME InputInv, NEW item \in Item, item.key = arrived + 1, item.brk = TRUE => item.null = TRUE,
           chip # "geni" => item.packed = FALSE,
           rx' = Append(rx, item), arrived' = arrived + 1, UNCHANGED <<chip, rxcall, keys, eaten>>
    PROVE  InputInv'
<1>1. /\ rx \in Seq(Item) /\ keys \in Seq(Nat) /\ arrived \in Nat /\ eaten \in Seq(Item)
      /\ rxcall \in {"none", "eat"}
  BY DEF InputInv, InputTyped
<1>2. /\ rx' \in Seq(Item) /\ Len(rx') = Len(rx) + 1 /\ Len(rx) \in Nat
      /\ \A i \in 1 .. Len(rx) : rx'[i] = rx[i]
      /\ rx'[Len(rx) + 1] = item
  BY <1>1
<1>3. InputTyped'
  <2>1. rxcall' = "eat" => rx' # <<>> /\ rx'[1].null = TRUE
    <3>1. ASSUME rxcall = "eat" PROVE 1 \in 1 .. Len(rx) /\ rx[1].null = TRUE
      BY <1>1, <3>1 DEF InputInv, InputTyped
    <3>2. rx' # <<>>
      BY <1>2
    <3> QED BY <1>2, <3>1, <3>2
  <2>2. \A i \in 1 .. Len(rx') : rx'[i].brk = TRUE => rx'[i].null = TRUE
    <3>1. \A i \in 1 .. Len(rx) : rx[i].brk = TRUE => rx[i].null = TRUE
      BY DEF InputInv, InputTyped
    <3> QED BY <1>2, <3>1
  <2>3. chip' # "geni" => \A i \in 1 .. Len(rx') : rx'[i].packed = FALSE
    <3>1. chip # "geni" => \A i \in 1 .. Len(rx) : rx[i].packed = FALSE
      BY DEF InputInv, InputTyped
    <3> QED BY <1>2, <3>1
  <2> QED BY <1>1, <1>2, <2>1, <2>2, <2>3 DEF InputTyped
<1>4. KeysInOrder'
  <2>1. KeysInOrder
    BY DEF InputInv
  <2>2. /\ \A i \in 1 .. Len(rx) : rx[i] \in Item /\ rx[i].key \in Nat
        /\ \A i \in 1 .. Len(keys) : keys[i] \in Nat
    <3>1. \A r \in Item : r.key \in Nat
      BY DEF Item
    <3> QED BY <1>1, <3>1
  <2>3. \A i, j \in 1 .. Len(rx') : i < j => rx'[i].key < rx'[j].key
    <3> SUFFICES ASSUME NEW i \in 1 .. Len(rx) + 1, NEW j \in 1 .. Len(rx) + 1, i < j
                 PROVE  rx'[i].key < rx'[j].key
      BY <1>2
    <3>1. i \in 1 .. Len(rx)
      BY <1>2
    <3>2. CASE j \in 1 .. Len(rx)
      BY <1>2, <2>1, <3>1, <3>2 DEF KeysInOrder
    <3>3. CASE j = Len(rx) + 1
      BY <1>1, <1>2, <2>1, <2>2, <3>1, <3>3 DEF KeysInOrder
    <3>4. \A k \in Nat : \A m \in 1 .. k + 1 : m \in 1 .. k \/ m = k + 1
      OBVIOUS
    <3> QED BY <1>2, <3>2, <3>3, <3>4
  <2>4. \A i \in 1 .. Len(keys), j \in 1 .. Len(rx') : keys[i] < rx'[j].key
    BY <1>1, <1>2, <2>1, <2>2 DEF KeysInOrder
  <2>5. \A i \in 1 .. Len(rx') : rx'[i].key <= arrived + 1
    BY <1>1, <1>2, <2>1, <2>2 DEF KeysInOrder
  <2>6. \A i \in 1 .. Len(keys) : keys[i] <= arrived + 1
    BY <1>1, <2>1, <2>2 DEF KeysInOrder
  <2> QED BY <2>1, <2>3, <2>4, <2>5, <2>6 DEF KeysInOrder
<1>5. NoneSkipped'
  <2> SUFFICES ASSUME chip # "geni", NEW n \in 1 .. arrived + 1 PROVE n \in AllKeys'
    BY DEF NoneSkipped
  <2>1. ToSet(rx') = ToSet(rx) \union {item}
    <3>1. DOMAIN rx = 1 .. Len(rx) /\ DOMAIN rx' = 1 .. Len(rx) + 1
      BY <1>1, <1>2
    <3> QED BY <1>2, <3>1 DEF ToSet
  <2>2. CASE n \in 1 .. arrived
    <3>1. n \in AllKeys
      BY <2>2 DEF InputInv, NoneSkipped
    <3> QED BY <2>1, <3>1 DEF AllKeys, KeysOf
  <2>3. CASE n = arrived + 1
    BY <2>1, <2>3 DEF AllKeys, KeysOf
  <2> QED BY <1>1, <2>2, <2>3
<1> QED BY <1>3, <1>4, <1>5 DEF InputInv

LEMMA ArriveInput == ASSUME InputInv, Arrive PROVE InputInv'
<1>1. arrived' = arrived + 1 /\ UNCHANGED <<chip, rxcall, keys, eaten>> /\ arrived \in Nat
  BY DEF Arrive, InputInv, InputTyped
<1>2. ASSUME NEW packed \in BOOLEAN, chip # "geni" => packed = FALSE,
             rx' = Append(rx, [key |-> arrived + 1, null |-> FALSE, brk |-> FALSE, packed |-> packed])
      PROVE  InputInv'
  <2> DEFINE item == [key |-> arrived + 1, null |-> FALSE, brk |-> FALSE, packed |-> packed]
  <2>1. /\ item \in Item /\ item.key = arrived + 1 /\ (item.brk = TRUE => item.null = TRUE)
        /\ chip # "geni" => item.packed = FALSE
    BY <1>1, <1>2 DEF Item
  <2> HIDE DEF item
  <2>2. rx' = Append(rx, item)
    BY <1>2 DEF item
  <2> QED BY <1>1, <2>1, <2>2, OneArrives
<1>3. CASE rx' = Append(rx, [key |-> arrived + 1, null |-> TRUE, brk |-> TRUE, packed |-> FALSE])
  <2> DEFINE item == [key |-> arrived + 1, null |-> TRUE, brk |-> TRUE, packed |-> FALSE]
  <2>1. /\ item \in Item /\ item.key = arrived + 1 /\ (item.brk = TRUE => item.null = TRUE)
        /\ chip # "geni" => item.packed = FALSE
    BY <1>1 DEF Item
  <2> HIDE DEF item
  <2>2. rx' = Append(rx, item)
    BY <1>3 DEF item
  <2> QED BY <1>1, <2>1, <2>2, OneArrives
<1>4. CASE chip = "geni" /\ rx' = rx
  <2>1. InputTyped'
    BY <1>1, <1>4 DEF InputInv, InputTyped
  <2>2. KeysInOrder'
    <3>1. /\ \A i \in 1 .. Len(rx) : rx[i].key \in Nat /\ rx[i].key <= arrived
          /\ \A i \in 1 .. Len(keys) : keys[i] \in Nat /\ keys[i] <= arrived
      <4>1. /\ \A i \in 1 .. Len(rx) : rx[i] \in Item
            /\ \A i \in 1 .. Len(keys) : keys[i] \in Nat
        BY DEF InputInv, InputTyped
      <4>2. \A r \in Item : r.key \in Nat
        BY DEF Item
      <4> QED BY <4>1, <4>2 DEF InputInv, KeysInOrder
    <3> QED BY <1>1, <1>4, <3>1 DEF InputInv, KeysInOrder
  <2> QED BY <1>1, <1>4, <2>1, <2>2 DEF InputInv, NoneSkipped
<1>5. \/ \E packed \in IF chip = "geni" /\ rx # <<>> THEN BOOLEAN ELSE {FALSE} :
            rx' = Append(rx, [key |-> arrived + 1, null |-> FALSE, brk |-> FALSE, packed |-> packed])
      \/ rx' = Append(rx, [key |-> arrived + 1, null |-> TRUE, brk |-> TRUE, packed |-> FALSE])
      \/ chip = "geni" /\ rx' = rx
  BY DEF Arrive
<1> QED BY <1>2, <1>3, <1>4, <1>5

\* Reading an 8250's LSR takes the indication of a break and nothing else.
LEMMA LsrKept ==
    ASSUME InputInv, rx' = LsrRead(rx), UNCHANGED <<chip, arrived, keys, eaten>>,
           rxcall' \in {"none", "eat"}, rxcall' = "eat" => rx # <<>> /\ rx[1].null = TRUE
    PROVE  InputInv'
<1>1. /\ rx \in Seq(Item) /\ keys \in Seq(Nat) /\ arrived \in Nat /\ eaten \in Seq(Item)
  BY DEF InputInv, InputTyped
<1>2. /\ rx' \in Seq(Item) /\ Len(rx') = Len(rx)
      /\ \A i \in 1 .. Len(rx) :
            /\ rx'[i].key = rx[i].key /\ rx'[i].null = rx[i].null /\ rx'[i].packed = rx[i].packed
            /\ rx'[i].brk = rx[i].brk \/ rx'[i].brk = FALSE
  <2>1. CASE rx' = rx
    BY <1>1, <2>1
  <2>2. CASE rx # <<>> /\ rx' = [rx EXCEPT ![1].brk = FALSE]
    <3>1. 1 \in 1 .. Len(rx) /\ rx[1] \in Item
      BY <1>1, <2>2
    <3>2. PICK first \in Item : /\ first = [rx[1] EXCEPT !.brk = FALSE] /\ first.key = rx[1].key
                                /\ first.null = rx[1].null /\ first.packed = rx[1].packed
                                /\ first.brk = FALSE
      <4>1. \A r \in Item : LET f == [r EXCEPT !.brk = FALSE] IN
               f \in Item /\ f.key = r.key /\ f.null = r.null /\ f.packed = r.packed /\ f.brk = FALSE
        BY DEF Item
      <4> QED BY <3>1, <4>1
    <3>3. rx' = [rx EXCEPT ![1] = first]
      BY <2>2, <3>2
    <3>4. /\ rx' \in Seq(Item) /\ Len(rx') = Len(rx)
          /\ \A i \in 1 .. Len(rx) : rx'[i] = IF i = 1 THEN first ELSE rx[i]
      BY <1>1, <3>1, <3>3
    <3> QED BY <3>2, <3>4
  <2> QED BY <2>1, <2>2 DEF LsrRead
<1>3. InputTyped'
  <2>1. rxcall' = "eat" => rx' # <<>> /\ rx'[1].null = TRUE
    <3>1. ASSUME rxcall' = "eat" PROVE 1 \in 1 .. Len(rx) /\ rx[1].null = TRUE
      BY <1>1, <3>1
    <3> QED BY <1>2, <3>1
  <2>2. \A i \in 1 .. Len(rx') : rx'[i].brk = TRUE => rx'[i].null = TRUE
    BY <1>2 DEF InputInv, InputTyped
  <2>3. chip' # "geni" => \A i \in 1 .. Len(rx') : rx'[i].packed = FALSE
    BY <1>2 DEF InputInv, InputTyped
  <2> QED BY <1>1, <1>2, <2>1, <2>2, <2>3 DEF InputTyped
<1>4. KeysInOrder'
  BY <1>2 DEF InputInv, KeysInOrder
<1>5. AllKeys' = AllKeys
  <2>1. KeysOf(rx') = KeysOf(rx)
    <3>1. DOMAIN rx = 1 .. Len(rx) /\ DOMAIN rx' = 1 .. Len(rx)
      BY <1>1, <1>2
    <3>2. ToSet(rx) = {rx[i] : i \in 1 .. Len(rx)} /\ ToSet(rx') = {rx'[i] : i \in 1 .. Len(rx)}
      BY <3>1 DEF ToSet
    <3>3. \A i \in 1 .. Len(rx) : rx'[i].key = rx[i].key
      BY <1>2
    <3> QED BY <3>2, <3>3 DEF KeysOf
  <2> QED BY <2>1 DEF AllKeys
<1> QED BY <1>3, <1>4, <1>5 DEF InputInv, NoneSkipped

LEMMA BreakInput == ASSUME OutputTyped, InputInv, BreakDetect PROVE InputInv'
<1>1. UNCHANGED <<chip, arrived, keys, eaten>> /\ Idle
  BY DEF BreakDetect
<1>2. CASE chip = "geni"
  <2>1. UNCHANGED <<rx, rxcall>>
    BY <1>2 DEF BreakDetect, qrb2210_uart_break_detect
  <2> QED BY <1>1, <2>1 DEF InputInv, InputTyped, KeysInOrder, NoneSkipped, AllKeys
<1>3. CASE chip # "geni" /\ chip \in {"8250", "8250_32b", "pl011", "linflexd", "tegra"}
  <2>1. /\ rx' = LsrRead(rx) /\ rxcall' \in {"none", "eat"}
        /\ rxcall' = "eat" => rx # <<>> /\ rx[1].brk
    BY <1>3 DEF BreakDetect, break_detect_8250, break_detect_8250_32b, break_detect_pl011,
                break_detect_linflexd, break_detect_tegra
  <2>2. rxcall' = "eat" => rx # <<>> /\ rx[1].null = TRUE
    <3> SUFFICES ASSUME rxcall' = "eat" PROVE rx # <<>> /\ rx[1].null = TRUE
      OBVIOUS
    <3>1. rx # <<>> /\ 1 \in 1 .. Len(rx) /\ rx[1] \in Item
      BY <2>1 DEF InputInv, InputTyped
    <3>2. rx[1].brk = TRUE
      BY <2>1, <3>1 DEF Item
    <3> QED BY <3>1, <3>2 DEF InputInv, InputTyped
  <2> QED BY <1>1, <2>1, <2>2, LsrKept
<1> QED BY <1>2, <1>3 DEF OutputTyped

LEMMA WaitInput == ASSUME InputInv, Wait PROVE InputInv'
<1>1. UNCHANGED <<chip, arrived, keys, eaten, rxcall>> /\ (rx' = rx \/ rx' = LsrRead(rx))
  BY DEF Wait
<1>2. rxcall \in {"none", "eat"} /\ (rxcall = "eat" => rx # <<>> /\ rx[1].null = TRUE)
  BY DEF InputInv, InputTyped
<1>3. CASE rx' = rx
  BY <1>1, <1>3 DEF InputInv, InputTyped, KeysInOrder, NoneSkipped, AllKeys
<1>4. CASE rx' = LsrRead(rx)
  BY <1>1, <1>2, <1>4, LsrKept
<1> QED BY <1>1, <1>3, <1>4

LEMMA LeastNat ==
    ASSUME NEW S, S \subseteq Nat, S # {}
    PROVE  \E n \in S : \A m \in S : n <= m
<1>1. IsWellFoundedOn(OpToRel(<, Nat), Nat)
  BY NatLessThanWellFounded
<1>2. PICK n \in S : \A m \in S : ~(<<m, n>> \in OpToRel(<, Nat))
  BY <1>1, WFMin
<1>3. ASSUME NEW m \in S PROVE n <= m
  <2>1. m \in Nat /\ n \in Nat
    OBVIOUS
  <2>2. <<m, n>> \in Nat \X Nat
    BY <2>1
  <2>3. ~(m < n)
    BY <1>2, <2>2 DEF OpToRel
  <2> QED BY <2>1, <2>3
<1> QED BY <1>3

\* One read takes the first key with those packed behind it.
LEMMA PoppedIs ==
    ASSUME rx \in Seq(Item), rx # <<>>
    PROVE  \E k \in 1 .. Len(rx) :
              /\ Popped(rx) = SubSeq(rx, k + 1, Len(rx))
              /\ (\A i \in 1 .. Len(rx) : rx[i].packed = FALSE) => k = 1
<1> DEFINE Ends(i) == i < Len(rx) => ~rx[i + 1].packed
           IsOne(i) == (\A j \in 2 .. i : rx[j].packed) /\ Ends(i)
           one == CHOOSE i \in 1 .. Len(rx) : IsOne(i)
<1>1. Len(rx) \in Nat \ {0}
  OBVIOUS
<1>2. PICK k \in {i \in 1 .. Len(rx) : Ends(i)} : \A i \in 1 .. Len(rx) : Ends(i) => k <= i
  <2>1. {i \in 1 .. Len(rx) : Ends(i)} \subseteq Nat /\ Len(rx) \in {i \in 1 .. Len(rx) : Ends(i)}
    BY <1>1
  <2> HIDE DEF Ends
  <2> QED BY <2>1, LeastNat
<1>3. IsOne(k)
  <2> SUFFICES ASSUME NEW j \in 2 .. k PROVE rx[j].packed
    BY <1>2
  <2>1. j - 1 \in 1 .. Len(rx) /\ ~(k <= j - 1) /\ (j - 1) + 1 = j
    BY <1>1, <1>2
  <2>2. ~Ends(j - 1)
    BY <1>2, <2>1
  <2> QED BY <2>1, <2>2
<1>4. one \in 1 .. Len(rx) /\ IsOne(one)
  <2> HIDE DEF IsOne
  <2> QED BY <1>2, <1>3
<1>5. Popped(rx) = SubSeq(rx, one + 1, Len(rx))
  BY DEF Popped
<1> HIDE DEF one
<1>6. ASSUME \A i \in 1 .. Len(rx) : rx[i].packed = FALSE PROVE one = 1
  <2>1. CASE 2 \in 2 .. one
    BY <1>1, <1>4, <1>6, <2>1
  <2>2. CASE ~(2 \in 2 .. one)
    BY <1>1, <1>4, <2>2
  <2> QED BY <2>1, <2>2
<1> QED BY <1>4, <1>5, <1>6

LEMMA Suffix ==
    ASSUME rx \in Seq(Item), NEW k \in 1 .. Len(rx), rx' = SubSeq(rx, k + 1, Len(rx))
    PROVE  /\ rx' \in Seq(Item) /\ Len(rx') = Len(rx) - k /\ Len(rx) \in Nat
           /\ \A i \in 1 .. Len(rx') : i + k \in 1 .. Len(rx) /\ rx'[i] = rx[i + k]
<1>1. Len(rx) \in Nat /\ k \in Nat /\ k + 1 >= 1
  OBVIOUS
<1>2. Len(rx') = Len(rx) - k
  BY <1>1
<1>3. \A i \in 1 .. Len(rx') : i + k \in 1 .. Len(rx) /\ rx'[i] = rx[i + k]
  BY <1>1, <1>2
<1>4. rx' \in Seq(Item)
  BY <1>1
<1> QED BY <1>1, <1>2, <1>3, <1>4

\* What is left behind the first key or keys.
LEMMA LeftBehind ==
    ASSUME InputInv, NEW k \in 1 .. Len(rx), rx' = SubSeq(rx, k + 1, Len(rx)), chip' = chip
    PROVE  /\ rx' \in Seq(Item) /\ rx[1] \in Item /\ rx[1].key \in Nat /\ 1 \in 1 .. Len(rx)
           /\ \A i \in 1 .. Len(rx') : rx'[i].brk = TRUE => rx'[i].null = TRUE
           /\ chip' # "geni" => \A i \in 1 .. Len(rx') : rx'[i].packed = FALSE
           /\ \A i, j \in 1 .. Len(rx') : i < j => rx'[i].key < rx'[j].key
           /\ \A i \in 1 .. Len(rx') :
                 /\ rx[1].key < rx'[i].key /\ rx'[i].key <= arrived
                 /\ \A j \in 1 .. Len(keys) : keys[j] < rx'[i].key
           /\ k = 1 => KeysOf(rx) = {rx[1].key} \union KeysOf(rx')
<1>1. rx \in Seq(Item)
  BY DEF InputInv, InputTyped
<1>2. /\ rx' \in Seq(Item) /\ Len(rx') = Len(rx) - k /\ Len(rx) \in Nat
      /\ \A i \in 1 .. Len(rx') : i + k \in 1 .. Len(rx) /\ rx'[i] = rx[i + k]
  BY <1>1, Suffix
<1>3. 1 \in 1 .. Len(rx) /\ rx[1] \in Item /\ rx[1].key \in Nat
  <2>1. 1 \in 1 .. Len(rx)
    BY <1>2
  <2>2. rx[1] \in Item
    BY <1>1, <2>1
  <2> QED BY <2>1, <2>2 DEF Item
<1>4. /\ \A i \in 1 .. Len(rx') : rx'[i].brk = TRUE => rx'[i].null = TRUE
      /\ chip' # "geni" => \A i \in 1 .. Len(rx') : rx'[i].packed = FALSE
  BY <1>2 DEF InputInv, InputTyped
<1>5. \A i, j \in 1 .. Len(rx') : i < j => rx'[i].key < rx'[j].key
  BY <1>2 DEF InputInv, KeysInOrder
<1>6. ASSUME NEW i \in 1 .. Len(rx')
      PROVE  /\ rx[1].key < rx'[i].key /\ rx'[i].key <= arrived
             /\ \A j \in 1 .. Len(keys) : keys[j] < rx'[i].key
  <2>1. i + k \in 1 .. Len(rx) /\ rx'[i] = rx[i + k] /\ 1 < i + k
    BY <1>2
  <2> QED BY <1>3, <2>1 DEF InputInv, KeysInOrder
<1>7. ASSUME k = 1 PROVE KeysOf(rx) = {rx[1].key} \union KeysOf(rx')
  <2>1. DOMAIN rx = 1 .. Len(rx) /\ DOMAIN rx' = 1 .. Len(rx')
    BY <1>1, <1>2
  <2>2. \A n : n \in KeysOf(rx) <=> \E i \in 1 .. Len(rx) : n = rx[i].key
    BY <2>1 DEF KeysOf, ToSet
  <2>3. \A n : n \in KeysOf(rx') <=> \E i \in 1 .. Len(rx') : n = rx'[i].key
    BY <2>1 DEF KeysOf, ToSet
  <2>4. ASSUME NEW n \in KeysOf(rx) PROVE n = rx[1].key \/ n \in KeysOf(rx')
    <3>1. PICK i \in 1 .. Len(rx) : n = rx[i].key
      BY <2>2
    <3>2. CASE i = 1
      BY <3>1, <3>2
    <3>3. CASE i # 1
      <4>1. i - 1 \in 1 .. Len(rx') /\ (i - 1) + k = i
        BY <1>2, <1>7, <3>3
      <4>2. rx'[i - 1] = rx[i]
        BY <1>2, <4>1
      <4> QED BY <2>3, <3>1, <4>1, <4>2
    <3> QED BY <3>2, <3>3
  <2>5. ASSUME NEW n \in KeysOf(rx') PROVE n \in KeysOf(rx)
    <3>1. PICK i \in 1 .. Len(rx') : n = rx'[i].key
      BY <2>3
    <3>2. i + k \in 1 .. Len(rx) /\ n = rx[i + k].key
      BY <1>2, <3>1
    <3> QED BY <2>2, <3>2
  <2>6. rx[1].key \in KeysOf(rx)
    BY <1>3, <2>2
  <2> QED BY <2>4, <2>5, <2>6
<1> QED BY <1>2, <1>3, <1>4, <1>5, <1>6, <1>7

LEMMA PollInput == ASSUME OutputTyped, InputInv, PollKey PROVE InputInv'
<1>1. /\ rx # <<>> /\ rxcall = "none" /\ UNCHANGED <<chip, rxcall, arrived, eaten>>
      /\ keys' = Append(keys, rx[1].key) /\ rx' = Popped(rx)
  BY DEF PollKey, Idle, TakesKey, OutputTyped, poll_key_8250, poll_key_8250_32b, poll_key_pl011,
         poll_key_linflexd, poll_key_tegra, qrb2210_uart_poll_key
<1>2. /\ rx \in Seq(Item) /\ keys \in Seq(Nat) /\ arrived \in Nat /\ eaten \in Seq(Item)
  BY DEF InputInv, InputTyped
<1>3. PICK k \in 1 .. Len(rx) :
         /\ rx' = SubSeq(rx, k + 1, Len(rx))
         /\ (\A i \in 1 .. Len(rx) : rx[i].packed = FALSE) => k = 1
  BY <1>1, <1>2, PoppedIs
<1>4. /\ rx' \in Seq(Item) /\ rx[1] \in Item /\ rx[1].key \in Nat /\ 1 \in 1 .. Len(rx)
      /\ \A i \in 1 .. Len(rx') : rx'[i].brk = TRUE => rx'[i].null = TRUE
      /\ chip' # "geni" => \A i \in 1 .. Len(rx') : rx'[i].packed = FALSE
      /\ \A i, j \in 1 .. Len(rx') : i < j => rx'[i].key < rx'[j].key
      /\ \A i \in 1 .. Len(rx') :
            /\ rx[1].key < rx'[i].key /\ rx'[i].key <= arrived
            /\ \A j \in 1 .. Len(keys) : keys[j] < rx'[i].key
      /\ k = 1 => KeysOf(rx) = {rx[1].key} \union KeysOf(rx')
  BY <1>1, <1>3, LeftBehind
<1>5. /\ keys' \in Seq(Nat) /\ Len(keys') = Len(keys) + 1 /\ Len(keys) \in Nat
      /\ \A i \in 1 .. Len(keys) : keys'[i] = keys[i]
      /\ keys'[Len(keys) + 1] = rx[1].key
  BY <1>1, <1>2, <1>4
<1>6. InputTyped'
  BY <1>1, <1>2, <1>4, <1>5 DEF InputTyped
<1>7. KeysInOrder'
  <2>1. /\ \A i, j \in 1 .. Len(keys) : i < j => keys[i] < keys[j]
        /\ \A i \in 1 .. Len(keys) : keys[i] < rx[1].key /\ keys[i] <= arrived
        /\ rx[1].key <= arrived /\ \A e \in ToSet(eaten) : e.null = TRUE
    BY <1>4 DEF InputInv, KeysInOrder
  <2>2. \A i, j \in 1 .. Len(keys') : i < j => keys'[i] < keys'[j]
    <3> SUFFICES ASSUME NEW i \in 1 .. Len(keys) + 1, NEW j \in 1 .. Len(keys) + 1, i < j
                 PROVE  keys'[i] < keys'[j]
      BY <1>5
    <3>1. i \in 1 .. Len(keys)
      BY <1>5
    <3>2. CASE j \in 1 .. Len(keys)
      BY <1>5, <2>1, <3>1, <3>2
    <3>3. CASE j = Len(keys) + 1
      BY <1>5, <2>1, <3>1, <3>3
    <3>4. \A n \in Nat : \A m \in 1 .. n + 1 : m \in 1 .. n \/ m = n + 1
      OBVIOUS
    <3> QED BY <1>5, <3>2, <3>3, <3>4
  <2>3. \A i \in 1 .. Len(keys'), j \in 1 .. Len(rx') : keys'[i] < rx'[j].key
    <3> SUFFICES ASSUME NEW i \in 1 .. Len(keys) + 1, NEW j \in 1 .. Len(rx')
                 PROVE  keys'[i] < rx'[j].key
      BY <1>5
    <3>1. rx[1].key < rx'[j].key /\ \A m \in 1 .. Len(keys) : keys[m] < rx'[j].key
      BY <1>4
    <3>2. CASE i \in 1 .. Len(keys)
      BY <1>5, <3>1, <3>2
    <3>3. CASE i = Len(keys) + 1
      BY <1>5, <3>1, <3>3
    <3>4. \A n \in Nat : \A m \in 1 .. n + 1 : m \in 1 .. n \/ m = n + 1
      OBVIOUS
    <3> QED BY <1>5, <3>2, <3>3, <3>4
  <2>4. \A i \in 1 .. Len(keys') : keys'[i] <= arrived
    <3> SUFFICES ASSUME NEW i \in 1 .. Len(keys) + 1 PROVE keys'[i] <= arrived
      BY <1>5, Zenon
    <3>1. CASE i \in 1 .. Len(keys)
      BY <1>5, <2>1, <3>1, Zenon
    <3>2. CASE i = Len(keys) + 1
      BY <1>5, <2>1, <3>2, Zenon
    <3>3. i \in 1 .. Len(keys) \/ i = Len(keys) + 1
      BY <1>5
    <3> QED BY <3>1, <3>2, <3>3
  <2> QED BY <1>1, <1>4, <2>1, <2>2, <2>3, <2>4 DEF KeysInOrder
<1>8. NoneSkipped'
  <2> SUFFICES ASSUME chip # "geni" PROVE 1 .. arrived \subseteq AllKeys'
    BY <1>1 DEF NoneSkipped
  <2>1. k = 1
    BY <1>3 DEF InputInv, InputTyped
  <2>2. ToSet(keys') = ToSet(keys) \union {rx[1].key}
    <3>1. DOMAIN keys = 1 .. Len(keys) /\ DOMAIN keys' = 1 .. Len(keys) + 1
      BY <1>2, <1>5
    <3>2. /\ ToSet(keys') = {keys'[i] : i \in 1 .. Len(keys) + 1}
          /\ ToSet(keys) = {keys[i] : i \in 1 .. Len(keys)}
      BY <3>1, Zenon DEF ToSet
    <3>3. ASSUME NEW v \in ToSet(keys') PROVE v \in ToSet(keys) \union {rx[1].key}
      <4>1. PICK i \in 1 .. Len(keys) + 1 : v = keys'[i]
        BY <3>2, Zenon
      <4>2. CASE i \in 1 .. Len(keys)
        BY <1>5, <3>2, <4>1, <4>2, Zenon
      <4>3. CASE i = Len(keys) + 1
        BY <1>5, <4>1, <4>3, Zenon
      <4>4. i \in 1 .. Len(keys) \/ i = Len(keys) + 1
        BY <1>5
      <4> QED BY <4>2, <4>3, <4>4
    <3>4. ASSUME NEW v \in ToSet(keys) PROVE v \in ToSet(keys')
      <4>1. PICK i \in 1 .. Len(keys) : v = keys[i]
        BY <3>2, Zenon
      <4>2. i \in 1 .. Len(keys) + 1
        BY <1>5
      <4> QED BY <1>5, <3>2, <4>1, <4>2, Zenon
    <3>5. rx[1].key \in ToSet(keys')
      <4>1. Len(keys) + 1 \in 1 .. Len(keys) + 1
        BY <1>5
      <4> QED BY <1>5, <3>2, <4>1, Zenon
    <3> QED BY <3>3, <3>4, <3>5, Zenon
  <2>3. AllKeys' = AllKeys
    BY <1>1, <1>4, <2>1, <2>2 DEF AllKeys
  <2> QED BY <2>3 DEF InputInv, NoneSkipped
<1> QED BY <1>6, <1>7, <1>8 DEF InputInv

LEMMA EatInput == ASSUME InputInv, EatNull PROVE InputInv'
<1>1. /\ rxcall = "eat" /\ rxcall' = "none" /\ UNCHANGED <<chip, arrived, keys>>
      /\ eaten' = Append(eaten, rx[1]) /\ rx' = Tail(rx)
  BY DEF EatNull
<1>2. /\ rx \in Seq(Item) /\ keys \in Seq(Nat) /\ arrived \in Nat /\ eaten \in Seq(Item)
      /\ rx # <<>> /\ rx[1].null = TRUE
  BY <1>1 DEF InputInv, InputTyped
<1>3. rx' = SubSeq(rx, 1 + 1, Len(rx)) /\ 1 \in 1 .. Len(rx)
  BY <1>1, <1>2
<1>4. /\ rx' \in Seq(Item) /\ rx[1] \in Item /\ rx[1].key \in Nat /\ 1 \in 1 .. Len(rx)
      /\ \A i \in 1 .. Len(rx') : rx'[i].brk = TRUE => rx'[i].null = TRUE
      /\ chip' # "geni" => \A i \in 1 .. Len(rx') : rx'[i].packed = FALSE
      /\ \A i, j \in 1 .. Len(rx') : i < j => rx'[i].key < rx'[j].key
      /\ \A i \in 1 .. Len(rx') :
            /\ rx[1].key < rx'[i].key /\ rx'[i].key <= arrived
            /\ \A j \in 1 .. Len(keys) : keys[j] < rx'[i].key
      /\ KeysOf(rx) = {rx[1].key} \union KeysOf(rx')
  BY <1>1, <1>3, LeftBehind
<1>5. eaten' \in Seq(Item) /\ ToSet(eaten') = ToSet(eaten) \union {rx[1]}
  <2>1. /\ eaten' \in Seq(Item) /\ Len(eaten') = Len(eaten) + 1 /\ Len(eaten) \in Nat
        /\ \A i \in 1 .. Len(eaten) : eaten'[i] = eaten[i]
        /\ eaten'[Len(eaten) + 1] = rx[1]
    BY <1>1, <1>2, <1>4
  <2>2. DOMAIN eaten = 1 .. Len(eaten) /\ DOMAIN eaten' = 1 .. Len(eaten) + 1
    BY <1>2, <2>1
  <2> QED BY <2>1, <2>2 DEF ToSet
<1>6. InputTyped'
  BY <1>1, <1>2, <1>4, <1>5 DEF InputTyped
<1>7. KeysInOrder'
  <2>1. KeysInOrder
    BY DEF InputInv
  <2> QED BY <1>1, <1>2, <1>4, <1>5, <2>1 DEF KeysInOrder
<1>8. AllKeys' = AllKeys
  <2>1. KeysOf(eaten') = KeysOf(eaten) \union {rx[1].key}
    BY <1>5 DEF KeysOf
  <2> QED BY <1>1, <1>4, <2>1 DEF AllKeys
<1> QED BY <1>1, <1>6, <1>7, <1>8 DEF InputInv, NoneSkipped

-----------------------------------------------------------------------------
(* The console.                                                            *)

LEMMA ConsoleInitInv == ConsoleInit => ConsoleInv
<1> SUFFICES ASSUME ConsoleInit PROVE ConsoleInv
  OBVIOUS
<1>1. /\ call.todo = <<>> /\ ~Busy /\ ~Pending /\ Written = 0 /\ asked = 0
      /\ call = [todo |-> <<>>, left |-> 0]
  BY DEF ConsoleInit, NoCall, Busy, Pending, Written, EarlyTodos
<1>2. tx \in Seq(Nat) /\ sent \in Seq(Nat) /\ Len(tx) <= 1 /\ ToSet(tx) \subseteq {0}
      /\ ToSet(sent) = {} /\ Len(sent) = 0 /\ Len(tx) \in Nat
  <2>1. sent = <<>> /\ (tx = <<>> \/ tx = <<0>>)
    BY DEF ConsoleInit
  <2>2. sent \in Seq(Nat) /\ Len(sent) = 0 /\ ToSet(sent) = {}
    BY <2>1 DEF ToSet
  <2>3. CASE tx = <<>>
    <3>1. tx \in Seq(Nat) /\ Len(tx) = 0 /\ ToSet(tx) = {}
      BY <2>3 DEF ToSet
    <3> QED BY <2>2, <3>1
  <2>4. CASE tx = <<0>>
    <3>1. tx \in Seq(Nat) /\ Len(tx) = 1 /\ tx[1] = 0 /\ DOMAIN tx = {1}
      BY <2>4
    <3>2. ToSet(tx) = {0}
      BY <3>1 DEF ToSet
    <3> QED BY <2>2, <3>1, <3>2
  <2> QED BY <2>1, <2>3, <2>4
<1>3. OutputTyped
  BY <1>1, <1>2, ConsoleAssumption DEF ConsoleInit, OutputTyped, ConsoleAssumption
<1>4. RightCall /\ HasRoom /\ OneCommand
  BY <1>1, <1>2 DEF ConsoleInit, RightCall, HasRoom, OneCommand
<1>5. Kept(0)
  BY <1>2 DEF ConsoleInit, Kept, Ordered, Chars, Missing
<1>6. InputTyped
  BY DEF ConsoleInit, InputTyped
<1>7. KeysInOrder /\ NoneSkipped
  BY DEF ConsoleInit, KeysInOrder, NoneSkipped, ToSet
<1> QED BY <1>1, <1>3, <1>4, <1>5, <1>6, <1>7 DEF ConsoleInv, OutputInv, InputInv

LEMMA InvKeeps == ASSUME ConsoleInv PROVE ConsoleKept
<1>1. OutputInv /\ InputInv /\ Kept(Written) /\ OutputTyped
  BY DEF ConsoleInv, OutputInv
<1>2. tx \in Seq(Nat) /\ sent \in Seq(Nat)
  BY <1>1 DEF OutputTyped
<1> DEFINE Sent == sent \o tx
<1>3. /\ Len(Sent) = Len(sent) + Len(tx) /\ Len(sent) \in Nat /\ Len(tx) \in Nat
      /\ \A i \in 1 .. Len(sent) : Sent[i] = sent[i] /\ sent[i] \in Nat
      /\ \A i \in 1 .. Len(tx) : Sent[Len(sent) + i] = tx[i] /\ tx[i] \in Nat
      /\ DOMAIN Sent = 1 .. Len(Sent) /\ DOMAIN sent = 1 .. Len(sent) /\ DOMAIN tx = 1 .. Len(tx)
  BY <1>2
<1> HIDE DEF Sent
<1>4. \A i \in 1 .. Len(Sent) :
         i \in 1 .. Len(sent) \/ (i - Len(sent) \in 1 .. Len(tx) /\ Len(sent) + (i - Len(sent)) = i)
  BY <1>3
<1>5. ToSet(Sent) = Chars
  <2>1. ASSUME NEW n \in ToSet(Sent) PROVE n \in Chars
    <3>1. PICK i \in 1 .. Len(Sent) : n = Sent[i]
      BY <1>3, <2>1 DEF ToSet
    <3>2. CASE i \in 1 .. Len(sent)
      BY <1>3, <3>1, <3>2 DEF Chars, ToSet
    <3>3. CASE i - Len(sent) \in 1 .. Len(tx) /\ Len(sent) + (i - Len(sent)) = i
      <4>1. n = tx[i - Len(sent)]
        BY <1>3, <3>1, <3>3
      <4> QED BY <1>3, <3>3, <4>1 DEF Chars, ToSet
    <3> QED BY <1>4, <3>2, <3>3
  <2>2. ASSUME NEW n \in Chars PROVE n \in ToSet(Sent)
    <3>1. CASE n \in ToSet(sent)
      <4>1. PICK i \in 1 .. Len(sent) : n = sent[i]
        BY <1>3, <3>1 DEF ToSet
      <4>2. i \in 1 .. Len(Sent) /\ n = Sent[i]
        BY <1>3, <4>1
      <4> QED BY <1>3, <4>2 DEF ToSet
    <3>2. CASE n \in ToSet(tx)
      <4>1. PICK i \in 1 .. Len(tx) : n = tx[i]
        BY <1>3, <3>2 DEF ToSet
      <4>2. Len(sent) + i \in 1 .. Len(Sent) /\ n = Sent[Len(sent) + i]
        BY <1>3, <4>1
      <4> QED BY <1>3, <4>2 DEF ToSet
    <3> QED BY <2>2, <3>1, <3>2 DEF Chars
  <2> QED BY <2>1, <2>2
<1>6. \A i, j \in 1 .. Len(Sent) : i < j => Sent[i] < Sent[j]
  <2> SUFFICES ASSUME NEW i \in 1 .. Len(Sent), NEW j \in 1 .. Len(Sent), i < j
               PROVE  Sent[i] < Sent[j]
    OBVIOUS
  <2>1. Ordered
    BY <1>1 DEF Kept
  <2>2. CASE j \in 1 .. Len(sent)
    <3>1. i \in 1 .. Len(sent)
      BY <1>3, <2>2
    <3> QED BY <1>3, <2>1, <2>2, <3>1 DEF Ordered
  <2>3. CASE i \in 1 .. Len(sent) /\ j - Len(sent) \in 1 .. Len(tx) /\ Len(sent) + (j - Len(sent)) = j
    <3>1. Sent[i] = sent[i] /\ Sent[j] = tx[j - Len(sent)]
      BY <1>3, <2>3
    <3> QED BY <2>1, <2>3, <3>1 DEF Ordered
  <2>4. CASE /\ i - Len(sent) \in 1 .. Len(tx) /\ Len(sent) + (i - Len(sent)) = i
             /\ j - Len(sent) \in 1 .. Len(tx) /\ Len(sent) + (j - Len(sent)) = j
    <3>1. Sent[i] = tx[i - Len(sent)] /\ Sent[j] = tx[j - Len(sent)]
      BY <1>3, <2>4
    <3>2. i - Len(sent) < j - Len(sent)
      BY <1>3
    <3> QED BY <2>1, <2>4, <3>1, <3>2 DEF Ordered
  <2> QED BY <1>4, <2>2, <2>3, <2>4
<1>7. \A l \in lost : l[2] \in Excuses /\ l[1] \notin Chars
  BY <1>1 DEF Kept, Missing, OutputTyped
<1>8. ~Busy => 1 .. asked \subseteq Chars \union Missing
  <2>1. ~Busy => Written = asked
    BY DEF Written, Pending, Busy, EarlyTodos
  <2> QED BY <1>1, <2>1 DEF Kept
<1>9. OutputInOrder
  BY <1>5, <1>6, <1>7, <1>8 DEF OutputInOrder, Missing, Sent
<1>10. KeysKept
  <2>1. /\ \A i, j \in 1 .. Len(keys) : i < j => keys[i] < keys[j]
        /\ \A e \in ToSet(eaten) : e.null
    BY <1>1 DEF InputInv, KeysInOrder
  <2>2. AllKeys = ToSet(keys) \union {item.key : item \in ToSet(rx) \union ToSet(eaten)}
    BY Zenon DEF AllKeys, KeysOf
  <2> QED BY <1>1, <2>1, <2>2 DEF KeysKept, InputInv, NoneSkipped
<1> QED BY <1>9, <1>10 DEF ConsoleKept

\* At every step each character is sent in order, waits in the transmitter or
\* is lost for a reason; the routine in progress is the chip's own; there is
\* room where a routine has waited for it, and a GENI holds one character; keys
\* wait in order behind those returned (hw_ser*.c, qrb2210_uart.c,
\* callout_debug_*.S).
THEOREM ConsoleInvariant == ConsoleSpec => []ConsoleInv
<1>1. ASSUME ConsoleInv, [ConsoleNext]_consoleVars PROVE ConsoleInv'
  <2>1. OutputInv /\ InputInv /\ OutputTyped
    BY <1>1 DEF ConsoleInv, OutputInv
  <2>2. ASSUME UNCHANGED <<chip, stage, output>> PROVE OutputInv'
    BY <2>1, <2>2, OutputStays DEF output
  <2>3. ASSUME UNCHANGED <<chip, input>> PROVE InputInv'
    BY <2>1, <2>3, InputStays
  <2>4. CASE UNCHANGED consoleVars
    BY <2>2, <2>3, <2>4 DEF consoleVars, ConsoleInv
  <2>5. CASE Send
    <3>1. OutputInv' BY <2>1, <2>5, SendOutput
    <3>2. InputInv' BY <2>3, <2>5 DEF Send
    <3> QED BY <3>1, <3>2 DEF ConsoleInv
  <2>6. CASE GetStuck
    <3>1. OutputInv' BY <2>1, <2>6, StuckOutput
    <3>2. InputInv' BY <2>3, <2>6 DEF GetStuck
    <3> QED BY <3>1, <3>2 DEF ConsoleInv
  <2>7. CASE Arrive
    <3>1. OutputInv' BY <2>2, <2>7 DEF Arrive
    <3>2. InputInv' BY <2>1, <2>7, ArriveInput
    <3> QED BY <3>1, <3>2 DEF ConsoleInv
  <2>8. CASE DriverSwitch
    BY <2>2, <2>3, <2>8 DEF DriverSwitch, ConsoleInv
  <2>9. CASE InitConsole
    <3>1. OutputInv' BY <2>1, <2>9, InitOutput
    <3>2. InputInv' BY <2>3, <2>9 DEF InitConsole
    <3> QED BY <3>1, <3>2 DEF ConsoleInv
  <2>10. CASE StartKernel
    <3>1. OutputInv' BY <2>1, <2>10, KernelOutput
    <3>2. InputInv' BY <2>3, <2>10 DEF StartKernel
    <3> QED BY <3>1, <3>2 DEF ConsoleInv
  <2>11. CASE Write1
    <3>1. OutputInv' BY <2>1, <2>11, WriteOutput
    <3>2. InputInv' BY <2>3, <2>11 DEF Write1
    <3> QED BY <3>1, <3>2 DEF ConsoleInv
  <2>12. CASE Wait
    BY <2>1, <2>12, WaitOutput, WaitInput DEF ConsoleInv
  <2>13. CASE WriteData
    <3>1. OutputInv' BY <2>1, <2>13, DataOutput
    <3>2. InputInv' BY <2>3, <2>13 DEF WriteData
    <3> QED BY <3>1, <3>2 DEF ConsoleInv
  <2>14. CASE ClearOld
    <3>1. OutputInv' BY <2>1, <2>14, ClearOutput
    <3>2. InputInv' BY <2>3, <2>14 DEF ClearOld
    <3> QED BY <3>1, <3>2 DEF ConsoleInv
  <2>15. CASE StartCommand
    <3>1. OutputInv' BY <2>1, <2>15, StartOutput
    <3>2. InputInv' BY <2>3, <2>15 DEF StartCommand
    <3> QED BY <3>1, <3>2 DEF ConsoleInv
  <2>16. CASE Finish
    <3>1. OutputInv' BY <2>1, <2>16, FinishOutput
    <3>2. InputInv' BY <2>3, <2>16 DEF Finish
    <3> QED BY <3>1, <3>2 DEF ConsoleInv
  <2>17. CASE PollKey
    <3>1. OutputInv' BY <2>2, <2>17 DEF PollKey
    <3>2. InputInv' BY <2>1, <2>17, PollInput
    <3> QED BY <3>1, <3>2 DEF ConsoleInv
  <2>18. CASE BreakDetect
    <3>1. OutputInv' BY <2>2, <2>18 DEF BreakDetect
    <3>2. InputInv' BY <2>1, <2>18, BreakInput
    <3> QED BY <3>1, <3>2 DEF ConsoleInv
  <2>19. CASE EatNull
    <3>1. OutputInv' BY <2>2, <2>19 DEF EatNull
    <3>2. InputInv' BY <2>1, <2>19, EatInput
    <3> QED BY <3>1, <3>2 DEF ConsoleInv
  <2> QED BY <1>1, <2>4, <2>5, <2>6, <2>7, <2>8, <2>9, <2>10, <2>11, <2>12, <2>13, <2>14, <2>15,
             <2>16, <2>17, <2>18, <2>19 DEF ConsoleNext, Routine
<1> QED BY <1>1, ConsoleInitInv, PTL DEF ConsoleSpec

\* For every chip, number of characters and keys, depth of the transmitter,
\* patience of the waits, and any driver that turns the chip off: output comes
\* out once and in order, a character missing only for a reason of that chip,
\* and keys are returned in order, none twice and none eaten by break_detect
\* (hw_ser*.c, qrb2210_uart.c, callout_debug_*.S).
THEOREM ConsoleIsKept == ConsoleSpec => []ConsoleKept
<1> QED BY ConsoleInvariant, InvKeeps, PTL

-----------------------------------------------------------------------------
(* Arithmetic for the timer.                                               *)

LEMMA Divides ==
    ASSUME NEW a \in Nat, NEW b \in Nat, b > 0
    PROVE  /\ a \div b \in Nat /\ a % b \in Nat /\ a % b < b
           /\ b * (a \div b) <= a /\ a - b * (a \div b) = a % b
<1>1. a \div b \in Nat /\ a % b \in Nat /\ a % b < b
  OBVIOUS
<1>2. b * (a \div b) <= a
  OBVIOUS
<1>3. a - b * (a \div b) = a % b
  BY Z3
<1> QED BY <1>1, <1>2, <1>3

LEMMA Monotone ==
    ASSUME NEW a \in Nat, NEW b \in Nat, NEW c \in Nat, a <= b
    PROVE  a * c <= b * c /\ c * a <= c * b
OBVIOUS

\* The powers of ten to the n-th.
IsTens(f, n) == f = [k \in 0 .. n |-> IF k = 0 THEN 1 ELSE 10 * f[k - 1]]

LEMMA TensExist == \A n \in Nat : \E f : IsTens(f, n)
<1> DEFINE Bad == {n \in Nat : ~ \E f : IsTens(f, n)}
<1> SUFFICES ASSUME Bad # {} PROVE FALSE
  OBVIOUS
<1>1. PICK n \in Bad : \A m \in Bad : n <= m
  BY LeastNat
<1>2. n \in Nat /\ ~ \E f : IsTens(f, n)
  OBVIOUS
<1>3. n # 0
  <2>1. IsTens([m \in 0 .. 0 |-> 1], 0)
    BY DEF IsTens
  <2> QED BY <1>2, <2>1
<1>4. PICK f : IsTens(f, n - 1)
  <2>1. n - 1 \in Nat /\ n - 1 \notin Bad
    BY <1>1, <1>2, <1>3
  <2> QED BY <2>1
<1> DEFINE more == [m \in 0 .. n |-> IF m = n THEN 10 * f[n - 1] ELSE f[m]]
<1>5. \A m \in 0 .. n : more[m] = IF m = n THEN 10 * f[n - 1] ELSE f[m]
  OBVIOUS
<1>6. ASSUME NEW m \in 0 .. n PROVE more[m] = IF m = 0 THEN 1 ELSE 10 * more[m - 1]
  <2>1. CASE m = n
    <3>1. n - 1 \in 0 .. n /\ n - 1 # n /\ n \in 0 .. n
      BY <1>2, <1>3
    <3>2. more[n - 1] = f[n - 1] /\ more[n] = 10 * f[n - 1]
      BY <1>5, <3>1
    <3> QED BY <1>3, <2>1, <3>2
  <2>2. CASE m # n
    <3>1. m \in 0 .. n - 1
      BY <1>2, <2>2
    <3>2. f[m] = IF m = 0 THEN 1 ELSE 10 * f[m - 1]
      BY <1>4, <3>1 DEF IsTens
    <3>3. m # 0 => m - 1 \in 0 .. n /\ m - 1 # n
      BY <1>2, <3>1
    <3>4. more[m] = f[m] /\ (m # 0 => more[m - 1] = f[m - 1])
      BY <1>5, <2>2, <3>3
    <3> QED BY <3>2, <3>4
  <2> QED BY <2>1, <2>2
<1>7. more = [m \in 0 .. n |-> more[m]]
  OBVIOUS
<1> HIDE DEF more
<1>8. IsTens(more, n)
  BY <1>6, <1>7 DEF IsTens
<1> QED BY <1>2, <1>8

LEMMA TensAgree ==
    ASSUME NEW n \in Nat, NEW m \in Nat, n <= m, NEW f, NEW g, IsTens(f, n), IsTens(g, m)
    PROVE  \A k \in 0 .. n : f[k] = g[k]
<1> DEFINE Bad == {k \in 0 .. n : f[k] # g[k]}
<1> SUFFICES ASSUME Bad # {} PROVE FALSE
  OBVIOUS
<1>1. Bad \subseteq Nat
  OBVIOUS
<1>2. PICK k \in Bad : \A j \in Bad : k <= j
  BY <1>1, LeastNat
<1>3. k \in 0 .. n /\ k \in 0 .. m /\ f[k] # g[k]
  OBVIOUS
<1>4. /\ f[k] = IF k = 0 THEN 1 ELSE 10 * f[k - 1]
      /\ g[k] = IF k = 0 THEN 1 ELSE 10 * g[k - 1]
  BY <1>3 DEF IsTens
<1>5. k # 0 /\ k - 1 \in 0 .. n /\ k - 1 \notin Bad
  BY <1>2, <1>3, <1>4
<1> QED BY <1>3, <1>4, <1>5

LEMMA TenIs == Ten[0] = 1 /\ \A k \in Nat : Ten[k + 1] = 10 * Ten[k]
<1> DEFINE upto(n) == CHOOSE f : IsTens(f, n)
           all == [n \in Nat |-> upto(n)[n]]
<1>1. \A n \in Nat : IsTens(upto(n), n)
  BY TensExist
<1> HIDE DEF upto
<1>2. \A n \in Nat : all[n] = upto(n)[n]
  OBVIOUS
<1>3. ASSUME NEW n \in Nat PROVE all[n] = IF n = 0 THEN 1 ELSE 10 * all[n - 1]
  <2>1. upto(n)[n] = IF n = 0 THEN 1 ELSE 10 * upto(n)[n - 1]
    <3>1. IsTens(upto(n), n) /\ n \in 0 .. n
      BY <1>1
    <3> QED BY <3>1 DEF IsTens
  <2>2. CASE n = 0
    BY <1>2, <2>1, <2>2
  <2>3. CASE n # 0
    <3>1. n - 1 \in Nat /\ n - 1 <= n /\ n - 1 \in 0 .. n - 1
      BY <2>3
    <3>2. upto(n - 1)[n - 1] = upto(n)[n - 1]
      BY <1>1, <3>1, TensAgree
    <3> QED BY <1>2, <2>1, <2>3, <3>1, <3>2
  <2> QED BY <2>2, <2>3
<1>4. all = [n \in Nat |-> IF n = 0 THEN 1 ELSE 10 * all[n - 1]]
  <2>1. all = [n \in Nat |-> all[n]]
    OBVIOUS
  <2> HIDE DEF all
  <2> QED BY <1>3, <2>1
<1> HIDE DEF all
<1>5. Ten = [n \in Nat |-> IF n = 0 THEN 1 ELSE 10 * Ten[n - 1]]
  <2>1. \E f : f = [n \in Nat |-> IF n = 0 THEN 1 ELSE 10 * f[n - 1]]
    BY <1>4
  <2>2. Ten = CHOOSE f : f = [n \in Nat |-> IF n = 0 THEN 1 ELSE 10 * f[n - 1]]
    BY DEF Ten
  <2> QED BY <2>1, <2>2
<1>6. Ten[0] = 1
  BY <1>5
<1>7. ASSUME NEW k \in Nat PROVE Ten[k + 1] = 10 * Ten[k]
  <2>1. k + 1 \in Nat /\ k + 1 # 0 /\ (k + 1) - 1 = k
    OBVIOUS
  <2>2. \A n \in Nat : n # 0 => Ten[n] = 10 * Ten[n - 1]
    BY <1>5
  <2> QED BY <2>1, <2>2
<1> QED BY <1>6, <1>7

LEMMA TenType == \A k \in Nat : Ten[k] \in Nat /\ Ten[k] > 0
<1> DEFINE Bad == {k \in Nat : ~(Ten[k] \in Nat /\ Ten[k] > 0)}
<1> SUFFICES ASSUME Bad # {} PROVE FALSE
  OBVIOUS
<1>1. PICK k \in Bad : \A j \in Bad : k <= j
  BY LeastNat
<1>2. k \in Nat /\ k # 0
  BY TenIs
<1>3. k - 1 \in Nat /\ k - 1 \notin Bad /\ (k - 1) + 1 = k
  BY <1>1, <1>2
<1>4. Ten[k] = 10 * Ten[k - 1]
  BY <1>3, TenIs
<1> QED BY <1>1, <1>3, <1>4

-----------------------------------------------------------------------------
(* The timer's period.                                                     *)

Most == UINT_MAX \div 10 - 10
Section ==
    [epoch : Int, boot_time : Clocks \union {0}, intr : Int, cycles_per_sec : 1 .. UINT_MAX,
     timer_period : Nat, timer_scale : Int]

\* The digits so far with what is left make the power of ten that was divided.
Dividing ==
    LET sh == Shortened(Hz) IN
    /\ freq = sh.freq /\ scale \in Int /\ scale <= sh.scale
    /\ period \in Nat /\ period < Most /\ quot \in Nat /\ 0 < quot /\ quot < 10 * freq
    /\ period * (10 * freq) + quot = Ten[sh.scale - scale]

QtimeInv ==
    /\ phase \in {"init", "crash", "divide", "timed"}
    /\ option \in 0 .. UINT_MAX /\ cntfrq \in 0 .. UINT_MAX /\ clock \in Clocks
    /\ phase = "init" => qtime.epoch = None
    /\ phase \in {"divide", "timed"} => qtime \in Section
    /\ phase = "divide" => Dividing
    /\ phase = "timed" => PeriodIsExact
    /\ phase # "timed" => argument = <<>>
    /\ argument # <<>> =>
          \/ \E t \in Nat : argument = <<"ticks", t>> /\ answer = timer_tick2ns(t)
          \/ \E n \in Nat : argument = <<"ns", n>> /\ answer = timer_ns2tick(n)

LEMMA UintIs ==
    /\ UINT_MAX \in Nat /\ UINT_MAX \div 10 \in Nat /\ 10 * (UINT_MAX \div 10) <= UINT_MAX
    /\ UINT_MAX < 10 * (UINT_MAX \div 10) + 10 /\ Most \in Nat /\ Most > 0
    /\ Most + 10 = UINT_MAX \div 10
BY QtimeAssumption DEF QtimeAssumption, Most

LEMMA ShortenedIs ==
    ASSUME NEW f \in 1 .. UINT_MAX
    PROVE  LET sh == Shortened(f) IN
           /\ sh.freq \in Nat /\ sh.freq > 0 /\ sh.freq <= UINT_MAX \div 10
           /\ f <= UINT_MAX \div 10 => sh.freq = f /\ sh.scale = 0
           /\ f > UINT_MAX \div 10 =>
                 sh.scale = -1 /\ sh.freq = f \div 10 /\ 10 * sh.freq <= f /\ f < 10 * sh.freq + 10
<1>1. CASE f > UINT_MAX \div 10
  <2>1. Shortened(f) = [freq |-> f \div 10, scale |-> -1]
    BY <1>1 DEF Shortened
  <2>2. f \in Nat /\ f \div 10 \in Nat /\ 10 * (f \div 10) <= f /\ f < 10 * (f \div 10) + 10
    BY UintIs
  <2>3. f \div 10 > 0 /\ f \div 10 <= UINT_MAX \div 10
    BY <1>1, <2>2, UintIs DEF Most
  <2>4. Shortened(f).freq = f \div 10 /\ Shortened(f).scale = -1
    BY <2>1
  <2> QED BY <1>1, <2>2, <2>3, <2>4, UintIs
<1>2. CASE ~(f > UINT_MAX \div 10)
  <2>1. Shortened(f) = [freq |-> f, scale |-> 0]
    BY <1>2 DEF Shortened
  <2>2. Shortened(f).freq = f /\ Shortened(f).scale = 0
    BY <2>1
  <2>3. f \in Nat /\ f > 0 /\ f <= UINT_MAX \div 10
    BY <1>2, UintIs
  <2> QED BY <1>2, <2>2, <2>3
<1> QED BY <1>1, <1>2

\* One digit more keeps the balance and the words' width.
Balanced(p, q, f) ==
    LET digits == (p * 10 + q \div f) % (UINT_MAX + 1)
        rem == q % f
    IN  /\ digits \in Nat /\ digits <= UINT_MAX /\ rem \in Nat /\ rem < f
        /\ digits * f + rem = p * (10 * f) + q
        /\ (rem * 10) % (UINT_MAX + 1) = rem * 10
        /\ digits * (10 * f) + rem * 10 = 10 * (digits * f + rem)

LEMMA DigitIs ==
    ASSUME NEW p \in Nat, NEW q \in Nat, NEW f \in Nat, f > 0, p < Most, 0 < q, q < 10 * f,
           f <= UINT_MAX \div 10
    PROVE  Balanced(p, q, f)
<1> DEFINE d == q \div f
           rem == q % f
           digits == p * 10 + d
<1>1. d \in Nat /\ rem \in Nat /\ rem < f /\ f * d <= q /\ q - f * d = rem
  BY Divides
<1>2. d <= 9
  <2>1. SUFFICES ASSUME d >= 10 PROVE FALSE
    BY <1>1
  <2>2. f * 10 <= f * d
    BY <1>1, <2>1, Monotone
  <2> QED BY <1>1, <2>2
<1> HIDE DEF d, rem
<1>3. digits \in Nat /\ digits <= UINT_MAX /\ digits < UINT_MAX + 1
  BY <1>1, <1>2, UintIs
<1>4. digits % (UINT_MAX + 1) = digits
  BY <1>3, UintIs
<1>5. digits * f + rem = p * (10 * f) + q
  <2>1. digits * f = (p * 10) * f + d * f
    BY <1>1
  <2>2. (p * 10) * f = p * (10 * f) /\ d * f = f * d /\ p * (10 * f) \in Nat
    BY <1>1
  <2> QED BY <1>1, <2>1, <2>2
<1> HIDE DEF digits
<1>6. rem * 10 \in Nat /\ rem * 10 < UINT_MAX + 1
  BY <1>1, UintIs
<1>7. (rem * 10) % (UINT_MAX + 1) = rem * 10
  BY <1>6, UintIs
<1>8. digits * (10 * f) + rem * 10 = 10 * (digits * f + rem)
  <2>1. digits * (10 * f) = 10 * (digits * f) /\ digits * f \in Nat
    BY <1>3
  <2> QED BY <1>1, <2>1
<1> QED BY <1>1, <1>3, <1>4, <1>5, <1>7, <1>8 DEF d, rem, digits, Balanced

\* Where the loop stops the period is exact.
LEMMA PeriodIs ==
    ASSUME NEW p \in Nat, NEW f \in Nat, f > 0, NEW rem \in Nat, rem < f, NEW h \in 1 .. UINT_MAX,
           NEW j \in Nat, p <= UINT_MAX, p >= Most \/ rem = 0, p * f + rem = Ten[j],
           NEW shift \in {0, 1},
           shift = 0 => f = h /\ h <= UINT_MAX \div 10,
           shift = 1 => h > UINT_MAX \div 10 /\ f = h \div 10 /\ 10 * f <= h /\ h < 10 * f + 10
    PROVE  LET one == Ten[j + shift] IN
           /\ p \in 1 .. UINT_MAX
           /\ (p + 1) * h > one
           /\ p * h <= one + (IF h > UINT_MAX \div 10 THEN 9 * p ELSE 0)
           /\ p >= UINT_MAX \div 10 - 10
              \/ p * (IF h > UINT_MAX \div 10 THEN 10 * (h \div 10) ELSE h) = one
<1>1. Ten[j] \in Nat /\ Ten[j] > 0 /\ Ten[j + 1] = 10 * Ten[j] /\ j + 0 = j
  BY TenIs, TenType
<1>2. p * f \in Nat /\ h \in Nat
  OBVIOUS
<1>3. p \in 1 .. UINT_MAX
  <2>1. p # 0
    <3> SUFFICES ASSUME p = 0 PROVE FALSE
      OBVIOUS
    <3>1. rem = 0
      BY UintIs
    <3> QED BY <1>1, <3>1
  <2> QED BY <2>1, UintIs
<1>4. (p + 1) * f = p * f + f
  OBVIOUS
<1>5. CASE shift = 0
  <2>1. Ten[j + shift] = p * h + rem /\ (p + 1) * h = p * h + h /\ p * h \in Nat /\ rem < h
    BY <1>1, <1>4, <1>5
  <2>2. ~(h > UINT_MAX \div 10)
    BY <1>5, <1>2, UintIs
  <2> QED BY <1>2, <1>3, <2>1, <2>2 DEF Most
<1>6. CASE shift = 1
  <2>1. Ten[j + shift] = 10 * (p * f + rem)
    BY <1>1, <1>6
  <2>2. PICK d \in Nat : h = 10 * f + d /\ d <= 9
    <3>1. h - 10 * f \in Nat /\ h = 10 * f + (h - 10 * f) /\ h - 10 * f <= 9
      BY <1>2, <1>6
    <3> QED BY <3>1
  <2>3. p * h = 10 * (p * f) + p * d /\ p * d \in Nat /\ p * d <= 9 * p
    <3>1. p * h = p * (10 * f) + p * d
      BY <2>2
    <3>2. p * (10 * f) = 10 * (p * f)
      OBVIOUS
    <3>3. p * d <= p * 9
      BY <2>2, Monotone
    <3> QED BY <2>2, <3>1, <3>2, <3>3
  <2>4. (p + 1) * h = p * h + h
    BY <1>2
  <2>5. p * (10 * (h \div 10)) = 10 * (p * f)
    BY <1>6
  <2>6. h > UINT_MAX \div 10
    BY <1>6
  <2>7. (p + 1) * h > Ten[j + shift]
    BY <1>2, <2>1, <2>2, <2>3, <2>4
  <2>8. p * h <= Ten[j + shift] + 9 * p
    BY <1>2, <2>1, <2>2, <2>3
  <2>9. rem = 0 => p * (10 * (h \div 10)) = Ten[j + shift]
    BY <1>2, <2>1, <2>5
  <2> QED BY <1>3, <2>6, <2>7, <2>8, <2>9 DEF Most
<1> QED BY <1>5, <1>6

-----------------------------------------------------------------------------
(* The conversions.                                                        *)

LEMMA ProductIs ==
    ASSUME NEW p \in Nat, NEW t \in Nat
    PROVE  /\ Product(p, t) = 0 \/ Product(p, t) = p * t
           /\ p * t < UlongWrap => Product(p, t) = p * t
<1> DEFINE n == (p * t) % UlongWrap
<1>1. p * t \in Nat /\ UlongWrap \in Nat /\ UlongWrap > 0
  BY QtimeAssumption DEF QtimeAssumption
<1>2. /\ n \in Nat /\ (p * t) \div UlongWrap \in Nat /\ UlongWrap * ((p * t) \div UlongWrap) \in Nat
      /\ (p * t) - UlongWrap * ((p * t) \div UlongWrap) = n
  BY <1>1, Divides
<1>3. n <= p * t
  BY <1>1, <1>2
<1>4. p * t < UlongWrap => n = p * t
  BY <1>1
<1>5. Product(p, t) = IF p # 0 /\ n \div p = t THEN n ELSE 0
  BY DEF Product
<1> HIDE DEF n
<1>6. CASE p = 0
  BY <1>5, <1>6
<1>7. CASE p # 0
  <2>1. n \div p \in Nat /\ p * (n \div p) <= n
    BY <1>2, <1>7, Divides
  <2>2. n \div p = t => n = p * t
    BY <1>1, <1>2, <1>3, <2>1
  <2>3. (p * t) \div p = t
    BY <1>7
  <2> QED BY <1>4, <1>5, <1>7, <2>2, <2>3
<1> QED BY <1>6, <1>7

\* The passes of timer_tick2ns().
PassOf(before, t) ==
    LET p == before.period \div 10
        ns == before.ns \div 10
    IN  [period |-> p, ns |-> IF ns = 0 THEN Product(p, t) ELSE ns]
FirstPass(t) == [period |-> qtime.timer_period, ns |-> Product(qtime.timer_period, t)]
IsPasses(pass, t, n) ==
    pass = [k \in 0 .. n |-> IF k = 0 THEN FirstPass(t) ELSE PassOf(pass[k - 1], t)]

LEMMA PassesExist == ASSUME NEW t PROVE \A n \in Nat : \E pass : IsPasses(pass, t, n)
<1> DEFINE Bad == {n \in Nat : ~ \E pass : IsPasses(pass, t, n)}
<1> SUFFICES ASSUME Bad # {} PROVE FALSE
  OBVIOUS
<1>1. PICK n \in Bad : \A m \in Bad : n <= m
  BY LeastNat
<1>2. n \in Nat /\ ~ \E pass : IsPasses(pass, t, n)
  OBVIOUS
<1>3. n # 0
  <2>1. IsPasses([m \in 0 .. 0 |-> FirstPass(t)], t, 0)
    BY DEF IsPasses
  <2> QED BY <1>2, <2>1
<1>4. PICK pass : IsPasses(pass, t, n - 1)
  <2>1. n - 1 \in Nat /\ n - 1 \notin Bad
    BY <1>1, <1>2, <1>3
  <2> QED BY <2>1
<1> DEFINE last == PassOf(pass[n - 1], t)
           more == [m \in 0 .. n |-> IF m = n THEN last ELSE pass[m]]
<1> HIDE DEF last
<1>5. \A m \in 0 .. n : more[m] = IF m = n THEN last ELSE pass[m]
  OBVIOUS
<1>6. ASSUME NEW m \in 0 .. n
      PROVE  more[m] = IF m = 0 THEN FirstPass(t) ELSE PassOf(more[m - 1], t)
  <2>1. CASE m = n
    <3>1. n - 1 \in 0 .. n /\ n - 1 # n /\ n \in 0 .. n
      BY <1>2, <1>3
    <3>2. more[n - 1] = pass[n - 1] /\ more[n] = last
      BY <1>5, <3>1
    <3> QED BY <1>3, <2>1, <3>2 DEF last
  <2>2. CASE m # n
    <3>1. m \in 0 .. n - 1
      BY <1>2, <2>2
    <3>2. pass[m] = IF m = 0 THEN FirstPass(t) ELSE PassOf(pass[m - 1], t)
      BY <1>4, <3>1 DEF IsPasses
    <3>3. m # 0 => m - 1 \in 0 .. n /\ m - 1 # n
      BY <1>2, <3>1
    <3>4. more[m] = pass[m] /\ (m # 0 => more[m - 1] = pass[m - 1])
      BY <1>5, <2>2, <3>3
    <3> QED BY <3>2, <3>4
  <2> QED BY <2>1, <2>2
<1>7. more = [m \in 0 .. n |-> more[m]]
  OBVIOUS
<1> HIDE DEF more
<1>8. IsPasses(more, t, n)
  BY <1>6, <1>7 DEF IsPasses
<1> QED BY <1>2, <1>8

LEMMA PassesAre ==
    ASSUME NEW t, NEW n \in Nat
    PROVE  \E pass : IsPasses(pass, t, n) /\ Passes(t, n) = pass[n].ns
<1> DEFINE it == CHOOSE pass : IsPasses(pass, t, n)
<1>1. IsPasses(it, t, n)
  BY PassesExist
<1>2. Passes(t, n) = it[n].ns
  BY DEF Passes, IsPasses, PassOf, FirstPass
<1> HIDE DEF it
<1> QED BY <1>1, <1>2

\* What k divisions leave of the period and of the nanoseconds.
Left(r, whole, t, k) ==
    /\ r.period \in Nat /\ r.ns \in Nat
    /\ r.period * Ten[k] <= whole /\ whole < (r.period + 1) * Ten[k]
    /\ r.ns * Ten[k] <= whole * t
    /\ r.ns = 0 \/ (r.ns + 1 + t) * Ten[k] > whole * t
    /\ whole * t < UlongWrap /\ Ten[k] <= whole * t => whole * t < (r.ns + 1) * Ten[k]

LEMMA FirstLeft ==
    ASSUME qtime.timer_period \in Nat, NEW t \in Nat
    PROVE  Left(FirstPass(t), qtime.timer_period, t, 0)
<1> DEFINE P == qtime.timer_period
<1>1. Ten[0] = 1 /\ P \in Nat /\ P * t \in Nat
  BY TenIs
<1>2. FirstPass(t).period = P /\ FirstPass(t).ns = Product(P, t)
  BY DEF FirstPass
<1>3. /\ Product(P, t) = 0 \/ Product(P, t) = P * t
      /\ P * t < UlongWrap => Product(P, t) = P * t
  BY <1>1, ProductIs
<1>4. 0 \in Nat /\ Product(P, t) \in Nat /\ Product(P, t) <= P * t
  BY <1>1, <1>3
<1> HIDE DEF P
<1>5. \A n \in Nat : n * 1 = n /\ (n + 1) * 1 = n + 1 /\ (n + 1 + t) * 1 = n + 1 + t
  OBVIOUS
<1> QED BY <1>1, <1>2, <1>3, <1>4, <1>5 DEF Left, P

LEMMA NextLeft ==
    ASSUME NEW whole \in Nat, NEW t \in Nat, NEW k \in Nat, NEW r, Left(r, whole, t, k)
    PROVE  Left(PassOf(r, t), whole, t, k + 1)
<1> DEFINE p == r.period \div 10
           n == r.ns \div 10
           T == Ten[k]
           e == whole * t
           new == IF n = 0 THEN Product(p, t) ELSE n
<1>1. r.period \in Nat /\ r.ns \in Nat /\ T \in Nat /\ T > 0 /\ e \in Nat /\ Ten[k + 1] = 10 * T
  BY TenIs, TenType DEF Left
<1>2. /\ p \in Nat /\ 10 * p <= r.period /\ r.period < 10 * p + 10
      /\ n \in Nat /\ 10 * n <= r.ns /\ r.ns < 10 * n + 10
  BY <1>1
<1>3. PassOf(r, t).period = p /\ PassOf(r, t).ns = new
  BY DEF PassOf
<1>4. /\ r.period * T <= whole /\ whole < (r.period + 1) * T /\ r.ns * T <= e
      /\ r.ns = 0 \/ (r.ns + 1 + t) * T > e
      /\ e < UlongWrap /\ T <= e => e < (r.ns + 1) * T
  BY DEF Left
<1> HIDE DEF p, n, T, e
<1>5. p * (10 * T) <= whole /\ whole < (p + 1) * (10 * T)
  <2>1. (10 * p) * T <= r.period * T /\ (10 * p) * T = p * (10 * T)
    BY <1>1, <1>2, Monotone
  <2>2. (r.period + 1) * T <= (10 * p + 10) * T
    <3>1. r.period + 1 \in Nat /\ 10 * p + 10 \in Nat /\ r.period + 1 <= 10 * p + 10
      BY <1>1, <1>2
    <3> QED BY <1>1, <3>1, Monotone
  <2>3. (10 * p + 10) * T = (p + 1) * (10 * T)
    BY <1>1, <1>2
  <2>4. /\ r.period * T \in Nat /\ (r.period + 1) * T \in Nat /\ p * (10 * T) \in Nat
        /\ (p + 1) * (10 * T) \in Nat
    BY <1>1, <1>2
  <2> QED BY <1>4, <2>1, <2>2, <2>3, <2>4
<1>6. CASE n # 0
  <2>1. new = n
    BY <1>6
  <2>2. n * (10 * T) <= e
    <3>1. (10 * n) * T <= r.ns * T /\ (10 * n) * T = n * (10 * T)
      BY <1>1, <1>2, Monotone
    <3>2. r.ns * T \in Nat /\ n * (10 * T) \in Nat
      BY <1>1, <1>2
    <3> QED BY <1>1, <1>4, <3>1, <3>2
  <2>3. (n + 1 + t) * (10 * T) > e
    <3>1. (r.ns + 1 + t) * T > e
      BY <1>2, <1>4, <1>6
    <3>2. (r.ns + 1 + t) * T <= (10 * (n + 1 + t)) * T
      <4>1. /\ r.ns + 1 + t \in Nat /\ 10 * (n + 1 + t) \in Nat
            /\ r.ns + 1 + t <= 10 * (n + 1 + t)
        BY <1>1, <1>2
      <4> QED BY <1>1, <4>1, Monotone
    <3>3. (10 * (n + 1 + t)) * T = (n + 1 + t) * (10 * T)
      BY <1>1, <1>2
    <3>4. (r.ns + 1 + t) * T \in Nat /\ (n + 1 + t) * (10 * T) \in Nat
      BY <1>1, <1>2
    <3> QED BY <1>1, <3>1, <3>2, <3>3, <3>4
  <2>4. e < UlongWrap /\ 10 * T <= e => e < (n + 1) * (10 * T)
    <3>1. (r.ns + 1) * T <= (10 * (n + 1)) * T
      <4>1. r.ns + 1 \in Nat /\ 10 * (n + 1) \in Nat /\ r.ns + 1 <= 10 * (n + 1)
        BY <1>1, <1>2
      <4> QED BY <1>1, <4>1, Monotone
    <3>2. (10 * (n + 1)) * T = (n + 1) * (10 * T)
      BY <1>1, <1>2
    <3>3. (r.ns + 1) * T \in Nat /\ (n + 1) * (10 * T) \in Nat
      BY <1>1, <1>2
    <3> QED BY <1>1, <1>4, <3>1, <3>2, <3>3
  <2> QED BY <1>1, <1>2, <1>3, <1>5, <2>1, <2>2, <2>3, <2>4 DEF Left, e
<1>7. CASE n = 0
  <2>1. new = Product(p, t)
    BY <1>7
  <2>2. /\ Product(p, t) = 0 \/ Product(p, t) = p * t
        /\ p * t < UlongWrap => Product(p, t) = p * t
    BY <1>2, ProductIs
  <2>3. p * t \in Nat /\ new \in Nat
    BY <1>2, <2>1, <2>2
  <2>4. (p * t) * (10 * T) <= e
    <3>1. (p * (10 * T)) * t <= whole * t
      <4>1. p * (10 * T) \in Nat
        BY <1>1, <1>2
      <4> QED BY <1>5, <4>1, Monotone
    <3>2. (p * (10 * T)) * t = (p * t) * (10 * T)
      BY <1>1, <1>2
    <3> QED BY <3>1, <3>2 DEF e
  <2>5. new * (10 * T) <= e
    <3>1. 0 * (10 * T) = 0
      BY <1>1
    <3> QED BY <1>1, <2>1, <2>2, <2>4, <3>1
  <2>6. (p * t + 1 + t) * (10 * T) > e
    <3>1. whole * t <= ((p + 1) * (10 * T)) * t
      <4>1. (p + 1) * (10 * T) \in Nat
        BY <1>1, <1>2
      <4> QED BY <1>5, <4>1, Monotone
    <3>2. ((p + 1) * (10 * T)) * t = (p * t + t) * (10 * T)
      <4>1. ((p + 1) * (10 * T)) * t = ((p + 1) * t) * (10 * T)
        BY <1>1, <1>2
      <4>2. (p + 1) * t = p * t + t
        BY <1>2
      <4> QED BY <4>1, <4>2
    <3>3. (p * t + 1 + t) * (10 * T) = (p * t + t) * (10 * T) + 10 * T
      BY <1>1, <2>3
    <3>4. (p * t + t) * (10 * T) \in Nat
      BY <1>1, <2>3
    <3> QED BY <1>1, <3>1, <3>2, <3>3, <3>4 DEF e
  <2>7. new = 0 \/ (new + 1 + t) * (10 * T) > e
    BY <2>1, <2>2, <2>6
  <2>8. e < UlongWrap /\ 10 * T <= e => e < (new + 1) * (10 * T)
    <3> SUFFICES ASSUME e < UlongWrap, 10 * T <= e PROVE FALSE
      OBVIOUS
    <3>1. e < (r.ns + 1) * T
      BY <1>1, <1>4
    <3>2. (r.ns + 1) * T <= 10 * T
      <4>1. r.ns + 1 \in Nat /\ r.ns + 1 <= 10 /\ 10 \in Nat
        BY <1>1, <1>2, <1>7
      <4> QED BY <1>1, <4>1, Monotone
    <3>3. (r.ns + 1) * T \in Nat
      BY <1>1
    <3> QED BY <1>1, <3>1, <3>2, <3>3
  <2> QED BY <1>1, <1>2, <1>3, <1>5, <2>3, <2>5, <2>7, <2>8 DEF Left, e
<1> QED BY <1>6, <1>7

LEMMA PassesLeft ==
    ASSUME qtime.timer_period \in Nat, NEW t \in Nat, NEW n \in Nat
    PROVE  LET P == qtime.timer_period
               ns == Passes(t, n)
           IN  /\ ns \in Nat /\ ns * Ten[n] <= P * t
               /\ ns = 0 \/ (ns + 1 + t) * Ten[n] > P * t
               /\ P * t >= Ten[n] /\ P * t < UlongWrap => ns > 0
<1> DEFINE P == qtime.timer_period
<1>1. PICK pass : IsPasses(pass, t, n) /\ Passes(t, n) = pass[n].ns
  BY PassesAre
<1>2. pass[0] = FirstPass(t) /\ \A k \in 1 .. n : pass[k] = PassOf(pass[k - 1], t)
  <2>1. \A k \in 0 .. n : pass[k] = IF k = 0 THEN FirstPass(t) ELSE PassOf(pass[k - 1], t)
    BY <1>1 DEF IsPasses
  <2> QED BY <2>1
<1> DEFINE Bad == {k \in 0 .. n : ~Left(pass[k], P, t, k)}
<1>3. Bad = {}
  <2> SUFFICES ASSUME Bad # {} PROVE FALSE
    OBVIOUS
  <2>1. Bad \subseteq Nat
    OBVIOUS
  <2>2. PICK k \in Bad : \A j \in Bad : k <= j
    BY <2>1, LeastNat
  <2>3. k \in 0 .. n /\ ~Left(pass[k], P, t, k)
    OBVIOUS
  <2>4. k # 0
    BY <1>2, <2>3, FirstLeft
  <2>5. k \in 1 .. n /\ k - 1 \in 0 .. n /\ k - 1 \notin Bad /\ k - 1 \in Nat /\ (k - 1) + 1 = k
    BY <2>2, <2>3, <2>4
  <2>6. Left(pass[k - 1], P, t, k - 1)
    BY <2>5
  <2>7. Left(PassOf(pass[k - 1], t), P, t, (k - 1) + 1)
    BY <2>5, <2>6, NextLeft
  <2> QED BY <1>2, <2>3, <2>5, <2>7
<1>4. Left(pass[n], P, t, n)
  BY <1>3
<1>5. Ten[n] \in Nat /\ Ten[n] > 0 /\ P * t \in Nat
  BY TenType
<1> DEFINE ns == Passes(t, n)
<1>6. /\ ns \in Nat /\ ns * Ten[n] <= P * t
      /\ ns = 0 \/ (ns + 1 + t) * Ten[n] > P * t
      /\ P * t < UlongWrap /\ Ten[n] <= P * t => P * t < (ns + 1) * Ten[n]
  BY <1>1, <1>4 DEF Left
<1>7. ASSUME P * t >= Ten[n], P * t < UlongWrap PROVE ns > 0
  <2> HIDE DEF ns, P
  <2>1. P * t < (ns + 1) * Ten[n]
    BY <1>5, <1>6, <1>7
  <2>2. ns = 0 => (ns + 1) * Ten[n] = Ten[n]
    BY <1>5
  <2> QED BY <1>5, <1>6, <1>7, <2>1, <2>2
<1> QED BY <1>6, <1>7

LEMMA ConversionsHold == ASSUME QtimeInv PROVE ConversionsAgree
<1> SUFFICES ASSUME argument # <<>>, Power >= 0
             PROVE  LET exact == qtime.timer_period * argument[2]
                        unit == Ten[Power]
                    IN  /\ argument[1] = "ticks" =>
                              /\ answer * unit <= exact
                              /\ answer = 0 \/ (answer + 1 + argument[2]) * unit > exact
                              /\ exact >= unit /\ exact < UlongWrap => answer > 0
                        /\ argument[1] = "ns" /\ answer # None =>
                              timer_tick2ns(1) * answer <= argument[2]
  BY DEF ConversionsAgree
<1>1. phase = "timed" /\ qtime \in Section
  BY DEF QtimeInv
<1>2. qtime.timer_period \in Nat /\ Power \in Nat
  <2>1. qtime.timer_period \in Nat /\ qtime.timer_scale \in Int
    BY <1>1 DEF Section
  <2> QED BY <2>1, QtimeAssumption DEF QtimeAssumption, Power
<1>3. \A t : timer_tick2ns(t) = Passes(t, Power)
  BY <1>2 DEF timer_tick2ns, Power
<1>4. CASE \E t \in Nat : argument = <<"ticks", t>> /\ answer = timer_tick2ns(t)
  <2>1. PICK t \in Nat : argument = <<"ticks", t>> /\ answer = Passes(t, Power)
    BY <1>3, <1>4
  <2>2. /\ answer \in Nat /\ answer * Ten[Power] <= qtime.timer_period * t
        /\ answer = 0 \/ (answer + 1 + t) * Ten[Power] > qtime.timer_period * t
        /\ qtime.timer_period * t >= Ten[Power] /\ qtime.timer_period * t < UlongWrap => answer > 0
    BY <1>2, <2>1, PassesLeft
  <2>3. argument[1] = "ticks" /\ argument[2] = t
    BY <2>1
  <2> QED BY <2>2, <2>3
<1>5. CASE \E n \in Nat : argument = <<"ns", n>> /\ answer = timer_ns2tick(n)
  <2>1. PICK n \in Nat : argument = <<"ns", n>> /\ answer = timer_ns2tick(n)
    BY <1>5
  <2>2. argument[1] = "ns" /\ argument[2] = n
    BY <2>1
  <2>3. timer_tick2ns(1) \in Nat
    BY <1>2, <1>3, PassesLeft
  <2>4. CASE timer_tick2ns(1) = 0
    BY <2>1, <2>2, <2>4 DEF timer_ns2tick
  <2>5. CASE timer_tick2ns(1) # 0
    <3>1. answer = n \div timer_tick2ns(1)
      BY <2>1, <2>5 DEF timer_ns2tick
    <3>2. timer_tick2ns(1) > 0
      BY <2>3, <2>5
    <3>3. timer_tick2ns(1) * (n \div timer_tick2ns(1)) <= n
      BY <2>3, <3>2, Divides
    <3> QED BY <2>2, <3>1, <3>3
  <2> QED BY <2>4, <2>5
<1> QED BY <1>4, <1>5 DEF QtimeInv

LEMMA QtimeInitInv == QtimeInit => QtimeInv
<1> SUFFICES ASSUME QtimeInit PROVE QtimeInv
  OBVIOUS
<1>1. UINT_MAX \in Nat /\ Freqs \subseteq 1 .. UINT_MAX
  BY QtimeAssumption DEF QtimeAssumption
<1>2. option \in 0 .. UINT_MAX /\ cntfrq \in 0 .. UINT_MAX
  BY <1>1 DEF QtimeInit
<1> QED BY <1>2 DEF QtimeInit, QtimeInv

LEMMA QtimeSetUp == ASSUME QtimeInv, init_qtime PROVE QtimeInv'
<1> DEFINE hz == IF option = 0 THEN cntfrq ELSE option
<1>1. /\ phase = "init" /\ qtime.epoch = None /\ argument = <<>> /\ argument' = <<>>
      /\ option' = option /\ cntfrq' = cntfrq /\ clock' = clock
      /\ option \in 0 .. UINT_MAX /\ cntfrq \in 0 .. UINT_MAX /\ clock \in Clocks
  BY DEF init_qtime, init_qtime_v8gt, QtimeInv, look
<1>2. CASE hz = 0
  <2>1. phase' = "crash"
    BY <1>2 DEF init_qtime, init_qtime_v8gt
  <2> QED BY <1>1, <2>1 DEF QtimeInv
<1>3. CASE hz # 0
  <2>1. /\ phase' = "divide" /\ freq' = Shortened(hz).freq /\ scale' = Shortened(hz).scale
        /\ quot' = 1 /\ period' = 0
        /\ qtime' = [alloc_qtime EXCEPT !.intr = IF host THEN 28 ELSE 27, !.cycles_per_sec = hz]
    BY <1>3 DEF init_qtime, init_qtime_v8gt
  <2>2. hz \in 1 .. UINT_MAX
    BY <1>1, <1>3, UintIs
  <2>3. alloc_qtime = [epoch |-> 1970, boot_time |-> IF suppressed THEN 0 ELSE clock,
                       intr |-> 0, cycles_per_sec |-> 0, timer_period |-> 0, timer_scale |-> 0]
    BY <1>1 DEF alloc_qtime
  <2>4. (IF suppressed THEN 0 ELSE clock) \in Clocks \union {0}
    BY <1>1
  <2>5. qtime' \in Section /\ qtime'.cycles_per_sec = hz
    <3> DEFINE Fresh == [epoch : Int, boot_time : Clocks \union {0}, intr : Int,
                         cycles_per_sec : Nat, timer_period : Nat, timer_scale : Int]
    <3>1. alloc_qtime \in Fresh
      <4>1. CASE suppressed
        BY <2>3, <4>1
      <4>2. CASE ~suppressed
        BY <1>1, <2>3, <4>2
      <4> QED BY <4>1, <4>2
    <3>2. \A r \in Fresh : \A i \in Int : \A n \in 1 .. UINT_MAX :
             LET s == [r EXCEPT !.intr = i, !.cycles_per_sec = n]
             IN  s \in Section /\ s.cycles_per_sec = n
      BY DEF Section
    <3> HIDE DEF hz, Fresh
    <3>3. PICK i \in Int : i = IF host THEN 28 ELSE 27
      OBVIOUS
    <3>4. qtime' = [alloc_qtime EXCEPT !.intr = i, !.cycles_per_sec = hz]
      BY <2>1, <3>3, Zenon
    <3>5. PICK n \in 1 .. UINT_MAX : n = hz
      BY <2>2
    <3>6. PICK r \in Fresh : r = alloc_qtime
      BY <3>1
    <3>7. qtime' = [r EXCEPT !.intr = i, !.cycles_per_sec = n]
      BY <3>4, <3>5, <3>6, Zenon
    <3>8. LET s == [r EXCEPT !.intr = i, !.cycles_per_sec = n]
          IN  s \in Section /\ s.cycles_per_sec = n
      BY <3>2
    <3> QED BY <3>5, <3>7, <3>8, Zenon
  <2> HIDE DEF hz
  <2>6. Hz' = hz
    BY <2>5 DEF Hz
  <2>7. /\ Shortened(hz).freq \in Nat /\ Shortened(hz).freq > 0 /\ Shortened(hz).scale \in Int
    BY <2>2, ShortenedIs, UintIs
  <2>8. Dividing'
    <3>1. Ten[Shortened(hz).scale - Shortened(hz).scale] = 1
      BY <2>7, TenIs
    <3>2. 0 * (10 * Shortened(hz).freq) + 1 = 1 /\ 1 < 10 * Shortened(hz).freq
      BY <2>7
    <3>3. Shortened(Hz)' = Shortened(hz)
      BY <2>6 DEF Shortened
    <3> QED BY <2>1, <2>7, <3>1, <3>2, <3>3, UintIs DEF Dividing
  <2> QED BY <1>1, <2>1, <2>5, <2>8 DEF QtimeInv
<1> QED BY <1>2, <1>3

LEMMA QtimeDivide == ASSUME QtimeInv, invert_timer_freq PROVE QtimeInv'
<1> DEFINE sh == Shortened(Hz)
           digits == (period * 10 + quot \div freq) % (UINT_MAX + 1)
           rem == quot % freq
           j == sh.scale - scale
<1>1. /\ phase = "divide" /\ argument = <<>> /\ argument' = <<>> /\ freq' = freq
      /\ option' = option /\ cntfrq' = cntfrq /\ clock' = clock /\ period' = digits
  BY DEF invert_timer_freq, QtimeInv, look
<1>2. qtime \in Section /\ Dividing /\ option \in 0 .. UINT_MAX /\ cntfrq \in 0 .. UINT_MAX
      /\ clock \in Clocks
  BY <1>1 DEF QtimeInv
<1>3. PICK h \in 1 .. UINT_MAX : h = Hz
  BY <1>2 DEF Hz, Section
<1>4. /\ sh.freq \in Nat /\ sh.freq > 0 /\ sh.freq <= UINT_MAX \div 10
      /\ h <= UINT_MAX \div 10 => sh.freq = h /\ sh.scale = 0
      /\ h > UINT_MAX \div 10 =>
            sh.scale = -1 /\ sh.freq = h \div 10 /\ 10 * sh.freq <= h /\ h < 10 * sh.freq + 10
  BY <1>3, ShortenedIs
<1>5. /\ freq = sh.freq /\ scale \in Int /\ scale <= sh.scale
      /\ period \in Nat /\ period < Most /\ quot \in Nat /\ 0 < quot /\ quot < 10 * freq
      /\ period * (10 * freq) + quot = Ten[j]
  BY <1>2 DEF Dividing
<1>6. sh.scale \in {0, -1} /\ j \in Nat /\ (sh.scale = 0 <=> h <= UINT_MAX \div 10)
  <2>1. sh.scale \in {0, -1} /\ (sh.scale = 0 <=> h <= UINT_MAX \div 10)
    BY <1>4, UintIs
  <2> QED BY <1>5, <2>1
<1>7. /\ digits \in Nat /\ digits <= UINT_MAX /\ rem \in Nat /\ rem < freq
      /\ digits * freq + rem = Ten[j]
      /\ (rem * 10) % (UINT_MAX + 1) = rem * 10
      /\ digits * (10 * freq) + rem * 10 = 10 * (digits * freq + rem)
  <2>1. freq \in Nat /\ freq > 0 /\ freq <= UINT_MAX \div 10
    BY <1>4, <1>5
  <2>2. period \in Nat /\ quot \in Nat /\ period < Most /\ 0 < quot /\ quot < 10 * freq
    BY <1>5
  <2>3. /\ digits \in Nat /\ digits <= UINT_MAX /\ rem \in Nat /\ rem < freq
        /\ digits * freq + rem = period * (10 * freq) + quot
        /\ (rem * 10) % (UINT_MAX + 1) = rem * 10
        /\ digits * (10 * freq) + rem * 10 = 10 * (digits * freq + rem)
    <3>1. PICK f \in Nat : f = freq
      BY <2>1
    <3>2. PICK p \in Nat : p = period
      BY <2>2
    <3>3. PICK q \in Nat : q = quot
      BY <2>2
    <3>4. f > 0 /\ p < Most /\ 0 < q /\ q < 10 * f /\ f <= UINT_MAX \div 10
      BY <2>1, <2>2, <3>1, <3>2, <3>3
    <3>5. Balanced(p, q, f)
      BY <3>4, DigitIs
    <3>6. Balanced(period, quot, freq)
      BY <3>1, <3>2, <3>3, <3>5, Zenon
    <3> QED BY <3>6, Zenon DEF Balanced
  <2> HIDE DEF digits, rem, j
  <2> QED BY <1>5, <2>3
<1>8. Ten[j] \in Nat /\ Ten[j + 1] = 10 * Ten[j]
  BY <1>6, TenIs, TenType
<1> HIDE DEF sh
<1>9. CASE digits >= Most \/ rem = 0
  <2>1. /\ phase' = "timed" /\ scale' = scale
        /\ qtime' = [qtime EXCEPT !.timer_period = digits, !.timer_scale = scale]
    BY <1>9 DEF invert_timer_freq, Most
  <2> HIDE DEF digits, rem, j
  <2>2. /\ qtime' \in Section /\ qtime'.cycles_per_sec = h /\ qtime'.timer_period = digits
        /\ qtime'.timer_scale = scale
    BY <1>2, <1>3, <1>5, <1>7, <2>1 DEF Section, Hz
  <2>3. PICK shift \in {0, 1} : shift = 0 - sh.scale /\ j + shift = -scale
    BY <1>5, <1>6 DEF j
  <2>4. /\ shift = 0 => freq = h /\ h <= UINT_MAX \div 10
        /\ shift = 1 => h > UINT_MAX \div 10 /\ freq = h \div 10 /\ 10 * freq <= h /\ h < 10 * freq + 10
    BY <1>4, <1>5, <1>6, <2>3, UintIs
  <2>5. LET one == Ten[j + shift] IN
           /\ digits \in 1 .. UINT_MAX
           /\ (digits + 1) * h > one
           /\ digits * h <= one + (IF h > UINT_MAX \div 10 THEN 9 * digits ELSE 0)
           /\ digits >= UINT_MAX \div 10 - 10
              \/ digits * (IF h > UINT_MAX \div 10 THEN 10 * (h \div 10) ELSE h) = one
    <3>1. freq \in Nat /\ freq > 0
      BY <1>4, <1>5
    <3> QED BY <1>6, <1>7, <1>9, <2>4, <3>1, PeriodIs
  <2>6. PeriodIsExact'
    BY <2>2, <2>3, <2>5 DEF PeriodIsExact, Hz
  <2> QED BY <1>1, <1>2, <2>1, <2>2, <2>6 DEF QtimeInv
<1>10. CASE ~(digits >= Most \/ rem = 0)
  <2>1. /\ phase' = phase /\ qtime' = qtime /\ scale' = scale - 1
        /\ quot' = (rem * 10) % (UINT_MAX + 1)
    BY <1>10 DEF invert_timer_freq, Most
  <2> HIDE DEF digits, rem
  <2>2. digits < Most /\ rem > 0 /\ quot' = rem * 10
    BY <1>7, <1>10, <2>1, UintIs
  <2>3. /\ quot' \in Nat /\ 0 < quot' /\ quot' < 10 * freq
    BY <1>4, <1>5, <1>7, <2>2
  <2>4. digits * (10 * freq) + quot' = Ten[j + 1]
    BY <1>7, <1>8, <2>2
  <2>5. sh.scale - (scale - 1) = j + 1
    BY <1>5, <1>6
  <2>6. Shortened(Hz)' = sh
    BY <2>1 DEF Hz, Shortened, sh
  <2>7. Dividing'
    <3>1. scale - 1 \in Int /\ scale - 1 <= sh.scale
      BY <1>5, <1>6
    <3> HIDE DEF j
    <3> QED BY <1>1, <1>5, <1>7, <2>1, <2>2, <2>3, <2>4, <2>5, <2>6, <3>1 DEF Dividing
  <2> QED BY <1>1, <1>2, <2>1, <2>7 DEF QtimeInv
<1> QED BY <1>9, <1>10

\* The conversions look at the section only.
LEMMA QtimeSame ==
    ASSUME qtime' = qtime
    PROVE  /\ \A t : timer_tick2ns(t)' = timer_tick2ns(t)
           /\ \A n : timer_ns2tick(n)' = timer_ns2tick(n)
<1>1. \A t : timer_tick2ns(t)' = timer_tick2ns(t)
  BY DEF timer_tick2ns, Passes, Product
<1>2. \A n : timer_ns2tick(n)' = timer_ns2tick(n)
  BY DEF timer_ns2tick, timer_tick2ns, Passes, Product
<1> QED BY <1>1, <1>2

LEMMA QtimeConvert == ASSUME QtimeInv, Convert PROVE QtimeInv'
<1>1. phase = "timed" /\ UNCHANGED <<phase, option, cntfrq, clock, qtime>>
  BY DEF Convert, look
<1>2. PeriodIsExact' = PeriodIsExact
  BY <1>1 DEF PeriodIsExact, Hz
<1>3. CASE \E t \in Ticks : argument' = <<"ticks", t>> /\ answer' = timer_tick2ns(t)
  <2>1. PICK t \in Ticks : argument' = <<"ticks", t>> /\ answer' = timer_tick2ns(t)
    BY <1>3
  <2>2. t \in Nat /\ timer_tick2ns(t)' = timer_tick2ns(t)
    BY <1>1, QtimeAssumption, QtimeSame DEF QtimeAssumption
  <2> QED BY <1>1, <1>2, <2>1, <2>2 DEF QtimeInv
<1>4. CASE \E n \in Nanos : argument' = <<"ns", n>> /\ answer' = timer_ns2tick(n)
  <2>1. PICK n \in Nanos : argument' = <<"ns", n>> /\ answer' = timer_ns2tick(n)
    BY <1>4
  <2>2. n \in Nat /\ timer_ns2tick(n)' = timer_ns2tick(n)
    BY <1>1, QtimeAssumption, QtimeSame DEF QtimeAssumption
  <2> QED BY <1>1, <1>2, <2>1, <2>2 DEF QtimeInv
<1> QED BY <1>3, <1>4 DEF Convert

LEMMA QtimeStutter == ASSUME QtimeInv, UNCHANGED qtimeVars PROVE QtimeInv'
<1>1. UNCHANGED <<phase, option, cntfrq, clock, qtime, freq, quot, period, scale, argument, answer>>
  BY DEF qtimeVars, look, loop
<1>2. PeriodIsExact' = PeriodIsExact /\ Dividing' = Dividing
  BY <1>1 DEF PeriodIsExact, Hz, Dividing, Shortened
<1>3. /\ \A t : timer_tick2ns(t)' = timer_tick2ns(t)
      /\ \A n : timer_ns2tick(n)' = timer_ns2tick(n)
  BY <1>1, QtimeSame
<1> QED BY <1>1, <1>2, <1>3 DEF QtimeInv

\* The loop of invert_timer_freq() keeps digits, remainder and power of ten in
\* balance, and a conversion is always one of the section as it stands.
\* (invert_timer_freq.c, timer_tick2ns.c)
THEOREM QtimeInvariant == QtimeSpec => []QtimeInv
<1>1. QtimeInv /\ [QtimeNext]_qtimeVars => QtimeInv'
  <2> SUFFICES ASSUME QtimeInv, [QtimeNext]_qtimeVars PROVE QtimeInv'
    OBVIOUS
  <2>1. CASE init_qtime
    BY <2>1, QtimeSetUp
  <2>2. CASE invert_timer_freq
    BY <2>2, QtimeDivide
  <2>3. CASE Convert
    BY <2>3, QtimeConvert
  <2>4. CASE UNCHANGED qtimeVars
    BY <2>4, QtimeStutter
  <2> QED BY <2>1, <2>2, <2>3, <2>4 DEF QtimeNext
<1> QED BY <1>1, QtimeInitInv, PTL DEF QtimeSpec

\* The period is 1/frequency to as many digits as fit, for every frequency
\* and width of the words, and conversions are never longer than they last,
\* short by less than one per tick, and 0 only where they overflow or there is
\* less than one. (invert_timer_freq.c, timer_tick2ns.c, timer_ns2tick.c)
THEOREM TicksDoAgree == QtimeSpec => []TicksAgree
<1>1. QtimeInv => TicksAgree
  <2> SUFFICES ASSUME QtimeInv PROVE TicksAgree
    OBVIOUS
  <2>1. PeriodIsExact
    BY DEF QtimeInv, PeriodIsExact
  <2> QED BY <2>1, ConversionsHold DEF TicksAgree
<1> QED BY <1>1, QtimeInvariant, PTL
=============================================================================
