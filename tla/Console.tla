------------------------------ MODULE Console ------------------------------
(***************************************************************************)
(* The polled console: hw_ser8250.c, hw_ser8250_32b.c, hw_serpl011.c,      *)
(* hw_serlinflex.c and qrb2210_uart.c write it during startup, and the     *)
(* kernel then uses the callouts of callout_debug_*.S, while its serial    *)
(* driver may turn the chip off and on again.                              *)
(*                                                                         *)
(* Characters are numbered: those sent from 1 in the order asked for (0 is *)
(* one the boot loader left in the chip), keys from 1 in the order they    *)
(* arrive, the null that a break leaves counting as one.                   *)
(***************************************************************************)
EXTENDS Naturals, Sequences, SequencesExt

CONSTANTS Chips,        \* the chips considered, one per behaviour
          Depth,        \* characters a transmitter holds
          Polls,        \* turns of a bounded wait
          Puts,         \* characters startup writes
          Displays,     \* characters the kernel writes
          Keys,         \* keys and breaks that arrive
          Switches,     \* times the driver turns the chip off
          Faults        \* GENI commands that get stuck

\* Startup writes a line before anything else (main.c of the board).
ConsoleAssumption ==
    /\ Chips \subseteq {"8250", "8250_32b", "pl011", "linflexd", "tegra", "geni"}
    /\ Depth \in Nat \ {0} /\ Polls \in Nat \ {0} /\ Puts \in Nat \ {0} /\ Displays \in Nat
ASSUME ConsoleAssumption

VARIABLES chip,         \* the chip of this board
          mmio,         \* its registers are at or above 64K
          stage,        \* "init", "startup" or "kernel"
          call,         \* the output routine: steps to go, turns of its wait left
          asked,        \* characters asked for
          prev,         \* how the last output routine ended
          tx, sent,     \* in the transmitter; sent, in order
          lost,         \* characters that will not be sent, and why
          powered,      \* the transmitter runs
          cmd, done,    \* GENI: its primary command; M_CMD_DONE
          rx, rxcall,   \* received; break_detect has seen its break
          arrived, keys, eaten, brk,   \* keys so far; returned; eaten by breaks; S_BREAK_IRQS
          switches, faults
output == <<call, asked, prev, tx, sent, lost, cmd, done>>
input == <<rx, rxcall, arrived, keys, eaten, brk>>
consoleVars == <<chip, mmio, stage, output, powered, input, switches, faults>>

NoCall == [todo |-> <<>>, left |-> 0]
Busy == call.todo # <<>>
Step == call.todo[1]
Like8250 == {"8250", "8250_32b", "tegra"}

-----------------------------------------------------------------------------
(* The output routines: their steps, and the turns their waits take at     *)
(* most; 0 for a wait with no bound.                                       *)

WaitThenWrite(bound) == [todo |-> <<"wait", "write">>, left |-> bound]

put_8250 == WaitThenWrite(0)
put_8250_32b == WaitThenWrite(0)
put_pl011 == WaitThenWrite(0)
put_linflexd == WaitThenWrite(0)
put_tegra == WaitThenWrite(0)       \* an 8250 with another callout
qrb2210_uart_put_char == [todo |-> <<"old", "start", "finish">>, left |-> Polls]
Put == CASE chip = "8250" -> put_8250
         [] chip = "8250_32b" -> put_8250_32b
         [] chip = "pl011" -> put_pl011
         [] chip = "linflexd" -> put_linflexd
         [] chip = "tegra" -> put_tegra
         [] chip = "geni" -> qrb2210_uart_put_char

display_char_8250Forever == WaitThenWrite(0)
display_char_8250 == WaitThenWrite(Polls)
display_char_8250_32b == WaitThenWrite(Polls)
display_char_pl011 == WaitThenWrite(0)
display_char_linflexdHasty == [todo |-> <<"write">>, left |-> 0]
display_char_linflexd == [todo |-> <<"write", "wait">>, left |-> Polls]
display_char_tegra == WaitThenWrite(0)
qrb2210_uart_display_char == [todo |-> <<"start", "finish">>, left |-> 0]
Display == CASE chip = "8250" -> display_char_8250
             [] chip = "8250_32b" -> display_char_8250_32b
             [] chip = "pl011" -> display_char_pl011
             [] chip = "linflexd" -> display_char_linflexd
             [] chip = "tegra" -> display_char_tegra
             [] chip = "geni" -> qrb2210_uart_display_char
\* Every wait of the routine in progress gives up in the end.
Bounded == chip \in IF stage = "kernel" THEN {"8250", "8250_32b", "linflexd"} ELSE {"geni"}

-----------------------------------------------------------------------------
(* The chip.                                                               *)

\* LSR's TXRDY; PL011_FR_TXFF and LINFLEXD_UARTSR_DTFTFF clear.
Ready == IF chip \in Like8250 THEN powered /\ tx = <<>> ELSE Len(tx) < Depth

\* A read of an 8250's LSR takes the break indication with it.
LsrRead(q) == IF q = <<>> \/ chip \notin Like8250 THEN q
              ELSE [q EXCEPT ![1].brk = FALSE]

Send == /\ powered /\ tx # <<>> /\ cmd # "stuck"
        /\ sent' = Append(sent, tx[1]) /\ tx' = Tail(tx)
        /\ IF chip = "geni" THEN cmd' = "idle" /\ done' = TRUE ELSE UNCHANGED <<cmd, done>>
        /\ UNCHANGED <<chip, mmio, stage, call, asked, prev, lost, powered, input, switches, faults>>

GetStuck == /\ cmd = "active" /\ faults < Faults
            /\ cmd' = "stuck" /\ faults' = faults + 1
            /\ UNCHANGED <<chip, mmio, stage, call, asked, prev, tx, sent, lost, done, powered, input,
                           switches>>

\* A key, or a break; the GENI packs keys that come close together in one
\* word, and reports a break apart from them.
Arrive ==
    /\ stage = "kernel" /\ arrived < Keys
    /\ arrived' = arrived + 1
    /\ \/ \E packed \in IF chip = "geni" /\ rx # <<>> THEN BOOLEAN ELSE {FALSE} :
            /\ rx' = Append(rx, [key |-> arrived + 1, null |-> FALSE, brk |-> FALSE,
                                 packed |-> packed])
            /\ UNCHANGED brk
       \/ chip # "geni" /\ UNCHANGED brk
          /\ rx' = Append(rx, [key |-> arrived + 1, null |-> TRUE, brk |-> TRUE, packed |-> FALSE])
       \/ chip = "geni" /\ brk' = TRUE /\ UNCHANGED rx
    /\ UNCHANGED <<chip, mmio, stage, output, powered, rxcall, keys, eaten, switches, faults>>

\* External: the serial driver of the running system.
DriverSwitch ==
    /\ stage = "kernel" /\ (powered => switches < Switches)
    /\ powered' = ~powered /\ switches' = switches + (IF powered THEN 1 ELSE 0)
    /\ UNCHANGED <<chip, mmio, stage, output, input, faults>>

-----------------------------------------------------------------------------
(* Startup's init routine.                                                 *)

\* A field of the "base.baud.clk" line, given or not.
Field(given, before) == IF given = "" THEN before ELSE given
parse_line_8250(line1, init) == Field(init, Field(line1, "zero"))
parse_line_8250_32b(line1, init) == Field(init, Field(line1, "zero"))
parse_line_pl011(line1, init) == Field(init, Field(line1, "rate"))
parse_line_linflexd(line1, init) == Field(init, Field(line1, "zero"))
parse_line_geni(line1, init) == Field(init, Field(line1, "rate"))
Baud(defaults, init) == CASE chip \in {"8250", "tegra"} -> parse_line_8250(defaults, init)
                          [] chip = "8250_32b" -> parse_line_8250_32b(defaults, init)
                          [] chip = "pl011" -> parse_line_pl011(defaults, init)
                          [] chip = "linflexd" -> parse_line_linflexd(defaults, init)
                          [] chip = "geni" -> parse_line_geni(defaults, init)

Garble(why) == lost' = lost \union {<<c, why>> : c \in ToSet(tx)} /\ tx' = <<>>
LeaveAlone == UNCHANGED <<tx, lost, cmd>>

\* Behind 64K the chip stays as it was; else the divisor is set once the
\* transmitter is empty.
init_8250_common(baud) == IF mmio \/ baud = "zero" THEN LeaveAlone
                          ELSE tx = <<>> /\ Garble("divisor") /\ UNCHANGED cmd
init_8250_32b_common(baud) == IF mmio \/ baud = "zero" THEN LeaveAlone
                              ELSE tx = <<>> /\ Garble("divisor") /\ UNCHANGED cmd
init_pl011Busy(baud) == IF baud = "zero" THEN LeaveAlone
                        ELSE Garble("divisor") /\ UNCHANGED cmd
init_pl011(baud) == IF baud = "zero" THEN LeaveAlone
                    ELSE tx = <<>> /\ Garble("divisor") /\ UNCHANGED cmd
init_linflexd(baud) == LeaveAlone
\* Another protocol's engine is left alone; a command of the boot loader is
\* cancelled, or aborted when it does not answer.
qrb2210_init_uart(baud) ==
    /\ baud # "zero"
    /\ \/ LeaveAlone                      \* no command runs, or the protocol is not UART
       \/ \E why \in {"cancelled", "aborted"} :
            cmd # "idle" /\ Garble(why) /\ cmd' = "idle"
InitChip(baud) == CASE chip \in {"8250", "tegra"} -> init_8250_common(baud)
                    [] chip = "8250_32b" -> init_8250_32b_common(baud)
                    [] chip = "pl011" -> init_pl011(baud)
                    [] chip = "linflexd" -> init_linflexd(baud)
                    [] chip = "geni" -> qrb2210_init_uart(baud)

InitConsole == /\ stage = "init"
               /\ \E defaults, init \in {"", "zero", "rate"} : InitChip(Baud(defaults, init))
               /\ stage' = "startup"
               /\ UNCHANGED <<chip, mmio, call, asked, prev, sent, done, powered, input, switches, faults>>

\* patch_debug: the callouts get the chip's address in the kernel's map.
StartKernel == /\ stage = "startup" /\ ~Busy /\ asked = Puts /\ stage' = "kernel"
               /\ UNCHANGED <<chip, mmio, output, powered, input, switches, faults>>

-----------------------------------------------------------------------------
(* One character is written.                                               *)

Write1 == /\ stage # "init" /\ ~Busy
          /\ asked < IF stage = "startup" THEN Puts ELSE Puts + Displays
          /\ call' = (IF stage = "startup" THEN Put ELSE Display) /\ asked' = asked + 1
          /\ UNCHANGED <<chip, mmio, stage, prev, tx, sent, lost, cmd, done, powered, input, switches, faults>>

Goes(how) == call' = [call EXCEPT !.todo = Tail(@)]
             /\ prev' = (IF Len(call.todo) = 1 THEN how ELSE prev)
Stops(how) == call' = NoCall /\ prev' = how

\* A turn of the wait for the transmitter; the last turn of a bounded one
\* is spent before the chip is looked at.
Wait ==
    /\ Busy /\ Step = "wait"
    /\ IF call.left = 1
       THEN /\ Stops("timeout") /\ UNCHANGED rx
            /\ lost' = IF Len(call.todo) = 2 THEN lost \union {<<asked, "timeout">>} ELSE lost
       ELSE /\ rx' = LsrRead(rx) /\ UNCHANGED lost
            /\ \/ Ready /\ Goes("waited")
               \/ ~Ready /\ call' = [call EXCEPT !.left = IF @ = 0 THEN 0 ELSE @ - 1]
                  /\ UNCHANGED prev
    /\ UNCHANGED <<chip, mmio, stage, asked, tx, sent, cmd, done, powered, rxcall, arrived, keys,
                   eaten, brk, switches, faults>>

\* A full transmitter loses the character, one that is off may.
WriteData ==
    /\ Busy /\ Step = "write"
    /\ Goes(IF stage = "startup" THEN "put" ELSE "waited")
    /\ \/ Len(tx) < Depth /\ tx' = Append(tx, asked) /\ UNCHANGED lost
       \/ Len(tx) = Depth /\ lost' = lost \union {<<asked, prev>>} /\ UNCHANGED tx
       \/ ~powered /\ chip \in Like8250 /\ lost' = lost \union {<<asked, "off">>} /\ UNCHANGED tx
    /\ UNCHANGED <<chip, mmio, stage, asked, sent, cmd, done, powered, input, switches, faults>>

Abort == cmd' = "idle" /\ Garble("aborted")
Waited == call' = [call EXCEPT !.left = @ - 1] /\ UNCHANGED <<prev, tx, lost, cmd>>

\* GENI put: a command still running is waited for, then aborted.
ClearOldOmitted ==
    /\ Busy /\ Step = "old" /\ Goes("put")
    /\ UNCHANGED <<chip, mmio, stage, asked, tx, sent, lost, cmd, done, powered, input, switches, faults>>
ClearOld ==
    /\ Busy /\ Step = "old"
    /\ \/ cmd = "idle" /\ Goes("put") /\ UNCHANGED <<tx, lost, cmd>>
       \/ cmd # "idle" /\ ~done /\ call.left > 1 /\ Waited
       \/ cmd # "idle" /\ (done \/ call.left = 1) /\ Goes("put")
          /\ IF done THEN UNCHANGED <<tx, lost, cmd>> ELSE Abort
    /\ UNCHANGED <<chip, mmio, stage, asked, sent, done, powered, input, switches, faults>>

\* The done bit is cleared, the command starts and its byte is written.
StartCommand ==
    /\ Busy /\ Step = "start" /\ Goes("put")
    /\ lost' = lost \union {<<c, "overrun">> : c \in ToSet(tx)}
    /\ tx' = <<asked>> /\ cmd' = "active" /\ done' = FALSE
    /\ UNCHANGED <<chip, mmio, stage, asked, sent, powered, input, switches, faults>>

\* put_char aborts a command that does not end; the callout waits on.
FinishUnaborted ==
    /\ Busy /\ Step = "finish"
    /\ \/ done /\ Goes("done") /\ done' = FALSE /\ UNCHANGED <<tx, lost, cmd>>
       \/ ~done /\ call.left > 1 /\ Waited /\ UNCHANGED done
       \/ ~done /\ call.left = 1 /\ Goes("timeout") /\ UNCHANGED <<tx, lost, cmd, done>>
    /\ UNCHANGED <<chip, mmio, stage, asked, sent, powered, input, switches, faults>>
Finish ==
    /\ Busy /\ Step = "finish"
    /\ \/ done /\ Goes("done") /\ done' = FALSE /\ UNCHANGED <<tx, lost, cmd>>
       \/ ~done /\ call.left > 1 /\ Waited /\ UNCHANGED done
       \/ ~done /\ call.left = 1 /\ Goes("timeout") /\ Abort /\ done' = FALSE
    /\ UNCHANGED <<chip, mmio, stage, asked, sent, powered, input, switches, faults>>

-----------------------------------------------------------------------------
(* The kernel's input callouts, one at a time.                             *)

\* One read takes one word off the receiver.
Popped(q) == LET one == CHOOSE i \in 1 .. Len(q) :
                            /\ \A j \in 2 .. i : q[j].packed
                            /\ i < Len(q) => ~q[i + 1].packed
             IN  SubSeq(q, one + 1, Len(q))
TakesKey == keys' = Append(keys, rx[1].key) /\ rx' = Popped(rx)
Idle == rxcall = "none" /\ stage = "kernel"

poll_key_8250 == TakesKey
poll_key_8250_32b == TakesKey
poll_key_pl011 == TakesKey
poll_key_linflexd == TakesKey
poll_key_tegra == TakesKey
qrb2210_uart_poll_key == TakesKey
PollKey ==
    /\ Idle /\ rx # <<>>
    /\ CASE chip = "8250" -> poll_key_8250
         [] chip = "8250_32b" -> poll_key_8250_32b
         [] chip = "pl011" -> poll_key_pl011
         [] chip = "linflexd" -> poll_key_linflexd
         [] chip = "tegra" -> poll_key_tegra
         [] chip = "geni" -> qrb2210_uart_poll_key
    /\ UNCHANGED <<chip, mmio, stage, output, powered, rxcall, arrived, eaten, brk, switches, faults>>

\* 1 when a break is seen; its null is read off next.
break_detect_8250Any == IF rx # <<>> THEN "eat" ELSE "none"
break_detect_8250 == IF rx # <<>> /\ rx[1].brk THEN "eat" ELSE "none"
break_detect_8250_32b == IF rx # <<>> /\ rx[1].brk THEN "eat" ELSE "none"
break_detect_pl011 == "none"
break_detect_linflexd == "none"
break_detect_tegra == "none"
qrb2210_uart_break_detect == brk' = FALSE /\ UNCHANGED <<rx, rxcall>>
BreakDetect ==
    /\ Idle
    /\ IF chip = "geni" THEN qrb2210_uart_break_detect
       ELSE /\ rxcall' = CASE chip = "8250" -> break_detect_8250
                           [] chip = "8250_32b" -> break_detect_8250_32b
                           [] chip = "pl011" -> break_detect_pl011
                           [] chip = "linflexd" -> break_detect_linflexd
                           [] chip = "tegra" -> break_detect_tegra
            /\ rx' = LsrRead(rx) /\ UNCHANGED brk
    /\ UNCHANGED <<chip, mmio, stage, output, powered, arrived, keys, eaten, switches, faults>>
EatNull ==
    /\ rxcall = "eat" /\ rxcall' = "none"
    /\ eaten' = Append(eaten, rx[1]) /\ rx' = Tail(rx)
    /\ UNCHANGED <<chip, mmio, stage, output, powered, arrived, keys, brk, switches, faults>>

-----------------------------------------------------------------------------
ConsoleInit ==
    /\ chip \in Chips /\ mmio \in BOOLEAN /\ stage = "init"
    /\ call = NoCall /\ asked = 0 /\ prev = "waited"
    /\ tx \in {<<>>, <<0>>} /\ sent = <<>> /\ lost = {} /\ powered = TRUE
    /\ cmd = (IF chip = "geni" /\ tx # <<>> THEN "active" ELSE "idle") /\ done = FALSE
    /\ rx = <<>> /\ rxcall = "none" /\ arrived = 0 /\ keys = <<>> /\ eaten = <<>> /\ brk = FALSE
    /\ switches = 0 /\ faults = 0

Routine == Wait \/ WriteData \/ ClearOld \/ StartCommand \/ Finish
ConsoleNext ==
    \/ Send \/ GetStuck \/ Arrive \/ DriverSwitch
    \/ InitConsole \/ StartKernel \/ Write1 \/ Routine
    \/ PollKey \/ BreakDetect \/ EatNull

\* The processor in the routine goes on, and a transmitter that is on and
\* not stuck sends; nobody owes the chip to be turned on again.
ConsoleSpec == ConsoleInit /\ [][ConsoleNext]_consoleVars /\ WF_consoleVars(Routine) /\ WF_consoleVars(Send)

-----------------------------------------------------------------------------
(* Properties.                                                             *)

\* Reasons a character may go missing for on each chip.
Excuses ==
    CASE chip \in {"8250", "8250_32b"} -> {"timeout", "off"}
      [] chip = "tegra" -> {"off"}
      [] chip = "pl011" -> {}
      [] chip = "linflexd" -> {"timeout", "put"}
      [] chip = "geni" -> {"cancelled", "aborted"}

\* What was asked for comes out once and in order; a character is missing
\* only where its wait, or the wait before it, ran out, a stuck command was
\* aborted, or the driver had the chip off - and on a LINFlexD, whose
\* callout writes before it looks, after startup left the transmitter full.
OutputInOrder ==
    LET Sent == sent \o tx IN
    /\ \A i, j \in 1 .. Len(Sent) : i < j => Sent[i] < Sent[j]
    /\ \A l \in lost : l[2] \in Excuses /\ l[1] \notin ToSet(Sent)
    /\ ~Busy => 1 .. asked \subseteq ToSet(Sent) \union {l[1] : l \in lost}

\* Keys are returned in the order they came, none twice; none is skipped but
\* by the GENI's routine, which takes one key of a packed word; and
\* break_detect eats the null of a break and never a key.
KeysKept ==
    /\ \A i, j \in 1 .. Len(keys) : i < j => keys[i] < keys[j]
    /\ \A e \in ToSet(eaten) : e.null
    /\ chip # "geni" => 1 .. arrived \subseteq
            ToSet(keys) \union {item.key : item \in ToSet(rx) \union ToSet(eaten)}

\* What is written comes out once and in order, a character missing only where
\* a wait ran out or the chip was off; keys are returned in their order, none
\* twice, and break_detect never eats one (callout_debug_*.S, hw_ser*.c).
ConsoleKept == OutputInOrder /\ KeysKept

\* A routine with a bound on its waits returns whatever the chip does; the
\* others do unless the chip stays off or its command is stuck.
RoutineReturns == []<>(~Busy \/ (~Bounded /\ (~powered \/ cmd = "stuck")))
=============================================================================
