------------------------------- MODULE Options -------------------------------
(***************************************************************************)
(* The argument and environment strings mkifs hid in each bootstrap        *)
(* program (bootstrap_cmdline.c), the command line a board may append to   *)
(* them (fdt_tweak_cmdline.c, efi_tweak_cmdline.c), the argv the startup   *)
(* program makes of its own (_main.c), getopt() over it, and what the      *)
(* options do (common_options.c, cpu_common_options.c, -W of the board).   *)
(*                                                                         *)
(* A word is a sequence of lexemes: a letter, a number, a name or a sign.  *)
(* The settings are one record; a number is a lexeme with a value.         *)
(***************************************************************************)
EXTENDS Integers, Sequences, SequencesExt, FiniteSets

CONSTANT ArgvMax     \* sizeof argv / sizeof *argv - 1

Null == <<>>     \* no word
Separator == <<"-", "-">>

-----------------------------------------------------------------------------
(* struct bootargs_entry: [argc, envc, strs], the arguments first.         *)

\* do_adjust(): delete, replace or add one of count strings from start.
Change(b, old, new, start, count) ==
    LET among == {k \in start + 1 .. start + count : b.strs[k] = old}
        k == IF old = Null THEN start + count + 1
             ELSE CHOOSE i \in among : \A j \in among : i <= j
        rest == SubSeq(b.strs, IF old = Null THEN k ELSE k + 1, Len(b.strs))
    IN  IF old # Null /\ among = {} THEN b.strs
        ELSE SubSeq(b.strs, 1, k - 1) \o (IF new = Null THEN <<>> ELSE <<new>>) \o rest

bootstrap_arg_adjustLast(b, old, new) ==
    LET strs == Change(b, old, new, b.argc, b.envc)
    IN  [b EXCEPT !.strs = strs, !.argc = @ + Len(strs) - Len(b.strs)]
bootstrap_arg_adjust(b, old, new) ==
    LET strs == Change(b, old, new, 0, b.argc)
    IN  [b EXCEPT !.strs = strs, !.argc = @ + Len(strs) - Len(b.strs)]

-----------------------------------------------------------------------------
(* The command line is left as the words still to be handed out: the       *)
(* static next_arg, kept from one program to the next.                     *)

\* The firmware names the image first, when it does not start an option.
SkipImage(words) ==
    IF words = <<>> \/ Head(Head(words)) = "-" THEN words ELSE Tail(words)

Share(words) ==
    LET cut == {k \in DOMAIN words : words[k] = Separator}
        k == CHOOSE i \in cut : \A j \in cut : i <= j
    IN  IF cut = {} THEN [now |-> words, later |-> <<>>]
        ELSE [now |-> SubSeq(words, 1, k - 1), later |-> SubSeq(words, k + 1, Len(words))]

Appended(b, words) == FoldLeft(LAMBDA c, w : bootstrap_arg_adjust(c, Null, w), b, words)

\* Both: the words up to "--" are this program's, the rest the next one's.
fdt_tweak_cmdline(b, words) ==
    [args |-> Appended(b, Share(words).now), next_arg |-> Share(words).later]
efi_tweak_cmdline(b, words, first) ==
    LET line == IF first THEN SkipImage(words) ELSE words
    IN  [args |-> Appended(b, Share(line).now), next_arg |-> Share(line).later]

\* setup_cmdline(): what does not fit is dropped, the counters are not.
Argv(b) == SubSeq(b.strs, 1, IF b.argc < ArgvMax THEN b.argc ELSE ArgvMax)

-----------------------------------------------------------------------------
(* getopt(): g is [optind, last, cp], its three statics; optind 0 restarts *)
(* the scan.  cp is a position in the word last was set for.  opts is the  *)
(* option list: its letters with a value and those without.                *)

Restart == [optind |-> 0, last |-> 0, cp |-> 0]
Done == "end"
Rest(word, cp) == SubSeq(word, cp + 1, Len(word))

getopt(g, argv, opts) ==
    LET ind == IF g.optind = 0 THEN 1 ELSE g.optind
        fresh == g.optind = 0 \/ g.last # ind
        word == argv[ind + 1]
        cp == IF fresh THEN 2 ELSE g.cp
        rest == Rest(word, cp)
        next == [optind |-> ind + 1, last |-> ind, cp |-> cp]
        Result(h, opt, arg) == [g |-> h, opt |-> opt, optarg |-> arg]
    IN  IF ind >= Len(argv) THEN Result([g EXCEPT !.optind = ind], Done, <<>>)
        ELSE IF fresh /\ (word[1] # "-" \/ Len(word) = 1)
        THEN Result([next EXCEPT !.optind = ind], Done, <<>>)
        ELSE IF word[cp] = "-" THEN Result(next, Done, <<>>)
        ELSE IF word[cp] \notin opts.valued \union opts.plain THEN Result(next, "?", <<>>)
        ELSE IF word[cp] \in opts.plain
        THEN Result(IF rest = <<>> THEN next ELSE [next EXCEPT !.optind = ind, !.cp = cp + 1],
                    word[cp], <<>>)
        ELSE IF rest # <<>> THEN Result(next, word[cp], rest)
        ELSE IF ind + 1 < Len(argv)
        THEN Result([next EXCEPT !.optind = ind + 2], word[cp], argv[ind + 2])
        ELSE Result(next, "?", <<>>)

-----------------------------------------------------------------------------
(* common_options.c, cpu_common_options.c.                                 *)

CONSTANT ValueOf     \* the value of each numeric lexeme, as strtoul() reads it

\* HYP_FLAG_*: DISABLED is no bit at all.
HypDisabled == {}
HypInvalid == {"invalid"}

\* The statics of the library when main() starts.
Defaults ==
    [flags |-> {}, debug_flag |-> 0, max_cpus |-> 99, debug_opt |-> <<Null, Null>>,
     hyp |-> HypDisabled, reserved |-> <<>>, avoided |-> <<>>, host |-> Null,
     clusters |-> {}, freqs |-> <<0, 0, 0, 0>>, rifs |-> {}, ifs2 |-> <<0, 0, 0>>,
     errata |-> {}, fdt |-> "none"]

IsNumber(arg) == arg # <<>> /\ arg[1] \in DOMAIN ValueOf
strtoul(arg) == IF IsNumber(arg) THEN ValueOf[arg[1]] ELSE 0

\* A number of bytes, of which K, M and G are 1024 times the one before.
getsize(arg) ==
    LET unit == IF Len(arg) > 1 THEN arg[2] ELSE "none"
        power == CASE unit \in {"k", "K"} -> 1 [] unit \in {"m", "M"} -> 2
                   [] unit \in {"g", "G"} -> 3 [] OTHER -> 0
    IN  strtoul(arg) * 1024 ^ power

\* The comma separated fields of an argument; strchr() finds the next.
Fields(arg) ==
    FoldLeft(LAMBDA fs, x : IF x = "," THEN Append(fs, <<>>)
                            ELSE [fs EXCEPT ![Len(fs)] = Append(@, x)],
             <<Null>>, arg)

\* getsubopt(): a name sets an option, "~name" clears it, others are ignored.
SubOptions(set, arg, names) ==
    FoldLeft(LAMBDA s, f :
                 IF f = <<>> \/ f[Len(f)] \notin names THEN s
                 ELSE IF f[1] = "~" THEN s \ {f[2]} ELSE s \union {f[1]},
             set, Fields(arg))

HypOf(arg) ==
    CASE arg = <<"enable">> -> {"enabled"}
      [] arg = <<"disable">> -> HypDisabled
      [] arg = <<"enable", ",", "el1-host">> -> {"enabled", "el1-host"}
      [] arg = <<"enable", ",", "el2-host">> -> {"enabled", "el2-host"}
      [] OTHER -> HypInvalid

cpu_handle_common_option(s, opt, arg) ==
    CASE opt = "X" -> [s EXCEPT !.flags = SubOptions(@, arg, {"cachesnooped"})]
      [] opt = "E" -> [s EXCEPT !.errata = SubOptions(@, arg, {"meltdown", "spectrev2", "ssbs"})]
      [] opt = "e" -> [s EXCEPT !.flags = SubOptions(@, arg, {"sve"})]
      [] opt = "U" -> [s EXCEPT !.flags = @ \union {"pauth"}]
      [] opt = "u" -> [s EXCEPT !.fdt = IF @ # "none" THEN @   \* processed only once
                                        ELSE IF arg = <<"arg">> THEN "arg" ELSE "reg"]
      [] opt = "Q" -> [s EXCEPT !.hyp = HypOf(arg)]

\* get_freq(): a number, with 1000 below a thousand meant as megahertz.
Frequency(field, old) ==
    LET v == strtoul(field)
        unit == IF Len(field) > 1 THEN field[2] ELSE "none"
    IN  IF ~IsNumber(field) THEN old
        ELSE IF unit \in {"k", "K"} THEN v * 1000
        ELSE IF unit \in {"h", "H"} \/ (unit \notin {"m", "M"} /\ v >= 1000) THEN v
        ELSE v * 1000000

\* -i size,RK,src,dst: 'R', 'RK', or 'K' (equivalent to 'RK').
Ifs2Flags(f) ==
    {"ifs2"}
    \union (IF Len(f) > 1 /\ f[2] # <<>> /\ f[2][1] \in {"R", "K"} THEN {"restore"} ELSE {})
    \union (IF Len(f) > 1 /\ f[2] \in {<<"K">>, <<"R", "K">>} THEN {"cksum2"} ELSE {})
    \union (IF Len(f) > 2 THEN {"src"} ELSE {})
    \union (IF Len(f) > 3 THEN {"dst"} ELSE {})

FieldOr(f, k, other) == IF k <= Len(f) THEN f[k] ELSE other

handle_common_option(s, opt, arg) ==
    LET f == Fields(arg)
    IN  CASE opt \in {"X", "E", "e", "U", "u", "Q"} -> cpu_handle_common_option(s, opt, arg)
          [] opt = "C" -> [s EXCEPT !.flags = @ \union {"secure"}]
          [] opt = "H" -> [s EXCEPT !.flags = @ \union {"hvc"}]
          [] opt = "T" -> [s EXCEPT !.flags = @ \union {"no boottime"}]
          [] opt = "v" -> [s EXCEPT !.debug_flag = @ + 1]
          [] opt = "D" -> [s EXCEPT !.debug_opt[1] = arg]
          [] opt = "K" -> [s EXCEPT !.debug_opt[2] = arg]
          [] opt = "N" -> [s EXCEPT !.host = arg]
          [] opt = "P" -> [s EXCEPT !.max_cpus = IF strtoul(arg) > 0 THEN strtoul(arg) ELSE @]
          [] opt = "R" -> [s EXCEPT !.reserved = <<[size |-> getsize(f[1]),
                                                   align |-> getsize(FieldOr(f, 2, Null)),
                                                   low |-> strtoul(FieldOr(f, 4, Null))]>> \o @]
          [] opt = "r" -> [s EXCEPT !.avoided = IF Len(f) < 2 THEN @
                                                ELSE Append(@, <<getsize(f[1]), getsize(f[2])>>)]
          [] opt = "c" -> [s EXCEPT !.clusters = @ \union
                               {<<f[k][1], strtoul(SubSeq(f[k], 3, 3))>> :
                                   k \in {i \in DOMAIN f : Len(f[i]) > 1 /\ f[i][2] = ":"}}]
          [] opt = "f" -> [s EXCEPT !.freqs = [k \in 1 .. 4 |->
                               IF k < 4 THEN Frequency(FieldOr(f, k, Null), @[k])
                               ELSE strtoul(FieldOr(f, 4, Null))]]
          [] opt = "I" -> [s EXCEPT !.rifs = @ \union {"enable"} \union
                               (IF strtoul(arg) # 0 THEN {"cksum"} ELSE {})]
          [] opt = "i" -> [s EXCEPT !.rifs = @ \union Ifs2Flags(f),
                                    !.ifs2 = [k \in 1 .. 3 |->
                                        IF k = 1 THEN strtoul(f[1])
                                        ELSE IF k + 1 <= Len(f) THEN strtoul(f[k + 1]) ELSE @[k]]]
          [] OTHER -> s     \* S, F, A, M, j, Z: handled later; ?: not an option

\* What a handler does to argv: 'c' ends every name at its colon, 'R' its
\* name at the comma, and a string read again ends there.
CutShort(word, sign, n) ==
    LET at == {k \in DOMAIN word : word[k] = sign}
    IN  IF at = {} THEN word ELSE SubSeq(word, 1, (CHOOSE k \in at : \A j \in at : k <= j) - 2)
CutAt(word, sign, n) ==
    LET at == {k \in DOMAIN word : word[k] = sign /\ Cardinality({j \in 1 .. k : word[j] = sign}) = n}
    IN  IF at = {} THEN word ELSE SubSeq(word, 1, (CHOOSE k \in at : TRUE) - 1)
Marked(argv, opt, k) ==
    CASE opt = "c" -> [argv EXCEPT ![k] = CutAt(@, ":", 1)]
      [] opt = "R" -> [argv EXCEPT ![k] = CutAt(@, ",", 3)]
      [] OTHER -> argv

\* select_one(): the device asked for, else the first with options of its own.
select_one(devices, asked, channel) ==
    LET able == {k \in DOMAIN devices : devices[k].defaults[channel] # Null}
        named == {k \in able : asked # Null /\ devices[k].name = asked[1]}
        fallback == IF asked = Null THEN able
                    ELSE {k \in able : devices[k].defaults[channel] # <<"">>}
        First(S) == CHOOSE k \in S : \A j \in S : k <= j
    IN  IF named # {} THEN First(named) ELSE IF fallback # {} THEN First(fallback) ELSE 0
=============================================================================
