-------------------------------- MODULE Grammar --------------------------------
(***************************************************************************)
(* cli.rs parse_commands: tokens into commands.  Every verb has a list of  *)
(* slots, and reading a slot looks at the tokens after the one consumed    *)
(* last.  A token is a sequence of atoms: a word, a number, or a character *)
(* that the scripts treat specially.  A command is its verb with one value *)
(* per slot.                                                               *)
(***************************************************************************)
EXTENDS Integers, Sequences, SequencesExt, TLC

CONSTANTS
    Numerals,   \* atom -> the number it says, in ten-thousandths
    Regions,    \* the words that contain a comma
    Layouts,    \* the words that are monitor layouts -> how the recorder writes each
    U32         \* one more than the largest u32

One == 10000

ASSUME NumeralAssumption ==
    \A a, b \in DOMAIN Numerals : Numerals[a] = Numerals[b] => a = b
ASSUME CutAssumption == U32 \in Nat \ {0}

Absent == <<"(none)">>
NoNumber == 0 - 1
Given == <<"(given)">>

IsNumber(t) == Len(t) = 1 /\ t[1] \in DOMAIN Numerals
IsWhole(t)  == IsNumber(t) /\ Numerals[t[1]] % One = 0
Number(t)   == Numerals[t[1]]
Numeral(n)  == <<CHOOSE a \in DOMAIN Numerals : Numerals[a] = n>>

\* Accept a tolerance as a share or as a percentage.
NormalizeTolerance(n) == IF n > One THEN n \div 100 ELSE n

-------------------------------------------------------------------------------
\* The slots.

Arg            == [kind |-> "arg"]
WholeArg       == [kind |-> "whole-arg"]
NumberArg      == [kind |-> "number-arg"]
Button         == [kind |-> "button"]
Region         == [kind |-> "region"]
Whole(default) == [kind |-> "whole", default |-> default]
\* A whole number that is cut to fewer bits, whatever is lost of it.
U8 == 256
Cut(default, width) == [kind |-> "cut", default |-> default, width |-> width]
Layout         == [kind |-> "layout"]
Real(default)  == [kind |-> "real", default |-> default]
Share          == [kind |-> "share", default |-> 9500]
Seconds(s)     == Whole(s * One)
\* Flags in any order; those of `bare` take no value but stand for a flag and its
\* value.  A flag at the end of the tokens is dropped, or, if `strict`, ends it all.
Flags(valued, bare, strict) == [kind |-> "flags", valued |-> valued, bare |-> bare, strict |-> strict]
\* One flag with its value, left alone if the value is missing.
Pair(flag) == [kind |-> "pair", flag |-> flag]

NoBare == <<>>
Needles == Flags({"--needles", "--tag"}, NoBare, FALSE)
Provisioning == Flags({"--profile"}, "--verify" :> <<"--verify", Given>>, FALSE)
Quick == "--quick" :> <<"--grid", <<"3x1">>>>

InputVerbs ==
    ("type" :> <<Arg>>) @@ ("utype" :> <<Arg>>) @@ ("key" :> <<Arg, [kind |-> "hold"]>>)
    @@ ("keydown" :> <<Arg>>) @@ ("keyup" :> <<Arg>>) @@ ("move" :> <<Arg>>)
    @@ ("click" :> <<Arg, Button>>) @@ ("doubleclick" :> <<Arg>>) @@ ("drag" :> <<Arg, Arg>>)
    @@ ("scroll" :> <<Arg, WholeArg>>) @@ ("pause" :> <<NumberArg>>)
    @@ ("type-password" :> <<Arg>>) @@ ("mouse-hide" :> <<>>)

ClipboardVerbs ==
    ("set-clipboard" :> <<Arg>>) @@ ("get-clipboard" :> <<>>)
    @@ ("audio-capture" :> <<Arg, Seconds(5)>>) @@ ("audio-assert-playing" :> <<Seconds(5)>>)
    @@ ("audio-verify" :> <<Arg, Arg, Real(8500)>>)
    @@ ("clipboard-send-file" :> <<Arg>>) @@ ("clipboard-recv-file" :> <<Arg>>)

WaitVerbs ==
    ("wait-still" :> <<Whole(500 * One), Seconds(10)>>) @@ ("wait-change" :> <<Seconds(30)>>)
    @@ ("expect" :> <<Arg, Share, Seconds(30), Needles>>)
    @@ ("waitfor" :> <<Arg, Share, Seconds(30), Needles>>)
    @@ ("expectclick" :> <<Arg, Share, Seconds(30), Needles>>)
    @@ ("repeat-key" :> <<Arg, Arg, Share, Seconds(30), Whole(300 * One), Cut(NoNumber, U32), Needles>>)
    @@ ("rexpect" :> <<Arg, Arg, Share, Seconds(30)>>)
    @@ ("measure" :> <<Arg, Share, Seconds(60), Needles, Pair("--label")>>)
    @@ ("watch" :> <<Seconds(10)>>)

ScreenVerbs ==
    ("capture" :> <<Arg, Region>>) @@ ("rcapture" :> <<Arg, Arg>>) @@ ("resize" :> <<Arg>>)
    @@ ("pixel" :> <<Arg>>) @@ ("checksum" :> <<Arg>>)
    @@ ("wait-checksum-change" :> <<Arg, Seconds(30)>>) @@ ("assert-checksum" :> <<Arg, Arg>>)
    @@ ("find-color" :> <<Arg, Region, Cut(30 * One, U8), Cut(3 * One, U32)>>)
    @@ ("wait-pixel" :> <<Arg, Arg, Cut(30 * One, U8), Seconds(30)>>)
    @@ ("assert-pixel" :> <<Arg, Arg, Cut(30 * One, U8)>>)
    @@ ("baseline update" :> <<Arg, Pair("--dir")>>) @@ ("baseline list" :> <<Pair("--dir")>>)
    @@ ("baseline check" :> <<Arg, Share, Pair("--dir")>>)
    @@ ("monitor list" :> <<>>) @@ ("monitor set" :> <<Layout>>)

ScriptVerbs ==
    ("run" :> <<Arg>>) @@ ("play" :> <<Arg, Real(One)>>) @@ ("convert" :> <<Arg, Arg>>)
    @@ ("diff" :> <<Arg, Arg, Real(NoNumber), Flags({"--output", "--mode", "--exclude"}, NoBare, FALSE)>>)
    @@ ("accept-portal" :> <<Arg, Provisioning>>) @@ ("unlock" :> <<Arg, Arg, Provisioning>>)
    @@ ("login" :> <<Arg, Arg, Provisioning>>) @@ ("boot-sequence" :> <<Arg>>)
    @@ ("exec" :> <<Arg, Arg>>) @@ ("info" :> <<>>) @@ ("perf" :> <<>>) @@ ("status" :> <<>>)
    @@ ("session" :> <<>>) @@ ("soft" :> <<>>) @@ ("retry" :> <<WholeArg>>)
    @@ ("help" :> <<[kind |-> "topic"]>>)

LongVerbs ==
    ("calibrate" :> <<Flags({"--grid", "--output", "--deploy"}, Quick, FALSE)>>)
    @@ ("timelapse" :> <<Arg, Flags({"--interval", "--count", "--duration", "--until", "--tolerance"},
                                    NoBare, TRUE)>>)

Slots == InputVerbs @@ ClipboardVerbs @@ WaitVerbs @@ ScreenVerbs @@ ScriptVerbs @@ LongVerbs

Aliases ==
    ("sleep" :> "pause") @@ ("wait" :> "pause") @@ ("screenshot" :> "capture")
    @@ ("send-file" :> "clipboard-send-file") @@ ("recv-file" :> "clipboard-recv-file")
    @@ ("repl" :> "session") @@ ("interactive" :> "session")

\* The second word of the verbs that have one.
Actions ==
    ("baseline" :> (("update" :> "baseline update") @@ ("save" :> "baseline update")
                    @@ ("list" :> "baseline list") @@ ("ls" :> "baseline list")
                    @@ ("check" :> "baseline check") @@ ("compare" :> "baseline check")))
    @@ ("monitor" :> (("list" :> "monitor list") @@ ("ls" :> "monitor list")
                      @@ ("set" :> "monitor set")))

-------------------------------------------------------------------------------
\* Reading a slot: [at: the last token consumed, value, ok].

Peek(tokens, at) == IF at < Len(tokens) THEN tokens[at + 1] ELSE Absent

Take(tokens, at) == [at |-> at + 1, value |-> tokens[at + 1], ok |-> TRUE]
Leave(at, value) == [at |-> at, value |-> value, ok |-> TRUE]
Wrong(at) == [at |-> at, value |-> Absent, ok |-> FALSE]

\* peek_number_u64 and peek_number_f32.
PeekNumber(tokens, at, fits, default) ==
    IF at < Len(tokens) /\ fits
    THEN [at |-> at + 1, value |-> Number(tokens[at + 1]), ok |-> TRUE]
    ELSE Leave(at, default)

\* require_arg, and the conversion of what it returns.
RequireArg(tokens, at) == IF at < Len(tokens) THEN Take(tokens, at) ELSE Wrong(at)
RequireNumber(tokens, at, fits) ==
    IF at < Len(tokens) /\ fits
    THEN [at |-> at + 1, value |-> Number(tokens[at + 1]), ok |-> TRUE] ELSE Wrong(at)

\* What a flag accepts; the rest of them take any word.
Modes == {<<"highlight">>, <<"side-by-side">>, <<"heatmap">>}
Accepts(flag, value) ==
    CASE flag = "--mode"  -> value \in Modes
      [] flag = "--count" -> IsWhole(value)
      [] flag \in {"--interval", "--duration", "--tolerance"} -> IsNumber(value)
      [] OTHER            -> TRUE

\* peek_needle_opts, peek_provisioning_opts and the flag loops of diff, calibrate
\* and timelapse: token after token as long as they are flags of the slot.
ReadFlags(slot, tokens, from) ==
    LET none == [f \in slot.valued \cup {b[1] : b \in Range(slot.bare)} |-> Absent]
        step(acc, k) ==
          IF k <= acc.at \/ ~acc.open THEN acc
          ELSE LET f == tokens[k]
               IN  CASE f \in {<<v>> : v \in slot.valued} /\ k < Len(tokens) ->
                          [acc EXCEPT !.at = k + 1, !.value[f[1]] = tokens[k + 1],
                                      !.ok = @ /\ Accepts(f[1], tokens[k + 1])]
                     [] f \in {<<v>> : v \in slot.valued} /\ k = Len(tokens) ->
                          [acc EXCEPT !.at = k, !.ok = @ /\ ~slot.strict]
                     [] f \in {<<b>> : b \in DOMAIN slot.bare} ->
                          [acc EXCEPT !.at = k, !.value[slot.bare[f[1]][1]] = slot.bare[f[1]][2]]
                     [] OTHER -> [acc EXCEPT !.open = FALSE]
        end == FoldLeft(step, [at |-> from, value |-> none, ok |-> TRUE, open |-> TRUE],
                        [i \in 1..Len(tokens) |-> i])
    IN  [at |-> end.at, value |-> end.value, ok |-> end.ok]

ReadSlot(slot, tokens, at) ==
    LET next == Peek(tokens, at)
    IN  CASE slot.kind = "arg"    -> RequireArg(tokens, at)
          [] slot.kind = "whole-arg"  -> RequireNumber(tokens, at, IsWhole(next))
          [] slot.kind = "number-arg" -> RequireNumber(tokens, at, IsNumber(next))
          [] slot.kind = "button" ->
               IF next \in {<<"left">>, <<"right">>, <<"middle">>} THEN Take(tokens, at)
               ELSE Leave(at, <<"left">>)
          [] slot.kind = "region" ->
               IF Len(next) = 1 /\ next[1] \in Regions THEN Take(tokens, at) ELSE Leave(at, Absent)
          [] slot.kind = "whole" -> PeekNumber(tokens, at, IsWhole(next), slot.default)
          [] slot.kind = "cut" /\ IsWhole(next) ->
               [Take(tokens, at) EXCEPT !.value = ((Number(@) \div One) % slot.width) * One]
          [] slot.kind = "cut" /\ ~IsWhole(next) -> Leave(at, slot.default)
          [] slot.kind = "layout" ->
               IF Len(next) = 1 /\ next[1] \in DOMAIN Layouts
               THEN [Take(tokens, at) EXCEPT !.value = <<Layouts[@[1]]>>] ELSE Wrong(at)
          [] slot.kind = "real"  -> PeekNumber(tokens, at, IsNumber(next), slot.default)
          [] slot.kind = "share" ->
               LET r == PeekNumber(tokens, at, IsNumber(next), slot.default)
               IN  [r EXCEPT !.value = NormalizeTolerance(@)]
          [] slot.kind = "hold" ->
               IF next # <<"--hold-ms">> THEN Leave(at, NoNumber)
               ELSE RequireNumber(tokens, at + 1, IsWhole(Peek(tokens, at + 1)))
          [] slot.kind = "pair" ->
               IF next = <<slot.flag>> /\ at + 1 < Len(tokens)
               THEN Take(tokens, at + 1) ELSE Leave(at, Absent)
          [] slot.kind = "topic" ->
               IF at < Len(tokens) THEN Take(tokens, at) ELSE Leave(at, Absent)
          [] slot.kind = "flags" -> ReadFlags(slot, tokens, at)

-------------------------------------------------------------------------------
\* One command whose verb is tokens[at].

Canonical(word) == IF word \in DOMAIN Aliases THEN Aliases[word] ELSE word

\* The verb, with its second word if it has one, and how many tokens that took.
VerbAt(tokens, at) ==
    LET word == IF Len(tokens[at]) = 1 THEN Canonical(tokens[at][1]) ELSE "(unknown)"
        next == Peek(tokens, at)
    IN  IF word \notin DOMAIN Actions THEN [verb |-> word, at |-> at]
        ELSE IF Len(next) = 1 /\ next[1] \in DOMAIN Actions[word]
        THEN [verb |-> Actions[word][next[1]], at |-> at + 1]
        ELSE [verb |-> "(unknown)", at |-> at]

\* What is checked when all slots are read.
Sensible(verb, values) ==
    CASE verb = "retry"     -> values[1] > 0
      [] verb = "timelapse" ->
           \/ \E n \in {"--count", "--duration"} : values[2][n] \notin {Absent, Numeral(0)}
           \/ values[2]["--until"] # Absent
      [] OTHER              -> TRUE

ThenSlot(acc, r) == [at |-> r.at, ok |-> r.ok, value |-> Append(acc.value, r.value)]

ReadSlots(tokens, at, slots) ==
    FoldLeft(LAMBDA acc, slot : IF acc.ok THEN ThenSlot(acc, ReadSlot(slot, tokens, acc.at)) ELSE acc,
             [at |-> at, ok |-> TRUE, value |-> <<>>], slots)

Checked(verb, read) ==
    IF read.ok /\ Sensible(verb, read.value)
    THEN [at |-> read.at, ok |-> TRUE, value |-> [verb |-> verb, args |-> read.value]]
    ELSE Wrong(read.at)

ParseVerb(tokens, v) ==
    IF v.verb \in DOMAIN Slots THEN Checked(v.verb, ReadSlots(tokens, v.at, Slots[v.verb]))
                               ELSE Wrong(v.at)

ParseOne(tokens, at) == ParseVerb(tokens, VerbAt(tokens, at))

ThenCommand(acc, one) ==
    [at |-> one.at, ok |-> one.ok,
     commands |-> IF one.ok THEN Append(acc.commands, one.value) ELSE <<>>]

\* All commands of the tokens, or that they are in error.
ParseCommands(tokens) ==
    FoldLeft(LAMBDA acc, k : IF ~acc.ok \/ k <= acc.at THEN acc
                             ELSE ThenCommand(acc, ParseOne(tokens, k)),
             [at |-> 0, ok |-> TRUE, commands |-> <<>>], [i \in 1..Len(tokens) |-> i])
===============================================================================
